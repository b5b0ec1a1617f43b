SPECIFICATION Spec
CONSTANTS
    p1 = p1
    l1 = l1
    l2 = l2
    AoRs = {p1}
    Plans = {l1, l2}
    AoRsOf <- MCAoRsOf
    CriticalOn = {l2}
    CriticalOff = {}
    MaxQueue = 3
    MaxAuths = 2
INVARIANTS
    TypeOK
    WelcomedIsCurrent
PROPERTIES
    RegistrationRepairs
