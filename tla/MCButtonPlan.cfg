SPECIFICATION Spec
CONSTANTS
    b1 = b1
    b2 = b2
    u1 = u1
    u2 = u2
    a1 = a1
    a2 = a2
    Blank = Blank
    Buttons = {b1, b2}
    UIs = {u1, u2}
    AoRs = {a1, a2}
    CriticalWhenOn <- MCCriticalWhenOn
    CriticalWhenOff <- MCCriticalWhenOff
    AoRsOf <- MCAoRsOf
INVARIANTS
    TypeOK
    StaleLampIsPending
    SettledIsCurrent
    NoNullState
    IInv
PROPERTIES
    SentPageIsCurrent
    StaleLampIsRepaired
    ImplementsDisplay
