SPECIFICATION Spec
CONSTANTS
    c1 = c1
    c2 = c2
    None = None
    Spaces <- MCSpaces
    ParkPos <- MCParkPos
    Calls = {c1, c2}
    MaxEvents = 2
INVARIANTS
    TypeOK
    LampFollowsLot
    MenuAgreesWithLamp
PROPERTIES
    ItemLeadsToItsCall
    ParkedCallIsShown
