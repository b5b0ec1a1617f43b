SPECIFICATION Spec
CONSTANTS
    p1 = p1
    p2 = p2
    h1 = h1
    h2 = h2
    Phones = {p1, p2}
    Hints = {h1, h2}
    hint_ = h1
    MaxEvents = 2
    MaxSetvars = 2
INVARIANTS
    TypeOK
    LampFollowsDevice
    ButtonShowsLamp
PROPERTIES
    NightIsShown
