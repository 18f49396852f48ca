CONSTANTS
    a = a
    b = b
    c = c
    d = d
    e = e
    Nodes <- MCNodes
    Pool <- MCPool
    Entries = {a, b}
    Holders = {d}
    Forwarding = {a, b, c}
    HopCap = 2
    FanOut = 1
    Slots = 1
    MaxFaults = 1
SPECIFICATION Spec
INVARIANTS
    TypeOK
    AbsenceFromOwnSearch
    PermitsKept
PROPERTY
    AskEnds
CHECK_DEADLOCK FALSE
