CONSTANTS
    a = a
    b = b
    t1 = t1
    t2 = t2
    NoTask = NoTask
    Capsules = {a, b}
    Tasks = {t1, t2}
    Ops = {"sync"}
    Claims = {FALSE}
    Budget = 1
    MaxOps = 3
    MaxFaults = 0
SPECIFICATION Spec
SYMMETRY CacheSymmetry
CHECK_DEADLOCK FALSE
INVARIANT StrangersNotClaimed
