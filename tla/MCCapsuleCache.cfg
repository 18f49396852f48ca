CONSTANTS
    a = a
    b = b
    t1 = t1
    t2 = t2
    NoTask = NoTask
    Capsules = {a, b}
    Tasks = {t1, t2}
    Ops = {"sync", "fetch", "push", "warm", "remove"}
    Claims = {TRUE, FALSE}
    Budget = 1
    MaxOps = 3
    MaxFaults = 1
SPECIFICATION Spec
SYMMETRY CacheSymmetry
CHECK_DEADLOCK FALSE
INVARIANTS TypeOK MarkerTellsTruth BoundedAtRest AdvertisedAtRest
