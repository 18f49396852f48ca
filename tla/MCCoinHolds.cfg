CONSTANTS
    c1 = c1
    c2 = c2
    b1 = b1
    b2 = b2
    l1 = l1
    k1 = k1
    k2 = k2
    Free = Free
    Coins <- MCCoins
    Bundles <- MCBundles
    Inputs <- MCInputs
    Leases <- MCLeases
    Calls <- MCCalls
    TTL = 2
    CAP = 3
    LeaseMax = 2
    MaxReal = 3
    MaxWall = 3
    MaxUpsets = 1
    MaxCalls = 3
SYMMETRY CallSymmetry
SPECIFICATION Spec
INVARIANTS
    HoldBound
    NotLapsedEarly
    ClaimsHaveRows
CHECK_DEADLOCK FALSE
PROPERTY
    ImplementsLock
