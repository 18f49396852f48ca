CONSTANTS
    c1 = c1
    c2 = c2
    Coins <- MCCoins
    MaxTip = 3
    MaxReorg = 1
    MaxSessions = 2
    MaxResets = 1
    MaxRefreshes = 1
    MaxForks = 1
    MaxEvents = 4
SPECIFICATION SyncSpec
SYMMETRY CoinSymmetry
INVARIANTS
    SyncTypeOK
    AuthoritativeIsWhole
    ArrivalNotLost
CHECK_DEADLOCK FALSE
