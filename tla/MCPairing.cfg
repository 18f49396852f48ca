SPECIFICATION FairSpec
CONSTANTS
    Ids = {p1, p2, p3}
    Revokers = {r1, r2}
    MaxPending = 2
    TTL = 1
    MaxTime = 3
    SerialAdmin = TRUE
    SavesCanFail = TRUE
INVARIANTS RevokedIsRejected CollectedIsAccepted UnapprovedBounded CollectedOnce
PROPERTIES ApprovedNotDropped ApprovedIsCollected
