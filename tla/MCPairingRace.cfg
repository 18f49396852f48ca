SPECIFICATION Spec
CONSTANTS
    Ids = {p1, p2, p3}
    Revokers = {r1, r2}
    MaxPending = 2
    TTL = 1
    MaxTime = 3
    SerialAdmin = FALSE
    SavesCanFail = TRUE
SYMMETRY PairingSymmetry
INVARIANTS RevokedIsRejected
