CONSTANTS
    w1 = w1
    w2 = w2
    Bonds = {1}
    Wallet = {w1, w2}
    Window = 1
    Reserve = 2
    Modes = {"normal", "disabled", "deferred", "reconcile"}
    Faults = {"sign", "kill", "tear", "write", "broadcast"}
    MaxFaults = 2
    MaxSpends = 3
    MaxEpoch = 2
    MaxTime = 2
SPECIFICATION Spec
SYMMETRY WalletSymmetry
INVARIANTS AttributionSound FundingNotDoubleCommitted
PROPERTIES ImplementsRecord HeldCopyNotReclaimed
