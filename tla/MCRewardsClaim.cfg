SPECIFICATION Spec
CONSTANTS
    Launchers = {1, 2}
    Hints = {2}
    Accruals = {1, 2}
    Thresholds = {1, 2}
    Fees = {1, 2, 3}
    MaxFee = 2
    InitBudget = 2
    DefaultBudget = 3
    Cadence = 2
    Jitter = 1
    CadenceFloor = 1
    ScheduleMax = 1
    OperatorFiles <- Damage
    SavesCanFail = FALSE
    ClockSteps = TRUE
    MaxTime = 4
INVARIANTS LedgerCoversChain PaidWithinBudget GateHolds DearestFirst NominalIsHonest
PROPERTIES CorruptFileKept
