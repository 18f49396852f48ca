CONSTANTS
    Quiet = 1
    Settling = 3
    Round = 7
    MaxDelay = 1
    MaxTime = 16
SPECIFICATION Spec
INVARIANTS AtMostTwoWakes RoundIsCeiling SettledAfterBurst
PROPERTIES WakesSpaced
CHECK_DEADLOCK FALSE
