CONSTANTS
    alice = alice
    Creators = {alice}
    Dev = Dev
    Requests = {r1, r2}
    Configs <- OnAndOff
    Default <- TippingOn
    MaxDay = 2
    MaxEntries = 2
    SavesCanFail = TRUE
SPECIFICATION Spec
SYMMETRY RequestSymmetry
INVARIANTS AtMostOneAutoTip DailyCapHolds SentIsRecorded
