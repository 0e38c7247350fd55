CONSTANTS
    Browsers = {b1, b2}
    Threads = {t1, t2}
    None = None
    MaxDevices = 1
    MaxCreds = 2
    MaxRestarts = 1
    MaxLost = 1
SPECIFICATION SessionsSpec
INVARIANTS RevokedForGood PairedAtOnce KeptOrOutlived
PROPERTIES RefusedForCause
CHECK_DEADLOCK FALSE
