CONSTANTS
    RotateSize = 2
    ChanSize = 1
    MaxEntries = 8
    MaxFailures = 0
    MaxRestarts = 1
SPECIFICATION Spec
PROPERTY NoSilentLoss
CHECK_DEADLOCK FALSE
