CONSTANTS
    RotateSize = 2
    ChanSize = 1
    MaxEntries = 7
    MaxFailures = 1
    MaxRestarts = 1
SPECIFICATION FairSpec
INVARIANT TypeOK
PROPERTIES NoSilentLossByShovel IteratorCatchesUp
CHECK_DEADLOCK FALSE
