CONSTANTS
    Tables = {t1}
    Fields = {f1}
    Keys = {k1}
    Vals = {v1}
    NoRow = NoRow
    BlockSize = 3
    MaxFaults = 0
    NoCopy = NoCopy
    MaxBatch = 2
    MaxTxns = 3
    MaxGap = 0
CHECK_DEADLOCK FALSE
SPECIFICATION Spec
INVARIANT CacheFresh
