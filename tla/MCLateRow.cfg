SPECIFICATION CompleteSpec
CONSTANTS
    h1 = h1
    h2 = h2
    Handlers = {h1, h2}
    Tables = {t1}
    Fields = {f1}
    Keys = {k1}
    Vals = {v1}
    Writers = {w1}
    Cookies = {c0}
    Token = c0
    NoRow = NoRow
    NoWriter = NoWriter
    NoCheck = NoCheck
    Checks = {NoCheck}
    Clean = Clean
    Free = Free
    MaxBatch = 2
    MaxRequests = 3
    BlockSize = 3
    MaxFaults = 0
SYMMETRY Symmetry
PROPERTY NoRowBehindReader
CHECK_DEADLOCK FALSE
