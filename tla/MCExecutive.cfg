SPECIFICATION ExecSpec
CONSTANTS
    h1 = h1
    h2 = h2
    Handlers = {h1, h2}
    Tables = {t1}
    Fields = {f1, f2}
    Keys = {k1}
    Vals = {v1}
    Writers = {w1}
    Cookies = {c0, c1}
    Token = c0
    NoRow = NoRow
    NoWriter = NoWriter
    NoCheck = NoCheck
    Checks = {c0, c1, NoCheck}
    Clean = Clean
    Free = Free
    MaxBatch = 2
    MaxRequests = 3
SYMMETRY Symmetry
INVARIANTS
    ExecTypeOK
    BodiesDisjoint
    BodiesBracketed
    CookieStaysCompared
PROPERTIES
    MutationsInOrder
CHECK_DEADLOCK FALSE
