CONSTANTS
    Handlers = {h1, h2}
    Writers = {w1}
    Period = 30
    DefaultLimit = 3
    Amounts = {2}
    Spans = {60}
    NoRate = NoRate
    NoUsage = NoUsage
    MaxBatch = 2
    MaxNow = 1
    Keep = 1
    MaxRequests = 4
SPECIFICATION Spec
INVARIANT WithinQuota
