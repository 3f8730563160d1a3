CONSTANTS
    Handlers = {h1, h2}
    Writers = {w1, w2}
    Period = 30
    DefaultLimit = 3
    Amounts = {4}
    Spans = {45}
    NoRate = NoRate
    NoUsage = NoUsage
    MaxBatch = 2
    MaxNow = 2
    Keep = 1
    MaxRequests = 4
SPECIFICATION SerialSpec
INVARIANTS WithinQuota UsageIsAdmitted
