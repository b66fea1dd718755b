CONSTANTS
    w1 = w1
    w2 = w2
    i1 = i1
    i2 = i2
    f1 = f1
    File = {f1}
    Worker = {w1, w2}
    Import = {i1, i2}
    Bonus = {1}
    Limit = 1
    MaxRetry = 2
    MaxJobs = 1
    MaxMonth = 2
    MaxFaults = 1
SPECIFICATION FairSpec
INVARIANTS QuotaHolds PaidOnce
PROPERTIES CompletedIsKept VisionJobEnds
CHECK_DEADLOCK FALSE
