CONSTANTS
    MaxJobs = 2
    w1 = w1
    w2 = w2
    r1 = r1
    r2 = r2
    k1 = k1
    h1 = h1
    h2 = h2
    Worker = {w1}
    Request = {r1, r2}
    Key = {}
    NoKey = NoKey
    Hash = {h1}
    NoHash = NoHash
    Form <- StoreForms
    MaxCrashes = 0
    MaxSlow = 0
    Setting <- Postgres
SYMMETRY StoreSymmetry
SPECIFICATION StoreSpec
INVARIANTS CompletedIsProcessed
CHECK_DEADLOCK FALSE
