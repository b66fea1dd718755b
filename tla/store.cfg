CONSTANTS
    MaxJobs = 2
    w1 = w1
    w2 = w2
    r1 = r1
    r2 = r2
    k1 = k1
    h1 = h1
    h2 = h2
    Worker = {w1, w2}
    Request = {r1, r2}
    Key = {}
    NoKey = NoKey
    Hash = {h1, h2}
    NoHash = NoHash
    Form <- StoreForms
    MaxCrashes = 1
    MaxSlow = 1
    Setting <- Deployments
CONSTRAINT StoreScope
SYMMETRY StoreSymmetry
SPECIFICATION StoreSpec
INVARIANTS RegisteredOnDisk ContentKept CompletedIsLinked DeclaredHashVerified OneOriginal
PROPERTIES ImplementsQueue
CHECK_DEADLOCK FALSE
