CONSTANTS
    MaxJobs = 3
    w1 = w1
    w2 = w2
    r1 = r1
    r2 = r2
    r3 = r3
    k1 = k1
    h1 = h1
    h2 = h2
    Worker = {w1, w2}
    Request = {r1, r2, r3}
    Key = {k1}
    NoKey = NoKey
    Hash = {h1}
    NoHash = NoHash
    Form <- QueueForms
    MaxCrashes = 1
    MaxSlow = 1
SYMMETRY QueueSymmetry
SPECIFICATION Spec
INVARIANTS TypeOK DoubleRunIsCounted ReplayAgreement
PROPERTIES TerminalIsFinal
CHECK_DEADLOCK FALSE
