CONSTANTS
    w1 = w1
    w2 = w2
    r1 = r1
    r2 = r2
    r3 = r3
    f1 = f1
    File = {f1}
    NoFile = NoFile
    Worker = {w1, w2}
    NoWorker = NoWorker
    Request = {r1, r2, r3}
    Limit = 2
    RetryCount = 2
    MaxSubs = 4
    MaxFaults = 2
SPECIFICATION Spec
INVARIANTS PlateTypeOK UploadsReserved SolutionIsOwn ResumesSavedWork RecordsFollowJob
SYMMETRY PlateSymmetry
CHECK_DEADLOCK FALSE
