SPECIFICATION Spec
CONSTANTS
    Requests = {r1, r2}
    Workers = {w1}
    Urls = {u1}
    Ids = {i1, i2}
    QueueSize = 1
    MaxRestarts = 2
    StoreFaults = TRUE
    FileFaults = FALSE
    NoId = NoId
    NoUrl = NoUrl
SYMMETRY Symmetry
VIEW WithoutIndex
INVARIANT ActiveJobsAreHeld
INVARIANT StoppedLeavesNoneProcessing
CHECK_DEADLOCK FALSE
