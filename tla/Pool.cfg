SPECIFICATION FairSpec
CONSTANTS
    Workers = {w1, w2}
    Jobs = {j1, j2}
    QueueSize = 2
    MaxSubmits = 4
    NoJob = NoJob
INVARIANT IInv
INVARIANT StartedOnce
INVARIANT ReturnedMeansDrained
PROPERTY ImplementsDispatch
PROPERTY ShutdownEnds
PROPERTY AcceptedIsHandled
CHECK_DEADLOCK FALSE
