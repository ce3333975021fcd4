\* Two loops and a job that is delayed, retried, or held by a worker that dies; any statement may fail.
SPECIFICATION FairSpec
CONSTANTS
    me = me
    other = other
    j1 = j1
    j2 = j2
    l1 = l1
    l2 = l2
    Workers = {me, other}
    NoWorker = NoWorker
    Kinds = {}
    NoKind = NoKind
    MaxAttempts = 2
    Jobs = {j1}
    NoJob = NoJob
    Lanes = {l1, l2}
    LeaseTicks = 1
    RetryTicks = 1
    BackoffTicks = 1
    Delays = {0, 2}
    Faults = {"claim", "arm", "bury", "settle"}
    MaxAsks = 1
CHECK_DEADLOCK FALSE
PROPERTIES
    TakenInTheEnd
