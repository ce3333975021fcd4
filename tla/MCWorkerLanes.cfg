\* Two loops, two rows; any statement but the settling of a run may fail.
SPECIFICATION Spec
CONSTANTS
    me = me
    other = other
    j1 = j1
    j2 = j2
    l1 = l1
    l2 = l2
    Workers = {me, other}
    NoWorker = NoWorker
    Kinds = {}
    NoKind = NoKind
    MaxAttempts = 2
    Jobs = {j1, j2}
    NoJob = NoJob
    Lanes = {l1, l2}
    LeaseTicks = 1
    RetryTicks = 1
    BackoffTicks = 1
    Delays = {0, 2}
    Faults = {"claim", "arm"}
    MaxAsks = 1
SYMMETRY Symmetry
CHECK_DEADLOCK FALSE
INVARIANTS
    TypeOK
    NothingOverslept
PROPERTIES
    StopIsFinal
