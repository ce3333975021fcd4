\* Liveness of one job through its retries: one process stays up, the other may hang, stop or die.
SPECIFICATION FairSpec
CONSTANTS
    w1 = w1
    w2 = w2
    k1 = k1
    k2 = k2
    j1 = j1
    j2 = j2
    r1 = r1
    r2 = r2
    Workers = {w1, w2}
    NoWorker = NoWorker
    Kinds = {k1}
    NoKind = NoKind
    MaxAttempts = 3
    Jobs = {j1, j2}
    NoJob = NoJob
    Lanes = {1}
    Requests = {r1}
    Asks <- OneAsk
    Handles <- AllHandle
    Steady = {w2}
CHECK_DEADLOCK FALSE
PROPERTIES
    WorkEnds
