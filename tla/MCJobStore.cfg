\* Two processes of one lane each, one of them without a handler for k2; two callers, two rows.
SPECIFICATION Spec
CONSTANTS
    w1 = w1
    w2 = w2
    k1 = k1
    k2 = k2
    j1 = j1
    j2 = j2
    r1 = r1
    r2 = r2
    Workers = {w1, w2}
    NoWorker = NoWorker
    Kinds = {k1, k2}
    NoKind = NoKind
    MaxAttempts = 2
    Jobs = {j1, j2}
    NoJob = NoJob
    Lanes = {1}
    Requests = {r1, r2}
    Asks <- MixedTerms
    Handles <- OldHandles
    Steady = {w2}
SYMMETRY Symmetry
CHECK_DEADLOCK FALSE
INVARIANTS
    TypeOK
    ExhaustedIsLeased
    NoLostWork
    StandInAsWanted
PROPERTIES
    KeepsPromise
    DisplacedCannotSettle
