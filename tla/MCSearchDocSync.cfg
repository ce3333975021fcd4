SPECIFICATION Spec
CONSTANTS
    d1 = d1
    r1 = r1
    r2 = r2
    q1 = q1
    q2 = q2
    w1 = w1
    dataset = d1
    Resources = {r1}
    Requests = {q1, q2}
    Workers = {w1}
    Nobody = Nobody
    Batch = 2
    Rejected = {}
    Ops = {"create", "edit", "run", "delete", "live", "purge", "rename", "rebuild"}
    Faults = {"index", "queue", "crash"}
    MaxCommits = 2
    MaxFaults = 1
SYMMETRY Symmetry
INVARIANTS TypeOK StaleIsMarked
PROPERTIES NeverOlder SearchableOnReturn
CHECK_DEADLOCK FALSE
