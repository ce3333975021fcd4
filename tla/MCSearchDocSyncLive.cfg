SPECIFICATION FairSpec
CONSTANTS
    d1 = d1
    r1 = r1
    r2 = r2
    q1 = q1
    q2 = q2
    w1 = w1
    dataset = d1
    Resources = {r1, r2}
    Requests = {q1}
    Workers = {w1}
    Nobody = Nobody
    Batch = 1
    Rejected = {r1}
    Ops = {"edit","run","live","delete","rename","rebuild"}
    Faults = {"index", "queue", "crash"}
    MaxCommits = 2
    MaxFaults = 1
PROPERTY MarksSettled
CHECK_DEADLOCK FALSE
