SPECIFICATION FairSpec
CONSTANTS
    w1 = w1
    w2 = w2
    Workers = {w1, w2}
    MaxKey = 2
    Chunks = 1
    MaxAsks = 1
    MaxFaults = 2
    Asked = {"ordinary"}
    Others = {"upload", "cancel"}
    Faults = {"crash", "fetch", "defer", "stop", "step", "stall", "queue", "bury"}
INVARIANTS TypeOK StatusHasWork IndexedRecordTrue OneStrayWrite
PROPERTIES SelfHealing UploadsProcessed StoppedLandsNothing
CHECK_DEADLOCK FALSE
