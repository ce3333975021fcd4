SPECIFICATION Spec
CONSTANTS
    w1 = w1
    w2 = w2
    Workers = {w1, w2}
    MaxKey = 3
    Chunks = 1
    MaxAsks = 1
    MaxFaults = 1
    Asked = {"rebuild"}
    Others = {"revert", "job"}
    Faults = {"search", "jobdies", "crash", "stall"}
SYMMETRY Symmetry
INVARIANTS NothingForgotten OnlyAskedFetches
PROPERTIES RevertUndisturbed StoppedRevertLandsNothing
CHECK_DEADLOCK FALSE
