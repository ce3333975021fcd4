SPECIFICATION Spec
CONSTANTS
    w1 = w1
    Runs = {w1}
    MaxKey = 4
    MaxFaults = 0
    Others = {"upload","cancel","revert","reconcile"}
    Faults = {}
    Endless = {"revertdies"}
INVARIANT ServedStored
CHECK_DEADLOCK FALSE
