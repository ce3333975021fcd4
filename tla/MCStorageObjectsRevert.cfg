SPECIFICATION Spec
CONSTANTS
    w1 = w1
    Runs = {w1}
    MaxKey = 4
    MaxFaults = 0
    Others = {"revert","purge"}
    Faults = {}
    Endless = {"purgedies"}
INVARIANTS TypeOK VersionsStored OneOwner LiveIsNewest
CHECK_DEADLOCK FALSE
