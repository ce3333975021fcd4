SPECIFICATION FairSpec
CONSTANTS
    w1 = w1
    Runs = {w1}
    MaxKey = 4
    MaxFaults = 1
    Others = {"purge"}
    Faults = {"rundies","purgedies","joblost","storage","sweepdies"}
    Endless = {}
INVARIANTS PurgedGone NothingStranded
PROPERTIES PurgeEnds GarbageGoes
CHECK_DEADLOCK FALSE
