\* Two versions, the first of which a user may have purged, two workers, and one
\* of everything that may go wrong: one fault of any kind in a behaviour.
SPECIFICATION FairSpec
CONSTANTS
    w1 = w1
    w2 = w2
    Workers = {w1, w2}
    MaxVersion = 2
    Purgeable = {1}
    FailureLimit = 3
    MaxFaults = 1
    Faults = {"crash", "stall", "load", "answer", "rerun", "delete", "stop", "read",
              "damage", "late", "badKey", "cancel"}
\* With both versions in, nothing owed and nothing left to go wrong, it rests.
CHECK_DEADLOCK FALSE
INVARIANTS
    SnapshotsTrue
    CatalogTrue
    NothingLittered
PROPERTIES
    BacklogDrains
