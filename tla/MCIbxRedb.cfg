\* Three deliveries in redb, one of which expires; a window of one.
CONSTANTS
    MaxSeq = 3
    Window = 1
    NackLimit = 2
    DeadLimit = 1
    BatchLimit = 2
    Sweepers = {w1}
    Wal = FALSE
    Mortal = {1}
    AckAbove = FALSE
    Failures = {}
    MaxCrashes = 1
SPECIFICATION Spec
INVARIANTS TypeOK NothingLost SettledTruth
PROPERTIES SettledMonotone
