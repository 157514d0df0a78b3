\* Three deliveries in the submission log, acknowledged above the prefix too.
CONSTANTS
    MaxSeq = 3
    Window = 1
    NackLimit = 1
    DeadLimit = 1
    BatchLimit = 2
    Sweepers = {w1}
    Wal = TRUE
    Mortal = {}
    AckAbove = TRUE
    Failures = {"ack"}
    MaxCrashes = 1
SPECIFICATION FairSpec
INVARIANTS NothingLost AckSticks
PROPERTIES SettledPersists
