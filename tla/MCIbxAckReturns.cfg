\* A delivery in the log expires below one that is acknowledged.
CONSTANTS
    MaxSeq = 2
    Window = 1
    NackLimit = 2
    DeadLimit = 1
    BatchLimit = 2
    Sweepers = {w1}
    Wal = TRUE
    Mortal = {1}
    AckAbove = FALSE
    Failures = {}
    MaxCrashes = 1
SPECIFICATION Spec
INVARIANTS AckSticks
