\* A refused negative acknowledgement and its retry.
CONSTANTS
    MaxSeq = 2
    Window = 1
    NackLimit = 2
    DeadLimit = 1
    BatchLimit = 2
    Sweepers = {w1}
    Wal = FALSE
    Mortal = {}
    AckAbove = FALSE
    Failures = {"nack"}
    MaxCrashes = 0
SPECIFICATION Spec
INVARIANTS DeadLetterHasNoRow
