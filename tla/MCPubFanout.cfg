\* Two inboxes, a fan-out over both, a submission to one of them, and a crash.
CONSTANTS
    t1 = t1  t2 = t2  r1 = r1  r2 = r2
    NoReq = NoReq
    Targets = {t1, t2}
    Requests = {r1, r2}
    Batch <- FanoutBatch
    Deletable = {}
    MaxSeq = 2
    Capacity = 2
    MaxCrashes = 1
SPECIFICATION FairSpec
INVARIANTS AcceptedIsDurable AbortedIsRetrySafe
PROPERTIES KeepsContract EveryRequestEnds PrefixCatchesUp
