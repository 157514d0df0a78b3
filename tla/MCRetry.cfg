\* An envelope sent twice, and its identity reused for other content.
CONSTANTS
    other = other  key = key
    None = None
    Requests = {r1, r2, other}
    Keys = {key}
    KeyOf <- OneKey
    Digest <- Contents
    MaxPermits = 2
    MaxCrashes = 1
SPECIFICATION FairSpec
INVARIANTS TypeOK StoredOnce AcceptedAgree AbortedIsFinal SlotIsAttended PermitsReturn
PROPERTIES WaitersResolve
CHECK_DEADLOCK FALSE
