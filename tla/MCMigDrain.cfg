\* One move, an envelope that outlives the forwarding window, lost calls.
CONSTANTS
    a = a  b = b  m1 = m1  m2 = m2  e1 = e1
    Genesis = Genesis  NoRecord = NoRecord
    Nodes = {a, b}
    Origin = a
    RetainUntil <- MCRetain
    SealDelay = 0
    MaxOffer = 0
    Moves = {m1}
    Src <- OneSrc
    Dst <- OneDst
    Base <- OneBase
    Epoch <- OneEpoch
    Envelopes = {e1}
    CommitDelay = 0
    Skew = 0
    Forward = 1
    MaxTime = 2
SPECIFICATION FairSpec
CHECK_DEADLOCK FALSE
INVARIANTS TypeOK NothingStranded
PROPERTIES MoveCompletes
