\* Two moves of one account from a to b, both on its first home record.
CONSTANTS
    a = a  b = b  m1 = m1  m2 = m2  e1 = e1
    Genesis = Genesis  NoRecord = NoRecord
    Nodes = {a, b}
    Origin = a
    RetainUntil <- MCRetain
    SealDelay = 0
    MaxOffer = 0
    Moves = {m1, m2}
    Src <- TwoSrc
    Dst <- TwoDst
    Base <- TwoBase
    Epoch <- TwoEpoch
    Envelopes = {}
    CommitDelay = 1
    Skew = 1
    Forward = 4
    MaxTime = 4
SPECIFICATION Spec
SYMMETRY Competing
CHECK_DEADLOCK FALSE
INVARIANTS OneHome OutcomeExclusive
PROPERTIES HeadsAdvance
