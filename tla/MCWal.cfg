CONSTANTS
  Requests <- MCRequests
  BatchMax = 2
  SegmentFrames = 2
  Modes = {"sync", "pipeline"}
  Ttl = 0
  RetireAfter = 0
  MaxTime = 1
  MaxSegments = 3
  MaxCrashes = 1
  MaxDamage = 1
  MaxFaults = 1
  MaxExtent = 3
SPECIFICATION FairSpec
CHECK_DEADLOCK FALSE
INVARIANT TypeOK
INVARIANT NoSpuriousRotation
PROPERTY Implements
PROPERTY EveryAppendAnswered
