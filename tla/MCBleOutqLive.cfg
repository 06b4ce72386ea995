SPECIFICATION FairSpec
CONSTANTS
  Producers = {p1}
  WorkQueue = wq
  NoThread = none
  Depth = 2
  RetryCount = 0
  MaxFrames = 2
  MaxSessions = 2
INVARIANTS
  FrameAccounted
  NoStaleFrame
PROPERTY
  Drains
