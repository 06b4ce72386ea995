SPECIFICATION Spec
CONSTANTS
  Producers = {p1}
  WorkQueue = wq
  NoThread = none
  Depth = 2
  RetryCount = 1
  MaxFrames = 3
  MaxSessions = 1
INVARIANT
  Fifo
