SPECIFICATION FairSpec
CONSTANTS
  Callers = {shell}
  WorkQueue = wq
  MaxCalls = 4
  MaxLinks = 2
INVARIANTS
  OffMeansOff
  LastCommandWins
  FlagsMirrorStack
  
PROPERTY
  Reachable
CHECK_DEADLOCK FALSE
