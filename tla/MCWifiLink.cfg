SPECIFICATION FairSpec
CONSTANTS
  Callers = {c1, c2}
  MaxCalls = 4
  MaxFaults = 2
  MaxEvents = 3
INVARIANTS
  TypeOK
  UncrossedOffMeansDown
  ContextMirrorsLink
  RequestKept
PROPERTY
  ReconnectsUnspoiled
CHECK_DEADLOCK FALSE
