SPECIFICATION FairSpec
CONSTANTS
  Callers = {c1}
  MaxCalls = 3
  MaxFaults = 1
  MaxEvents = 3
PROPERTY
  Reconnects
CHECK_DEADLOCK FALSE
