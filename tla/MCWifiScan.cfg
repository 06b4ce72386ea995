SPECIFICATION FairSpec
CONSTANTS
  Threads = {shell, wq}
  WorkQueue = wq
  Idle = idle
  Due = due
  a = a
  b = b
  c = c
  Results <- MCResults
  MaxResults = 2
  Retries = 1
  Budgets <- MCBudgets
INVARIANTS
  TypeOK
  UnmixedOnSurvives
  PoweredWhileStarting
  FreshAnswer
  TableIsOneScan
PROPERTIES
  IndexesHold
  ScanEnds
  PowerReleased
CHECK_DEADLOCK FALSE
