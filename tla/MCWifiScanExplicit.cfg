SPECIFICATION Spec
CONSTANTS
  Threads = {shell, wq}
  WorkQueue = wq
  Idle = idle
  Due = due
  a = a
  b = b
  c = c
  Results <- MCResults
  MaxResults = 2
  Retries = 1
  Budgets <- FaultlessBudgets
INVARIANT ExplicitOnSurvives
CHECK_DEADLOCK FALSE
