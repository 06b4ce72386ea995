SPECIFICATION FairSpec
CONSTANTS
  Threads = {workqueue, receiver, server}
  WorkQueue = workqueue
  Receiver = receiver
  Server = server
  Ble = {responses, tx}
  Udp = {answers}
  Responses = responses
  Answers = answers
  Chunks = {2}
  Ids = 2
  None = none
  Ports = {p1, p2}
  DefaultPort = p1
  Budgets <- MCBudgets
INVARIANTS
  WholeOrNothing
  SentIsAssembled
PROPERTIES
  PortFollows
