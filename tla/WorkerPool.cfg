SPECIFICATION FairSpec
CONSTANTS
  Task = {t1, t2, t3}
  Node = {n1, n2}
  MaxQueueDepth = 1
  Concurrency = 1
  MaxRetries = 1
  Impatient = {t3}
  MaxCalls = 3
INVARIANTS TypeOK InOnePlace
PROPERTIES JustifiedRefusal KeepsLedger Served
CHECK_DEADLOCK FALSE
