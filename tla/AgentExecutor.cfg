SPECIFICATION FairSpec
CONSTANTS
  r1 = r1
  r2 = r2
  r3 = r3
  m1 = m1
  m2 = m2
  mapped = mapped
  found = found
  Run = {r1, r2, r3}
  AgentOf <- Calls
  Model = {m1, m2}
  ModelMap <- Mapped
  Discovered <- Known
  Payload = {p1}
  NoKey = NoKey
  None = None
  MaxConcurrency = 1
  MaxRetries = 1
  MaxParts = 1
  MaxLeaves = 1
  FailureThreshold = 2
  RecoveryTimeout = 1
  HalfOpenMaxCalls = 1
  SuccessThreshold = 1
INVARIANTS TypeOK SlotsReturn CleanStream RecordsTrue
PROPERTIES StreamsEnd
CHECK_DEADLOCK FALSE
