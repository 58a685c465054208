SPECIFICATION FairSpec
CONSTANTS
  Caller = {c1, c2, c3, c4}
  MaxRetries = 1
  MaxAbandons = 1
  FailureThreshold = 2
  RecoveryTimeout = 1
  HalfOpenMaxCalls = 3
  SuccessThreshold = 2
INVARIANTS TypeOK CountsHold
PROPERTIES QuietPeriod RecoversWithSlotsLeft
