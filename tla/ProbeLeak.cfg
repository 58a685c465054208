SPECIFICATION FairSpec
CONSTANTS
  Caller = {c1, c2}
  MaxRetries = 1
  MaxAbandons = 2
  FailureThreshold = 2
  RecoveryTimeout = 1
  HalfOpenMaxCalls = 3
  SuccessThreshold = 2
PROPERTIES AutoRecovers
