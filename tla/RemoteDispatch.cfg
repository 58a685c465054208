SPECIFICATION RemoteSpec
CONSTANTS
  t1 = t1
  t2 = t2
  bad = bad
  Submission = {t1, t2, bad}
  Malformed = {bad}
  Worker = {w1, w2}
  None = None
  MaxUpsets = 2
  FailureThreshold = 1
  RecoveryTimeout = 1
  HalfOpenMaxCalls = 2
  SuccessThreshold = 2
SYMMETRY Alike
INVARIANTS RemoteTypeOK Accounted DoneMeansDone
CHECK_DEADLOCK FALSE
