SPECIFICATION Spec
CONSTANTS
  m1 = m1
  m2 = m2
  Pool <- TwoModels
  Level = "balanced"
  Caller = {c1, c2}
  Threshold = 3
  Interval = 1
  Lag = 1
  MaxOutcomes = 3
  MaxFaults = 1
  MaxStarts = 2
  None = None
SYMMETRY Symmetric
INVARIANTS TypeOK Explored LossBounded
PROPERTIES SnapshotGrows
CHECK_DEADLOCK FALSE
