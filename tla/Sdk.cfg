SPECIFICATION SdkSpec
CONSTANTS
  pinned = pinned
  sharing = sharing
  foreign = foreign
  a = a
  b = b
  Model = {pinned, sharing, foreign}
  Name = {a, b}
  NameOf <- Names
  Wanted = {pinned, sharing}
  Pinned = {pinned, foreign}
  MaxModels = 2
  TTL = 2
  Interval = 2
  None = None
  MaxDepth = 2
  w = w
  Session = {s1, s2}
  Workflow = {w}
  MaxSteps = 2
  YamlFile <- SomeFiles
  MaxRuns = 3
  Absent = Absent
INVARIANTS TypeOK StaleBounded Isolated RunnerTypeOK CheckpointsTrue
PROPERTIES PinsHold
