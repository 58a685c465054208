SPECIFICATION Spec
CONSTANTS
  c1 = c1
  c2 = c2
  c3 = c3
  Call = {c1, c2, c3}
  AgentOf <- Agents
  MaxUnderWay = 2
  Retries = 1
  Estimate = {0, NaN, Unreadable}
  NaN = NaN
  Unreadable = Unreadable
  InvocationCap = 1
  SessionCap = 1
  MaxCost = 2
  Lists <- SomeLists
  MaxLoads = 2
SYMMETRY Symmetric
INVARIANTS TypeOK OvershootBounded TracesMatch
CHECK_DEADLOCK FALSE
