SPECIFICATION Spec
CONSTANTS
  e1 = e1
  e2 = e2
  e3 = e3
  e4 = e4
  u1 = u1
  u2 = u2
  Event = {e1, e2, e3, e4}
  User = {u1, u2}
  Team = {t1, t2}
  UserOf <- MCUserOf
  OccurredAt <- MCOccurredAt
  CostUsd <- MCCostUsd
  Hour = 2
  Day = 4
  Quantum = 100
  Limit = 1
  MaxBatch = 2
  MaxMoves = 1
SYMMETRY Symmetry
INVARIANTS ReportsAreExact CostWithinRounding TeamsAreCharged ExplorerSkipsOnlyTies DriftIsExplained
CHECK_DEADLOCK FALSE
