CONSTANTS
  s1 = s1
  s2 = s2
  a = a
  g = g
  User = {u1}
  Stock = {s1, s2}
  Traded = {s1}
  Plan <- MCPlan
  Job = {a, g}
  Slot = {1, 2}
  Timeframe = {1, 2}
  Second = {0}
  MinScore = 1
  MinRiskReward = 1
  MaxChanges = 1
  Analyzers = {a}
  Lists <- MCLists
  MaxConcurrency = 2
  PayloadScore = 0
  CodeOf <- MCCode
SPECIFICATION Spec
INVARIANTS
  TypeOK
  OneJobTellsOnce
  BatchesAreWhole
  SuccessMeansStored
PROPERTIES
  OnlyWanted
  JobsReturn
CHECK_DEADLOCK FALSE
