SPECIFICATION FairSpec
CONSTANTS
  Workers = {w1}
  Clients = {c1}
  Runs = {r1}
  Jobs = {j1, j2}
  Tasks = {t1}
  MaxAttempts = 2
  BatchSize = 1
  Lifetime = 1
  SecondLength = 2
  FractionRank <- OneDigit
  MaxTime = 2
  MaxInterrupts = 0
INVARIANT ResolvedToTheSecond
PROPERTIES
  JobsSettle
  TasksResolve
CHECK_DEADLOCK FALSE
