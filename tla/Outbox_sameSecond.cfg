SPECIFICATION Spec
CONSTANTS
  Workers = {w1}
  Clients = {c1}
  Runs = {r1}
  Jobs = {j1}
  Tasks = {t1}
  MaxAttempts = 2
  BatchSize = 1
  Lifetime = 2
  SecondLength = 2
  FractionRank <- OneDigit
  MaxTime = 4
  MaxInterrupts = 0
INVARIANTS
  ResolvedOnItsSide
CHECK_DEADLOCK FALSE
