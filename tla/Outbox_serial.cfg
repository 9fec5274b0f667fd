SPECIFICATION Spec
CONSTANTS
  Workers = {w1, w2}
  Clients = {c1}
  Runs = {r1}
  Jobs = {j1}
  Tasks = {t1, t2}
  MaxAttempts = 2
  BatchSize = 1
  Lifetime = 1
  SecondLength = 1
  FractionRank <- OneDigit
  MaxTime = 1
  MaxInterrupts = 1
SYMMETRY Symmetry
INVARIANTS
  OnePendingPerRun
PROPERTIES
  ActsSerially
CHECK_DEADLOCK FALSE
