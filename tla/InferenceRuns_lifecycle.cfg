SPECIFICATION Spec
CONSTANTS
  Pools = {p1, p2}
  Snapshots = {s1, s2}
  Keys = {k1}
  MaxRuns = 2
  MaxIncidents = 2
  MaxTime = 2
  Grace = 1
  MaxExecution = 1
  KeyLifetime = 1
  SecondLength = 2
  FractionRank <- OneDigit
  DayLength = 1
  CutoffHour = 0
  DailyLimit = 1
  CapacityRows = 2
  AttestationDueAt = 3
SYMMETRY Symmetry
INVARIANTS
  PoolServesItsRun
  SnapshotsFollowRun
  QuarantineHasIncident
  KeyPlansOnce
  DailyLimitHolds
  RunCanEnd
PROPERTIES
  VerdictsAreFinal
  EveryCallNears
  TakesAndReturns
CHECK_DEADLOCK FALSE
