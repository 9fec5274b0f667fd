SPECIFICATION ReportSpec
CONSTANTS
  Pools = {p1}
  Snapshots = {s1, s2}
  Keys = {k1}
  MaxRuns = 1
  MaxIncidents = 2
  MaxTime = 1
  Grace = 1
  MaxExecution = 1
  KeyLifetime = 1
  SecondLength = 1
  FractionRank <- OneDigit
  DayLength = 2
  CutoffHour = 1
  DailyLimit = 1
  CapacityRows = 2
  AttestationDueAt = 3
SYMMETRY Symmetry
INVARIANTS
  ReportIsOfAnInstant
  ReportedRunArchives
  CountsAddUp
CHECK_DEADLOCK FALSE
