SPECIFICATION Spec
CONSTANTS
  Rows = {1, 2, 3, 4}
  Keys = {0, 1}
  PetCap = 2
  PetUsual = 1
  PlatformCap = 2
  AuditCap = 2
  PlatformUsual = 1
  Sizes = {0, 3}
  MaxEdits = 2
INVARIANTS
  MissedAreAccounted
  RepeatsAreAccounted
  PageIsWhole
CHECK_DEADLOCK FALSE
