SPECIFICATION Spec
CONSTANTS
  Server = s
  Healthchecks = {h1}
  RoomSeeds = 2
  ServiceSeeds = 2
  MaxName = 2
  MaxStops = 1
  MaxEdits = 2
INVARIANTS
  SeedsAreWhole
  ServicesSeededOnce
  RefusalIsRaced
PROPERTIES
  ServerComesUp
CHECK_DEADLOCK FALSE
