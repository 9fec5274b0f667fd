SPECIFICATION Spec
CONSTANTS
  Handlers = {h1, h2}
  MaxRooms = 1
  MaxOrders = 2
  MaxCapacity = 2
  MaxTime = 4
  SecondLength = 2
  FractionRank <- OneDigit
  RoomStatuses = {"AVAILABLE", "CLEANING"}
  SeedCapacities <- NoSeeds
SYMMETRY HandlerSymmetry
INVARIANTS
  GuestsWithinHighWater
  OverloadIsRaced
  CleaningIntruderIsRaced
  RoomlessOrderIsRaced
PROPERTY OrdersOnlyAdvance
CHECK_DEADLOCK FALSE
