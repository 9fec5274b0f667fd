SPECIFICATION Spec
CONSTANTS
  Handlers = {h1, h2, h3}
  Users = {u1, u2}
  MaxPets = 1
  MaxOrders = 1
  MaxRecords = 2
  MaxDay = 1
SYMMETRY Symmetry
INVARIANTS
  PetlessOrderIsExplained
  OwnerIsAssigned
  RecordsBelongToStay
PROPERTIES
  LateWriteIsOvertaken
CHECK_DEADLOCK FALSE
