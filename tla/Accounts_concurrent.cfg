SPECIFICATION Spec
CONSTANTS
  Handlers = {h1, h2}
  MaxUsers = 2
  MaxSessions = 2
  MaxPasswords = 3
SYMMETRY HandlerSymmetry
INVARIANTS
  OldPasswordIsRaced
  DisabledSessionIsRaced
  AdminsAreVouched
PROPERTY RefusedStaysRefused
CHECK_DEADLOCK FALSE
