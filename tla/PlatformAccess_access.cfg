SPECIFICATION Spec
CONSTANTS
  Server = server
  Seeders = {oldSeed}
  Older = oldSeed
  Latest = 2
  Knows <- KnownTo
  Clients = {h1, h2}
  Emails = {a, b}
  Roles = {"ml_engineer", "data_engineer"}
  SessionTTL = 2
  MaxUsers = 2
  MaxSessions = 2
  MaxTime = 2
SYMMETRY Alike
INVARIANTS
  SchemaIsWhole
  AccountsTraceToSeed
  AuditTellsAccess
CHECK_DEADLOCK FALSE
