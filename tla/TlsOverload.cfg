CONSTANTS
  Clients = {a, b, c}
  None = None
  MaxConnections = 2
  MaxSessions = 1
  Ticks = {0, 1}
  MaxContents = 1
  MaxCount = 2
  Cuts = {}
  Careless = {a, b, c}
  Impatient = {a, b, c}
SPECIFICATION Spec
INVARIANTS NoClientRejects SessionHasItsMaster WaitsForOwnSlot
SYMMETRY Interchangeable
CHECK_DEADLOCK FALSE
