CONSTANTS
  Clients = {a, b}
  None = None
  MaxConnections = 2
  MaxSessions = 2
  Ticks = {1}
  MaxContents = 1
  MaxCount = 2
  Cuts = {}
  Careless = {}
  Impatient = {a}
SPECIFICATION Spec
INVARIANT ResultsAreNeeded
CHECK_DEADLOCK FALSE
