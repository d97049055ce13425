CONSTANTS
  Clients = {a, b}
  None = None
  MaxConnections = 2
  MaxSessions = 1
  MaxContents = 1
  MaxCount = 2
  Cuts = {}
  Careless = {}
  Impatient = {}
  Ticks = {1}
SPECIFICATION Spec
INVARIANT AfterChangeAllIsEncrypted
CHECK_DEADLOCK FALSE
