CONSTANTS
  Clients = {a, b, c}
  None = None
  MaxConnections = 2
  MaxSessions = 2
  Ticks = {1}
  MaxContents = 1
  MaxCount = 2
  Cuts = {}
  Careless = {}
  Impatient = {a}
SPECIFICATION Spec
INVARIANT SlotIsChecked
CHECK_DEADLOCK FALSE
