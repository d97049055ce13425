CONSTANTS
  Clients = {a}
  None = None
  MaxConnections = 2
  MaxSessions = 2
  Ticks = {1}
  MaxContents = 1
  MaxCount = 1
  Cuts = {"keyExchange"}
  Careless = {}
  Impatient = {}
SPECIFICATION FairSpec
PROPERTY HandshakeCompletes
CHECK_DEADLOCK FALSE
