CONSTANTS
  Clients = {a, b}
  None = None
  MaxConnections = 2
  MaxSessions = 2
  MaxContents = 1
  MaxCount = 2
  Cuts = {"keyExchange", "changeCipher"}
  Careless = {b}
  Impatient = {}
  Ticks = {1}
  RsaCount = 3
  Base = 16
  P = 13
  Q = 11
  DP = 7
  DQ = 3
  QInv = 6
  Messages = {21, 95}
SPECIFICATION SidesSpec
INVARIANTS TypeOK NoClientRejects RsaTypeOK OneCalculation ResultIsOwn
PROPERTIES ValidSessionIsFixed Served RefusedIsTold ImplementsService BegunFinishes AllFinishWhenQuiet
CHECK_DEADLOCK FALSE
