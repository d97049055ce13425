CONSTANTS
  Rooms = {r1}
  Everyone = Everyone
  NoName = NoName
  MaxItems = 2
  MaxLights = 3
  Day = 8
  DstMinutes = 1
  StdMinutes = 0
  Events <- MCEvents
  Behind <- MCBehind
  On = On
  Off = Off
  Nothing = Nothing
  Suns <- MCSuns
  ChangeAt = 1
SPECIFICATION Spec
INVARIANTS TypeOK OnEnds
PROPERTIES ScanFollowsClock
