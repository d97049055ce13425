CONSTANTS
  Macs = {m1, m2}
  NoMac = NoMac
  Switches = {on, off}
  Nothing = Nothing
  MaxItems = 2
  Offline = {m2}
  CutShort = {}
  Mixed = Mixed
  MaxFlying = 2
SPECIFICATION FairSpec
PROPERTIES RequestIsMet
