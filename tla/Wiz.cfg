CONSTANTS
  Macs = {m1, m2}
  NoMac = NoMac
  Switches = {on, off}
  Nothing = Nothing
  MaxItems = 2
  Offline = {}
  CutShort = {1}
  Mixed = Mixed
  MaxFlying = 2
SPECIFICATION Spec
INVARIANTS TypeOK DistinctMacs TodoIsAsked OnlyAskedIsHeard AnsweredIsHeard
SYMMETRY Interchangeable
