\* Two runs for one new device; locks do not lapse.
CONSTANTS
  s1 = s1
  s2 = s2
  d1 = d1
  d2 = d2
  Nobody = Nobody
  NoNode = NoNode
  Syncs = {s1, s2}
  Devices = {d1}
  Only <- OneDevice
  Adopted = {}
  Wanted = {"mac"}
  Retired = {}
  Overdue = {}
  InitNodes <- NewNode
  MaxNodes = 2
SPECIFICATION Spec
CHECK_DEADLOCK FALSE
INVARIANT
  AvailableNodesAreCleaned
