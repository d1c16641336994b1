\* A run for all devices, and a run for d2 that may outlive its lock.  d2 is
\* removed from NetBox at some time.
CONSTANTS
  s1 = s1
  s2 = s2
  d1 = d1
  d2 = d2
  Nobody = Nobody
  NoNode = NoNode
  Syncs = {s1, s2}
  Devices = {d1, d2}
  Only <- MCOnly
  Adopted = {d2}
  Wanted = {"mac"}
  Retired = {d2}
  Overdue = {s2}
  InitNodes <- MCInitNodes
  MaxNodes = 2
SPECIFICATION Spec
CHECK_DEADLOCK FALSE
INVARIANTS
  SyncedDeviceIsSettled
PROPERTIES
  SyncNeverCleans
  DevicesKeepTheirNode
