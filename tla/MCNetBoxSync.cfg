\* Two tasks on different fields of one device, a third on another device that
\* shares a secondary NetBox with them; two connections per NetBox (with one, the
\* semaphore alone would serialise the updates).
CONSTANTS
  t1 = t1
  t2 = t2
  t3 = t3
  d1 = d1
  d2 = d2
  Nobody = Nobody
  Tasks = {t1, t2, t3}
  Devices = {d1, d2}
  NNetBoxes = 2
  Fields = {"power_state", "provision_state", "maintenance"}
  DeviceOf <- MCDeviceOf
  FieldOf <- MCFieldOf
  Matching <- MCMatching
  Provision = "provision_state"
  MaxConns = 2
SPECIFICATION Spec
CHECK_DEADLOCK FALSE
INVARIANTS
  FreshSnapshot
  SlotsAreInUse
  SuccessIsDurable
  EndedTasksOwnNoLock
