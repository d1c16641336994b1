\* The ZTP endpoint among the tasks of MCNetBoxSync.cfg.
CONSTANTS
  t1 = t1
  t2 = t2
  t3 = t3
  d1 = d1
  d2 = d2
  Nobody = Nobody
  Tasks = {t1, t2, t3}
  Devices = {d1, d2}
  NNetBoxes = 2
  Fields = {"power_state", "provision_state", "maintenance"}
  DeviceOf <- MCDeviceOf
  FieldOf <- MCFieldOf
  Matching <- MCMatching
  Provision = "provision_state"
  MaxConns = 2
SPECIFICATION Spec
CHECK_DEADLOCK FALSE
PROPERTIES
  StateChangesDoNotRace
