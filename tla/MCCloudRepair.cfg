\* A repair of the volumes, some of which are being detached.
CONSTANTS
  Balancers = {"lb"}
  Amphorae = {}
  Serves <- NoAmphora
  Volumes = {"v1", "v2"}
  VolumeStates = {"in-use", "detaching"}
  Repairers = {"r1"}
  Repairs <- VolumeRepairs
SPECIFICATION cloudSpec
CHECK_DEADLOCK FALSE
INVARIANT OnlyStuckDetachmentsAborted
