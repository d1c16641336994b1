SPECIFICATION SonicSpec
CONSTANTS
  PortTables <- MCPortTables
  BaseConfig <- MCBaseConfig
  Metalbox <- MCMetalbox
  Machines <- MCMachines
  Devices <- SyncDevices
  Role <- MCRole
  OwnAs <- MCOwnAs
  Supported = {"s1", "l1"}
  Requests <- MCRequests
  Wirings <- MCWirings
  Inventories <- MCInventories
  MaxEdits = 1
  MaxFaults = 1
  Runs = {"r1", "r2"}
  Switches <- MCSwitches
  SwitchRole <- MCSwitchRole
  SwitchAs <- MCSwitchAs
  Cablings <- MCCablings
INVARIANTS
  LanesPartitioned
  ReferencesResolve
  SpeakersAreRouted
  NoStaleRows
  WholeFiles
  CleanRunExports
  GroupsAgree
PROPERTIES
  SiblingsKept
CHECK_DEADLOCK FALSE
