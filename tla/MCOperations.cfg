\* Two operators on two nodes; one administrator on two servers of a host, or
\* two on one; two sessions on a switch; two migrators while one service is deployed
\* again; one repair of a load balancer with two amphorae and of a volume; two
\* commands or tasks and their files; one client of `osism apply` and one lock.
CONSTANTS
  Nodes = {"n1", "n2"}
  Operators = {"o1", "o2"}
  Commands <- BaremetalCommands
  Stock <- NodeStock
  Servers <- ServersOfHost
  Admins = {"a1", "a2"}
  Requests <- ComputeRequests
  Statuses <- ServerStatuses
  MaxOwner = 1
  Sessions = {"s1", "s2"}
  Orders <- SwitchOrders
  Backups <- BackupNumbers
  Contexts = 2
  Services <- CloudServices
  Migrators = {"m1", "m2"}
  Invocations <- Migrations
  MaxDeploys = 1
  Balancers = {"lb"}
  Amphorae = {"a1", "a2"}
  Serves <- OneBalancer
  Volumes = {"v"}
  VolumeStates <- StuckVolumes
  Repairers = {"r1"}
  Repairs <- LoadbalancerRepairs
  Jobs = {"j1", "j2"}
  Callings <- CloudCallings
  Vaulted = {"admin"}
  Profiles = {"admin", "octavia"}
  Clients = {"c1"}
  Applications <- RoleApplications
  Collections <- RoleTrees
  MAP_ROLE2ENVIRONMENT <- Environments
  OsismRoles = {"facts"}
  Lockers = {"u1"}
  Slots <- OneSlot
SPECIFICATION MCSpec
CHECK_DEADLOCK FALSE
CONSTRAINT FewServers
INVARIANTS
  NoSplitBrain
  EvacueesRunAgain
  OriginalKept
  RotatedOnce
  ProgramsFindTheirCloud
  AppliedInOrder
PROPERTIES
  InstancesSurvive
  QuorumKept
