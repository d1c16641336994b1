------------------------------ MODULE Operations ------------------------------
(***************************************************************************)
(* The commands that operators run by hand, in Parts of which Init picks   *)
(* one.  In each, commands and what they act on are interleaved.           *)
(***************************************************************************)
EXTENDS Naturals, Sequences, FiniteSets

CONSTANTS
  Nodes, Operators, Commands, Stock,                           \* see BaremetalOperations
  Servers, Admins, Requests, Statuses, MaxOwner,               \* see ComputeOperations
  Sessions, Orders, Backups, Contexts,                         \* see SwitchOperations
  Services, Migrators, Invocations, MaxDeploys,                \* see QueueMigration
  Balancers, Amphorae, Serves, Volumes, VolumeStates, Repairers, Repairs,  \* see CloudRepair
  Jobs, Callings, Vaulted, Profiles,                           \* see CloudEnvironment
  Clients, Applications, Collections, MAP_ROLE2ENVIRONMENT, OsismRoles, Lockers, Slots  \* see ApplyCommand

VARIABLES
  component,
  node, states, cmd,
  server, service, admin, by,
  context, local, switch, known, session, locked, ztpTasks,
  queue, exchanges, vhost, settings, declared, migrator, dropped,
  lb, amphora, volume, repair, aborted,
  etc, tmp, job,
  task, client, task_lock, locker

Baremetal   == INSTANCE BaremetalOperations
Compute     == INSTANCE ComputeOperations
Switches    == INSTANCE SwitchOperations
Migration   == INSTANCE QueueMigration
Cloud       == INSTANCE CloudRepair
Environment == INSTANCE CloudEnvironment
Applying    == INSTANCE ApplyCommand

\* What the parts assume of their constants.
ASSUME NodesAreNodes == Baremetal!BaremetalAssumption
ASSUME ServersAreServers == Compute!ComputeAssumption
ASSUME SwitchesAreSwitches == Switches!SwitchAssumption
ASSUME MigrationsAreMigrations == Migration!MigrationAssumption
ASSUME VolumesAreVolumes == Cloud!CloudAssumption
ASSUME ApplicationsAreApplications == Applying!ApplyAssumption

bmVars        == <<node, states, cmd>>
computeVars   == <<server, service, admin, by>>
switchVars    == <<context, local, switch, known, session, locked, ztpTasks>>
migrationVars == <<queue, exchanges, vhost, settings, declared, migrator, dropped>>
cloudVars     == <<lb, amphora, volume, repair, aborted>>
fileVars      == <<etc, tmp, job>>
applyVars     == <<task, client, task_lock, locker>>

-----------------------------------------------------------------------------
\* The parts that are not picked stay in one of their initial states.
Parts == {"baremetal", "compute", "switch", "migration", "repair", "files", "apply"}

Init ==
  /\ component \in Parts
  /\ Baremetal!bmInit /\ Compute!computeInit /\ Switches!switchInit
  /\ Migration!migrationInit /\ Cloud!cloudInit
  /\ Environment!environmentInit /\ Applying!applyInit

BaremetalNext == component = "baremetal" /\ Baremetal!bmNext
                 /\ UNCHANGED <<component, computeVars, switchVars, migrationVars, cloudVars, fileVars, applyVars>>
ComputeNext   == component = "compute" /\ Compute!computeNext
                 /\ UNCHANGED <<component, bmVars, switchVars, migrationVars, cloudVars, fileVars, applyVars>>
SwitchNext    == component = "switch" /\ Switches!switchNext
                 /\ UNCHANGED <<component, bmVars, computeVars, migrationVars, cloudVars, fileVars, applyVars>>
MigrationNext == component = "migration" /\ Migration!migrationNext
                 /\ UNCHANGED <<component, bmVars, computeVars, switchVars, cloudVars, fileVars, applyVars>>
CloudNext     == component = "repair" /\ Cloud!cloudNext
                 /\ UNCHANGED <<component, bmVars, computeVars, switchVars, migrationVars, fileVars, applyVars>>
FilesNext     == component = "files" /\ Environment!environmentNext
                 /\ UNCHANGED <<component, bmVars, computeVars, switchVars, migrationVars, cloudVars, applyVars>>
ApplyNext     == component = "apply" /\ Applying!applyNext
                 /\ UNCHANGED <<component, bmVars, computeVars, switchVars, migrationVars, cloudVars, fileVars>>

Next == BaremetalNext \/ ComputeNext \/ SwitchNext \/ MigrationNext \/ CloudNext \/ FilesNext \/ ApplyNext

vars == <<component, bmVars, computeVars, switchVars, migrationVars, cloudVars, fileVars, applyVars>>

Spec == Init /\ [][Next]_vars

-----------------------------------------------------------------------------
\* See BaremetalOperations: no command wipes the disk of an instance ...
InstancesSurvive == Baremetal!InstancesSurvive

\* ... ComputeOperations: an evacuation does not run a guest twice ...
NoSplitBrain == Compute!NoSplitBrain

\* ... and has every server it stopped running again ...
EvacueesRunAgain == Compute!EvacueesRunAgain

\* ... SwitchOperations: the configuration of before today is kept ...
OriginalKept == Switches!OriginalKept

\* ... QueueMigration: quorum queues survive the removal of classic ones ...
QuorumKept == Migration!QuorumKept

\* ... CloudRepair: a load balancer is rotated once ...
RotatedOnce == Cloud!RotatedOnce

\* ... CloudEnvironment: a program finds the password of its cloud ...
ProgramsFindTheirCloud == Environment!ProgramsFindTheirCloud

\* ... and ApplyCommand: roles start in the order that was asked for.
AppliedInOrder == Applying!AppliedInOrder
=============================================================================
