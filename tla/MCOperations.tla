---------------------------- MODULE MCOperations ----------------------------
(***************************************************************************)
(* What operators type by hand, for TLC: the values of the constants of    *)
(* Operations, and where it starts.                                        *)
(***************************************************************************)
EXTENDS Operations

-----------------------------------------------------------------------------
(* Nodes: n1 has the interface for RAID; each is new or has an instance.     *)

Node(state, raid) ==
  [state |-> state, maint |-> FALSE, raid |-> raid, volumes |-> raid, info |-> state = "active",
   saved |-> TRUE, disk |-> IF state = "available" THEN "blank" ELSE "instance", steps |-> {}]

NodeStock ==
  {[n1 |-> a, n2 |-> b] :
     a \in {Node("available", TRUE), Node("active", TRUE), [Node("error", TRUE) EXCEPT !.maint = TRUE]},
     b \in {Node("available", FALSE), Node("active", FALSE)}}

Both == <<"n1", "n2">>
On(do, nodes, opts) == [do |-> do, on |-> nodes, all |-> nodes = Both, opts |-> opts]

BaremetalCommands ==
  {On("deploy", Both, {}), On("deploy", Both, {"rebuild", "yes"}), On("deploy", Both, {"rebuild"}),
   On("undeploy", <<"n1">>, {}), On("clean", Both, {"yes"}), On("clean", <<"n2">>, {"metadata"}),
   On("burnin", Both, {"yes", "cpu", "disk"}), On("provide", Both, {}), On("delete", <<"n1">>, {}),
   On("maintenance", <<"n2">>, {}), On("no maintenance", <<"n2">>, {})}

\* Servers.
Requested(do, opts) == [do |-> do, opts |-> opts]
ComputeRequests ==
  {Requested("evacuate", {"yes"}), Requested("evacuate", {}), Requested("migrate", {}), Requested("migrate", {"no_wait", "no_cold"}),
   Requested("one", {}), Requested("start", {}), Requested("stop", {"yes"}), Requested("enable", {}),
   Requested("disable", {}), Requested("clean", {})}

\* Switches.
Order(do, force, refresh) == [do |-> do, force |-> force, refresh |-> refresh]
SwitchOrders ==
  {Order("load", FALSE, FALSE), Order("reload", FALSE, TRUE), Order("backup", FALSE, FALSE),
   Order("enable", FALSE, FALSE), Order("reboot", FALSE, FALSE), Order("reset", FALSE, FALSE),
   Order("reset", TRUE, FALSE)}

\* Queues.
CloudServices == {"nova", "cinder"}
Migrate(do, v, names, opts) == [do |-> do, vhost |-> v, service |-> names, opts |-> opts]
Migrations ==
  {Migrate("check", "/", CloudServices, {}), Migrate("prepare", "/", CloudServices, {}),
   Migrate("prepare", "/", CloudServices, {"dry-run"}), Migrate("delete", "/", CloudServices, {}),
   Migrate("delete", "/", {"nova"}, {"no-close-connections"}), Migrate("delete-exchanges", "/", CloudServices, {}),
   Migrate("delete", "openstack", CloudServices, {})}

\* Load balancers and amphorae; MCCloudRepair has the volumes.
Repair(do, opts) == [do |-> do, lb |-> "lb", opts |-> opts]
LoadbalancerRepairs ==
  {Repair("reset", {}), Repair("reset", {"yes", "no-failover"}), Repair("reset", {"operating", "yes"}),
   Repair("delete", {}), Repair("restore", {}), Repair("rotate", {}), Repair("rotate", {"force"}),
   Repair("repair", {}), Repair("repair", {"yes"})}
StuckVolumes == {"detaching", "creating", "deleting", "error_deleting"}

\* Files: clouds with and without a password of their own.
CloudCallings ==
  {[do |-> d, cloud |-> c] : d \in {"command", "program"}, c \in {"admin", "octavia"}}
    \cup {[do |-> "project", cloud |-> "admin"]}

\* Roles: a collection with a fork, alone and in front of a role, and roles.
Apply(names, retry, wait, mode) ==
  [names |-> names, environment |-> "none", retry |-> retry, wait |-> wait, mode |-> mode]
RoleApplications ==
  {Apply(<<"facts", "keystone">>, 1, TRUE, "run"), Apply(<<"cloudpod", "keystone">>, 0, TRUE, "run"),
   Apply(<<"cloudpod">>, 0, FALSE, "dry-run"), Apply(<<"cloudpod">>, 0, TRUE, "tree"),
   Apply(<<"facts", "ceph">>, 0, FALSE, "run")}
RoleTrees ==
  [cloudpod |-> <<[role |-> "ceph-create-lvm-devices", after |-> 0], [role |-> "facts", after |-> 1],
                  [role |-> "ceph", after |-> 1], [role |-> "ceph-pools", after |-> 3]>>]
Environments == [x \in {"keystone", "facts", "ceph-pools"} |->
  CASE x = "keystone" -> "kolla" [] x = "facts" -> "generic" [] OTHER -> "ceph"]

ServerStatuses == {"ACTIVE", "PAUSED", "SHUTOFF", "ERROR", "gone"}

ServersOfHost == <<"i1", "i2">>
OneBalancer   == [a \in {"a1", "a2"} |-> "lb"]
OneSlot       == [name \in {"osism-ansible", "kolla-ansible", "ceph-ansible", "kubernetes"} |-> 1]
BackupNumbers == 1..3

-----------------------------------------------------------------------------
\* Init, with one of their initial states for the parts that are not picked.  With
\* both names of a file in /etc/openstack all goes as with the one that is preferred.
MCInit ==
  /\ component \in Parts
  /\ Baremetal!bmInit
  /\ component # "baremetal" => node = [n1 |-> Node("available", TRUE), n2 |-> Node("available", FALSE)]
  /\ Compute!computeInit
  /\ component # "compute" => \A s \in Compute!All : server[s].status = "gone"
  /\ Switches!switchInit
  /\ component # "switch" => ~locked /\ known = 0
  /\ Migration!migrationInit
  /\ component # "migration" => settings
  /\ Cloud!cloudInit
  /\ component # "repair" => /\ lb["lb"].prov = "ACTIVE" /\ lb["lb"].oper = "ONLINE"
                             /\ \A a \in DOMAIN amphora : amphora[a].status = "ALLOCATED"
                             /\ volume["v"] = [status |-> "creating", old |-> FALSE, long |-> FALSE]
  /\ Environment!environmentInit
  /\ IF component = "files" THEN \A names \in {Environment!CloudsNames, Environment!SecureNames} : ~(names \subseteq etc)
     ELSE etc = {}
  /\ Applying!applyInit

MCSpec == MCInit /\ [][Next]_vars

\* Two administrators act on one server, and one on two.
FewServers == (server["i2"].status = "gone" /\ by["i2"] = {}) \/ admin["a2"].pc = "idle"
=============================================================================
