----------------------------- MODULE IronicSync -----------------------------
(***************************************************************************)
(* The conductor task sync_ironic: every run takes a list of the NetBox    *)
(* devices, deletes the Ironic nodes that are not in it, and then brings   *)
(* the node of each device, under the Redlock of that device, to the       *)
(* attributes and ports NetBox asks for and to `available` (or `active`,   *)
(* if the device is to be adopted).                                        *)
(*                                                                         *)
(* Ironic is external: it accepts a request when its state machine allows  *)
(* it and the uuid exists, and otherwise the call raises.  Any call may    *)
(* raise; the exception is caught for each device, and lost when it comes  *)
(* from the deletion of stale nodes.                                       *)
(***************************************************************************)
EXTENDS Integers, FiniteSets

CONSTANTS
  Syncs,       \* runs of sync_ironic
  Devices,
  Only,        \* the devices the node_name of each run admits
  Adopted,     \* devices with provision_state "active" in NetBox
  Wanted,      \* the MAC addresses of the interfaces a node should have
  Retired,     \* devices that are removed from NetBox in the meantime
  Overdue,     \* runs that may outlive their Redlock
  InitNodes,   \* the nodes Ironic may have at the start, for each device
  MaxNodes,    \* bound: nodes ever created
  Nobody,      \* not a run
  NoNode       \* neither a node nor a device

VARIABLES
  netbox,   \* devices in NetBox
  ironic,   \* the node of each device
  created,  \* the number of nodes created, which names the next one
  lock,     \* the owner of each device's Redlock
  lapsed,   \* runs that outlived their Redlock
  pc, devices, doomed, todo, dev, node, boot, waiting, outcome  \* locals of a run

locks == <<lock, lapsed>>
lists == <<devices, doomed, todo>>
locals == <<dev, node, boot, waiting, outcome>>
vars == <<netbox, ironic, created, lock, lapsed, pc, devices, doomed, todo,
          dev, node, boot, waiting, outcome>>

States == {"enroll", "clean failed", "manageable", "available", "active", "adopt failed"}

\* `current`: the attributes are the ones NetBox asks for.
Nodes == [id : 0..MaxNodes, state : States, power : {"none", "on", "off"}, instance : BOOLEAN,
          clean : BOOLEAN, current : BOOLEAN, ports : SUBSET (Wanted \cup {"extra"})]

\* The stub that _sync_ironic_device creates; Ironic finds the power later.
Stub == [id |-> created, state |-> "enroll", power |-> "none", instance |-> FALSE,
         clean |-> FALSE, current |-> FALSE, ports |-> {}]

ASSUME IronicAssumption ==
  /\ Devices # {}
  /\ Only \in [Syncs -> SUBSET Devices]
  /\ Adopted \subseteq Devices
  /\ Retired \subseteq Devices
  /\ Overdue \subseteq Syncs
  /\ MaxNodes \in Nat \ {0}
  /\ Nobody \notin Syncs
  /\ NoNode \notin Nodes \cup Devices
  /\ \A d \in Devices : InitNodes[d] \subseteq Nodes \cup {NoNode}

Init ==
  /\ netbox = Devices
  /\ ironic \in {f \in [Devices -> UNION {InitNodes[d] : d \in Devices}] :
                   \A d \in Devices : f[d] \in InitNodes[d]}
  /\ created = 1
  /\ lock = [d \in Devices |-> Nobody]
  /\ lapsed = {}
  /\ pc = [s \in Syncs |-> "begin"]
  /\ devices = [s \in Syncs |-> {}]
  /\ doomed = [s \in Syncs |-> {}]
  /\ todo = [s \in Syncs |-> {}]
  /\ dev = [s \in Syncs |-> NoNode]
  /\ node = [s \in Syncs |-> NoNode]
  /\ boot = [s \in Syncs |-> FALSE]
  /\ waiting = [s \in Syncs |-> FALSE]
  /\ outcome = [s \in Syncs |-> "none"]

-----------------------------------------------------------------------------
Goto(s, label) == pc' = [pc EXCEPT ![s] = label]

\* The node the run works on still has the uuid the run knows.
Known(s) == ironic[dev[s]] # NoNode /\ ironic[dev[s]].id = node[s].id

\* A call that changes the node and returns it.
Changed(s, n) ==
  /\ Known(s)
  /\ ironic' = [ironic EXCEPT ![dev[s]] = n]
  /\ node' = [node EXCEPT ![s] = n]

\* The node Ironic has, for a call that changes part of it.
Live(s) == ironic[dev[s]]

\* What the run forgets when it turns from one device to the next.
Forget(s) ==
  /\ dev' = [dev EXCEPT ![s] = NoNode]
  /\ node' = [node EXCEPT ![s] = NoNode]
  /\ boot' = [boot EXCEPT ![s] = FALSE]
  /\ waiting' = [waiting EXCEPT ![s] = FALSE]
  /\ outcome' = [outcome EXCEPT ![s] = "none"]

-----------------------------------------------------------------------------
\* The list of devices; with a node_name that NetBox does not know, or when
\* NetBox or Ironic does not answer at all, rc 1.
Begin(s) ==
  /\ pc[s] = "begin"
  /\ \/ Goto(s, "rc1") /\ UNCHANGED devices
     \/ /\ devices' = [devices EXCEPT ![s] = netbox \cap Only[s]]
        /\ Goto(s, IF Only[s] # Devices /\ netbox \cap Only[s] = {} THEN "rc1" ELSE "list")
  /\ UNCHANGED <<netbox, ironic, created, locks, doomed, todo, locals>>

\* An exception out of the filters, of the devices NetBox has for them, or of the
\* list of nodes ends the run, without finish_task_output.
ListRaises(s) ==
  /\ pc[s] \in {"begin", "list"}
  /\ Goto(s, "raised")
  /\ UNCHANGED <<netbox, ironic, created, locks, lists, locals>>

\* Mutant: the nodes are not restricted to node_name.
StaleAnywhere(s) == {d \in Devices \ devices[s] : ironic[d] # NoNode}

\* Nodes in Ironic, restricted to node_name, that the device list lacks.
Stale(s) == {d \in Only[s] \ devices[s] : ironic[d] # NoNode}

Removable(n) ==
  /\ ~n.instance
  /\ n.state \in {"enroll", "manageable", "available", "clean failed"}
  /\ n.power \in {"off", "none"}

\* baremetal_node_list: the stale nodes, as they are now.
List(s) ==
  /\ pc[s] = "list"
  /\ doomed' = [doomed EXCEPT ![s] =
                  {<<d, ironic[d]>> : d \in {e \in Stale(s) : Removable(ironic[e])}}]
  /\ Goto(s, "stale")
  /\ UNCHANGED <<netbox, ironic, created, locks, devices, todo, locals>>

PickStale(s) ==
  /\ pc[s] = "stale"
  /\ \E entry \in doomed[s] :
       /\ doomed' = [doomed EXCEPT ![s] = @ \ {entry}]
       /\ dev' = [dev EXCEPT ![s] = entry[1]]
       /\ node' = [node EXCEPT ![s] = entry[2]]
       /\ Goto(s, IF entry[2].state = "clean failed" THEN "unlocking" ELSE "unport")
  /\ UNCHANGED <<netbox, ironic, created, locks, devices, todo, boot, waiting, outcome>>

\* The ports of the stale node, then the node; Ironic keeps both for a node
\* that has been deployed in the meantime.
DeletePorts(s) ==
  /\ pc[s] = "unport"
  /\ Known(s) /\ Live(s).state # "active"
  /\ ironic' = [ironic EXCEPT ![dev[s]].ports = {}]
  /\ Goto(s, "unnode")
  /\ UNCHANGED <<netbox, created, locks, lists, locals>>

DeleteNode(s) ==
  /\ pc[s] = "unnode"
  /\ Known(s) /\ Live(s).state # "active"
  /\ ironic' = [ironic EXCEPT ![dev[s]] = NoNode]
  /\ Goto(s, "stale")
  /\ Forget(s)
  /\ UNCHANGED <<netbox, created, locks, lists>>

\* An exception here ends the run, without finish_task_output.
StaleRaises(s) ==
  /\ pc[s] \in {"unlocking", "unport", "unnode"}
  /\ Goto(s, "raised")
  /\ Forget(s)
  /\ UNCHANGED <<netbox, ironic, created, locks, lists>>

StartDevices(s) ==
  /\ pc[s] = "stale"
  /\ doomed[s] = {}
  /\ todo' = [todo EXCEPT ![s] = devices[s]]
  /\ devices' = [devices EXCEPT ![s] = {}]
  /\ Goto(s, "next")
  /\ UNCHANGED <<netbox, ironic, created, locks, doomed, locals>>

-----------------------------------------------------------------------------
\* The interfaces and the attributes of a device are read before its lock is
\* taken, outside of the `try`: an exception - a secret that cannot be decrypted,
\* a template that cannot be rendered - ends the run for all devices left.
PrepareRaises(s) ==
  /\ pc[s] = "next"
  /\ todo[s] # {}
  /\ Goto(s, "raised")
  /\ UNCHANGED <<netbox, ironic, created, locks, lists, locals>>

\* Mutant: the lock is not looked at.
LockFreeAlways(d) == d \in Devices

LockFree(d) == lock[d] = Nobody

\* lock.acquire(timeout=120) for one of the devices.
Lock(s) ==
  /\ pc[s] = "next"
  /\ \E d \in todo[s] :
       /\ LockFree(d)
       /\ lock' = [lock EXCEPT ![d] = s]
       /\ todo' = [todo EXCEPT ![s] = @ \ {d}]
       /\ dev' = [dev EXCEPT ![s] = d]
  /\ Goto(s, "show")
  /\ UNCHANGED <<netbox, ironic, created, lapsed, devices, doomed, node, boot, waiting, outcome>>

LockTimesOut(s) ==
  /\ pc[s] = "next"
  /\ \E d \in todo[s] :
       /\ ~LockFree(d)
       /\ todo' = [todo EXCEPT ![s] = @ \ {d}]
  /\ UNCHANGED <<netbox, ironic, created, locks, pc, devices, doomed, locals>>

Finish(s) ==
  /\ pc[s] = "next"
  /\ todo[s] = {}
  /\ Goto(s, "rc0")
  /\ UNCHANGED <<netbox, ironic, created, locks, lists, locals>>

\* baremetal_node_show.
Show(s) ==
  /\ pc[s] = "show"
  /\ node' = [node EXCEPT ![s] = Live(s)]
  /\ Goto(s, IF Live(s) = NoNode THEN "create" ELSE "update")
  /\ UNCHANGED <<netbox, ironic, created, locks, lists, dev, boot, waiting, outcome>>

\* The name must be free.
Create(s) ==
  /\ pc[s] = "create"
  /\ Live(s) = NoNode
  /\ created < MaxNodes
  /\ created' = created + 1
  /\ ironic' = [ironic EXCEPT ![dev[s]] = Stub]
  /\ node' = [node EXCEPT ![s] = Stub]
  /\ Goto(s, "update")
  /\ UNCHANGED <<netbox, locks, lists, dev, boot, waiting, outcome>>

\* deep_compare finds differences, or none.
Update(s) ==
  /\ pc[s] = "update"
  /\ IF node[s].current
     THEN UNCHANGED <<ironic, node>>
     ELSE Changed(s, [Live(s) EXCEPT !.current = TRUE])
  /\ Goto(s, "list ports")
  /\ UNCHANGED <<netbox, created, locks, lists, dev, boot, waiting, outcome>>

ListPorts(s) ==
  /\ pc[s] = "list ports"
  /\ Known(s)
  /\ node' = [node EXCEPT ![s].ports = Live(s).ports]
  /\ Goto(s, "ports")
  /\ UNCHANGED <<netbox, ironic, created, locks, lists, dev, boot, waiting, outcome>>

Missing(s) == Wanted \ node[s].ports

Surplus(s) == node[s].ports \ Wanted

\* One call for each port: the missing ones are created, then the rest deleted.
Port(s) ==
  /\ pc[s] = "ports"
  /\ Known(s)
  /\ \E m \in IF Missing(s) # {} THEN Missing(s) ELSE Surplus(s) :
       LET With(ports) == IF m \in Wanted THEN ports \cup {m} ELSE ports \ {m}
       IN /\ ironic' = [ironic EXCEPT ![dev[s]].ports = With(@)]
          /\ node' = [node EXCEPT ![s].ports = With(@)]
  /\ UNCHANGED <<netbox, created, locks, pc, lists, dev, boot, waiting, outcome>>

-----------------------------------------------------------------------------
\* `adopt` of the task, or provision_state "active" in NetBox.
Adoption(s) == dev[s] \in Adopted

\* The branches after the validation of the boot interface.
BootStep(s, valid, state) ==
  CASE valid /\ Adoption(s) /\ state = "available" -> "preparing"
    [] valid /\ Adoption(s) /\ state = "manageable" -> "adopting"
    [] valid /\ ~Adoption(s) /\ state = "manageable" -> "skip clean"
    [] ~valid /\ state = "available" -> "demoting"
    [] OTHER -> "release"

\* What is reported when the device needs nothing more.
End(s, next) ==
  outcome' = [outcome EXCEPT ![s] =
                IF next # "release" THEN @ ELSE IF boot'[s] THEN "ok" ELSE "invalid"]

\* baremetal_node_validate answers for the two interfaces.
Validate(s) ==
  /\ pc[s] = "ports"
  /\ Missing(s) \cup Surplus(s) = {}
  /\ Known(s)
  /\ \E management, valid \in BOOLEAN :
       LET next == IF ~management THEN "release"
                   ELSE IF node[s].state \in {"enroll", "clean failed"} THEN "enrolling"
                   ELSE BootStep(s, valid, node[s].state)
       IN /\ boot' = [boot EXCEPT ![s] = management /\ valid]
          /\ Goto(s, next)
          /\ End(s, next)
  /\ UNCHANGED <<netbox, ironic, created, locks, lists, dev, node, waiting>>

\* The requests that are followed by a wait: the state they lead to, the states
\* in which Ironic accepts them, and where they leave the node if they fail.
Goal == [unlocking |-> "manageable", enrolling |-> "manageable", preparing |-> "manageable",
         demoting |-> "manageable", adopting |-> "active", providing |-> "available"]

Accepts == [unlocking |-> {"clean failed"},
            enrolling |-> {"enroll", "clean failed", "available", "adopt failed"},
            preparing |-> {"enroll", "clean failed", "available", "adopt failed"},
            demoting |-> {"enroll", "clean failed", "available", "adopt failed"},
            adopting |-> {"manageable"}, providing |-> {"manageable"}]

Failed(step, n) ==
  IF step = "adopting" THEN "adopt failed"
  ELSE IF step = "providing" /\ n.clean THEN "clean failed"
  ELSE n.state

\* Ironic learns the power of a new node when it looks at it.
Found(n) == IF n.power = "none" THEN {"on", "off"} ELSE {n.power}

\* set_provision_state; Ironic moves the node, or fails to.
Request(s) ==
  LET step == pc[s]
  IN /\ step \in DOMAIN Goal /\ ~waiting[s]
     /\ Known(s) /\ Live(s).state \in Accepts[step]
     /\ \E state \in {Goal[step], Failed(step, Live(s))}, power \in Found(Live(s)) :
          ironic' = [ironic EXCEPT ![dev[s]].state = state, ![dev[s]].power = power]
     /\ waiting' = [waiting EXCEPT ![s] = TRUE]
     /\ UNCHANGED <<netbox, created, locks, pc, lists, dev, node, boot, outcome>>

\* wait_for_nodes_provision_state returns the node in the state waited for.
Wait(s) ==
  LET next == CASE pc[s] = "unlocking" -> "unport"
                [] pc[s] = "enrolling" -> "power"
                [] pc[s] = "preparing" -> "adopting"
                [] pc[s] = "demoting" -> "keep clean off"
                [] OTHER -> "activate clean"
  IN /\ pc[s] \in DOMAIN Goal /\ waiting[s]
     /\ Known(s) /\ Live(s).state = Goal[pc[s]]
     /\ node' = [node EXCEPT ![s] = Live(s)]
     /\ waiting' = [waiting EXCEPT ![s] = FALSE]
     /\ Goto(s, next)
     /\ UNCHANGED <<netbox, ironic, created, locks, lists, dev, boot, outcome>>

\* A node that was enrolled is switched off, unless it is adopted.
Power(s) ==
  /\ pc[s] = "power"
  /\ IF Adoption(s) \/ node[s].power = "off"
     THEN UNCHANGED <<ironic, node>>
     ELSE Changed(s, [Live(s) EXCEPT !.power = "off"])
  /\ LET next == BootStep(s, boot[s], "manageable")
     IN /\ Goto(s, next)
        /\ UNCHANGED boot
        /\ End(s, next)
  /\ UNCHANGED <<netbox, created, locks, lists, dev, waiting>>

\* baremetal_node_update of automated_clean, if the node known has it otherwise.
SetClean(s, value) ==
  IF node[s].clean = value
  THEN UNCHANGED <<ironic, node>>
  ELSE Changed(s, [Live(s) EXCEPT !.clean = value])

\* Mutant: cleaning is not switched off first.
SkipCleanNot(s) ==
  /\ pc[s] = "skip clean"
  /\ Goto(s, "providing")
  /\ UNCHANGED <<netbox, ironic, created, locks, lists, locals>>

\* No cleaning on the way to available (the boot device is best effort).
SkipClean(s) ==
  /\ pc[s] = "skip clean"
  /\ SetClean(s, FALSE)
  /\ Goto(s, "providing")
  /\ UNCHANGED <<netbox, created, locks, lists, dev, boot, waiting, outcome>>

\* Automated cleaning is on from now, or off for a demoted node.
Settle(s) ==
  /\ \/ pc[s] = "activate clean" /\ SetClean(s, TRUE)
     \/ pc[s] = "keep clean off" /\ SetClean(s, FALSE)
  /\ Goto(s, "release")
  /\ UNCHANGED boot
  /\ End(s, "release")
  /\ UNCHANGED <<netbox, created, locks, lists, dev, waiting>>

Calls == {"show", "create", "update", "list ports", "ports", "enrolling", "power",
          "preparing", "demoting", "adopting", "skip clean", "providing",
          "activate clean", "keep clean off"}

\* `except Exception`: the device is not fully synchronised.
Raises(s) ==
  /\ pc[s] \in Calls
  /\ outcome' = [outcome EXCEPT ![s] = "failed"]
  /\ waiting' = [waiting EXCEPT ![s] = FALSE]
  /\ Goto(s, "release")
  /\ UNCHANGED <<netbox, ironic, created, locks, lists, dev, node, boot>>

\* The `finally`: a lock that has lapsed makes release raise, which ends the run.
Release(s) ==
  /\ pc[s] = "release"
  /\ lock' = [lock EXCEPT ![dev[s]] = IF @ = s THEN Nobody ELSE @]
  /\ Goto(s, IF lock[dev[s]] = s THEN "next" ELSE "raised")
  /\ Forget(s)
  /\ UNCHANGED <<netbox, ironic, created, lapsed, lists>>

-----------------------------------------------------------------------------
\* The worker dies while it works on a device: the lock stays.
Kill(s) ==
  /\ pc[s] \in Calls \cup {"release"}
  /\ Goto(s, "killed")
  /\ todo' = [todo EXCEPT ![s] = {}]
  /\ Forget(s)
  /\ UNCHANGED <<netbox, ironic, created, locks, devices, doomed>>

\* auto_release_time=600 has passed.
AutoRelease(d) ==
  /\ lock[d] # Nobody
  /\ pc[lock[d]] = "killed" \/ lock[d] \in Overdue
  /\ lock' = [lock EXCEPT ![d] = Nobody]
  /\ lapsed' = IF pc[lock[d]] = "killed" THEN lapsed ELSE lapsed \cup {lock[d]}
  /\ UNCHANGED <<netbox, ironic, created, pc, lists, locals>>

\* The device is removed from NetBox.
Retire(d) ==
  /\ d \in Retired \cap netbox
  /\ netbox' = netbox \ {d}
  /\ UNCHANGED <<ironic, created, locks, pc, lists, locals>>

\* An instance is put on an available node, and taken off an active one, which
\* Ironic then cleans if automated cleaning is on.
Deploy(d) ==
  /\ ironic[d] # NoNode /\ ironic[d].state = "available"
  /\ ironic' = [ironic EXCEPT ![d].state = "active", ![d].instance = TRUE, ![d].power = "on"]
  /\ UNCHANGED <<netbox, created, locks, pc, lists, locals>>

Undeploy(d) ==
  /\ ironic[d] # NoNode /\ ironic[d].state = "active"
  /\ \E state \in {"available"} \cup (IF ironic[d].clean THEN {"clean failed"} ELSE {}) :
       ironic' = [ironic EXCEPT ![d].state = state, ![d].instance = FALSE, ![d].power = "off"]
  /\ UNCHANGED <<netbox, created, locks, pc, lists, locals>>

Run(s) ==
  \/ Begin(s) \/ ListRaises(s) \/ List(s) \/ PickStale(s) \/ DeletePorts(s) \/ DeleteNode(s)
  \/ StaleRaises(s) \/ StartDevices(s) \/ PrepareRaises(s) \/ Lock(s) \/ LockTimesOut(s) \/ Finish(s)
  \/ Show(s) \/ Create(s) \/ Update(s) \/ ListPorts(s) \/ Port(s) \/ Validate(s)
  \/ Request(s) \/ Wait(s) \/ Power(s) \/ SkipClean(s) \/ Settle(s) \/ Raises(s)
  \/ Release(s)

Next ==
  \/ \E s \in Syncs : Run(s) \/ Kill(s)
  \/ \E d \in Devices : AutoRelease(d) \/ Retire(d) \/ Deploy(d) \/ Undeploy(d)

Spec == Init /\ [][Next]_vars

-----------------------------------------------------------------------------
\* Every variable has its type.
TypeOK ==
  /\ netbox \in SUBSET Devices
  /\ ironic \in [Devices -> Nodes \cup {NoNode}]
  /\ created \in 1..MaxNodes
  /\ lock \in [Devices -> Syncs \cup {Nobody}]
  /\ lapsed \in SUBSET Syncs
  /\ pc \in [Syncs -> Calls \cup {"begin", "list", "stale", "unlocking", "unport", "unnode",
                                 "next", "release", "rc0", "rc1", "raised", "killed"}]
  /\ devices \in [Syncs -> SUBSET Devices]
  /\ doomed \in [Syncs -> SUBSET (Devices \X Nodes)]
  /\ todo \in [Syncs -> SUBSET Devices]
  /\ dev \in [Syncs -> Devices \cup {NoNode}]
  /\ node \in [Syncs -> Nodes \cup {NoNode}]
  /\ boot \in [Syncs -> BOOLEAN]
  /\ waiting \in [Syncs -> BOOLEAN]
  /\ outcome \in [Syncs -> {"none", "ok", "invalid", "failed"}]

\* A device reported synchronised has its node: with the attributes and ports
\* NetBox asks for, brought to available or active (or refused there by Ironic) -
\* whatever earlier runs left half done, and whatever other runs do meanwhile,
\* as long as no run outlives its lock and NetBox does not change.
SyncedDeviceIsSettled ==
  lapsed = {} =>
    \A s \in Syncs : pc[s] = "release" /\ outcome[s] = "ok" /\ dev[s] \in netbox =>
      /\ Known(s)
      /\ Live(s).current
      /\ Live(s).ports = Wanted
      /\ Live(s).state \notin {"enroll", "manageable"}
      /\ node[s].state \in {"available", "active", "adopt failed"}

\* "It is also safer to not clean during sync": no node is provided while its
\* automated cleaning is on.
SyncNeverCleans ==
  [][lapsed = {} =>
       \A s \in Syncs : pc[s] = "providing" /\ waiting'[s] /\ ~waiting[s] => ~Live(s).clean]_vars

\* A device that has been in NetBox all the time never loses its node, nor the
\* ports it should have, to a run - in particular not to one for another device.
DevicesKeepTheirNode ==
  [][\A d \in netbox' : ironic[d] # NoNode =>
       ironic'[d] # NoNode /\ ironic[d].ports \cap Wanted \subseteq ironic'[d].ports]_vars

\* "Activate automated cleaning, so that future actions will trigger it": an
\* available node whose device was reported synchronised has it on.
AvailableNodesAreCleaned ==
  lapsed = {} =>
    \A s \in Syncs : pc[s] = "release" /\ outcome[s] = "ok" /\ Known(s) =>
      (Live(s).state = "available" => Live(s).clean)
=============================================================================
