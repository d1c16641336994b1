------------------------- MODULE BaremetalOperations -------------------------
(* The `osism baremetal` commands (commands/baremetal.py).  A command reads   *)
(* the nodes once and then walks over this snapshot, one request to Ironic    *)
(* after the other, while Ironic works and other operators run commands of    *)
(* their own.  Ironic is external: it takes a request in the states Moves     *)
(* lists, and ends it some time later; its answer may be lost.                *)
EXTENDS Naturals, Sequences

CONSTANTS
  Nodes,
  Operators,   \* each runs one command
  Commands,    \* do: the command, on: its nodes in order, all: --all given,
               \* opts: its other options
  Stock        \* what the nodes may be at first

VARIABLES
  node,    \* Ironic: state, maint(enance), raid (an interface for it), volumes
           \* (RAID configured), info (instance_info), saved (its copy in
           \* extra), disk, steps (being run)
  states,  \* NetBox: the nodes whose provision and power state are set
  cmd      \* the operators' commands

bmVars == <<node, states, cmd>>

NoCall == [pc |-> "idle", rc |-> 0, failed |-> FALSE, todo |-> <<>>, steps |-> {}]

bmInit ==
  /\ node \in Stock
  /\ states = Nodes
  /\ cmd = [o \in Operators |-> NoCall]

-----------------------------------------------------------------------------
(* Ironic.                                                                   *)

Idle == {"enroll", "manageable", "available", "active", "error",
         "deploy failed", "clean failed", "service failed"}

\* What a target of set_node_provision_state is taken in, what the node then is
\* in, and how this ends.
Moves ==
  [active   |-> [from |-> {"available", "deploy failed"}, via |-> "wait call-back", to |-> "active", or |-> "deploy failed"],
   rebuild  |-> [from |-> {"active", "error", "deploy failed"}, via |-> "wait call-back", to |-> "active", or |-> "deploy failed"],
   undeploy |-> [from |-> {"active", "wait call-back", "error", "deploy failed"}, via |-> "deleting", to |-> "available", or |-> "error"],
   provide  |-> [from |-> {"manageable"}, via |-> "providing", to |-> "available", or |-> "clean failed"],
   clean    |-> [from |-> {"manageable"}, via |-> "cleaning", to |-> "manageable", or |-> "clean failed"],
   service  |-> [from |-> {"active"}, via |-> "servicing", to |-> "active", or |-> "service failed"]]

Takes(n, target) ==
  /\ node[n].state \in Moves[target].from
  /\ target \in {"active", "rebuild"} => ~node[n].maint

Erasing == {"erase_devices", "erase_devices_metadata", "burnin_disk"}

\* The states of a node with an instance on its disk.
Hosting ==
  {"active", "wait call-back", "deleting", "error", "deploy failed", "servicing", "service failed", "gone"}

\* At first nothing is under way.
BaremetalAssumption ==
  \A stock \in Stock :
    /\ DOMAIN stock = Nodes
    /\ \A n \in Nodes :
         /\ DOMAIN stock[n] = {"state", "maint", "raid", "volumes", "info", "saved", "disk", "steps"}
         /\ stock[n].state \in Idle /\ stock[n].steps = {}
         /\ stock[n].disk = "instance" => stock[n].state \in Hosting

\* What a request leaves on the disk.
Disk(n, t, ok) ==
  CASE t = "active" -> IF ok THEN "instance" ELSE "blank"
    [] t = "undeploy" /\ ok -> "blank"
    [] node[n].steps \cap Erasing # {} -> "blank"
    [] OTHER -> node[n].disk

\* A request ends: an instance is written or taken away, steps have run.
Ends(n, t, ok) ==
  /\ node[n].state = Moves[t].via
  /\ node' = [node EXCEPT
       ![n].state   = IF ok THEN Moves[t].to ELSE Moves[t].or,
       ![n].steps   = {},
       ![n].info    = @ /\ t # "undeploy",
       ![n].volumes = @ /\ "delete_configuration" \notin node[n].steps,
       ![n].disk    = Disk(n, t, ok)]
  /\ UNCHANGED <<states, cmd>>

Finishes(n) == \E t \in DOMAIN Moves \ {"rebuild"}, ok \in BOOLEAN : Ends(n, t, ok)

-----------------------------------------------------------------------------
(* The walk over the nodes.                                                  *)

On(o)   == Head(cmd[o].todo)
Seen(o) == cmd[o].seen[On(o)]
Opt(o)  == cmd[o].call.opts
Do(o, names) == cmd[o].call.do \in names

End(o, rc) == cmd' = [cmd EXCEPT ![o].pc = "ended", ![o].rc = rc]

\* `continue`, after `failed = True` or without it.
Continue(o, failed) ==
  cmd' = [cmd EXCEPT ![o].pc = "node", ![o].todo = Tail(@), ![o].failed = @ \/ failed]

\* Without the confirmation it asks for, or without any step, a command returns 1.
Refused(q) ==
  \/ q.do = "deploy" /\ q.all /\ "rebuild" \in q.opts /\ "yes" \notin q.opts
  \/ q.do \in {"undeploy", "clean", "delete"} /\ q.all /\ "yes" \notin q.opts
  \/ q.do = "burnin" /\ q.opts \subseteq {"yes"}

\* The steps, without their order, of which nothing depends.
Burnin == [cpu |-> "burnin_cpu", memory |-> "burnin_memory", disk |-> "burnin_disk"]

FirstSteps(q) ==
  CASE q.do = "burnin" ->
         {Burnin[k] : k \in q.opts \cap DOMAIN Burnin}
    [] q.do = "clean" ->
         IF "metadata" \in q.opts THEN {"erase_devices_metadata"} ELSE {"erase_devices"}
    [] OTHER -> {}

\* The nodes of a command that Ironic has.
Listed(q) == LET There(n) == node[n].state # "gone" IN SelectSeq(q.on, There)

\* The command is checked, the cloud is opened, and the nodes are read - once.
take_action(o, q) ==
  /\ cmd[o].pc = "idle"
  /\ \/ cmd' = [cmd EXCEPT ![o].pc = "ended", ![o].rc = 1]
     \/ /\ ~Refused(q) /\ (q.all \/ node[Head(q.on)].state # "gone")
        /\ cmd' = [cmd EXCEPT ![o] =
             [pc |-> "node", call |-> q, seen |-> node, target |-> "none", steps |-> FirstSteps(q),
              todo |-> Listed(q), failed |-> FALSE, rc |-> 0]]
  /\ UNCHANGED <<node, states>>

\* `error` deploys a node whatever its maintenance and --rebuild: "or" binds
\* less than "and".
Target(s, opts) ==
  IF s.state \in {"available", "deploy failed"} /\ ~s.maint THEN "active"
  ELSE IF s.state = "error" \/ (s.state = "active" /\ ~s.maint /\ "rebuild" \in opts)
  THEN "rebuild" ELSE "none"

\* What each command does with a node, by the state it was seen in: where it
\* starts, and the target of set_node_provision_state it will ask for.
Skip == <<"skip", "none">>

BaremetalDeploy(s, opts) == IF Target(s, opts) = "none" THEN Skip ELSE <<"refresh", Target(s, opts)>>

BaremetalUndeploy(s) ==
  IF s.state \in {"active", "wait call-back", "deploy failed", "error"} THEN <<"request", "undeploy">> ELSE Skip

BaremetalProvide(s) == IF s.state = "manageable" /\ ~s.maint THEN <<"request", "provide">> ELSE Skip

BaremetalClean(s) ==
  CASE s.state = "available"  -> <<"manage", "clean">>
    [] s.state = "manageable" -> <<"refresh", "clean">>
    [] OTHER                  -> Skip

BaremetalBurnIn(s, opts) ==
  IF s.state # "active" THEN BaremetalClean(s)
  ELSE IF "yes" \in opts THEN <<"request", "service">> ELSE Skip

Entry(q, s) ==
  CASE q.do = "deploy"   -> BaremetalDeploy(s, q.opts)
    [] q.do = "undeploy" -> BaremetalUndeploy(s)
    [] q.do = "provide"  -> BaremetalProvide(s)
    [] q.do = "clean"    -> BaremetalClean(s)
    [] q.do = "burnin"   -> BaremetalBurnIn(s, q.opts)
    [] q.do = "delete"   -> <<"ports", "none">>
    [] OTHER             -> <<"request", "none">>

\* The next node.  A RAID interface adds a step to those of this node, and of all
\* that follow.
Look(o) ==
  /\ cmd[o].pc = "node" /\ cmd[o].todo # <<>>
  /\ LET raid == IF Do(o, {"clean"}) /\ "metadata" \notin Opt(o) /\ Seen(o).raid
                 THEN {"delete_configuration"} ELSE {}
         entry == Entry(cmd[o].call, Seen(o))
     IN cmd' = [cmd EXCEPT
                  ![o].steps = @ \cup raid, ![o].target = entry[2],
                  ![o].pc = IF entry = Skip THEN "node" ELSE entry[1],
                  ![o].todo = IF entry = Skip THEN Tail(@) ELSE @]
  /\ UNCHANGED <<node, states>>

\* `if failed: return 1`
Done(o) ==
  /\ cmd[o].pc = "node" /\ cmd[o].todo = <<>>
  /\ End(o, IF cmd[o].failed THEN 1 ELSE 0)
  /\ UNCHANGED <<node, states>>

\* Available nodes are moved to manageable first, and waited for.
Manage(o) ==
  LET n == On(o) IN
  /\ cmd[o].pc = "manage"
  /\ \/ /\ node[n].state \in {"available", "manageable", "clean failed", "enroll"}
        /\ node' = [node EXCEPT ![n].state = "manageable"]
        /\ \/ cmd' = [cmd EXCEPT ![o].pc = "refresh", ![o].seen[n] = node'[n]]
           \/ Continue(o, TRUE)
     \/ Continue(o, TRUE) /\ UNCHANGED node
  /\ UNCHANGED states

\* Ironic removed instance_info on undeploy: it is put back from extra.  This
\* call is not guarded: its failure ends the command.
Refresh(o) ==
  LET n == On(o) IN
  /\ cmd[o].pc = "refresh"
  /\ IF ~Seen(o).info /\ Seen(o).saved
     THEN \/ /\ node[n].state \in Idle
             /\ node' = [node EXCEPT ![n].info = TRUE]
             /\ \/ cmd' = [cmd EXCEPT ![o].pc = "request", ![o].seen[n] = node'[n]]
                \/ End(o, 1)
          \/ End(o, 1) /\ UNCHANGED node
     ELSE cmd' = [cmd EXCEPT ![o].pc = "request"] /\ UNCHANGED node
  /\ UNCHANGED states

\* A bug: a burn-in of a node in service takes all steps.
AllSteps(o) == cmd[o].steps

\* Disk burn-in is left out for an active node.
Steps(o) ==
  IF cmd[o].target = "service" THEN cmd[o].steps \ {"burnin_disk"} ELSE cmd[o].steps

\* The request itself, with the steps that go with it.  A deployment validates
\* the node first: a refusal is a failure of this node, any other exception ends
\* the command.
Request(o) ==
  LET n == On(o) target == cmd[o].target IN
  /\ cmd[o].pc = "request" /\ target # "none"
  /\ \/ /\ Takes(n, target)
        /\ node' = [node EXCEPT ![n].state = Moves[target].via, ![n].steps = Steps(o)]
        /\ \E failed \in BOOLEAN : Continue(o, failed)
     \/ Continue(o, TRUE) /\ UNCHANGED node
     \/ Do(o, {"deploy"}) /\ End(o, 1) /\ UNCHANGED node
  /\ UNCHANGED states

\* Maintenance: one call, and its failure is the command's.
Sets(o, do, value) ==
  LET n == On(o) IN
  /\ cmd[o].pc = "request" /\ Do(o, {do})
  /\ \/ /\ node[n].state # "gone"
        /\ node' = [node EXCEPT ![n].maint = value]
        /\ \E rc \in {0, 1} : End(o, rc)
     \/ End(o, 1) /\ UNCHANGED node
  /\ UNCHANGED states

BaremetalMaintenanceSet(o)   == Sets(o, "maintenance", TRUE)
BaremetalMaintenanceUnset(o) == Sets(o, "no maintenance", FALSE)

\* Ports go first, each as far as Ironic lets it, then the node: Ironic keeps
\* one that is at work or holds an instance.
DeleteNode(o) ==
  LET n == On(o) IN
  /\ cmd[o].pc = "ports"
  /\ \/ /\ node[n].state \in (Idle \ {"active"}) \cup {"gone"}
        /\ node' = [node EXCEPT ![n].state = "gone"]
        /\ cmd' = [cmd EXCEPT ![o].pc = "clear"] \/ Continue(o, TRUE)
     \/ Continue(o, TRUE) /\ UNCHANGED node
  /\ UNCHANGED states

\* Then its states in the NetBoxes are cleared; what fails there is only logged.
ClearStates(o) ==
  /\ cmd[o].pc = "clear"
  /\ \/ states' = states \ {On(o)}
     \/ UNCHANGED states
  /\ Continue(o, FALSE)
  /\ UNCHANGED node

Command(o) ==
  \/ \E q \in Commands : take_action(o, q)
  \/ Look(o) \/ Done(o) \/ Manage(o) \/ Refresh(o) \/ Request(o)
  \/ BaremetalMaintenanceSet(o) \/ BaremetalMaintenanceUnset(o) \/ DeleteNode(o) \/ ClearStates(o)

bmNext ==
  \/ \E o \in Operators : Command(o)
  \/ \E n \in Nodes : Finishes(n)

-----------------------------------------------------------------------------
\* "Skip disk burn-in, so that we do not accidentaly overwrite the root disk":
\* whatever a command saw some time ago, and whatever others do meanwhile, an
\* instance's disk changes only in a deployment, an undeployment or a rebuild.
InstancesSurvive ==
  [][\A n \in Nodes : node[n].disk = "instance" /\ node'[n].disk # "instance" =>
       node[n].state \in {"wait call-back", "deleting"}]_node
=============================================================================
