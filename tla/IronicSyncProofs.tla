-------------------------- MODULE IronicSyncProofs --------------------------
(***************************************************************************)
(* What holds of any number of synchronisations, devices and ports.  Two   *)
(* groups of facts make up the invariant.  Without any lock: what a run    *)
(* deletes has left NetBox before.  With the lock of its device: the run's *)
(* copy of the node is as good as the node, but for what Nova changes.     *)
(***************************************************************************)
EXTENDS IronicSync, TLAPS

\* A run that works on a device of its list, or on a stale node; and one that
\* has a node already.
Working == Calls \cup {"release"}
Stales == {"unlocking", "unport", "unnode"}
Holding == Calls \ {"show", "create"}
Early == {"update", "list ports", "ports"}
Unsettled == {"enroll", "manageable"}

Labels == Calls \cup {"begin", "list", "stale", "unlocking", "unport", "unnode",
                      "next", "release", "rc0", "rc1", "raised", "killed"}

Positions ==
  \A s \in Syncs : /\ pc[s] \in Working \cup Stales => dev[s] \in Devices
                   /\ pc[s] \in Holding \cup Stales => node[s] \in Nodes

Types == TypeOK /\ Positions

\* Nothing that is in NetBox is on its way to be deleted.
Spared(s) ==
  /\ pc[s] = "list" => netbox \cap Only[s] \subseteq devices[s]
  /\ \A entry \in doomed[s] : entry[1] \notin netbox
  /\ pc[s] \in Stales => dev[s] \notin netbox

\* A run owns the lock of its device.
Owns(s) == pc[s] \in Working => lock[dev[s]] = s

\* It knows whether Ironic would clean the node, and does not provide one then.
KnowsClean(s) ==
  pc[s] \in Holding /\ Known(s) =>
    /\ node[s].clean = Live(s).clean
    /\ pc[s] = "providing" => ~Live(s).clean

\* What it has done for a device of NetBox stays done.
Done(s) ==
  /\ Known(s)
  /\ node[s].current = Live(s).current
  /\ pc[s] # "update" => Live(s).current
  /\ pc[s] = "ports" => Live(s).ports = node[s].ports
  /\ pc[s] \notin Early => Live(s).ports = Wanted
  /\ pc[s] \in Early /\ node[s].state \notin Unsettled => Live(s).state \notin Unsettled
  /\ pc[s] = "activate clean" =>
       /\ node[s].state \in {"available", "active"}
       /\ \/ Live(s).state \in {"available", "active"}
          \/ Live(s).clean /\ Live(s).state = "clean failed"
  /\ pc[s] \in {"demoting", "keep clean off"} => ~boot[s]

Settled(s) ==
  /\ Known(s)
  /\ Live(s).current
  /\ Live(s).ports = Wanted
  /\ Live(s).state \notin Unsettled
  /\ node[s].state \in {"available", "active", "adopt failed"}

Keeps(s) ==
  dev[s] \in netbox => /\ pc[s] \in Holding => Done(s)
                       /\ pc[s] = "release" /\ outcome[s] = "ok" => Settled(s)

IInv ==
  /\ Types
  /\ \A s \in Syncs : Spared(s)
  /\ lapsed = {} => \A s \in Syncs : Owns(s) /\ KnowsClean(s) /\ Keeps(s)

-----------------------------------------------------------------------------
\* What each request leads to.
LEMMA Goals ==
  /\ DOMAIN Goal = {"unlocking", "enrolling", "preparing", "demoting", "adopting", "providing"}
  /\ \A step \in DOMAIN Goal \ {"adopting", "providing"} : Goal[step] = "manageable"
  /\ Goal["adopting"] = "active"
  /\ Goal["providing"] = "available"
<1>1. DOMAIN Goal = {"unlocking", "enrolling", "preparing", "demoting", "adopting", "providing"}
  BY DEF Goal
<1>2. Goal["adopting"] = "active" BY DEF Goal
<1>3. Goal["providing"] = "available" BY DEF Goal
<1>4. Goal["unlocking"] = "manageable" BY DEF Goal
<1>5. Goal["enrolling"] = "manageable" BY DEF Goal
<1>6. Goal["preparing"] = "manageable" BY DEF Goal
<1>7. Goal["demoting"] = "manageable" BY DEF Goal
<1> QED BY <1>1, <1>2, <1>3, <1>4, <1>5, <1>6, <1>7

\* The changes that are made to a node leave it a node.
LEMMA NodeChanges ==
  ASSUME NEW n \in Nodes
  PROVE  /\ [n EXCEPT !.current = TRUE] \in Nodes
         /\ [n EXCEPT !.power = "off"] \in Nodes
         /\ \A value \in BOOLEAN : [n EXCEPT !.clean = value] \in Nodes
         /\ \A ports \in SUBSET (Wanted \cup {"extra"}) : [n EXCEPT !.ports = ports] \in Nodes
         /\ n.ports \in SUBSET (Wanted \cup {"extra"})
BY DEF Nodes

LEMMA PositionsMove ==
  ASSUME Types, NEW s \in Syncs, NEW label \in Labels,
         NEW d \in Devices \cup {NoNode}, NEW n \in Nodes \cup {NoNode},
         pc' = [pc EXCEPT ![s] = label], dev' = [dev EXCEPT ![s] = d], node' = [node EXCEPT ![s] = n],
         label \in Working \cup Stales => d \in Devices,
         label \in Holding \cup Stales => n \in Nodes
  PROVE  /\ pc' \in [Syncs -> Labels]
         /\ dev' \in [Syncs -> Devices \cup {NoNode}]
         /\ node' \in [Syncs -> Nodes \cup {NoNode}]
         /\ Positions'
BY DEF Types, TypeOK, Positions, Labels

\* A run that works on nothing needs no device.
LEMMA IdleMove ==
  ASSUME Types, NEW s \in Syncs, NEW label \in {"list", "rc0", "rc1", "raised"},
         pc' = [pc EXCEPT ![s] = label], UNCHANGED <<dev, node>>
  PROVE  pc' \in [Syncs -> Labels] /\ Positions'
<1>1. label \in Labels /\ label \notin Working \cup Stales /\ label \notin Holding
  BY DEF Labels, Working, Stales, Holding, Calls
<1> QED BY <1>1 DEF Types, TypeOK, Positions, Labels

LEMMA IronicMoves ==
  ASSUME Types, NEW d \in Devices, NEW n \in Nodes \cup {NoNode}, ironic' = [ironic EXCEPT ![d] = n]
  PROVE  ironic' \in [Devices -> Nodes \cup {NoNode}]
BY DEF Types, TypeOK

\* A run that holds a node goes on to another call for it, or to its release.
LEMMA StayOn ==
  ASSUME Types, NEW s \in Syncs, pc[s] \in Holding, NEW label \in Calls \cup {"release"}, NEW n \in Nodes,
         pc' = [pc EXCEPT ![s] = label], dev' = dev, node' = [node EXCEPT ![s] = n]
  PROVE  /\ pc' \in [Syncs -> Labels]
         /\ node' \in [Syncs -> Nodes \cup {NoNode}]
         /\ Positions'
<1>1. dev[s] \in Devices BY DEF Types, TypeOK, Positions, Working, Holding
<1>2. dev' = [dev EXCEPT ![s] = dev[s]] BY DEF Types, TypeOK
<1> QED BY <1>1, <1>2, PositionsMove DEF Labels

LEMMA LiveNode ==
  ASSUME Types, NEW s \in Syncs, pc[s] \in Working \cup Stales, Known(s)
  PROVE  dev[s] \in Devices /\ Live(s) \in Nodes
BY DEF Types, TypeOK, Positions, Known, Live

LEMMA ChangedTypes ==
  ASSUME Types, NEW s \in Syncs, pc[s] \in Holding, NEW change,
         UNCHANGED <<ironic, node>> \/ (Known(s) /\ change \in Nodes /\ Changed(s, change))
  PROVE  /\ ironic' \in [Devices -> Nodes \cup {NoNode}]
         /\ \E n \in Nodes : node' = [node EXCEPT ![s] = n]
<1>1. dev[s] \in Devices /\ node[s] \in Nodes BY DEF Types, TypeOK, Positions, Working, Holding
<1> QED BY <1>1, IronicMoves DEF Changed, Types, TypeOK

\* Ironic moves the node to another state, and may find its power.
LEMMA Requests ==
  ASSUME Types, NEW s \in Syncs, Request(s)
  PROVE  /\ dev[s] \in Devices /\ Live(s) \in Nodes
         /\ \E state \in States, power \in {"none", "on", "off"} :
              ironic' = [ironic EXCEPT ![dev[s]] = [Live(s) EXCEPT !.state = state, !.power = power]]
         /\ \A state \in States, power \in {"none", "on", "off"} :
              [Live(s) EXCEPT !.state = state, !.power = power] \in Nodes
<1>1. dev[s] \in Devices /\ Live(s) \in Nodes BY Goals, LiveNode DEF Request, Working, Stales, Calls
<1>2. PICK state \in States, power \in {"none", "on", "off"} :
        ironic' = [ironic EXCEPT ![dev[s]].state = state, ![dev[s]].power = power]
  <2>1. Goal[pc[s]] \in States BY Goals DEF Request, States
  <2>2. Failed(pc[s], Live(s)) \in States BY <1>1 DEF Failed, Nodes, States
  <2>3. Found(Live(s)) \subseteq {"none", "on", "off"} BY <1>1 DEF Found, Nodes
  <2> QED BY <2>1, <2>2, <2>3 DEF Request
<1>3. ironic' = [ironic EXCEPT ![dev[s]] = [Live(s) EXCEPT !.state = state, !.power = power]]
  BY <1>1, <1>2 DEF Live
<1>4. \A st \in States, po \in {"none", "on", "off"} :
        [Live(s) EXCEPT !.state = st, !.power = po] \in Nodes
  BY <1>1 DEF Nodes
<1> QED BY <1>1, <1>3, <1>4

LEMMA RunTypes ==
  ASSUME Types, NEW s \in Syncs, Run(s)
  PROVE  Types'
<1> USE IronicAssumption DEF Types, TypeOK, Positions, locks, lists, locals, Goto, Forget
<1>1. CASE Begin(s)
  <2>1. PICK label \in {"list", "rc1"} : pc' = [pc EXCEPT ![s] = label] BY <1>1 DEF Begin
  <2>2. devices' \in [Syncs -> SUBSET Devices] BY <1>1 DEF Begin
  <2>3. pc' \in [Syncs -> Labels] /\ Positions' BY <1>1, <2>1, IdleMove DEF Begin
  <2> QED BY <1>1, <2>2, <2>3 DEF Begin, Labels
<1>2. CASE List(s)
  <2>1. \A d \in Stale(s) : d \in Devices /\ ironic[d] \in Nodes BY DEF Stale
  <2>2. doomed' \in [Syncs -> SUBSET (Devices \X Nodes)] BY <1>2, <2>1 DEF List
  <2> QED BY <1>2, <2>2 DEF List, Stales, Working, Holding, Calls
<1>3. CASE PickStale(s)
  <2>1. PICK entry \in doomed[s] :
          /\ doomed' = [doomed EXCEPT ![s] = @ \ {entry}]
          /\ dev' = [dev EXCEPT ![s] = entry[1]]
          /\ node' = [node EXCEPT ![s] = entry[2]]
          /\ Goto(s, IF entry[2].state = "clean failed" THEN "unlocking" ELSE "unport")
    BY <1>3 DEF PickStale
  <2>2. entry[1] \in Devices /\ entry[2] \in Nodes OBVIOUS
  <2>3. Positions' /\ pc' \in [Syncs -> Labels] /\ dev' \in [Syncs -> Devices \cup {NoNode}]
        /\ node' \in [Syncs -> Nodes \cup {NoNode}]
    BY <2>1, <2>2, PositionsMove DEF Labels
  <2>4. doomed' \in [Syncs -> SUBSET (Devices \X Nodes)] BY <2>1
  <2> QED BY <1>3, <2>3, <2>4 DEF PickStale, Labels
<1>4. CASE DeletePorts(s)
  <2>1. dev[s] \in Devices /\ Live(s) \in Nodes BY <1>4 DEF DeletePorts, Known, Live, Stales
  <2>2. ironic' = [ironic EXCEPT ![dev[s]] = [Live(s) EXCEPT !.ports = {}]]
    BY <1>4, <2>1 DEF DeletePorts, Live
  <2>3. ironic' \in [Devices -> Nodes \cup {NoNode}] BY <2>1, <2>2, NodeChanges, IronicMoves
  <2> QED BY <1>4, <2>3 DEF DeletePorts, Stales, Working, Holding, Calls
<1>5. CASE DeleteNode(s) BY <1>5 DEF DeleteNode, Stales, Working, Holding, Calls
<1>6. CASE StaleRaises(s) BY <1>6 DEF StaleRaises, Stales, Working, Holding, Calls
<1>7. CASE StartDevices(s) BY <1>7 DEF StartDevices, Stales, Working, Holding, Calls
<1>8. CASE Lock(s)
  <2>1. PICK d \in todo[s] : /\ lock' = [lock EXCEPT ![d] = s]
                             /\ todo' = [todo EXCEPT ![s] = @ \ {d}]
                             /\ dev' = [dev EXCEPT ![s] = d]
    BY <1>8 DEF Lock
  <2>2. d \in Devices OBVIOUS
  <2>3. Positions' /\ pc' \in [Syncs -> Labels] /\ dev' \in [Syncs -> Devices \cup {NoNode}]
        /\ node' \in [Syncs -> Nodes \cup {NoNode}]
    <3>1. node' = [node EXCEPT ![s] = node[s]] BY <1>8 DEF Lock
    <3> QED BY <1>8, <2>1, <2>2, <3>1, PositionsMove DEF Lock, Labels, Holding, Stales, Calls
  <2> QED BY <1>8, <2>1, <2>2, <2>3 DEF Lock, Labels
<1>9. CASE LockTimesOut(s)
  <2>1. PICK d \in todo[s] : todo' = [todo EXCEPT ![s] = @ \ {d}] BY <1>9 DEF LockTimesOut
  <2> QED BY <1>9, <2>1 DEF LockTimesOut, Stales, Working, Holding, Calls
<1>10. CASE Finish(s) \/ ListRaises(s) \/ PrepareRaises(s)
  <2>1. PICK label \in {"rc0", "raised"} : pc' = [pc EXCEPT ![s] = label]
    BY <1>10 DEF Finish, ListRaises, PrepareRaises
  <2>2. UNCHANGED <<netbox, ironic, created, lock, lapsed, devices, doomed, todo, dev, node, boot, waiting, outcome>>
    BY <1>10 DEF Finish, ListRaises, PrepareRaises
  <2>3. pc' \in [Syncs -> Labels] /\ Positions' BY <2>1, <2>2, IdleMove
  <2> QED BY <2>2, <2>3 DEF Labels
<1>11. CASE Show(s) BY <1>11 DEF Show, Live, Stales, Working, Holding, Calls
<1>12. CASE Create(s)
  <2>1. dev[s] \in Devices BY <1>12 DEF Create, Working, Calls
  <2>2. created' \in 1..MaxNodes BY <1>12 DEF Create
  <2>0. Stub \in Nodes
    <3> created \in 0..MaxNodes OBVIOUS
    <3> QED BY DEF Stub, Nodes, States
  <2>3. ironic' \in [Devices -> Nodes \cup {NoNode}] BY <1>12, <2>0, <2>1, IronicMoves DEF Create
  <2>4. dev' = [dev EXCEPT ![s] = dev[s]] BY <1>12 DEF Create
  <2>5. Positions' /\ pc' \in [Syncs -> Labels] /\ node' \in [Syncs -> Nodes \cup {NoNode}]
    BY <1>12, <2>0, <2>1, <2>4, PositionsMove DEF Create, Labels, Calls
  <2> QED BY <1>12, <2>2, <2>3, <2>5 DEF Create, Labels
<1>a. Holding \subseteq Calls BY DEF Holding
<1>13. CASE Update(s)
  <2>1. pc[s] \in Holding BY <1>13 DEF Update, Holding, Calls
  <2>2. PICK n \in Nodes : node' = [node EXCEPT ![s] = n] /\ ironic' \in [Devices -> Nodes \cup {NoNode}]
    <3>1. Known(s) => [Live(s) EXCEPT !.current = TRUE] \in Nodes
      BY <2>1, LiveNode, NodeChanges DEF Working, Holding
    <3>2. \/ UNCHANGED <<ironic, node>>
          \/ Known(s) /\ Changed(s, [Live(s) EXCEPT !.current = TRUE])
      BY <1>13 DEF Update, Changed
    <3> QED BY <2>1, <3>1, <3>2, ChangedTypes
  <2>3. Positions' /\ pc' \in [Syncs -> Labels] /\ node' \in [Syncs -> Nodes \cup {NoNode}]
    BY <1>13, <2>1, <2>2, StayOn DEF Update, Calls
  <2> QED BY <1>13, <2>2, <2>3 DEF Update, Labels
<1>14. CASE ListPorts(s)
  <2>1. pc[s] \in Holding BY <1>14 DEF ListPorts, Holding, Calls
  <2>2. Live(s) \in Nodes /\ node[s] \in Nodes BY <1>14, <2>1 DEF ListPorts, Known, Live, Working, Holding
  <2>3. PICK n \in Nodes : node' = [node EXCEPT ![s] = n]
    <3>1. node' = [node EXCEPT ![s] = [node[s] EXCEPT !.ports = Live(s).ports]] BY <1>14 DEF ListPorts
    <3> QED BY <2>2, <3>1, NodeChanges
  <2>4. Positions' /\ pc' \in [Syncs -> Labels] /\ node' \in [Syncs -> Nodes \cup {NoNode}]
    BY <1>14, <2>1, <2>3, StayOn DEF ListPorts, Calls
  <2> QED BY <1>14, <2>4 DEF ListPorts, Labels
<1>15. CASE Port(s)
  <2>1. pc[s] \in Holding BY <1>15 DEF Port, Holding, Calls
  <2>2. Live(s) \in Nodes /\ node[s] \in Nodes BY <1>15, <2>1 DEF Port, Known, Live, Working, Holding
  <2>3. PICK ports \in SUBSET (Wanted \cup {"extra"}), shown \in SUBSET (Wanted \cup {"extra"}) :
          /\ ironic' = [ironic EXCEPT ![dev[s]] = [Live(s) EXCEPT !.ports = ports]]
          /\ node' = [node EXCEPT ![s] = [node[s] EXCEPT !.ports = shown]]
    <3>1. Live(s).ports \in SUBSET (Wanted \cup {"extra"}) /\ node[s].ports \in SUBSET (Wanted \cup {"extra"})
      BY <2>2, NodeChanges
    <3>2. PICK m \in Wanted \cup {"extra"} :
            LET With(ports) == IF m \in Wanted THEN ports \cup {m} ELSE ports \ {m}
            IN /\ ironic' = [ironic EXCEPT ![dev[s]].ports = With(@)]
               /\ node' = [node EXCEPT ![s].ports = With(@)]
      BY <1>15, <3>1 DEF Port, Missing, Surplus
    <3> QED BY <3>1, <3>2 DEF Live
  <2>4. ironic' \in [Devices -> Nodes \cup {NoNode}]
    <3> dev[s] \in Devices BY <2>1 DEF Working, Holding
    <3> QED BY <2>2, <2>3, NodeChanges, IronicMoves
  <2>5. Positions' /\ pc' \in [Syncs -> Labels] /\ node' \in [Syncs -> Nodes \cup {NoNode}]
    <3> [node[s] EXCEPT !.ports = node'[s].ports] \in Nodes BY <2>2, <2>3, NodeChanges
    <3>1. pc' = [pc EXCEPT ![s] = pc[s]] /\ dev' = dev BY <1>15 DEF Port
    <3>2. PICK n \in Nodes : node' = [node EXCEPT ![s] = n] BY <2>2, <2>3, NodeChanges
    <3> QED BY <2>1, <3>1, <3>2, StayOn DEF Holding
  <2> QED BY <1>15, <2>4, <2>5 DEF Port, Labels
<1>16. CASE Validate(s)
  <2>1. pc[s] \in Holding BY <1>16 DEF Validate, Holding, Calls
  <2>2. PICK label \in Calls \cup {"release"}, b \in BOOLEAN :
          /\ pc' = [pc EXCEPT ![s] = label]
          /\ boot' = [boot EXCEPT ![s] = b]
          /\ outcome' \in [Syncs -> {"none", "ok", "invalid", "failed"}]
    BY <1>16 DEF Validate, BootStep, End, Calls
  <2>3. node[s] \in Nodes /\ node' = [node EXCEPT ![s] = node[s]] BY <1>16, <2>1 DEF Validate
  <2>4. Positions' /\ pc' \in [Syncs -> Labels] /\ node' \in [Syncs -> Nodes \cup {NoNode}]
    BY <1>16, <2>1, <2>2, <2>3, StayOn DEF Validate
  <2> QED BY <1>16, <2>2, <2>4 DEF Validate, Labels
<1>17. CASE Request(s)
  <2>1. PICK state \in States, power \in {"none", "on", "off"} :
          ironic' = [ironic EXCEPT ![dev[s]] = [Live(s) EXCEPT !.state = state, !.power = power]]
    BY <1>17, Requests
  <2>2. dev[s] \in Devices /\ [Live(s) EXCEPT !.state = state, !.power = power] \in Nodes
    BY <1>17, Requests
  <2>5. ironic' \in [Devices -> Nodes \cup {NoNode}] BY <2>1, <2>2, IronicMoves
  <2> QED BY <1>17, <2>5 DEF Request
<1>18. CASE Wait(s)
  <2>1. dev[s] \in Devices /\ Live(s) \in Nodes
    BY <1>18, Goals, LiveNode DEF Wait, Working, Stales, Calls
  <2>2. PICK label \in {"unport", "power", "adopting", "keep clean off", "activate clean"} :
          pc' = [pc EXCEPT ![s] = label]
    BY <1>18 DEF Wait
  <2>3. dev' = [dev EXCEPT ![s] = dev[s]] BY <1>18 DEF Wait
  <2>4. Positions' /\ pc' \in [Syncs -> Labels] /\ node' \in [Syncs -> Nodes \cup {NoNode}]
    <3>1. label \in Labels BY DEF Labels, Calls
    <3>2. node' = [node EXCEPT ![s] = Live(s)] BY <1>18 DEF Wait
    <3> QED BY <2>1, <2>2, <2>3, <3>1, <3>2, PositionsMove
  <2> QED BY <1>18, <2>4 DEF Wait, Labels
<1>19. CASE Power(s)
  <2>1. pc[s] \in Holding BY <1>19 DEF Power, Holding, Calls
  <2>2. PICK n \in Nodes : node' = [node EXCEPT ![s] = n] /\ ironic' \in [Devices -> Nodes \cup {NoNode}]
    <3>1. Known(s) => [Live(s) EXCEPT !.power = "off"] \in Nodes
      BY <2>1, LiveNode, NodeChanges DEF Working, Holding
    <3>2. \/ UNCHANGED <<ironic, node>>
          \/ Known(s) /\ Changed(s, [Live(s) EXCEPT !.power = "off"])
      BY <1>19 DEF Power, Changed
    <3> QED BY <2>1, <3>1, <3>2, ChangedTypes
  <2>3. PICK label \in Calls \cup {"release"} :
          /\ pc' = [pc EXCEPT ![s] = label]
          /\ boot' = boot
          /\ outcome' \in [Syncs -> {"none", "ok", "invalid", "failed"}]
    BY <1>19 DEF Power, BootStep, End, Calls
  <2>4. Positions' /\ pc' \in [Syncs -> Labels] /\ node' \in [Syncs -> Nodes \cup {NoNode}]
    BY <1>19, <2>1, <2>2, <2>3, StayOn DEF Power
  <2> QED BY <1>19, <2>2, <2>3, <2>4 DEF Power, Labels
<1>20. ASSUME NEW value \in BOOLEAN, pc[s] \in Holding, SetClean(s, value)
       PROVE  \E n \in Nodes : node' = [node EXCEPT ![s] = n] /\ ironic' \in [Devices -> Nodes \cup {NoNode}]
  <2>1. Known(s) => [Live(s) EXCEPT !.clean = value] \in Nodes
    BY <1>20, LiveNode, NodeChanges DEF Working, Holding
  <2>2. \/ UNCHANGED <<ironic, node>>
        \/ Known(s) /\ Changed(s, [Live(s) EXCEPT !.clean = value])
    BY <1>20 DEF SetClean, Changed
  <2> QED BY <1>20, <2>1, <2>2, ChangedTypes
<1>21. CASE SkipClean(s)
  <2>1. pc[s] \in Holding BY <1>21 DEF SkipClean, Holding, Calls
  <2>2. PICK n \in Nodes : node' = [node EXCEPT ![s] = n] /\ ironic' \in [Devices -> Nodes \cup {NoNode}]
    BY <1>20, <1>21, <2>1 DEF SkipClean
  <2>3. Positions' /\ pc' \in [Syncs -> Labels] /\ node' \in [Syncs -> Nodes \cup {NoNode}]
    BY <1>21, <2>1, <2>2, StayOn DEF SkipClean, Calls
  <2> QED BY <1>21, <2>2, <2>3 DEF SkipClean, Labels
<1>22. CASE Settle(s)
  <2>1. pc[s] \in Holding BY <1>22 DEF Settle, Holding, Calls
  <2>2. PICK n \in Nodes : node' = [node EXCEPT ![s] = n] /\ ironic' \in [Devices -> Nodes \cup {NoNode}]
    BY <1>20, <1>22, <2>1 DEF Settle
  <2>3. Positions' /\ pc' \in [Syncs -> Labels] /\ node' \in [Syncs -> Nodes \cup {NoNode}]
    BY <1>22, <2>1, <2>2, StayOn DEF Settle
  <2>4. outcome' \in [Syncs -> {"none", "ok", "invalid", "failed"}] BY <1>22 DEF Settle, End
  <2> QED BY <1>22, <2>2, <2>3, <2>4 DEF Settle, Labels
<1>23. CASE Raises(s) BY <1>23 DEF Raises, Stales, Working, Holding, Calls
<1>24. CASE Release(s) BY <1>24 DEF Release, Stales, Working, Holding, Calls
<1> QED BY <1>1, <1>2, <1>3, <1>4, <1>5, <1>6, <1>7, <1>8, <1>9, <1>10, <1>11, <1>12, <1>13,
           <1>14, <1>15, <1>16, <1>17, <1>18, <1>19, <1>21, <1>22, <1>23, <1>24 DEF Run

\* An instance comes or goes.
LEMMA Deployments ==
  ASSUME Types, NEW d \in Devices, Deploy(d) \/ Undeploy(d)
  PROVE  /\ ironic[d] \in Nodes
         /\ \E n \in Nodes :
              /\ ironic' = [ironic EXCEPT ![d] = n]
              /\ n.id = ironic[d].id /\ n.clean = ironic[d].clean
              /\ n.current = ironic[d].current /\ n.ports = ironic[d].ports
              /\ n.state \in {"available", "active"} \/ (ironic[d].clean /\ n.state = "clean failed")
<1>1. ironic[d] \in Nodes BY DEF Types, TypeOK, Deploy, Undeploy
<1>2. CASE Deploy(d)
  <2> DEFINE n == [ironic[d] EXCEPT !.state = "active", !.instance = TRUE, !.power = "on"]
  <2>1. /\ n \in Nodes /\ n.id = ironic[d].id /\ n.clean = ironic[d].clean
        /\ n.current = ironic[d].current /\ n.ports = ironic[d].ports /\ n.state = "active"
    BY <1>1 DEF Nodes, States
  <2>2. ironic' = [ironic EXCEPT ![d] = n] BY <1>2 DEF Deploy
  <2> QED BY <1>1, <2>1, <2>2
<1>3. CASE Undeploy(d)
  <2>1. PICK state \in {"available", "clean failed"} :
          /\ ironic' = [ironic EXCEPT ![d].state = state, ![d].instance = FALSE, ![d].power = "off"]
          /\ state = "clean failed" => ironic[d].clean
    BY <1>3 DEF Undeploy
  <2> DEFINE n == [ironic[d] EXCEPT !.state = state, !.instance = FALSE, !.power = "off"]
  <2>2. /\ n \in Nodes /\ n.id = ironic[d].id /\ n.clean = ironic[d].clean
        /\ n.current = ironic[d].current /\ n.ports = ironic[d].ports /\ n.state = state
    BY <1>1 DEF Nodes, States
  <2>3. ironic' = [ironic EXCEPT ![d] = n] BY <2>1
  <2> QED BY <1>1, <2>1, <2>2, <2>3
<1> QED BY <1>2, <1>3

LEMMA StepTypes ==
  ASSUME Types, [Next]_vars
  PROVE  Types'
<1> USE IronicAssumption DEF Types, TypeOK, Positions, locks, lists, locals, Goto, Forget
<1>1. ASSUME NEW s \in Syncs, Run(s) PROVE Types' BY <1>1, RunTypes
<1>2. ASSUME NEW s \in Syncs, Kill(s) PROVE Types' BY <1>2 DEF Kill, Stales, Working, Holding, Calls
<1>3. ASSUME NEW d \in Devices, AutoRelease(d) PROVE Types' BY <1>3 DEF AutoRelease
<1>4. ASSUME NEW d \in Devices, Retire(d) PROVE Types' BY <1>4 DEF Retire
<1>5. ASSUME NEW d \in Devices, Deploy(d) \/ Undeploy(d) PROVE Types'
  <2>2. PICK n \in Nodes : ironic' = [ironic EXCEPT ![d] = n] BY <1>5, Deployments
  <2>3. ironic' \in [Devices -> Nodes \cup {NoNode}] BY <2>2, IronicMoves
  <2> QED BY <1>5, <2>3 DEF Deploy, Undeploy
<1>6. ASSUME UNCHANGED vars PROVE Types' BY <1>6 DEF vars
<1> QED BY <1>1, <1>2, <1>3, <1>4, <1>5, <1>6 DEF Next
-----------------------------------------------------------------------------
\* The steps of a run leave the positions of the others alone ...
LEMMA OthersStay ==
  ASSUME Types, NEW s \in Syncs, NEW t \in Syncs \ {s}, Run(s) \/ Kill(s)
  PROVE  /\ pc'[t] = pc[t] /\ dev'[t] = dev[t] /\ node'[t] = node[t]
         /\ boot'[t] = boot[t] /\ outcome'[t] = outcome[t]
         /\ doomed'[t] = doomed[t] /\ devices'[t] = devices[t]
<1> USE DEF Types, TypeOK, locks, lists, locals, Goto, Forget
<1>1. CASE Begin(s) \/ List(s) \/ PickStale(s) BY <1>1 DEF Begin, List, PickStale
<1>2. CASE DeletePorts(s) \/ DeleteNode(s) \/ StaleRaises(s) \/ StartDevices(s)
  BY <1>2 DEF DeletePorts, DeleteNode, StaleRaises, StartDevices
<1>3. CASE Lock(s) \/ LockTimesOut(s) \/ Finish(s) \/ ListRaises(s) \/ PrepareRaises(s) BY <1>3 DEF Lock, LockTimesOut, Finish, ListRaises, PrepareRaises
<1>4. CASE Show(s) \/ Create(s) \/ Update(s) BY <1>4 DEF Show, Create, Update, Changed
<1>5. CASE ListPorts(s) \/ Port(s) BY <1>5 DEF ListPorts, Port
<1>6. CASE Validate(s) \/ Request(s) \/ Wait(s) BY <1>6 DEF Validate, End, Request, Wait
<1>7. CASE Power(s) BY <1>7 DEF Power, Changed, End
<1>8. CASE SkipClean(s) BY <1>8 DEF SkipClean, SetClean, Changed
<1>9. CASE Settle(s) BY <1>9 DEF Settle, SetClean, Changed, End
<1>10. CASE Raises(s) \/ Release(s) \/ Kill(s) BY <1>10 DEF Raises, Release, Kill
<1> QED BY <1>1, <1>2, <1>3, <1>4, <1>5, <1>6, <1>7, <1>8, <1>9, <1>10 DEF Run

\* ... NetBox and the leases too, and the nodes but its own ...
LEMMA OneNode ==
  ASSUME Types, NEW s \in Syncs, Run(s)
  PROVE  /\ netbox' = netbox /\ lapsed' = lapsed
         /\ ironic' # ironic =>
              /\ pc[s] \in Calls \cup Stales
              /\ \A d \in Devices \ {dev[s]} : ironic'[d] = ironic[d]
<1> USE DEF Types, TypeOK, locks, lists, locals, Stales, Calls
<1>1. CASE Begin(s) \/ List(s) \/ PickStale(s) BY <1>1 DEF Begin, List, PickStale
<1>2. CASE DeletePorts(s) \/ DeleteNode(s) \/ StaleRaises(s) \/ StartDevices(s)
  BY <1>2 DEF DeletePorts, DeleteNode, StaleRaises, StartDevices
<1>3. CASE Lock(s) \/ LockTimesOut(s) \/ Finish(s) \/ ListRaises(s) \/ PrepareRaises(s) BY <1>3 DEF Lock, LockTimesOut, Finish, ListRaises, PrepareRaises
<1>4. CASE Show(s) \/ Create(s) \/ Update(s) BY <1>4 DEF Show, Create, Update, Changed
<1>5. CASE ListPorts(s) \/ Port(s) BY <1>5 DEF ListPorts, Port
<1>6. CASE Validate(s) \/ Wait(s) BY <1>6 DEF Validate, Wait
<1>11. CASE Request(s)
  <2>1. netbox' = netbox /\ lapsed' = lapsed /\ pc[s] \in Calls \cup Stales BY <1>11, Goals DEF Request
  <2>2. PICK state, power : ironic' = [ironic EXCEPT ![dev[s]].state = state, ![dev[s]].power = power]
    BY <1>11 DEF Request
  <2> QED BY <2>1, <2>2
<1>7. CASE Power(s) BY <1>7 DEF Power, Changed
<1>8. CASE SkipClean(s) BY <1>8 DEF SkipClean, SetClean, Changed
<1>9. CASE Settle(s) BY <1>9 DEF Settle, SetClean, Changed
<1>10. CASE Raises(s) \/ Release(s) BY <1>10 DEF Raises, Release
<1> QED BY <1>1, <1>2, <1>3, <1>4, <1>5, <1>6, <1>7, <1>8, <1>9, <1>10, <1>11 DEF Run

LEMMA StaleSteps ==
  ASSUME NEW s \in Syncs, Run(s), pc[s] \in Stales
  PROVE  DeletePorts(s) \/ DeleteNode(s) \/ StaleRaises(s) \/ Request(s) \/ Wait(s)
BY DEF Stales, Calls, Run, Begin, List, PickStale, StartDevices, Lock, LockTimesOut, Finish, ListRaises, PrepareRaises, Show,
       Create, Update, ListPorts, Port, Validate, Power, SkipClean, Settle, Raises, Release

\* ... and of a stale node it changes neither what it is nor whether it is cleaned.
LEMMA StaleNode ==
  ASSUME Types, NEW s \in Syncs, Run(s), pc[s] \in Stales, ironic' # ironic, ironic'[dev[s]] # NoNode
  PROVE  ironic'[dev[s]].id = ironic[dev[s]].id /\ ironic'[dev[s]].clean = ironic[dev[s]].clean
<1>1. dev[s] \in Devices BY DEF Types, Positions
<1>2. DeletePorts(s) \/ DeleteNode(s) \/ StaleRaises(s) \/ Request(s) \/ Wait(s) BY StaleSteps
<1>3. CASE DeletePorts(s)
  <2>1. Live(s) \in Nodes BY <1>3, LiveNode DEF DeletePorts
  <2> QED BY <1>1, <1>3, <2>1 DEF DeletePorts, Live, Types, TypeOK, Nodes, locks, lists, locals
<1>4. CASE DeleteNode(s) BY <1>1, <1>4 DEF DeleteNode, Types, TypeOK
<1>5. CASE Request(s)
  <2>1. Live(s) \in Nodes BY <1>5, LiveNode DEF Request
  <2>2. dev' = dev BY <1>5 DEF Request
  <2>3. PICK state, power : ironic' = [ironic EXCEPT ![dev[s]].state = state, ![dev[s]].power = power]
    BY <1>5 DEF Request
  <2> QED BY <1>1, <2>1, <2>2, <2>3 DEF Live, Types, TypeOK, Nodes
<1> QED BY <1>2, <1>3, <1>4, <1>5 DEF StaleRaises, Wait
-----------------------------------------------------------------------------
\* Where each wait leads.
LEMMA Waits ==
  ASSUME Types, NEW s \in Syncs, Wait(s)
  PROVE  /\ \/ pc[s] = "unlocking" /\ pc'[s] = "unport"
            \/ pc[s] = "enrolling" /\ pc'[s] = "power"
            \/ pc[s] = "preparing" /\ pc'[s] = "adopting"
            \/ pc[s] = "demoting" /\ pc'[s] = "keep clean off"
            \/ pc[s] \in {"adopting", "providing"} /\ pc'[s] = "activate clean"
         /\ dev' = dev /\ doomed' = doomed /\ lock' = lock
<1>1. pc[s] \in {"unlocking", "enrolling", "preparing", "demoting", "adopting", "providing"}
  BY Goals DEF Wait
<1>2. pc \in [Syncs -> Labels] BY DEF Types, TypeOK, Labels
<1>3. pc' = [pc EXCEPT ![s] = CASE pc[s] = "unlocking" -> "unport"
                                [] pc[s] = "enrolling" -> "power"
                                [] pc[s] = "preparing" -> "adopting"
                                [] pc[s] = "demoting" -> "keep clean off"
                                [] OTHER -> "activate clean"]
  BY DEF Wait, Goto
<1>4. dev' = dev /\ doomed' = doomed /\ lock' = lock BY DEF Wait, locks, lists
<1> QED BY <1>1, <1>2, <1>3, <1>4

-----------------------------------------------------------------------------
\* A run that is not deleting and has not begun to compare deletes nothing.
LEMMA MovesOn ==
  ASSUME Types, NEW s \in Syncs, Spared(s), netbox' = netbox, doomed' = doomed,
         NEW label, Goto(s, label), label \notin Stales \cup {"list"}
  PROVE  Spared(s)'
<1>1. pc'[s] = label BY DEF Types, TypeOK, Goto
<1> QED BY <1>1 DEF Spared

\* The device list is older than the list of nodes: what is in the second only
\* has left NetBox.
LEMMA RunSpares ==
  ASSUME Types, \A s \in Syncs : Spared(s), NEW s \in Syncs, Run(s)
  PROVE  Spared(s)'
<1> USE DEF lists
<1>1. netbox' = netbox BY OneNode DEF Calls
<1>2. CASE Begin(s) BY <1>1, <1>2 DEF Begin, Types, TypeOK, Spared, Stales, Goto, locals
<1>3. CASE List(s)
  <2>1. \A entry \in doomed'[s] : entry[1] \in Only[s] \ devices[s]
    BY <1>3 DEF List, Stale, Types, TypeOK, Spared, Stales
  <2> QED BY <1>1, <1>3, <2>1 DEF List, Types, TypeOK, Spared, Stales, Goto
<1>4. CASE PickStale(s)
  <2>1. PICK entry \in doomed[s] :
          /\ doomed' = [doomed EXCEPT ![s] = @ \ {entry}]
          /\ dev' = [dev EXCEPT ![s] = entry[1]]
          /\ pc'[s] \in Stales
    BY <1>4 DEF PickStale, Types, TypeOK, Stales, Goto
  <2> QED BY <1>1, <2>1 DEF Types, TypeOK, Spared, Stales
<1>5. CASE DeletePorts(s) \/ DeleteNode(s) \/ StaleRaises(s) \/ StartDevices(s)
  BY <1>1, <1>5 DEF DeletePorts, DeleteNode, StaleRaises, StartDevices, Types, TypeOK, Spared,
     Stales, Goto, Forget, locals
<1>6. CASE Lock(s) \/ LockTimesOut(s) \/ Finish(s) \/ ListRaises(s) \/ PrepareRaises(s)
  BY <1>1, <1>6 DEF Lock, LockTimesOut, Finish, ListRaises, PrepareRaises, Types, TypeOK, Spared, Stales, Goto, locals
<1>7. CASE Show(s)
  <2>1. doomed' = doomed BY <1>7 DEF Show
  <2>2. CASE Live(s) = NoNode
    <3> Goto(s, "create") BY <1>7, <2>2 DEF Show
    <3> QED BY <1>1, <2>1, MovesOn DEF Stales
  <2>3. CASE Live(s) # NoNode
    <3> Goto(s, "update") BY <1>7, <2>3 DEF Show
    <3> QED BY <1>1, <2>1, MovesOn DEF Stales
  <2> QED BY <2>2, <2>3
<1>16. CASE Create(s)
  <2>1. doomed' = doomed /\ Goto(s, "update") BY <1>16 DEF Create
  <2> QED BY <1>1, <2>1, MovesOn DEF Stales
<1>17. CASE Update(s)
  <2>1. doomed' = doomed /\ Goto(s, "list ports") BY <1>17 DEF Update
  <2> QED BY <1>1, <2>1, MovesOn DEF Stales
<1>8. CASE ListPorts(s)
  <2>1. doomed' = doomed /\ Goto(s, "ports") BY <1>8 DEF ListPorts
  <2> QED BY <1>1, <2>1, MovesOn DEF Stales
<1>20. CASE Port(s)
  <2>1. UNCHANGED <<pc, devices, doomed, dev>> BY <1>20 DEF Port
  <2> QED BY <1>1, <2>1 DEF Spared
<1>9. CASE Validate(s)
  <2>1. doomed' = doomed /\ \E label \in Calls \cup {"release"} : Goto(s, label)
    BY <1>9 DEF Validate, BootStep, Calls
  <2>2. \A label \in Calls \cup {"release"} : label \notin Stales \cup {"list"} BY DEF Calls, Stales
  <2> QED BY <1>1, <2>1, <2>2, MovesOn
<1>10. CASE Request(s)
  <2>1. UNCHANGED <<pc, devices, doomed, dev>> BY <1>10 DEF Request
  <2> QED BY <1>1, <2>1 DEF Spared
<1>11. CASE Wait(s) BY <1>1, <1>11, Waits DEF Spared, Stales
<1>12. CASE Power(s)
  <2>1. doomed' = doomed
        /\ \E label \in {"preparing", "adopting", "skip clean", "demoting", "release"} : Goto(s, label)
    BY <1>12 DEF Power, BootStep
  <2> QED BY <1>1, <2>1, MovesOn DEF Stales
<1>13. CASE SkipClean(s)
  <2>1. doomed' = doomed /\ Goto(s, "providing") BY <1>13 DEF SkipClean
  <2> QED BY <1>1, <2>1, MovesOn DEF Stales
<1>18. CASE Settle(s)
  <2>1. doomed' = doomed /\ Goto(s, "release") BY <1>18 DEF Settle
  <2> QED BY <1>1, <2>1, MovesOn DEF Stales
<1>14. CASE Raises(s)
  <2>1. doomed' = doomed /\ Goto(s, "release") BY <1>14 DEF Raises
  <2> QED BY <1>1, <2>1, MovesOn DEF Stales
<1>19. CASE Release(s)
  <2>1. doomed' = doomed /\ \E label \in {"next", "raised"} : Goto(s, label) BY <1>19 DEF Release
  <2> QED BY <1>1, <2>1, MovesOn DEF Stales
<1> QED BY <1>2, <1>3, <1>4, <1>5, <1>6, <1>7, <1>8, <1>9, <1>10, <1>11, <1>12, <1>13, <1>14,
           <1>16, <1>17, <1>18, <1>19, <1>20 DEF Run

LEMMA StepSpares ==
  ASSUME Types, \A s \in Syncs : Spared(s), [Next]_vars, NEW t \in Syncs
  PROVE  Spared(t)'
<1>1. CASE Run(t) BY <1>1, RunSpares
<1>2. ASSUME NEW s \in Syncs \ {t}, Run(s) PROVE Spared(t)'
  BY <1>2, OthersStay, OneNode DEF Spared
<1>3. ASSUME NEW s \in Syncs, Kill(s) PROVE Spared(t)'
  <2>1. CASE s = t BY <1>3, <2>1 DEF Kill, Spared, Stales, Types, TypeOK, Goto
  <2>2. CASE s # t
    <3> netbox' = netbox BY <1>3 DEF Kill
    <3> QED BY <1>3, <2>2, OthersStay DEF Spared
  <2> QED BY <2>1, <2>2
<1>4. ASSUME NEW d \in Devices, AutoRelease(d) \/ Retire(d) \/ Deploy(d) \/ Undeploy(d) PROVE Spared(t)'
  <2>1. netbox' \subseteq netbox /\ UNCHANGED <<pc, devices, doomed, dev>>
    BY <1>4 DEF AutoRelease, Retire, Deploy, Undeploy, lists, locals
  <2> QED BY <2>1 DEF Spared
<1>5. CASE UNCHANGED vars BY <1>5 DEF vars, Spared
<1> QED BY <1>1, <1>2, <1>3, <1>4, <1>5 DEF Next

-----------------------------------------------------------------------------
\* While no lease ends early, a run has the lock of its device to itself.
LEMMA RunOwns ==
  ASSUME Types, \A s \in Syncs : Owns(s), NEW s \in Syncs, Run(s)
  PROVE  \A t \in Syncs : Owns(t)'
<1> USE IronicAssumption DEF Types, TypeOK, Positions, locks, lists, locals, Goto, Forget
<1>1. CASE Lock(s)
  <2>1. PICK d \in todo[s] : /\ lock[d] = Nobody
                             /\ lock' = [lock EXCEPT ![d] = s]
                             /\ dev' = [dev EXCEPT ![s] = d]
    BY <1>1 DEF Lock, LockFree
  <2>2. d \in Devices OBVIOUS
  <2>3. Owns(s)' BY <2>1, <2>2 DEF Owns
  <2>4. ASSUME NEW t \in Syncs \ {s} PROVE Owns(t)'
    <3>1. pc'[t] = pc[t] /\ dev'[t] = dev[t] BY OthersStay
    <3>2. pc[t] \in Working => dev[t] \in Devices /\ dev[t] # d BY <2>1 DEF Owns
    <3> QED BY <2>1, <3>1, <3>2 DEF Owns
  <2> QED BY <2>3, <2>4
<1>2. CASE Release(s)
  <2>1. Owns(s)' BY <1>2 DEF Release, Owns, Working, Calls
  <2>2. ASSUME NEW t \in Syncs \ {s} PROVE Owns(t)'
    <3>1. pc'[t] = pc[t] /\ dev'[t] = dev[t] BY OthersStay
    <3>2. pc[t] \in Working => dev[t] \in Devices /\ lock[dev[t]] = t BY DEF Owns
    <3>3. \A d \in Devices : lock[d] # s => lock'[d] = lock[d] BY <1>2 DEF Release
    <3> QED BY <3>1, <3>2, <3>3 DEF Owns
  <2> QED BY <2>1, <2>2
<1>3. CASE ~Lock(s) /\ ~Release(s)
  <2>1. lock' = lock /\ (pc'[s] \in Working => pc[s] \in Working /\ dev'[s] = dev[s])
    <3> pc \in [Syncs -> Labels] BY DEF Labels
    <3> HIDE DEF Types, TypeOK, Positions
    <3> USE DEF Working, Calls
    <3>1. CASE Begin(s) \/ List(s) BY <3>1 DEF Begin, List
    <3>2. CASE PickStale(s) BY <3>2 DEF PickStale
    <3>3. CASE DeletePorts(s) \/ DeleteNode(s) \/ StaleRaises(s) \/ StartDevices(s)
      BY <3>3 DEF DeletePorts, DeleteNode, StaleRaises, StartDevices
    <3>4. CASE LockTimesOut(s) \/ Finish(s) \/ ListRaises(s) \/ PrepareRaises(s) BY <3>4 DEF LockTimesOut, Finish, ListRaises, PrepareRaises
    <3>5. CASE Show(s) \/ Create(s) \/ Update(s) BY <3>5 DEF Show, Create, Update
    <3>6. CASE ListPorts(s) \/ Port(s) BY <3>6 DEF ListPorts, Port
    <3>7. CASE Validate(s) BY <3>7 DEF Validate
    <3>8. CASE Request(s) BY <3>8 DEF Request
    <3>9. CASE Wait(s) BY <3>9, Waits
    <3>10. CASE Power(s) BY <3>10 DEF Power
    <3>11. CASE SkipClean(s) \/ Settle(s) BY <3>11 DEF SkipClean, Settle
    <3>12. CASE Raises(s) BY <3>12 DEF Raises
    <3> QED BY <1>3, <3>1, <3>2, <3>3, <3>4, <3>5, <3>6, <3>7, <3>8, <3>9, <3>10, <3>11, <3>12 DEF Run
  <2>2. Owns(s)' BY <2>1 DEF Owns
  <2>3. ASSUME NEW t \in Syncs \ {s} PROVE Owns(t)' BY <2>1, OthersStay DEF Owns
  <2> QED BY <2>2, <2>3
<1> QED BY <1>1, <1>2, <1>3

LEMMA StepOwns ==
  ASSUME Types, lapsed = {} => \A s \in Syncs : Owns(s), [Next]_vars, lapsed' = {}
  PROVE  /\ lapsed = {}
         /\ \A s \in Syncs : Owns(s)'
<1> USE DEF Types, TypeOK, locks, lists, locals
<1>1. ASSUME NEW s \in Syncs, Run(s) PROVE lapsed = {} /\ \A t \in Syncs : Owns(t)'
  BY <1>1, OneNode, RunOwns
<1>2. ASSUME NEW s \in Syncs, Kill(s) PROVE lapsed = {} /\ \A t \in Syncs : Owns(t)'
  <2>1. lock' = lock /\ lapsed' = lapsed BY <1>2 DEF Kill
  <2>2. Owns(s)' BY <1>2 DEF Kill, Owns, Goto, Working, Calls
  <2> QED BY <1>2, <2>1, <2>2, OthersStay DEF Owns
<1>3. ASSUME NEW d \in Devices, AutoRelease(d) PROVE lapsed = {} /\ \A t \in Syncs : Owns(t)'
  <2>1. /\ pc[lock[d]] = "killed" /\ lock[d] \in Syncs
        /\ lock' = [lock EXCEPT ![d] = Nobody] /\ UNCHANGED <<lapsed, pc, dev>>
    BY <1>3 DEF AutoRelease
  <2>2. ASSUME NEW t \in Syncs, pc[t] \in Working PROVE dev[t] # d
    BY <2>1, <2>2 DEF Owns, Working, Calls
  <2> QED BY <2>1, <2>2 DEF Owns, Positions
<1>4. ASSUME NEW d \in Devices, Retire(d) \/ Deploy(d) \/ Undeploy(d)
      PROVE  lapsed = {} /\ \A t \in Syncs : Owns(t)'
  BY <1>4 DEF Retire, Deploy, Undeploy, Owns
<1>5. CASE UNCHANGED vars BY <1>5 DEF vars, Owns
<1> QED BY <1>1, <1>2, <1>3, <1>4, <1>5 DEF Next
-----------------------------------------------------------------------------
\* What may happen to the node of a device whose lock somebody else has: nothing,
\* a deployment or its end, or, for a device that has left NetBox, its removal.
Undisturbed(d) ==
  \/ ironic'[d] = ironic[d]
  \/ /\ ironic[d] \in Nodes /\ ironic'[d] \in Nodes
     /\ ironic'[d].id = ironic[d].id /\ ironic'[d].clean = ironic[d].clean
     /\ ironic'[d].current = ironic[d].current /\ ironic'[d].ports = ironic[d].ports
     /\ \/ ironic'[d].state \in {"available", "active"}
        \/ ironic[d].clean /\ ironic'[d].state = "clean failed"
  \/ /\ d \notin netbox'
     /\ ironic'[d] # NoNode =>
          /\ ironic[d] # NoNode
          /\ ironic'[d].id = ironic[d].id /\ ironic'[d].clean = ironic[d].clean

\* A run that does nothing meanwhile still knows and keeps what it did.
LEMMA Stay ==
  ASSUME Types, NEW t \in Syncs, KnowsClean(t), Keeps(t), netbox' \subseteq netbox,
         pc'[t] = pc[t], dev'[t] = dev[t], node'[t] = node[t], boot'[t] = boot[t], outcome'[t] = outcome[t],
         pc[t] \in Working => Undisturbed(dev[t])
  PROVE  KnowsClean(t)' /\ Keeps(t)'
<1> USE IronicAssumption
<1>1. CASE pc[t] \notin Working BY <1>1 DEF KnowsClean, Keeps, Working, Holding
<1>2. CASE pc[t] \in Working
  <2>1. KnowsClean(t)' BY <1>2 DEF KnowsClean, Known, Live, Undisturbed, Working
  <2>2. Keeps(t)' BY <1>2 DEF Keeps, Done, Settled, Known, Live, Undisturbed, Working, Unsettled
  <2> QED BY <2>1, <2>2
<1> QED BY <1>1, <1>2

\* The step of one run, for another.
LEMMA OthersUndisturbed ==
  ASSUME IInv, lapsed = {}, NEW s \in Syncs, NEW t \in Syncs \ {s}, Run(s), pc[t] \in Working
  PROVE  Undisturbed(dev[t])
<1>1. dev[t] \in Devices BY DEF IInv, Types, Positions
<1>2. CASE ironic'[dev[t]] = ironic[dev[t]] BY <1>2 DEF Undisturbed
<1>3. CASE ironic'[dev[t]] # ironic[dev[t]]
  <2>1. pc[s] \in Calls \cup Stales /\ dev[s] = dev[t] /\ netbox' = netbox
    BY <1>1, <1>3, OneNode DEF IInv
  <2>2. pc[s] \notin Calls BY <2>1 DEF IInv, Owns, Working
  <2>3. dev[s] \notin netbox /\ ironic' # ironic BY <1>3, <2>1, <2>2 DEF IInv, Spared
  <2>4. ironic[dev[s]] # NoNode
    <3>1. DeletePorts(s) \/ DeleteNode(s) \/ StaleRaises(s) \/ Request(s) \/ Wait(s)
      BY <2>1, <2>2, StaleSteps DEF IInv
    <3> QED BY <2>3, <3>1 DEF DeletePorts, DeleteNode, StaleRaises, Request, Wait, Known
  <2> QED BY <2>1, <2>2, <2>3, <2>4, StaleNode DEF IInv, Undisturbed
<1> QED BY <1>2, <1>3
-----------------------------------------------------------------------------
\* The calls of a run that hold a node and keep it, by what they do to it.
LEMMA Steps ==
  ASSUME Types, NEW s \in Syncs, Run(s)
  PROVE  \/ pc'[s] \notin Holding \cup {"release"}
         \/ Show(s) \/ Create(s) \/ Update(s) \/ ListPorts(s) \/ Port(s) \/ Validate(s)
         \/ Request(s) \/ Wait(s) \/ Power(s) \/ SkipClean(s) \/ Settle(s) \/ Raises(s)
<1> pc \in [Syncs -> Labels] BY DEF Types, TypeOK, Labels
<1> USE DEF Holding, Calls, Goto
<1>1. CASE Begin(s) \/ List(s) \/ PickStale(s)
  <2>1. pc'[s] \in {"rc1", "list", "stale", "unlocking", "unport"} BY <1>1 DEF Begin, List, PickStale
  <2> QED BY <2>1
<1>2. CASE DeletePorts(s) \/ DeleteNode(s) \/ StaleRaises(s) \/ StartDevices(s)
  BY <1>2 DEF DeletePorts, DeleteNode, StaleRaises, StartDevices
<1>3. CASE Lock(s) \/ LockTimesOut(s) \/ Finish(s) \/ ListRaises(s) \/ PrepareRaises(s) BY <1>3 DEF Lock, LockTimesOut, Finish, ListRaises, PrepareRaises
<1>4. CASE Release(s) BY <1>4 DEF Release
<1> QED BY <1>1, <1>2, <1>3, <1>4 DEF Run

\* What the changes of a node leave.
LEMMA NodeFields ==
  ASSUME NEW n \in Nodes
  PROVE  /\ [n EXCEPT !.current = TRUE].id = n.id /\ [n EXCEPT !.current = TRUE].clean = n.clean
         /\ [n EXCEPT !.current = TRUE].current /\ [n EXCEPT !.current = TRUE].ports = n.ports
         /\ [n EXCEPT !.current = TRUE].state = n.state
         /\ [n EXCEPT !.power = "off"].id = n.id /\ [n EXCEPT !.power = "off"].clean = n.clean
         /\ [n EXCEPT !.power = "off"].current = n.current /\ [n EXCEPT !.power = "off"].ports = n.ports
         /\ \A value : /\ [n EXCEPT !.clean = value].id = n.id /\ [n EXCEPT !.clean = value].clean = value
                       /\ [n EXCEPT !.clean = value].current = n.current
                       /\ [n EXCEPT !.clean = value].ports = n.ports
                       /\ [n EXCEPT !.clean = value].state = n.state
         /\ \A ports : /\ [n EXCEPT !.ports = ports].id = n.id /\ [n EXCEPT !.ports = ports].clean = n.clean
                       /\ [n EXCEPT !.ports = ports].current = n.current
                       /\ [n EXCEPT !.ports = ports].ports = ports
                       /\ [n EXCEPT !.ports = ports].state = n.state
         /\ \A state, power :
              /\ [n EXCEPT !.state = state, !.power = power].id = n.id
              /\ [n EXCEPT !.state = state, !.power = power].clean = n.clean
              /\ [n EXCEPT !.state = state, !.power = power].current = n.current
              /\ [n EXCEPT !.state = state, !.power = power].ports = n.ports
BY DEF Nodes

\* A change gives the run the node as it is.
LEMMA ChangedNode ==
  ASSUME Types, NEW s \in Syncs, pc[s] \in Holding, NEW n, Changed(s, n), dev' = dev
  PROVE  dev[s] \in Devices /\ Live(s) \in Nodes /\ ironic'[dev[s]] = n /\ Live(s)' = n /\ node'[s] = n
<1>1. dev[s] \in Devices /\ Live(s) \in Nodes BY LiveNode DEF Changed, Working, Holding
<1> QED BY <1>1 DEF Changed, Live, Types, TypeOK

LEMMA RunKnows ==
  ASSUME Types, NEW s \in Syncs, Run(s), KnowsClean(s)
  PROVE  KnowsClean(s)'
<1> USE IronicAssumption
<1>0. pc \in [Syncs -> Labels] /\ node \in [Syncs -> Nodes \cup {NoNode}]
      /\ dev \in [Syncs -> Devices \cup {NoNode}] /\ ironic \in [Devices -> Nodes \cup {NoNode}]
  BY DEF Types, TypeOK, Labels
<1>1. CASE pc'[s] \notin Holding BY <1>1 DEF KnowsClean
<1>2. CASE pc'[s] \in Holding
  <2>0. pc'[s] # "release" BY <1>2 DEF Holding, Calls
  <2>1. CASE Show(s)
    <3> node'[s] = Live(s) /\ Live(s)' = Live(s) /\ pc'[s] # "providing"
      BY <1>0, <2>1 DEF Show, Live, Goto
    <3> QED BY DEF KnowsClean
  <2>2. CASE Create(s)
    <3>1. dev[s] \in Devices BY <2>2 DEF Types, Positions, Create, Working, Calls
    <3>2. node'[s] = Stub /\ Live(s)' = Stub /\ pc'[s] # "providing"
      BY <1>0, <2>2, <3>1 DEF Create, Live, Goto
    <3> QED BY <3>2 DEF KnowsClean
  <2>3. CASE Update(s)
    <3>1. pc[s] \in Holding /\ pc'[s] # "providing" /\ dev' = dev
      BY <1>0, <2>3 DEF Update, Goto, Holding, Calls
    <3>2. CASE UNCHANGED <<ironic, node>> BY <3>1, <3>2 DEF KnowsClean, Known, Live
    <3>3. CASE Changed(s, [Live(s) EXCEPT !.current = TRUE]) BY <3>1, <3>3, ChangedNode DEF KnowsClean
    <3> QED BY <2>3, <3>2, <3>3 DEF Update
  <2>4. CASE ListPorts(s)
    <3>1. pc[s] \in Holding /\ pc'[s] # "providing" /\ dev' = dev /\ ironic' = ironic
      BY <1>0, <2>4 DEF ListPorts, Goto, Holding, Calls
    <3>2. node[s] \in Nodes BY <3>1 DEF Types, Positions
    <3>3. node'[s] = [node[s] EXCEPT !.ports = Live(s).ports] BY <1>0, <2>4 DEF ListPorts
    <3> QED BY <3>1, <3>2, <3>3, NodeFields DEF KnowsClean, Known, Live
  <2>5. CASE Port(s)
    <3>1. pc[s] \in Holding /\ pc' = pc /\ pc[s] # "providing" /\ dev' = dev
      BY <2>5 DEF Port, Holding, Calls
    <3>2. node[s] \in Nodes /\ dev[s] \in Devices /\ Live(s) \in Nodes
      BY <2>5, <3>1, LiveNode DEF Types, Positions, Working, Holding, Port
    <3>3. PICK ports, shown : /\ ironic' = [ironic EXCEPT ![dev[s]].ports = ports]
                              /\ node' = [node EXCEPT ![s].ports = shown]
      BY <2>5 DEF Port
    <3>4. node'[s] = [node[s] EXCEPT !.ports = shown] /\ Live(s)' = [Live(s) EXCEPT !.ports = ports]
      BY <1>0, <3>1, <3>2, <3>3 DEF Live
    <3> QED BY <2>5, <3>1, <3>2, <3>4, NodeFields DEF KnowsClean, Known, Live, Port
  <2>6. CASE Validate(s)
    <3>1. pc[s] \in Holding /\ UNCHANGED <<ironic, node, dev>> /\ pc'[s] # "providing"
      BY <1>0, <2>6 DEF Validate, BootStep, Goto, Holding, Calls
    <3> QED BY <3>1 DEF KnowsClean, Known, Live
  <2>7. CASE Request(s)
    <3>1. pc' = pc /\ dev' = dev /\ node' = node BY <2>7 DEF Request
    <3>2. dev[s] \in Devices /\ Live(s) \in Nodes
      BY <1>2, <2>7, <3>1, LiveNode DEF Request, Working, Holding
    <3>3. PICK state, power : ironic' = [ironic EXCEPT ![dev[s]].state = state, ![dev[s]].power = power]
      BY <2>7 DEF Request
    <3>4. Live(s)' = [Live(s) EXCEPT !.state = state, !.power = power] BY <1>0, <3>1, <3>2, <3>3 DEF Live
    <3>5. Live(s)'.clean = Live(s).clean BY <3>2, <3>4, NodeFields
    <3> QED BY <1>2, <2>7, <3>1, <3>5 DEF KnowsClean, Request
  <2>8. CASE Wait(s)
    <3>1. node'[s] = Live(s) /\ Live(s)' = Live(s) BY <1>0, <2>8 DEF Wait, Live
    <3>2. pc'[s] # "providing" BY <2>8, Waits
    <3> QED BY <3>1, <3>2 DEF KnowsClean
  <2>9. CASE Power(s)
    <3>1. pc[s] \in Holding /\ pc'[s] # "providing" /\ dev' = dev
      BY <1>0, <2>9 DEF Power, BootStep, Goto, Holding, Calls
    <3>2. CASE UNCHANGED <<ironic, node>> BY <3>1, <3>2 DEF KnowsClean, Known, Live
    <3>3. CASE Changed(s, [Live(s) EXCEPT !.power = "off"]) BY <3>1, <3>3, ChangedNode DEF KnowsClean
    <3> QED BY <2>9, <3>2, <3>3 DEF Power
  <2>10. CASE SkipClean(s)
    <3>1. pc[s] \in Holding /\ dev' = dev BY <2>10 DEF SkipClean, Holding, Calls
    <3>2. CASE UNCHANGED <<ironic, node>> /\ node[s].clean = FALSE
      BY <3>1, <3>2 DEF KnowsClean, Known, Live
    <3>3. CASE Changed(s, [Live(s) EXCEPT !.clean = FALSE])
      <4> DEFINE n == [Live(s) EXCEPT !.clean = FALSE]
      <4>1. Live(s) \in Nodes /\ Live(s)' = n /\ node'[s] = n BY <3>1, <3>3, ChangedNode
      <4>2. n.clean = FALSE BY <4>1, NodeFields
      <4> HIDE DEF n
      <4> QED BY <4>1, <4>2 DEF KnowsClean
    <3> QED BY <2>10, <3>2, <3>3 DEF SkipClean, SetClean
  <2>11. CASE Settle(s) BY <1>0, <1>2, <2>11 DEF Settle, Goto, Holding, Calls
  <2>12. CASE Raises(s) BY <1>0, <1>2, <2>12 DEF Raises, Goto, Holding, Calls
  <2> QED BY <1>2, <2>0, <2>1, <2>2, <2>3, <2>4, <2>5, <2>6, <2>7, <2>8, <2>9, <2>10, <2>11, <2>12, Steps
<1> QED BY <1>1, <1>2
-----------------------------------------------------------------------------
\* What a run has done for its device is still done after its next call.
LEMMA RunKeeps ==
  ASSUME Types, NEW s \in Syncs, Run(s), KnowsClean(s), Keeps(s)
  PROVE  Keeps(s)'
<1> USE IronicAssumption
<1>0. pc \in [Syncs -> Labels] /\ node \in [Syncs -> Nodes \cup {NoNode}]
      /\ dev \in [Syncs -> Devices \cup {NoNode}] /\ ironic \in [Devices -> Nodes \cup {NoNode}]
      /\ boot \in [Syncs -> BOOLEAN] /\ outcome \in [Syncs -> {"none", "ok", "invalid", "failed"}]
  BY DEF Types, TypeOK, Labels
<1>1. CASE pc'[s] \notin Holding \cup {"release"} BY <1>1 DEF Keeps
<1>2. CASE ~(dev'[s] \in netbox') BY <1>2 DEF Keeps
<1>3. CASE pc'[s] \in Holding \cup {"release"} /\ dev'[s] \in netbox'
  <2>0. netbox' = netbox /\ Holding \subseteq Calls BY OneNode DEF Holding
  <2>1. CASE Show(s)
    <3>1. node'[s] = Live(s) /\ Live(s)' = Live(s) /\ Live(s) # NoNode /\ pc'[s] = "update"
      BY <1>0, <1>3, <2>1 DEF Show, Live, Goto, Holding
    <3> QED BY <3>1 DEF Keeps, Done, Known, Live, Early
  <2>2. CASE Create(s)
    <3>1. dev[s] \in Devices BY <2>2 DEF Types, Positions, Create, Working, Calls
    <3>2. node'[s] = Stub /\ Live(s)' = Stub /\ pc'[s] = "update" BY <1>0, <2>2, <3>1 DEF Create, Live, Goto
    <3>3. Stub # NoNode
      <4>1. Stub \in Nodes
        <5> created \in 0..MaxNodes BY DEF Types, TypeOK
        <5> QED BY DEF Stub, Nodes, States
      <4> QED BY <4>1
    <3> QED BY <3>2, <3>3 DEF Keeps, Done, Known, Live, Early
  <2>3. CASE Update(s)
    <3>1. pc[s] = "update" /\ pc[s] \in Holding /\ pc'[s] = "list ports" /\ dev' = dev
      BY <1>0, <2>3 DEF Update, Goto, Holding, Calls
    <3>2. Done(s) BY <1>3, <2>0, <3>1 DEF Keeps
    <3>3. CASE node[s].current /\ UNCHANGED <<ironic, node>>
      BY <3>1, <3>2, <3>3 DEF Keeps, Done, Known, Live, Early
    <3>4. CASE Changed(s, [Live(s) EXCEPT !.current = TRUE])
      <4> DEFINE n == [Live(s) EXCEPT !.current = TRUE]
      <4>1. Live(s) \in Nodes /\ Live(s)' = n /\ node'[s] = n BY <3>1, <3>4, ChangedNode
      <4>2. n \in Nodes /\ n.current BY <4>1, NodeChanges, NodeFields
      <4> HIDE DEF n
      <4>3. Known(s)' BY <4>1, <4>2 DEF Known, Live
      <4> QED BY <3>1, <4>1, <4>2, <4>3 DEF Keeps, Done, Early
    <3> QED BY <2>3, <3>3, <3>4 DEF Update
  <2>4. CASE ListPorts(s)
    <3>1. /\ pc[s] = "list ports" /\ pc[s] \in Holding /\ pc'[s] = "ports" /\ dev' = dev
          /\ ironic' = ironic /\ node'[s] = [node[s] EXCEPT !.ports = Live(s).ports]
      BY <1>0, <2>4 DEF ListPorts, Goto, Holding, Calls
    <3>2. node[s] \in Nodes BY <3>1 DEF Types, Positions
    <3>3. Done(s) BY <1>3, <2>0, <3>1 DEF Keeps
    <3>4. /\ node'[s].id = node[s].id /\ node'[s].current = node[s].current
          /\ node'[s].state = node[s].state /\ node'[s].ports = Live(s).ports
      BY <3>1, <3>2 DEF Nodes
    <3> QED BY <3>1, <3>3, <3>4 DEF Keeps, Done, Known, Live, Early
  <2>5. CASE Port(s)
    <3>1. pc[s] = "ports" /\ pc[s] \in Holding /\ pc' = pc /\ dev' = dev
      BY <2>5 DEF Port, Holding, Calls
    <3>2. node[s] \in Nodes /\ dev[s] \in Devices /\ Live(s) \in Nodes
      BY <2>5, <3>1, LiveNode DEF Types, Positions, Working, Holding, Port
    <3>3. Done(s) BY <1>3, <2>0, <3>1 DEF Keeps
    <3>4. PICK ports : /\ node'[s] = [node[s] EXCEPT !.ports = ports]
                       /\ Live(s)' = [Live(s) EXCEPT !.ports = ports]
      <4>1. Live(s).ports = node[s].ports BY <3>1, <3>3 DEF Done
      <4>2. PICK m :
              LET With(ports) == IF m \in Wanted THEN ports \cup {m} ELSE ports \ {m}
              IN /\ ironic' = [ironic EXCEPT ![dev[s]].ports = With(@)]
                 /\ node' = [node EXCEPT ![s].ports = With(@)]
        BY <2>5 DEF Port
      <4> QED BY <1>0, <3>1, <3>2, <4>1, <4>2 DEF Live
    <3>5. /\ node'[s].id = node[s].id /\ node'[s].current = node[s].current
          /\ node'[s].state = node[s].state /\ node'[s].ports = ports
          /\ Live(s)'.id = Live(s).id /\ Live(s)'.current = Live(s).current
          /\ Live(s)'.state = Live(s).state /\ Live(s)'.ports = ports
      BY <3>2, <3>4, NodeFields
    <3>6. Live(s)' # NoNode
      <4>1. Types' BY RunTypes
      <4>2. node'[s] \in Nodes BY <3>1, <4>1 DEF Types, Positions
      <4>3. ports \in SUBSET (Wanted \cup {"extra"}) BY <3>5, <4>2, NodeChanges
      <4>4. [Live(s) EXCEPT !.ports = ports] \in Nodes BY <3>2, <4>3, NodeChanges
      <4> QED BY <3>4, <4>4
    <3>7. Known(s)' BY <3>3, <3>5, <3>6 DEF Done, Known, Live
    <3> QED BY <3>1, <3>3, <3>5, <3>7 DEF Keeps, Done, Early
  <2>6. CASE Raises(s) BY <1>0, <2>0, <2>6 DEF Raises, Goto, Keeps, Calls
  <2>7. CASE Validate(s)
    <3>1. pc[s] = "ports" /\ pc[s] \in Holding /\ UNCHANGED <<ironic, node, dev>>
      BY <2>7 DEF Validate, Holding, Calls
    <3>2. Done(s) /\ node[s] \in Nodes BY <1>3, <2>0, <3>1 DEF Keeps, Types, Positions
    <3>3. Live(s).ports = Wanted BY <2>7, <3>1, <3>2 DEF Validate, Missing, Surplus, Done
    <3>4. PICK management \in BOOLEAN, valid \in BOOLEAN :
            LET next == IF ~management THEN "release"
                        ELSE IF node[s].state \in {"enroll", "clean failed"} THEN "enrolling"
                        ELSE BootStep(s, valid, node[s].state)
            IN /\ boot' = [boot EXCEPT ![s] = management /\ valid]
               /\ Goto(s, next)
               /\ End(s, next)
      BY <2>7 DEF Validate
    <3>5. boot'[s] = (management /\ valid) BY <1>0, <3>4
    <3>6. CASE pc'[s] = "release"
      <4>1. outcome'[s] = "ok" => management /\ valid BY <1>0, <3>4, <3>5, <3>6 DEF End, Goto
      <4>2. ASSUME management, valid PROVE node[s].state \in {"available", "active", "adopt failed"}
        <5>1. pc'[s] = IF node[s].state \in {"enroll", "clean failed"} THEN "enrolling"
                      ELSE BootStep(s, valid, node[s].state)
          BY <1>0, <3>4, <4>2 DEF Goto
        <5>2. node[s].state \in States BY <3>2 DEF Nodes
        <5> QED BY <3>6, <4>2, <5>1, <5>2 DEF BootStep, States
      <4>3. outcome'[s] = "ok" => Settled(s)'
        BY <3>1, <3>2, <3>3, <4>1, <4>2 DEF Done, Settled, Known, Live, Early, Unsettled
      <4> QED BY <3>6, <4>3 DEF Keeps, Holding, Calls
    <3>7. CASE pc'[s] # "release"
      <4>1. pc'[s] = IF node[s].state \in {"enroll", "clean failed"} THEN "enrolling"
                    ELSE BootStep(s, valid, node[s].state)
        BY <1>0, <3>4, <3>7 DEF Goto
      <4>2. pc'[s] \notin Early \cup {"activate clean", "keep clean off"} BY <4>1 DEF BootStep, Early
      <4>3. pc'[s] = "demoting" => ~valid BY <4>1 DEF BootStep
      <4> QED BY <3>1, <3>2, <3>3, <3>5, <3>7, <4>2, <4>3 DEF Keeps, Done, Known, Live, Early
    <3> QED BY <3>6, <3>7
  <2>8. CASE Request(s)
    <3>1. pc' = pc /\ UNCHANGED <<dev, node, boot>> /\ pc[s] \in DOMAIN Goal BY <2>8 DEF Request
    <3>2. pc[s] \in Holding /\ pc[s] \notin Early \cup {"activate clean", "release"}
      BY <1>3, <3>1, Goals DEF Early
    <3>3. Done(s) BY <1>3, <2>0, <3>1, <3>2 DEF Keeps
    <3>4. PICK state \in States, power \in {"none", "on", "off"} :
            ironic' = [ironic EXCEPT ![dev[s]] = [Live(s) EXCEPT !.state = state, !.power = power]]
      BY <2>8, Requests
    <3>5. /\ dev[s] \in Devices /\ Live(s) \in Nodes
          /\ [Live(s) EXCEPT !.state = state, !.power = power] \in Nodes
      BY <2>8, Requests
    <3>6. Live(s)' = [Live(s) EXCEPT !.state = state, !.power = power] BY <1>0, <3>1, <3>4, <3>5 DEF Live
    <3>7. /\ Live(s)'.id = Live(s).id /\ Live(s)'.current = Live(s).current
          /\ Live(s)'.ports = Live(s).ports
      BY <3>5, <3>6, NodeFields
    <3>8. Live(s)' # NoNode BY <3>5, <3>6
    <3>9. Known(s)' BY <3>1, <3>3, <3>7, <3>8 DEF Done, Known, Live
    <3> QED BY <3>1, <3>2, <3>3, <3>7, <3>9 DEF Keeps, Done
  <2>9. CASE Wait(s)
    <3>1. UNCHANGED <<ironic, dev, boot>> /\ node'[s] = Live(s) /\ Known(s)
      BY <1>0, <2>9 DEF Wait
    <3>2. pc[s] \in Holding /\ pc[s] \notin Early /\ Live(s).state = Goal[pc[s]]
      BY <1>3, <2>9, Waits DEF Wait, Holding, Calls, Early
    <3>3. Done(s) BY <1>3, <2>0, <3>1, <3>2 DEF Keeps
    <3>4. pc'[s] = "activate clean" => Live(s).state \in {"active", "available"}
      BY <2>9, <3>2, Waits, Goals
    <3>5. pc'[s] = "keep clean off" => ~boot[s] BY <2>9, <3>3, Waits DEF Done
    <3>6. pc'[s] \notin Early \cup {"demoting", "release"} BY <2>9, Waits DEF Early
    <3> QED BY <3>1, <3>2, <3>3, <3>4, <3>5, <3>6 DEF Keeps, Done, Known, Live, Early
  <2>10. CASE Power(s)
    <3>1. pc[s] = "power" /\ pc[s] \in Holding /\ dev' = dev /\ boot' = boot
      BY <2>10 DEF Power, Holding, Calls
    <3>2. Done(s) BY <1>3, <2>0, <3>1 DEF Keeps
    <3>3. pc' = [pc EXCEPT ![s] = BootStep(s, boot[s], "manageable")]
      BY <2>10 DEF Power, Goto
    <3>4. pc'[s] \notin Early \cup {"activate clean", "keep clean off"} /\ (pc'[s] = "demoting" => ~boot[s])
      BY <1>0, <3>3 DEF BootStep, Early
    <3>5. pc'[s] = "release" => outcome'[s] = "invalid"
      <4>1. pc'[s] = BootStep(s, boot[s], "manageable") BY <1>0, <3>3
      <4>2. End(s, BootStep(s, boot[s], "manageable")) BY <2>10 DEF Power
      <4>3. pc'[s] = "release" => ~boot[s] BY <4>1 DEF BootStep
      <4> QED BY <1>0, <3>1, <4>1, <4>2, <4>3 DEF End
    <3>6. Known(s)' /\ Live(s)'.current /\ node'[s].current = Live(s)'.current /\ Live(s)'.ports = Wanted
      <4>1. CASE UNCHANGED <<ironic, node>> BY <3>1, <3>2, <4>1 DEF Done, Known, Live, Early
      <4>2. CASE Changed(s, [Live(s) EXCEPT !.power = "off"])
        <5> DEFINE n == [Live(s) EXCEPT !.power = "off"]
        <5>1. Live(s) \in Nodes /\ Live(s)' = n /\ node'[s] = n BY <3>1, <4>2, ChangedNode
        <5>2. n \in Nodes /\ n.current = Live(s).current /\ n.ports = Live(s).ports
          BY <5>1, NodeChanges, NodeFields
        <5> HIDE DEF n
        <5> QED BY <3>1, <3>2, <5>1, <5>2 DEF Done, Known, Live, Early
      <4> QED BY <2>10, <4>1, <4>2 DEF Power
    <3> QED BY <3>1, <3>4, <3>5, <3>6 DEF Keeps, Done, Early
  <2>11. ASSUME NEW value \in BOOLEAN, pc[s] \in Holding \ Early, dev' = dev, SetClean(s, value), Done(s)
         PROVE  /\ Known(s)' /\ Live(s)'.current /\ node'[s].current = Live(s)'.current
                /\ Live(s)'.ports = Wanted /\ Live(s)'.state = Live(s).state
                /\ \/ node'[s].state = node[s].state
                   \/ node'[s].state = Live(s).state /\ node[s].clean # value
    <3>1. CASE UNCHANGED <<ironic, node>> BY <2>11, <3>1 DEF Done, Known, Live, Early
    <3>2. CASE Changed(s, [Live(s) EXCEPT !.clean = value]) /\ node[s].clean # value
      <4> DEFINE n == [Live(s) EXCEPT !.clean = value]
      <4>1. Live(s) \in Nodes /\ Live(s)' = n /\ node'[s] = n BY <2>11, <3>2, ChangedNode
      <4>2. /\ n \in Nodes /\ n.current = Live(s).current /\ n.ports = Live(s).ports
            /\ n.state = Live(s).state
        BY <4>1, NodeChanges, NodeFields
      <4> HIDE DEF n
      <4>3. Known(s)' BY <4>1, <4>2 DEF Known, Live
      <4>4. Live(s).ports = Wanted /\ Live(s).current BY <2>11 DEF Done, Early
      <4> QED BY <3>2, <4>1, <4>2, <4>3, <4>4
    <3> QED BY <2>11, <3>1, <3>2 DEF SetClean
  <2>12. CASE SkipClean(s)
    <3>1. /\ pc[s] = "skip clean" /\ pc[s] \in Holding \ Early /\ dev' = dev /\ boot' = boot
          /\ pc'[s] = "providing" /\ SetClean(s, FALSE)
      BY <1>0, <2>12 DEF SkipClean, Goto, Holding, Calls, Early
    <3>2. Done(s) BY <1>3, <2>0, <3>1 DEF Keeps
    <3> QED BY <2>11, <3>1, <3>2 DEF Keeps, Done, Early
  <2>13. CASE Settle(s)
    <3>1. pc[s] \in Holding \ Early /\ dev' = dev /\ boot' = boot /\ pc'[s] = "release" /\ End(s, "release")
      BY <1>0, <2>13 DEF Settle, Goto, Holding, Calls, Early
    <3>2. Done(s) BY <1>3, <2>0, <3>1 DEF Keeps
    <3>3. outcome'[s] = "ok" => boot[s] BY <1>0, <3>1 DEF End
    <3>4. CASE pc[s] = "activate clean" /\ SetClean(s, TRUE)
      <4>1. /\ Known(s)' /\ Live(s)'.current /\ Live(s)'.ports = Wanted /\ Live(s)'.state = Live(s).state
            /\ \/ node'[s].state = node[s].state
               \/ node'[s].state = Live(s).state /\ node[s].clean # TRUE
        BY <2>11, <3>1, <3>2, <3>4
      <4>2. Live(s).state \notin Unsettled /\ node[s].state \in {"available", "active"}
        BY <3>2, <3>4 DEF Done, Unsettled
      <4>3. node[s].clean # TRUE => Live(s).state \in {"available", "active"}
        <5>1. node[s].clean = Live(s).clean BY <3>1, <3>2 DEF KnowsClean, Done
        <5> QED BY <3>2, <3>4, <5>1 DEF Done
      <4>4. node'[s].state \in {"available", "active"} BY <4>1, <4>2, <4>3
      <4> QED BY <3>1, <4>1, <4>2, <4>4 DEF Keeps, Settled, Holding, Calls
    <3>5. CASE pc[s] = "keep clean off"
      BY <3>1, <3>2, <3>3, <3>5 DEF Done, Keeps, Holding, Calls
    <3> QED BY <2>13, <3>4, <3>5 DEF Settle
  <2> QED BY <1>3, <2>1, <2>2, <2>3, <2>4, <2>5, <2>6, <2>7, <2>8, <2>9, <2>10, <2>12, <2>13, Steps
<1> QED BY <1>1, <1>2, <1>3
-----------------------------------------------------------------------------
LEMMA StepKnowsAndKeeps ==
  ASSUME IInv, [Next]_vars, lapsed' = {}, NEW t \in Syncs
  PROVE  KnowsClean(t)' /\ Keeps(t)'
<1>0. lapsed = {} /\ Types /\ KnowsClean(t) /\ Keeps(t)
  <2>1. lapsed = {} BY StepOwns DEF IInv
  <2> QED BY <2>1 DEF IInv
<1>1. CASE Run(t) BY <1>0, <1>1, RunKnows, RunKeeps
<1>2. ASSUME NEW s \in Syncs \ {t}, Run(s) PROVE KnowsClean(t)' /\ Keeps(t)'
  <2>1. netbox' = netbox BY <1>0, <1>2, OneNode
  <2>2. pc[t] \in Working => Undisturbed(dev[t]) BY <1>0, <1>2, OthersUndisturbed
  <2>3. /\ pc'[t] = pc[t] /\ dev'[t] = dev[t] /\ node'[t] = node[t]
        /\ boot'[t] = boot[t] /\ outcome'[t] = outcome[t]
    BY <1>0, <1>2, OthersStay
  <2> QED BY <1>0, <2>1, <2>2, <2>3, Stay
<1>3. ASSUME NEW s \in Syncs, Kill(s) PROVE KnowsClean(t)' /\ Keeps(t)'
  <2>1. CASE s = t
    <3> pc'[t] = "killed" BY <1>0, <1>3, <2>1 DEF Kill, Goto, Types, TypeOK
    <3> QED BY DEF KnowsClean, Keeps, Holding, Calls
  <2>2. CASE s # t
    <3>1. netbox' = netbox /\ ironic' = ironic BY <1>3 DEF Kill
    <3>2. /\ pc'[t] = pc[t] /\ dev'[t] = dev[t] /\ node'[t] = node[t]
          /\ boot'[t] = boot[t] /\ outcome'[t] = outcome[t]
      BY <1>0, <1>3, <2>2, OthersStay
    <3> QED BY <1>0, <3>1, <3>2, Stay DEF Undisturbed
  <2> QED BY <2>1, <2>2
<1>4. ASSUME NEW d \in Devices, AutoRelease(d) \/ Retire(d) PROVE KnowsClean(t)' /\ Keeps(t)'
  <2>1. netbox' \subseteq netbox /\ UNCHANGED <<ironic, pc, dev, node, boot, outcome>>
    BY <1>4 DEF AutoRelease, Retire, locals
  <2> QED BY <1>0, <2>1, Stay DEF Undisturbed
<1>5. ASSUME NEW d \in Devices, Deploy(d) \/ Undeploy(d) PROVE KnowsClean(t)' /\ Keeps(t)'
  <2>1. netbox' = netbox /\ UNCHANGED <<pc, dev, node, boot, outcome>> BY <1>5 DEF Deploy, Undeploy, locals
  <2>2. PICK n \in Nodes :
          /\ ironic' = [ironic EXCEPT ![d] = n]
          /\ n.id = ironic[d].id /\ n.clean = ironic[d].clean
          /\ n.current = ironic[d].current /\ n.ports = ironic[d].ports
          /\ n.state \in {"available", "active"} \/ (ironic[d].clean /\ n.state = "clean failed")
    BY <1>0, <1>5, Deployments
  <2>3. ironic[d] \in Nodes /\ ironic \in [Devices -> Nodes \cup {NoNode}]
    BY <1>0, <1>5, Deployments DEF Types, TypeOK
  <2>6. Undisturbed(d) BY <2>2, <2>3 DEF Undisturbed
  <2>7. \A e \in Devices \ {d} : Undisturbed(e) BY <2>2, <2>3 DEF Undisturbed
  <2>8. pc[t] \in Working => dev[t] \in Devices BY <1>0 DEF Types, Positions
  <2> QED BY <1>0, <2>1, <2>6, <2>7, <2>8, Stay
<1>6. CASE UNCHANGED vars BY <1>0, <1>6, Stay DEF vars, Undisturbed
<1> QED BY <1>1, <1>2, <1>3, <1>4, <1>5, <1>6 DEF Next

-----------------------------------------------------------------------------
LEMMA InitIInv ==
  ASSUME Init
  PROVE  IInv
<1> USE IronicAssumption DEF Init, Working, Stales, Holding, Calls
<1>1. Types
  <2>1. ironic \in [Devices -> Nodes \cup {NoNode}]
    <3>1. DOMAIN ironic = Devices /\ \A d \in Devices : ironic[d] \in InitNodes[d] OBVIOUS
    <3> QED BY <3>1
  <2> QED BY <2>1 DEF Types, TypeOK, Positions
<1>2. \A s \in Syncs : Spared(s) BY DEF Spared
<1>3. \A s \in Syncs : Owns(s) /\ KnowsClean(s) /\ Keeps(s) BY DEF Owns, KnowsClean, Keeps
<1> QED BY <1>1, <1>2, <1>3 DEF IInv

\* The inductive invariant: types and positions; nothing in NetBox is on its way to
\* be deleted; and, while no run outlives its lock, a run owns the lock of its
\* device, knows its node, and keeps what it has done.
THEOREM Invariance == Spec => []IInv
<1>1. Init => IInv BY InitIInv
<1>2. IInv /\ [Next]_vars => IInv'
  <2> SUFFICES ASSUME IInv, [Next]_vars PROVE IInv' OBVIOUS
  <2>1. Types' BY StepTypes DEF IInv
  <2>2. \A s \in Syncs : Spared(s)' BY StepSpares DEF IInv
  <2>3. lapsed' = {} => \A s \in Syncs : Owns(s)' BY StepOwns DEF IInv
  <2>4. lapsed' = {} => \A s \in Syncs : KnowsClean(s)' /\ Keeps(s)' BY StepKnowsAndKeeps
  <2> QED BY <2>1, <2>2, <2>3, <2>4 DEF IInv
<1> QED BY <1>1, <1>2, PTL DEF Spec

\* Every variable keeps its type, for any runs, devices, ports and adoptions.
THEOREM TypeCorrect == Spec => []TypeOK
<1>1. IInv => TypeOK BY DEF IInv, Types
<1> QED BY <1>1, Invariance, PTL

\* A device reported synchronised has its node as NetBox asks for it, whatever failed
\* runs left behind and other runs do meanwhile.
THEOREM Synced == Spec => []SyncedDeviceIsSettled
<1>1. IInv => SyncedDeviceIsSettled
  BY DEF IInv, Keeps, Settled, Unsettled, SyncedDeviceIsSettled
<1> QED BY <1>1, Invariance, PTL

\* A run begins to wait with a request.
LEMMA OnlyRequestsWait ==
  ASSUME Types, [Next]_vars, NEW t \in Syncs, waiting'[t], ~waiting[t]
  PROVE  Request(t)
<1> USE DEF locks, lists, locals, Forget
<1>0. waiting \in [Syncs -> BOOLEAN] BY DEF Types, TypeOK
<1>1. ASSUME NEW s \in Syncs, Run(s) \/ Kill(s), ~Request(s)
      PROVE  waiting' = waiting \/ waiting' = [waiting EXCEPT ![s] = FALSE]
  <2>1. CASE Begin(s) \/ List(s) \/ PickStale(s) BY <2>1 DEF Begin, List, PickStale
  <2>2. CASE DeletePorts(s) \/ DeleteNode(s) \/ StaleRaises(s) \/ StartDevices(s)
    BY <2>2 DEF DeletePorts, DeleteNode, StaleRaises, StartDevices
  <2>3. CASE Lock(s) \/ LockTimesOut(s) \/ Finish(s) \/ ListRaises(s) \/ PrepareRaises(s) BY <2>3 DEF Lock, LockTimesOut, Finish, ListRaises, PrepareRaises
  <2>4. CASE Show(s) \/ Create(s) \/ Update(s) BY <2>4 DEF Show, Create, Update
  <2>5. CASE ListPorts(s) \/ Port(s) BY <2>5 DEF ListPorts, Port
  <2>6. CASE Validate(s) BY <2>6 DEF Validate
  <2>7. CASE Wait(s) BY <2>7 DEF Wait
  <2>8. CASE Power(s) \/ SkipClean(s) \/ Settle(s) BY <2>8 DEF Power, SkipClean, Settle
  <2>9. CASE Raises(s) \/ Release(s) \/ Kill(s) BY <2>9 DEF Raises, Release, Kill
  <2> QED BY <1>1, <2>1, <2>2, <2>3, <2>4, <2>5, <2>6, <2>7, <2>8, <2>9 DEF Run
<1>2. ASSUME NEW s \in Syncs, Request(s) PROVE waiting' = [waiting EXCEPT ![s] = TRUE]
  BY <1>2 DEF Request
<1>3. ASSUME NEW d \in Devices, AutoRelease(d) \/ Retire(d) \/ Deploy(d) \/ Undeploy(d)
      PROVE  waiting' = waiting
  BY <1>3 DEF AutoRelease, Retire, Deploy, Undeploy
<1>4. CASE UNCHANGED vars BY <1>4 DEF vars
<1>5. ASSUME NEW s \in Syncs, Run(s) \/ Kill(s) PROVE Request(t)
  <2>1. CASE Request(s)
    <3> s = t BY <1>0, <1>2, <2>1
    <3> QED BY <2>1
  <2>2. CASE ~Request(s) BY <1>0, <1>1, <1>5, <2>2
  <2> QED BY <2>1, <2>2
<1> QED BY <1>3, <1>4, <1>5 DEF Next

\* No run asks Ironic to provide a node while that would clean it.
THEOREM NeverCleans == Spec => SyncNeverCleans
<1>1. ASSUME IInv, [Next]_vars, lapsed = {}, NEW s \in Syncs, pc[s] = "providing", waiting'[s], ~waiting[s]
      PROVE  ~Live(s).clean
  <2>1. Known(s) BY <1>1, OnlyRequestsWait DEF IInv, Request
  <2> QED BY <1>1, <2>1 DEF IInv, KnowsClean, Holding, Calls
<1>2. IInv /\ [Next]_vars => [lapsed = {} => \A s \in Syncs :
         pc[s] = "providing" /\ waiting'[s] /\ ~waiting[s] => ~Live(s).clean]_vars
  BY <1>1
<1> QED BY <1>2, Invariance, PTL DEF Spec, SyncNeverCleans

\* A run leaves a node with its ports, but for a stale one.
LEMMA RunLeavesNode ==
  ASSUME Types, NEW s \in Syncs, Run(s), pc[s] \in Calls, dev[s] \in Devices, Live(s) # NoNode
  PROVE  /\ ironic'[dev[s]] # NoNode
         /\ Live(s).ports \cap Wanted \subseteq ironic'[dev[s]].ports
<1> USE IronicAssumption
<1>0. ironic \in [Devices -> Nodes \cup {NoNode}] /\ Live(s) \in Nodes BY DEF Types, TypeOK, Live
<1>1. CASE ironic'[dev[s]] = ironic[dev[s]] BY <1>0, <1>1 DEF Live
<1>2. CASE Port(s)
  <2>1. PICK m \in Missing(s) \cup Surplus(s) :
          LET With(ports) == IF m \in Wanted THEN ports \cup {m} ELSE ports \ {m}
          IN ironic' = [ironic EXCEPT ![dev[s]].ports = With(@)]
    BY <1>2 DEF Port
  <2> DEFINE ports == IF m \in Wanted THEN Live(s).ports \cup {m} ELSE Live(s).ports \ {m}
  <2>5. ironic' = [ironic EXCEPT ![dev[s]] = [Live(s) EXCEPT !.ports = ports]] BY <1>0, <2>1 DEF Live
  <2>2. ports \subseteq Wanted \cup {"extra"} /\ Live(s).ports \cap Wanted \subseteq ports
    <3> node[s].ports \subseteq Wanted \cup {"extra"} /\ Live(s).ports \subseteq Wanted \cup {"extra"}
      BY <1>0, <1>2, NodeChanges DEF Port, Types, Positions, Holding, Calls
    <3> QED BY <2>1 DEF Missing, Surplus
  <2> HIDE DEF ports
  <2>3. [Live(s) EXCEPT !.ports = ports] \in Nodes BY <1>0, <2>2, NodeChanges
  <2>4. [Live(s) EXCEPT !.ports = ports].ports = ports BY <1>0, NodeFields
  <2> QED BY <1>0, <2>2, <2>3, <2>4, <2>5
<1>3. ASSUME NEW n \in Nodes, n.ports = Live(s).ports, Changed(s, n)
      PROVE  ironic'[dev[s]] \in Nodes /\ ironic'[dev[s]].ports = Live(s).ports
  BY <1>0, <1>3 DEF Changed
<1>4. CASE ironic'[dev[s]] # ironic[dev[s]] /\ ~Port(s)
  <2>1. Update(s) \/ Request(s) \/ Power(s) \/ SkipClean(s) \/ Settle(s)
    BY <1>0, <1>4 DEF Calls, Live, Run, Begin, List, PickStale, DeletePorts, DeleteNode, StaleRaises,
       StartDevices, Lock, LockTimesOut, Finish, ListRaises, PrepareRaises, Show, Create, ListPorts, Validate, Wait, Raises, Release
  <2>2. CASE Update(s)
    <3>1. Changed(s, [Live(s) EXCEPT !.current = TRUE]) BY <1>4, <2>2 DEF Update
    <3> QED BY <1>0, <1>3, <3>1, NodeChanges, NodeFields
  <2>3. CASE Request(s)
    <3>1. PICK state \in States, power \in {"none", "on", "off"} :
            ironic' = [ironic EXCEPT ![dev[s]] = [Live(s) EXCEPT !.state = state, !.power = power]]
      BY <2>3, Requests
    <3>2. [Live(s) EXCEPT !.state = state, !.power = power] \in Nodes BY <2>3, Requests
    <3>3. [Live(s) EXCEPT !.state = state, !.power = power].ports = Live(s).ports BY <1>0, NodeFields
    <3> QED BY <1>0, <3>1, <3>2, <3>3
  <2>4. CASE Power(s)
    <3>1. Changed(s, [Live(s) EXCEPT !.power = "off"]) BY <1>4, <2>4 DEF Power
    <3> QED BY <1>0, <1>3, <3>1, NodeChanges, NodeFields
  <2>5. CASE SkipClean(s) \/ Settle(s)
    <3>1. PICK value \in BOOLEAN : Changed(s, [Live(s) EXCEPT !.clean = value])
      BY <1>4, <2>5 DEF SkipClean, Settle, SetClean
    <3> DEFINE n == [Live(s) EXCEPT !.clean = value]
    <3>2. n \in Nodes /\ n.ports = Live(s).ports BY <1>0, NodeChanges, NodeFields
    <3> QED BY <1>0, <1>3, <3>1, <3>2
  <2> QED BY <2>1, <2>2, <2>3, <2>4, <2>5
<1> QED BY <1>1, <1>2, <1>4

\* No run, for this device or another, takes the node or the ports of a device that
\* stays in NetBox - with locks or without.
THEOREM NodesKept == Spec => DevicesKeepTheirNode
<1>1. ASSUME IInv, [Next]_vars, NEW d \in netbox', ironic[d] # NoNode
      PROVE  ironic'[d] # NoNode /\ ironic[d].ports \cap Wanted \subseteq ironic'[d].ports
  <2>0. Types /\ netbox \subseteq Devices /\ ironic \in [Devices -> Nodes \cup {NoNode}]
    BY <1>1 DEF IInv, Types, TypeOK
  <2>1. CASE ironic'[d] = ironic[d] BY <1>1, <2>1
  <2>2. ASSUME NEW s \in Syncs, Run(s), ironic'[d] # ironic[d]
        PROVE  ironic'[d] # NoNode /\ ironic[d].ports \cap Wanted \subseteq ironic'[d].ports
    <3>1. netbox' = netbox BY <2>0, <2>2, OneNode
    <3>2. d \in Devices BY <1>1, <2>0, <3>1
    <3>3. pc[s] \in Calls \cup Stales /\ d = dev[s] BY <2>0, <2>2, <3>2, OneNode
    <3>4. pc[s] \in Calls BY <1>1, <3>1, <3>3 DEF IInv, Spared
    <3> QED BY <1>1, <2>0, <2>2, <3>2, <3>3, <3>4, RunLeavesNode DEF Live
  <2>3. ASSUME NEW s \in Syncs, Kill(s) PROVE ironic'[d] = ironic[d] BY <2>3 DEF Kill
  <2>4. ASSUME NEW e \in Devices, AutoRelease(e) \/ Retire(e) PROVE ironic'[d] = ironic[d]
    BY <2>4 DEF AutoRelease, Retire
  <2>5. ASSUME NEW e \in Devices, Deploy(e) \/ Undeploy(e), ironic'[d] # ironic[d]
        PROVE  ironic'[d] # NoNode /\ ironic[d].ports \cap Wanted \subseteq ironic'[d].ports
    <3>1. PICK n \in Nodes : ironic' = [ironic EXCEPT ![e] = n] /\ n.ports = ironic[e].ports
      BY <2>0, <2>5, Deployments
    <3>2. d = e /\ ironic'[d] = n BY <2>0, <2>5, <3>1
    <3> QED BY <3>1, <3>2, IronicAssumption
  <2>6. CASE UNCHANGED vars BY <1>1, <2>6 DEF vars
  <2> QED BY <1>1, <2>1, <2>2, <2>3, <2>4, <2>5, <2>6 DEF Next
<1>2. IInv /\ [Next]_vars => [\A d \in netbox' : ironic[d] # NoNode =>
         ironic'[d] # NoNode /\ ironic[d].ports \cap Wanted \subseteq ironic'[d].ports]_vars
  BY <1>1
<1> QED BY <1>2, Invariance, PTL DEF Spec, DevicesKeepTheirNode
=============================================================================
