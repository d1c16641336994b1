--------------------------- MODULE OperationsProofs ---------------------------
(***************************************************************************)
(* Proofs about Operations, for any nodes, servers, switches, queues,      *)
(* volumes, files and roles, any operators and any commands they give.     *)
(* Whatever part is picked, Operations implements each part's own          *)
(* specification: a step is one of the part's, or leaves it alone.  The    *)
(* inductive invariants are those of the parts.                            *)
(***************************************************************************)
EXTENDS Operations, FiniteSetTheorems, TLAPS

baremetalSpec == Baremetal!bmInit /\ [][Baremetal!bmNext]_bmVars
computeSpec   == Compute!computeInit /\ [][Compute!computeNext]_computeVars
switchSpec    == Switches!switchInit /\ [][Switches!switchNext]_switchVars
repairSpec    == Cloud!cloudInit /\ [][Cloud!cloudNext]_cloudVars

-----------------------------------------------------------------------------
(* The queues.                                                               *)
migrationSpec == Migration!migrationInit /\ [][Migration!migrationNext]_migrationVars

\* The queues, and those deleted by others, have their types.
QueuesOK ==
  /\ queue \in [Migration!Vhosts -> [Services -> {"none", "classic", "quorum"}]]
  /\ dropped \in [Migrators -> SUBSET (Migration!Vhosts \X Services)]
  /\ exchanges \in SUBSET Services
  /\ declared \in [Services -> [vhost : Migration!Vhosts, type : {"classic", "quorum"}, consumes : BOOLEAN]]

\* A removal goes through the rest of its listing.
Removal ==
  [pc : {"next", "delete"}, call : Invocations, rc : {0}, failed : BOOLEAN,
   at : Services \cup {"none"}, todo : SUBSET Services]

Removes(m) == migrator[m].pc \in {"next", "delete"}

RunsOK ==
  /\ DOMAIN migrator = Migrators
  /\ \A m \in Migrators :
       /\ "pc" \in DOMAIN migrator[m]
       /\ Removes(m) => migrator[m] \in Removal /\ migrator[m].call.vhost \in Migration!Vhosts
       /\ migrator[m].pc = "delete" => migrator[m].at \notin migrator[m].todo
       /\ migrator[m].pc = "delete" /\ migrator[m].call.do = "delete" => migrator[m].at \in Services

\* The listed queues a command has not come to, and the one it is at.
Ahead(m) == migrator[m].todo \cup (IF migrator[m].pc = "delete" THEN {migrator[m].at} ELSE {})

\* What a command still goes to is classic, as it was when it was listed, unless
\* another command has deleted it since.
ListedStayClassic ==
  \A m \in Migrators :
    Removes(m) /\ migrator[m].call.do = "delete" =>
      \A s \in Ahead(m) :
        \/ queue[migrator[m].call.vhost][s] = "classic"
        \/ <<migrator[m].call.vhost, s>> \in dropped[m]

MigrationInv == QueuesOK /\ RunsOK /\ ListedStayClassic

-----------------------------------------------------------------------------
LEMMA MigrationStarts == Migration!migrationInit => MigrationInv
<1> SUFFICES ASSUME Migration!migrationInit PROVE MigrationInv
  OBVIOUS
<1>1. QueuesOK
  BY DEF Migration!migrationInit, QueuesOK, Migration!Vhosts
<1>2. RunsOK /\ ListedStayClassic
  BY DEF Migration!migrationInit, RunsOK, ListedStayClassic, Removes
<1> QED
  BY <1>1, <1>2 DEF MigrationInv

\* A step of a command other than m leaves m's run alone, and the commands that
\* end no longer remove.
LEMMA EndsRuns ==
  ASSUME RunsOK, NEW m \in Migrators, NEW rc, Migration!Ends(m, rc)
  PROVE  /\ RunsOK'
         /\ \A n \in Migrators : Removes(n)' => n # m /\ migrator'[n] = migrator[n]
<1>1. migrator'[m].pc = "ended" /\ "pc" \in DOMAIN migrator'[m] /\ DOMAIN migrator' = Migrators
  BY DEF Migration!Ends, RunsOK
<1>2. \A n \in Migrators : n # m => migrator'[n] = migrator[n]
  BY DEF Migration!Ends, RunsOK
<1> QED
  BY <1>1, <1>2 DEF RunsOK, Removes

\* What a service declares leaves a classic queue classic.
LEMMA DeclaresStep ==
  ASSUME MigrationInv, NEW s \in Services, Migration!Declares(s)
  PROVE  MigrationInv' /\ \A v \in Migration!Vhosts, t \in Services : queue'[v][t] = queue[v][t] \/ queue'[v][t] # "none"
<1> DEFINE c == declared[s]
<1>1. /\ c.vhost \in Migration!Vhosts /\ c.type \in {"classic", "quorum"}
      /\ queue[c.vhost][s] \in {"none", c.type}
      /\ queue' = [queue EXCEPT ![c.vhost][s] = c.type]
      /\ migrator' = migrator /\ dropped' = dropped
  BY DEF MigrationInv, QueuesOK, Migration!Declares
<1>2. \A v \in Migration!Vhosts, t \in Services :
        /\ queue'[v][t] = queue[v][t] \/ queue'[v][t] # "none"
        /\ queue[v][t] = "classic" => queue'[v][t] = "classic"
  BY <1>1 DEF MigrationInv, QueuesOK
<1>3. QueuesOK'
  <2>1. exchanges' \in SUBSET Services
    BY DEF Migration!Declares, MigrationInv, QueuesOK
  <2>2. declared' \in [Services -> [vhost : Migration!Vhosts, type : {"classic", "quorum"}, consumes : BOOLEAN]]
    BY DEF Migration!Declares, MigrationInv, QueuesOK
  <2> QED
    BY <1>1, <2>1, <2>2 DEF MigrationInv, QueuesOK
<1>4. RunsOK'
  BY <1>1 DEF MigrationInv, RunsOK, Removes
<1>5. ListedStayClassic'
  <2> SUFFICES ASSUME NEW m \in Migrators, Removes(m), migrator[m].call.do = "delete", NEW t \in Ahead(m)
               PROVE  \/ queue'[migrator[m].call.vhost][t] = "classic"
                      \/ <<migrator[m].call.vhost, t>> \in dropped[m]
    BY <1>1 DEF ListedStayClassic, Removes, Ahead
  <2>1. t \in Services /\ migrator[m].call.vhost \in Migration!Vhosts
    BY DEF MigrationInv, RunsOK, Removal, Ahead, Removes
  <2> QED
    BY <1>2, <2>1 DEF MigrationInv, ListedStayClassic
<1> QED
  BY <1>2, <1>3, <1>4, <1>5 DEF MigrationInv

\* Onwards, the queue a command was at is behind it.
LEMMA OnwardsRuns ==
  ASSUME RunsOK, NEW m \in Migrators, migrator[m].pc = "delete", NEW failed \in BOOLEAN, Migration!Onwards(m, failed)
  PROVE  /\ RunsOK'
         /\ \A n \in Migrators : n # m => migrator'[n] = migrator[n]
         /\ migrator'[m].pc = "next" /\ migrator'[m].todo = migrator[m].todo /\ migrator'[m].call = migrator[m].call
<1>1. migrator[m] \in Removal /\ migrator[m].call.vhost \in Migration!Vhosts
  BY DEF RunsOK, Removes
<1>2. migrator'[m] = [migrator[m] EXCEPT !.pc = "next", !.failed = migrator[m].failed \/ failed]
  BY DEF Migration!Onwards, RunsOK
<1>3. migrator'[m] \in Removal /\ migrator'[m].pc = "next" /\ migrator'[m].todo = migrator[m].todo /\ migrator'[m].call = migrator[m].call
  BY <1>1, <1>2 DEF Removal
<1>4. DOMAIN migrator' = Migrators /\ \A n \in Migrators : n # m => migrator'[n] = migrator[n]
  BY DEF Migration!Onwards, RunsOK
<1>5. "pc" \in DOMAIN migrator'[m]
  BY <1>3 DEF Removal
<1> QED
  BY <1>1, <1>3, <1>4, <1>5 DEF RunsOK, Removes

\* A command starts: what it lists is classic at that moment.
LEMMA MigrateStep ==
  ASSUME Migration!MigrationAssumption, MigrationInv, NEW m \in Migrators, NEW q \in Invocations, Migration!take_action(m, q)
  PROVE  MigrationInv'
<1>1. QueuesOK'
  BY DEF Migration!take_action, MigrationInv, QueuesOK
<1>2. /\ \A n \in Migrators : n # m => migrator'[n] = migrator[n] /\ dropped'[n] = dropped[n]
      /\ queue' = queue /\ DOMAIN migrator' = Migrators
  BY DEF Migration!take_action, Migration!Ends, MigrationInv, RunsOK, QueuesOK
<1>3. /\ "pc" \in DOMAIN migrator'[m]
      /\ \/ migrator'[m].pc \in {"ended", "vhost"}
         \/ /\ migrator'[m] \in Removal /\ migrator'[m].pc = "next"
            /\ migrator'[m].call = q /\ q.vhost \in Migration!Vhosts
            /\ q.do = "delete" => migrator'[m].todo \subseteq Migration!get_classic_queues(q.vhost)
  <2>1. CASE Migration!Ends(m, 1)
    BY <2>1 DEF Migration!Ends, MigrationInv, RunsOK
  <2>2. CASE migrator' = [migrator EXCEPT ![m] = [pc |-> "ended", rc |-> 0, failed |-> FALSE, call |-> q,
                                        says |-> IF q.do = "check" THEN Migration!Verdict ELSE "list"]]
    BY <2>2 DEF MigrationInv, RunsOK
  <2>3. CASE migrator' = [migrator EXCEPT ![m] = [pc |-> "vhost", rc |-> 0, failed |-> FALSE, call |-> q]]
    BY <2>3 DEF MigrationInv, RunsOK
  <2>4. CASE migrator' = [migrator EXCEPT ![m] =
               [pc |-> "next", call |-> q, rc |-> 0, failed |-> FALSE, at |-> "none",
                todo |-> IF q.do = "delete" THEN Migration!get_classic_queues(q.vhost) \cap q.service ELSE exchanges]]
    <3> DEFINE listed == IF q.do = "delete" THEN Migration!get_classic_queues(q.vhost) \cap q.service ELSE exchanges
    <3>1. listed \in SUBSET Services
      BY DEF Migration!get_classic_queues, MigrationInv, QueuesOK
    <3>2. migrator'[m] = [pc |-> "next", call |-> q, rc |-> 0, failed |-> FALSE, at |-> "none", todo |-> listed]
      BY <2>4 DEF MigrationInv, RunsOK
    <3>3. q.vhost \in Migration!Vhosts
      BY DEF Migration!MigrationAssumption
    <3> HIDE DEF listed
    <3>4. migrator'[m] \in Removal /\ migrator'[m].pc = "next" /\ migrator'[m].call = q /\ migrator'[m].todo = listed
      BY <3>1, <3>2 DEF Removal
    <3>5. "pc" \in DOMAIN migrator'[m]
      BY <3>2
    <3>6. q.do = "delete" => listed \subseteq Migration!get_classic_queues(q.vhost)
      BY DEF listed
    <3> QED
      BY <3>3, <3>4, <3>5, <3>6
  <2> QED
    BY <2>1, <2>2, <2>3, <2>4 DEF Migration!take_action
<1>4. RunsOK'
  BY <1>2, <1>3 DEF MigrationInv, RunsOK, Removes
<1>5. ListedStayClassic'
  <2> SUFFICES ASSUME NEW n \in Migrators, Removes(n)', migrator'[n].call.do = "delete", NEW s \in Ahead(n)'
               PROVE  \/ queue[migrator'[n].call.vhost][s] = "classic"
                      \/ <<migrator'[n].call.vhost, s>> \in dropped'[n]
    BY <1>2 DEF ListedStayClassic
  <2>1. CASE n = m
    BY <2>1, <1>3 DEF Removes, Ahead, Migration!get_classic_queues
  <2>2. CASE n # m
    BY <2>2, <1>2 DEF MigrationInv, ListedStayClassic, Removes, Ahead
  <2> QED
    BY <2>1, <2>2
<1> QED
  BY <1>1, <1>4, <1>5 DEF MigrationInv

\* Preparing the vhost removes nothing.
LEMMA PrepareStep ==
  ASSUME MigrationInv, NEW m \in Migrators, Migration!prepare_vhost(m)
  PROVE  MigrationInv'
<1>1. QueuesOK'
  BY DEF Migration!prepare_vhost, MigrationInv, QueuesOK
<1>2. RunsOK' /\ \A n \in Migrators : Removes(n)' => n # m /\ migrator'[n] = migrator[n]
  <2>1. CASE \E rc \in {0, 1} : Migration!Ends(m, rc)
    BY <2>1, EndsRuns DEF MigrationInv
  <2>2. CASE migrator' = [migrator EXCEPT ![m].pc = "permissions"]
    BY <2>2 DEF MigrationInv, RunsOK, Removes
  <2> QED
    BY <2>1, <2>2 DEF Migration!prepare_vhost
<1>3. ListedStayClassic'
  BY <1>2 DEF Migration!prepare_vhost, MigrationInv, ListedStayClassic, Removes, Ahead
<1> QED
  BY <1>1, <1>2, <1>3 DEF MigrationInv

\* A command turns to a queue of its listing.
LEMMA CloseStep ==
  ASSUME MigrationInv, NEW m \in Migrators, NEW s \in Services, Migration!close_queue_connections(m, s)
  PROVE  MigrationInv'
<1>1. QueuesOK'
  BY DEF Migration!close_queue_connections, MigrationInv, QueuesOK
<1>2. migrator[m] \in Removal /\ migrator[m].call.vhost \in Migration!Vhosts /\ s \in migrator[m].todo /\ migrator[m].pc = "next"
  BY DEF Migration!close_queue_connections, MigrationInv, RunsOK, Removes
<1>3. /\ migrator'[m] = [migrator[m] EXCEPT !.pc = "delete", !.at = s, !.todo = migrator[m].todo \ {s}]
      /\ DOMAIN migrator' = Migrators
      /\ \A n \in Migrators : n # m => migrator'[n] = migrator[n]
  BY DEF Migration!close_queue_connections, MigrationInv, RunsOK
<1>4. /\ migrator'[m] \in Removal /\ migrator'[m].pc = "delete" /\ migrator'[m].at = s
      /\ migrator'[m].todo = migrator[m].todo \ {s} /\ migrator'[m].call = migrator[m].call
  BY <1>2, <1>3 DEF Removal
<1>5. "pc" \in DOMAIN migrator'[m]
  BY <1>4 DEF Removal
<1>6. RunsOK'
  BY <1>2, <1>3, <1>4, <1>5 DEF MigrationInv, RunsOK, Removes
<1>7. Ahead(m)' = Ahead(m)
  BY <1>2, <1>4 DEF Ahead
<1>8. ListedStayClassic'
  <2> SUFFICES ASSUME NEW n \in Migrators, Removes(n)', migrator'[n].call.do = "delete", NEW t \in Ahead(n)'
               PROVE  \/ queue[migrator'[n].call.vhost][t] = "classic"
                      \/ <<migrator'[n].call.vhost, t>> \in dropped[n]
    BY DEF ListedStayClassic, Migration!close_queue_connections
  <2>1. CASE n = m
    BY <2>1, <1>2, <1>4, <1>7 DEF MigrationInv, ListedStayClassic, Removes
  <2>2. CASE n # m
    BY <2>2, <1>3 DEF MigrationInv, ListedStayClassic, Removes, Ahead
  <2> QED
    BY <2>1, <2>2
<1> QED
  BY <1>1, <1>6, <1>8 DEF MigrationInv

\* The removal itself: a quorum queue goes only when somebody else has removed
\* the listed one.
LEMMA DeleteStep ==
  ASSUME MigrationInv, NEW m \in Migrators, Migration!delete_queue(m)
  PROVE  /\ MigrationInv'
         /\ \A v \in Migration!Vhosts, s \in Services :
              queue[v][s] = "quorum" /\ queue'[v][s] = "none" =>
                migrator[m].pc = "delete" /\ <<v, s>> \in dropped[m]
<1> DEFINE v == migrator[m].call.vhost
           s == migrator[m].at
<1>1. /\ migrator[m] \in Removal /\ migrator[m].pc = "delete" /\ migrator[m].call.do = "delete"
      /\ v \in Migration!Vhosts /\ s \in Services /\ s \notin migrator[m].todo
  BY DEF Migration!delete_queue, MigrationInv, RunsOK, Removes
<1>2. queue[v][s] = "classic" \/ <<v, s>> \in dropped[m]
  BY <1>1 DEF MigrationInv, ListedStayClassic, Removes, Ahead
<1>3. PICK failed \in BOOLEAN : Migration!Onwards(m, failed)
  BY DEF Migration!delete_queue, Migration!Dry
<1>4. /\ RunsOK'
      /\ \A n \in Migrators : n # m => migrator'[n] = migrator[n]
      /\ migrator'[m].pc = "next" /\ migrator'[m].todo = migrator[m].todo /\ migrator'[m].call = migrator[m].call
  BY <1>1, <1>3, OnwardsRuns DEF MigrationInv
<1>5. CASE UNCHANGED <<queue, declared, dropped>>
  <2>1. QueuesOK'
    BY <1>5 DEF Migration!delete_queue, MigrationInv, QueuesOK
  <2>2. ListedStayClassic'
    BY <1>1, <1>4, <1>5 DEF MigrationInv, ListedStayClassic, Removes, Ahead
  <2> QED
    BY <1>4, <1>5, <2>1, <2>2 DEF MigrationInv
<1>6. CASE /\ queue' = [queue EXCEPT ![v][s] = "none"]
           /\ declared' = [declared EXCEPT ![s].consumes = @ /\ declared[s].vhost # v]
           /\ dropped' = [n \in Migrators |-> dropped[n] \cup IF n # m THEN {<<v, s>>} ELSE {}]
  <2>1. QueuesOK'
    <3>1. queue' \in [Migration!Vhosts -> [Services -> {"none", "classic", "quorum"}]]
      BY <1>6 DEF MigrationInv, QueuesOK
    <3>2. dropped' \in [Migrators -> SUBSET (Migration!Vhosts \X Services)]
      BY <1>1, <1>6 DEF MigrationInv, QueuesOK
    <3>3. declared' \in [Services -> [vhost : Migration!Vhosts, type : {"classic", "quorum"}, consumes : BOOLEAN]]
      BY <1>6 DEF MigrationInv, QueuesOK
    <3>4. exchanges' \in SUBSET Services
      BY DEF Migration!delete_queue, MigrationInv, QueuesOK
    <3> QED
      BY <3>1, <3>2, <3>3, <3>4 DEF QueuesOK
  <2>2. \A w \in Migration!Vhosts, t \in Services : <<w, t>> # <<v, s>> => queue'[w][t] = queue[w][t]
    BY <1>6 DEF MigrationInv, QueuesOK
  <2>3. /\ dropped'[m] = dropped[m]
        /\ \A n \in Migrators : dropped[n] \subseteq dropped'[n] /\ (n # m => <<v, s>> \in dropped'[n])
    BY <1>6
  <2>4. ListedStayClassic'
    <3> SUFFICES ASSUME NEW n \in Migrators, Removes(n)', migrator'[n].call.do = "delete", NEW t \in Ahead(n)'
                 PROVE  \/ queue'[migrator'[n].call.vhost][t] = "classic"
                        \/ <<migrator'[n].call.vhost, t>> \in dropped'[n]
      BY DEF ListedStayClassic
    <3>1. Removes(n) /\ migrator'[n].call = migrator[n].call /\ t \in Ahead(n)
      BY <1>1, <1>4 DEF Removes, Ahead
    <3>2. queue[migrator[n].call.vhost][t] = "classic" \/ <<migrator[n].call.vhost, t>> \in dropped[n]
      BY <3>1 DEF MigrationInv, ListedStayClassic
    <3>3. t \in Services /\ migrator[n].call.vhost \in Migration!Vhosts
      BY <3>1 DEF MigrationInv, RunsOK, Removal, Removes, Ahead
    <3>4. n = m => t # s
      BY <1>1, <1>4 DEF Ahead
    <3> QED
      BY <2>2, <2>3, <3>1, <3>2, <3>3, <3>4
  <2> QED
    BY <1>1, <1>2, <1>4, <2>1, <2>2, <2>4 DEF MigrationInv
<1> QED
  BY <1>5, <1>6 DEF Migration!delete_queue

LEMMA ExchangeStep ==
  ASSUME MigrationInv, NEW m \in Migrators, Migration!delete_exchange(m)
  PROVE  MigrationInv'
<1>1. PICK failed \in BOOLEAN : Migration!Onwards(m, failed)
  BY DEF Migration!delete_exchange, Migration!Dry
<1>2. migrator[m].pc = "delete" /\ migrator[m].call.do # "delete"
  BY DEF Migration!delete_exchange
<1>3. QueuesOK'
  BY DEF Migration!delete_exchange, MigrationInv, QueuesOK
<1>4. /\ RunsOK'
      /\ \A n \in Migrators : n # m => migrator'[n] = migrator[n]
      /\ migrator'[m].call = migrator[m].call
  BY <1>1, <1>2, OnwardsRuns DEF MigrationInv
<1>5. ListedStayClassic'
  BY <1>2, <1>4 DEF Migration!delete_exchange, MigrationInv, ListedStayClassic, Removes, Ahead
<1> QED
  BY <1>3, <1>4, <1>5 DEF MigrationInv

LEMMA FinishesStep ==
  ASSUME MigrationInv, NEW m \in Migrators, Migration!Finishes(m)
  PROVE  MigrationInv'
<1>1. PICK rc \in {0, 1} : Migration!Ends(m, rc)
  BY DEF Migration!Finishes
<1>2. QueuesOK'
  BY DEF Migration!Finishes, MigrationInv, QueuesOK
<1>3. RunsOK' /\ \A n \in Migrators : Removes(n)' => n # m /\ migrator'[n] = migrator[n]
  BY <1>1, EndsRuns DEF MigrationInv
<1>4. ListedStayClassic'
  BY <1>3 DEF Migration!Finishes, MigrationInv, ListedStayClassic, Removes, Ahead
<1> QED
  BY <1>2, <1>3, <1>4 DEF MigrationInv

\* A service is deployed again.
LEMMA DeployedStep ==
  ASSUME MigrationInv, NEW s \in Services, Migration!Deployed(s)
  PROVE  MigrationInv'
<1>1. QueuesOK'
  <2>1. PICK v \in Migration!Vhosts :
          declared' = [declared EXCEPT ![s] = [vhost |-> v, type |-> "quorum", consumes |-> FALSE]]
    BY DEF Migration!Deployed
  <2>2. declared' \in [Services -> [vhost : Migration!Vhosts, type : {"classic", "quorum"}, consumes : BOOLEAN]]
    BY <2>1 DEF MigrationInv, QueuesOK
  <2> QED
    BY <2>2 DEF Migration!Deployed, MigrationInv, QueuesOK
<1>2. RunsOK' /\ ListedStayClassic'
  BY DEF Migration!Deployed, MigrationInv, RunsOK, ListedStayClassic, Removes, Ahead
<1> QED
  BY <1>1, <1>2 DEF MigrationInv

-----------------------------------------------------------------------------
\* What a step may not do to a quorum queue.
QuorumStep ==
  \A v \in Migration!Vhosts, s \in Services : queue[v][s] = "quorum" /\ queue'[v][s] = "none" =>
    \E m \in Migrators : migrator[m].pc = "delete" /\ <<v, s>> \in dropped[m]

\* One step for each action; only a removal empties a place.
LEMMA MigrationStep ==
  ASSUME Migration!MigrationAssumption, MigrationInv, [Migration!migrationNext]_migrationVars
  PROVE  MigrationInv' /\ QuorumStep
<1>1. ASSUME NEW s \in Services, Migration!Declares(s) PROVE MigrationInv' /\ QuorumStep
  BY <1>1, DeclaresStep DEF QuorumStep
<1>2. ASSUME NEW s \in Services, Migration!Deployed(s) PROVE MigrationInv' /\ QuorumStep
  BY <1>2, DeployedStep DEF QuorumStep, Migration!Deployed
<1>3. ASSUME NEW m \in Migrators, NEW q \in Invocations, Migration!take_action(m, q) PROVE MigrationInv' /\ QuorumStep
  BY <1>3, MigrateStep DEF QuorumStep, Migration!take_action
<1>4. ASSUME NEW m \in Migrators, Migration!prepare_vhost(m) PROVE MigrationInv' /\ QuorumStep
  BY <1>4, PrepareStep DEF QuorumStep, Migration!prepare_vhost
<1>5. ASSUME NEW m \in Migrators, NEW s \in Services, Migration!close_queue_connections(m, s)
      PROVE  MigrationInv' /\ QuorumStep
  BY <1>5, CloseStep DEF QuorumStep, Migration!close_queue_connections
<1>6. ASSUME NEW m \in Migrators, Migration!delete_queue(m) PROVE MigrationInv' /\ QuorumStep
  BY <1>6, DeleteStep DEF QuorumStep
<1>7. ASSUME NEW m \in Migrators, Migration!delete_exchange(m) PROVE MigrationInv' /\ QuorumStep
  BY <1>7, ExchangeStep DEF QuorumStep, Migration!delete_exchange
<1>8. ASSUME NEW m \in Migrators, Migration!Finishes(m) PROVE MigrationInv' /\ QuorumStep
  BY <1>8, FinishesStep DEF QuorumStep, Migration!Finishes
<1>9. CASE UNCHANGED migrationVars
  BY <1>9 DEF MigrationInv, QueuesOK, RunsOK, ListedStayClassic, Removes, Ahead, QuorumStep, migrationVars
<1> QED
  BY <1>1, <1>2, <1>3, <1>4, <1>5, <1>6, <1>7, <1>8, <1>9 DEF Migration!migrationNext, Migration!Migrator

\* A quorum queue survives every removal of classic queues, for any services,
\* operators and commands - unless another operator's command has deleted the
\* classic queue under the one that removes it.
LEMMA MigrationKept ==
  ASSUME Migration!MigrationAssumption
  PROVE  migrationSpec => Migration!QuorumKept
<1>1. MigrationInv /\ [Migration!migrationNext]_migrationVars => MigrationInv' /\ [QuorumStep]_queue
  BY MigrationStep
<1>2. QED
  BY <1>1, MigrationStarts, PTL DEF migrationSpec, Migration!QuorumKept, QuorumStep

-----------------------------------------------------------------------------
(* The files.                                                                *)

environmentSpec == Environment!environmentInit /\ [][Environment!environmentNext]_fileVars

FileNames == Environment!CloudsNames \cup Environment!SecureNames

JobFields == {"pc", "call", "password", "rc", "alone", "todo", "wrote", "at", "found"}

JobsOK ==
  /\ DOMAIN tmp = FileNames
  /\ DOMAIN job = Jobs
  /\ \A j \in Jobs :
       /\ {"pc", "rc", "alone"} \subseteq DOMAIN job[j]
       /\ job[j].alone \in BOOLEAN
       /\ Environment!Active(j) => /\ DOMAIN job[j] = JobFields
                       /\ job[j].pc \in {"setup", "work", "runs", "cleanup"}

\* Who is alone is the only active one.
AloneIsOnly == \A i, j \in Jobs : Environment!Active(i) /\ Environment!Active(j) /\ job[j].alone => i = j

\* A job's files are the ones in /tmp.
CloudsWritten(j) == tmp[Environment!CloudsFile] = Environment!Clouds(j)
SecureWritten(j) == tmp[Environment!SecureFile(job[j].password)] = Environment!Secure(j)

\* The clouds are in /tmp under the name they have in /etc/openstack, and only
\* secure.yml is ever empty.
Lies ==
  /\ \A file \in Environment!CloudsNames : tmp[file] # "none" => file = Environment!CloudsFile
  /\ tmp["secure.yaml"] \in {"none", "copied"}

\* There is a file of clouds.
HasClouds == Environment!CloudsNames \cap etc # {}

\* The files of a job that works in /tmp are its own.
SetUp(j) ==
  \/ job[j].wrote = {} /\ job[j].at = "home"
  \/ /\ SecureWritten(j)
     /\ HasClouds => CloudsWritten(j)
     /\ job[j].password = "none" \/ HasClouds

\* What an active job is given, and how far its setup is.
Given(j) ==
  Environment!Active(j) /\ job[j].password = "none" => Environment!SecureNames \cap etc # {}

Todo(j) ==
  job[j].pc = "setup" =>
    \/ job[j].todo = Environment!Files(job[j].password)
    \/ job[j].todo = <<Environment!SecureFile(job[j].password)>>
    \/ job[j].todo = <<>>

\* Both files are to be written, the clouds first.
Two(password) == <<Environment!CloudsFile, Environment!SecureFile(password)>>

Progress(j) ==
  Environment!Active(j) /\ job[j].alone =>
    /\ job[j].pc = "setup" =>
         /\ job[j].at = "home"
         /\ \/ job[j].todo = Environment!Files(job[j].password) /\ job[j].wrote = {}
            \/ /\ job[j].todo = <<Environment!SecureFile(job[j].password)>> /\ HasClouds
               /\ CloudsWritten(j)
            \/ job[j].todo = <<>> /\ SetUp(j)
    /\ job[j].pc = "work" => job[j].at \in {"home", "/tmp"} /\ (job[j].at = "/tmp" => job[j].wrote # {}) /\ SetUp(j)
    /\ job[j].pc = "runs" /\ job[j].at = "/tmp" =>
         job[j].found = IF job[j].password = "none" \/ tmp["secure.yaml"] # "none" THEN "secure" ELSE job[j].password

FilesInv == JobsOK /\ Lies /\ AloneIsOnly /\ \A j \in Jobs : Given(j) /\ Todo(j) /\ Progress(j)

-----------------------------------------------------------------------------
LEMMA FilesStart == Environment!environmentInit => FilesInv
<1> SUFFICES ASSUME Environment!environmentInit PROVE FilesInv
  OBVIOUS
<1>1. \A j \in Jobs : job[j] = [pc |-> "idle", rc |-> 0, alone |-> FALSE]
  BY DEF Environment!environmentInit
<1>2. JobsOK
  BY <1>1 DEF Environment!environmentInit, JobsOK, FileNames, Environment!Active
<1>3. Lies
  BY DEF Environment!environmentInit, Lies, Environment!CloudsNames, Environment!SecureNames
<1> QED
  BY <1>1, <1>2, <1>3 DEF FilesInv, AloneIsOnly, Given, Todo, Progress, Environment!Active

\* Two files, one or none.
LEMMA FilesAre ==
  ASSUME NEW password
  PROVE  /\ HasClouds => Environment!Files(password) = Two(password)
         /\ ~HasClouds /\ password = "none" => Environment!Files(password) = <<Environment!SecureFile(password)>>
         /\ ~HasClouds /\ password # "none" => Environment!Files(password) = <<>>
BY DEF Environment!Files, HasClouds, Two

\* Names of clouds are no names of secrets.
LEMMA NamesAre ==
  ASSUME NEW password
  PROVE  /\ Environment!CloudsFile \in Environment!CloudsNames \ Environment!SecureNames
         /\ Environment!SecureFile(password) \in Environment!SecureNames \ Environment!CloudsNames
         /\ password # "none" => Environment!SecureFile(password) = "secure.yml"
BY DEF Environment!CloudsFile, Environment!SecureFile, Environment!CloudsNames, Environment!SecureNames

\* A program in /tmp reads its own files, or a copy of secure.yaml.
LEMMA FindsOwn ==
  ASSUME NEW j \in Jobs, JobsOK, Lies, Given(j), Environment!Active(j), job[j].wrote # {}, SetUp(j)
  PROVE  Environment!Found("/tmp") =
           IF job[j].password = "none" \/ tmp["secure.yaml"] # "none" THEN "secure" ELSE job[j].password
<1>1. SecureWritten(j) /\ (HasClouds => CloudsWritten(j)) /\ (job[j].password = "none" \/ HasClouds)
  BY DEF SetUp
<1>2. CASE tmp["secure.yaml"] # "none"
  <2>1. Environment!Reads("secure.yaml", "secure.yml", "/tmp") = "copied"
    BY <1>2 DEF Lies, Environment!Reads
  <2> QED
    BY <1>2, <2>1 DEF Environment!Found
<1>3. CASE job[j].password = "none" /\ tmp["secure.yaml"] = "none"
  <2>1. tmp[Environment!SecureFile("none")] = "copied"
    BY <1>1, <1>3 DEF SecureWritten, Environment!Secure
  <2>2. tmp["secure.yml"] = "copied"
    BY <1>3, <2>1 DEF Environment!SecureFile
  <2>3. Environment!Reads("secure.yaml", "secure.yml", "/tmp") = "copied"
    BY <1>3, <2>2 DEF Environment!Reads
  <2> QED
    BY <1>3, <2>3 DEF Environment!Found
<1>4. CASE job[j].password # "none" /\ tmp["secure.yaml"] = "none"
  <2>1. tmp["secure.yml"] = "empty"
    BY <1>1, <1>4, NamesAre DEF SecureWritten, Environment!Secure
  <2>2. Environment!Reads("secure.yaml", "secure.yml", "/tmp") = "empty"
    BY <1>4, <2>1 DEF Environment!Reads
  <2>3. tmp[Environment!CloudsFile] = job[j].password
    BY <1>1, <1>4 DEF CloudsWritten, Environment!Clouds
  <2>4. CASE Environment!CloudsFile = "clouds.yaml"
    <3>1. Environment!Reads("clouds.yaml", "clouds.yml", "/tmp") = job[j].password
      BY <1>4, <2>3, <2>4 DEF Environment!Reads
    <3> QED
      BY <1>4, <2>2, <3>1 DEF Environment!Found
  <2>5. CASE Environment!CloudsFile = "clouds.yml"
    <3>1. tmp["clouds.yaml"] = "none"
      BY <2>5 DEF Lies, Environment!CloudsNames
    <3>2. Environment!Reads("clouds.yaml", "clouds.yml", "/tmp") = job[j].password
      BY <1>4, <2>3, <2>5, <3>1 DEF Environment!Reads
    <3> QED
      BY <1>4, <2>2, <3>2 DEF Environment!Found
  <2> QED
    BY <2>4, <2>5 DEF Environment!CloudsFile
<1> QED
  BY <1>2, <1>3, <1>4

-----------------------------------------------------------------------------
\* Another job starts: nobody is alone any more, and this one is if nobody else
\* is active.
LEMMA StartsStep ==
  ASSUME FilesInv, NEW j \in Jobs, NEW q \in Callings, Environment!Starts(j, q)
  PROVE  FilesInv'
<1> DEFINE others == {i \in Jobs : Environment!Active(i)}
<1>1. PICK password \in Environment!get_cloud_password(q.cloud) :
        job' = [i \in Jobs |->
          IF i = j
          THEN [pc |-> IF Environment!Hopeless(q.cloud, password) THEN "ended" ELSE "setup", call |-> q, password |-> password,
                rc |-> IF Environment!Hopeless(q.cloud, password) THEN 1 ELSE 0, alone |-> others = {},
                todo |-> Environment!Files(password), wrote |-> {}, at |-> "home", found |-> "none"]
          ELSE [job[i] EXCEPT !.alone = @ /\ i \notin others]]
  BY DEF Environment!Starts
<1>2. etc' = etc /\ tmp' = tmp /\ job[j].pc = "idle"
  BY DEF Environment!Starts
<1>3. /\ DOMAIN job'[j] = JobFields /\ job'[j].alone = (others = {}) /\ job'[j].password = password
      /\ job'[j].pc = (IF Environment!Hopeless(q.cloud, password) THEN "ended" ELSE "setup")
      /\ job'[j].todo = Environment!Files(password) /\ job'[j].wrote = {} /\ job'[j].at = "home"
  BY <1>1 DEF JobFields
<1>4. ASSUME NEW i \in Jobs, i # j
      PROVE  /\ DOMAIN job'[i] = DOMAIN job[i] /\ job'[i].alone = (job[i].alone /\ i \notin others)
             /\ \A f \in DOMAIN job[i] : f # "alone" => job'[i][f] = job[i][f]
  <2>1. job'[i] = [job[i] EXCEPT !.alone = job[i].alone /\ i \notin others]
    BY <1>1, <1>4
  <2> QED
    BY <2>1 DEF FilesInv, JobsOK
<1>5. ASSUME NEW i \in Jobs, i # j
      PROVE  /\ job'[i].pc = job[i].pc /\ Environment!Active(i)' = Environment!Active(i)
             /\ Environment!Active(i) => ~job'[i].alone /\ job'[i].password = job[i].password
  <2>1. job'[i].pc = job[i].pc
    BY <1>4, <1>5 DEF FilesInv, JobsOK
  <2>2. Environment!Active(i) => i \in others /\ "password" \in DOMAIN job[i]
    BY <1>5 DEF FilesInv, JobsOK, JobFields
  <2>3. Environment!Active(i) => job'[i].password = job[i].password
    BY <1>4, <1>5, <2>2
  <2>4. Environment!Active(i) => ~job'[i].alone
    BY <1>4, <1>5, <2>2
  <2> QED
    BY <2>1, <2>3, <2>4 DEF Environment!Active
<1>6. JobsOK'
  <2>1. DOMAIN tmp' = FileNames /\ DOMAIN job' = Jobs
    BY <1>1, <1>2 DEF FilesInv, JobsOK
  <2>2. ASSUME NEW i \in Jobs
        PROVE  /\ {"pc", "rc", "alone"} \subseteq DOMAIN job'[i] /\ job'[i].alone \in BOOLEAN
               /\ Environment!Active(i)' => DOMAIN job'[i] = JobFields /\ job'[i].pc \in {"setup", "work", "runs", "cleanup"}
    <3>1. CASE i = j
      BY <1>3, <3>1 DEF JobFields, Environment!Active
    <3>2. CASE i # j
      BY <1>4, <1>5, <3>2 DEF FilesInv, JobsOK
    <3> QED
      BY <3>1, <3>2
  <2> QED
    BY <2>1, <2>2 DEF JobsOK
<1>7. AloneIsOnly'
  <2> SUFFICES ASSUME NEW i \in Jobs, NEW k \in Jobs, Environment!Active(i)', Environment!Active(k)', job'[k].alone, i # k
               PROVE  FALSE
    BY DEF AloneIsOnly
  <2>1. k = j
    BY <1>5
  <2>2. others = {}
    BY <1>3, <2>1
  <2>3. Environment!Active(i)
    BY <1>5, <2>1
  <2> QED
    BY <2>2, <2>3
<1>8. ASSUME NEW i \in Jobs PROVE Given(i)' /\ Todo(i)' /\ Progress(i)'
  <2>1. CASE i = j
    <3>1. Given(j)'
      BY <1>2, <1>3 DEF Given, Environment!Active, Environment!Hopeless
    <3>2. Environment!Files(password)' = Environment!Files(password)
      BY <1>2 DEF Environment!Files, Environment!SecureFile, Environment!CloudsFile
    <3>3. Progress(j)' /\ Todo(j)'
      BY <1>2, <1>3, <3>2 DEF Progress, Todo, Environment!Active
    <3> QED
      BY <2>1, <3>1, <3>3
  <2>2. CASE i # j
    <3>1. Given(i)' /\ Progress(i)'
      BY <1>2, <1>5, <2>2 DEF FilesInv, Given, Progress
    <3>2. job[i].pc = "setup" => job'[i].todo = job[i].todo /\ job'[i].password = job[i].password
      <4>1. job[i].pc = "setup" => {"todo", "password"} \subseteq DOMAIN job[i]
        BY DEF FilesInv, JobsOK, JobFields, Environment!Active
      <4> QED
        BY <1>4, <2>2, <4>1
    <3>3. Todo(i)'
      BY <1>2, <1>5, <2>2, <3>2 DEF FilesInv, Todo, Environment!Files, Environment!SecureFile, Environment!CloudsFile
    <3> QED
      BY <3>1, <3>3
  <2> QED
    BY <2>1, <2>2
<1>9. Lies'
  BY <1>2 DEF FilesInv, Lies, Environment!CloudsFile
<1> QED
  BY <1>6, <1>7, <1>8, <1>9 DEF FilesInv

\* An active job goes on: no other one is alone, so what it does to the files
\* concerns nobody.
LEMMA GoesOn ==
  ASSUME FilesInv, NEW j \in Jobs, Environment!Active(j), etc' = etc, DOMAIN tmp' = FileNames,
         DOMAIN job' = Jobs, \A i \in Jobs : i # j => job'[i] = job[i],
         DOMAIN job'[j] = JobFields, job'[j].alone = job[j].alone, job'[j].password = job[j].password,
         job'[j].pc \in {"setup", "work", "runs", "cleanup", "ended"},
         Lies', Todo(j)', Progress(j)'
  PROVE  FilesInv'
<1>1. JobsOK'
  BY DEF FilesInv, JobsOK, Environment!Active, JobFields
<1>2. AloneIsOnly'
  BY DEF FilesInv, AloneIsOnly, Environment!Active
<1>3. ASSUME NEW i \in Jobs PROVE Given(i)' /\ Todo(i)' /\ Progress(i)'
  <2>1. CASE i = j
    BY <2>1 DEF FilesInv, Given, Environment!Active
  <2>2. CASE i # j
    <3>1. Given(i)'
      BY <2>2 DEF FilesInv, Given, Environment!Active
    <3>2. ~(Environment!Active(i)' /\ job'[i].alone)
      BY <2>2 DEF FilesInv, AloneIsOnly, Environment!Active
    <3>3. Todo(i)'
      BY <2>2 DEF FilesInv, Todo, Environment!Files, Environment!SecureFile, Environment!CloudsFile
    <3> QED
      BY <3>1, <3>2, <3>3 DEF Progress
  <2> QED
    BY <2>1, <2>2
<1> QED
  BY <1>1, <1>2, <1>3 DEF FilesInv

\* What the type says of an active job.
LEMMA ActiveJob ==
  ASSUME FilesInv, NEW j \in Jobs, Environment!Active(j)
  PROVE  /\ DOMAIN job = Jobs /\ DOMAIN job[j] = JobFields /\ DOMAIN tmp = FileNames
         /\ job[j].pc \in {"setup", "work", "runs", "cleanup"}
BY DEF FilesInv, JobsOK

\* A failure leads a task to its cleanup, and ends a command.
LEMMA FailsStep ==
  ASSUME FilesInv, NEW j \in Jobs, Environment!Active(j), etc' = etc, DOMAIN tmp' = FileNames,
         Lies', Environment!Ends(j, 1) \/ Environment!Fails(j)
  PROVE  FilesInv'
<1>1. /\ DOMAIN job' = Jobs /\ \A i \in Jobs : i # j => job'[i] = job[i]
      /\ DOMAIN job'[j] = JobFields /\ job'[j].alone = job[j].alone /\ job'[j].password = job[j].password
      /\ job'[j].pc \in {"cleanup", "ended"}
  BY ActiveJob DEF Environment!Ends, Environment!Fails, JobFields
<1>2. Progress(j)' /\ Todo(j)'
  BY <1>1 DEF Progress, Todo, Environment!Active
<1> QED
  BY <1>1, <1>2, GoesOn

\* A file is written, under the name of its kind.
LEMMA Writes ==
  ASSUME NEW j \in Jobs, NEW file, FilesInv, etc' = etc,
         file \in {Environment!CloudsFile, Environment!SecureFile(job[j].password)},
         tmp' = [tmp EXCEPT ![file] = IF file \in Environment!SecureNames THEN Environment!Secure(j) ELSE Environment!Clouds(j)]
  PROVE  Lies'
<1>1. Environment!CloudsFile' = Environment!CloudsFile
  BY DEF Environment!CloudsFile
<1>2. DOMAIN tmp = FileNames /\ "secure.yaml" \in FileNames /\ Environment!CloudsNames \subseteq FileNames
  BY DEF FilesInv, JobsOK, FileNames, Environment!SecureNames
<1>3. ASSUME NEW f \in Environment!CloudsNames, tmp'[f] # "none" PROVE f = Environment!CloudsFile
  <2>1. CASE f = file
    BY <1>3, <2>1, NamesAre
  <2>2. CASE f # file
    BY <1>2, <1>3, <2>2 DEF FilesInv, Lies
  <2> QED
    BY <2>1, <2>2
<1>4. tmp'["secure.yaml"] \in {"none", "copied"}
  <2>1. CASE file = "secure.yaml"
    <3>1. job[j].password = "none" /\ file \in Environment!SecureNames
      BY <2>1, NamesAre DEF Environment!SecureNames
    <3> QED
      BY <1>2, <2>1, <3>1 DEF Environment!Secure
  <2>2. CASE file # "secure.yaml"
    BY <1>2, <2>2 DEF FilesInv, Lies
  <2> QED
    BY <2>1, <2>2
<1> QED
  BY <1>1, <1>3, <1>4 DEF Lies

LEMMA SetupStep ==
  ASSUME FilesInv, NEW j \in Jobs, Environment!setup_cloud_environment(j)
  PROVE  FilesInv'
<1> DEFINE todo == job[j].todo
           Written == [tmp EXCEPT ![Head(todo)] = IF Head(todo) \in Environment!SecureNames
                                                  THEN Environment!Secure(j) ELSE Environment!Clouds(j)]
           secure == Environment!SecureFile(job[j].password)
<1>1. job[j].pc = "setup" /\ Environment!Active(j) /\ etc' = etc
  BY DEF Environment!setup_cloud_environment, Environment!Active
<1>2. /\ DOMAIN job = Jobs /\ DOMAIN job[j] = JobFields /\ DOMAIN tmp = FileNames
      /\ DOMAIN Written = FileNames
  BY <1>1, ActiveJob
<1>3. todo \in {Two(job[j].password), <<secure>>, <<>>}
  BY <1>1, FilesAre DEF FilesInv, Todo
<1>4. todo # <<>> => Head(todo) \in {Environment!CloudsFile, secure}
  BY <1>3 DEF Two
<1>5. todo # <<>> /\ tmp' = Written => Lies'
  BY <1>1, <1>4, Writes
<1>6. tmp' = tmp => Lies'
  BY <1>1 DEF FilesInv, Lies, Environment!CloudsFile
<1>7. /\ Environment!CloudsFile' = Environment!CloudsFile /\ HasClouds' = HasClouds
      /\ \A password : /\ Environment!SecureFile(password)' = Environment!SecureFile(password)
                        /\ Environment!Files(password)' = Environment!Files(password)
  BY <1>1 DEF Environment!CloudsFile, HasClouds, Environment!SecureFile, Environment!Files
<1>8. CASE /\ todo # <<>> /\ tmp' = Written
           /\ job' = [job EXCEPT ![j].todo = Tail(todo), ![j].wrote = @ \cup {Head(todo)}]
  <2>1. /\ DOMAIN job' = Jobs /\ \A i \in Jobs : i # j => job'[i] = job[i]
        /\ DOMAIN job'[j] = JobFields /\ job'[j].alone = job[j].alone /\ job'[j].password = job[j].password
        /\ job'[j].pc = "setup" /\ job'[j].todo = Tail(todo) /\ job'[j].at = job[j].at
    BY <1>1, <1>2, <1>8 DEF JobFields
  <2>2. Tail(todo) = <<secure>> \/ Tail(todo) = <<>>
    <3>1. CASE todo = Two(job[j].password)
      BY <3>1 DEF Two
    <3>2. CASE todo = <<secure>>
      BY <3>2
    <3> QED
      BY <1>3, <1>8, <3>1, <3>2
  <2>3. Todo(j)'
    BY <1>7, <2>1, <2>2 DEF Todo
  <2>4. ASSUME job[j].alone PROVE Progress(j)'
    <3>1. /\ job[j].at = "home"
          /\ \/ todo = Environment!Files(job[j].password)
             \/ todo = <<secure>> /\ HasClouds /\ CloudsWritten(j)
      BY <1>1, <1>8, <2>4 DEF FilesInv, Progress
    <3>2. CASE todo = Two(job[j].password) /\ HasClouds
      <4>1. Head(todo) = Environment!CloudsFile /\ Tail(todo) = <<secure>>
        BY <3>2 DEF Two
      <4>2. tmp'[Environment!CloudsFile] = Environment!Clouds(j)
        BY <1>2, <1>8, <4>1, NamesAre DEF FileNames
      <4>3. CloudsWritten(j)'
        BY <1>7, <2>1, <4>2 DEF CloudsWritten, Environment!Clouds
      <4> QED
        BY <1>7, <2>1, <3>1, <3>2, <4>1, <4>3 DEF Progress
    <3>3. CASE todo = <<secure>> /\ (HasClouds => CloudsWritten(j)) /\ (job[j].password = "none" \/ HasClouds)
      <4>1. Head(todo) = secure /\ Tail(todo) = <<>>
        BY <3>3
      <4>2. tmp'[secure] = Environment!Secure(j)
        BY <1>2, <1>8, <4>1, NamesAre DEF FileNames
      <4>3. SecureWritten(j)'
        BY <1>7, <2>1, <4>2 DEF SecureWritten, Environment!Secure
      <4>4. tmp'[Environment!CloudsFile] = tmp[Environment!CloudsFile]
        BY <1>2, <1>8, <4>1, NamesAre DEF FileNames
      <4>5. SetUp(j)'
        BY <1>7, <2>1, <3>3, <4>3, <4>4 DEF SetUp, CloudsWritten, Environment!Clouds
      <4> QED
        BY <2>1, <3>1, <4>1, <4>5 DEF Progress
    <3>4. todo = Environment!Files(job[j].password) =>
            \/ todo = Two(job[j].password) /\ HasClouds
            \/ todo = <<secure>> /\ ~HasClouds /\ job[j].password = "none"
      BY <1>8, FilesAre
    <3> QED
      BY <3>1, <3>2, <3>3, <3>4
  <2>5. Progress(j)'
    BY <2>1, <2>4 DEF Progress
  <2>6. DOMAIN tmp' = FileNames
    BY <1>2, <1>8
  <2> QED
    BY <1>1, <1>5, <1>8, <2>1, <2>3, <2>5, <2>6, GoesOn
<1>9. CASE /\ todo = <<>> /\ UNCHANGED tmp
           /\ job' = [job EXCEPT ![j].at = IF job[j].wrote # {} THEN "/tmp" ELSE @, ![j].pc = "work"]
  <2>1. /\ DOMAIN job' = Jobs /\ \A i \in Jobs : i # j => job'[i] = job[i]
        /\ DOMAIN job'[j] = JobFields /\ job'[j].alone = job[j].alone /\ job'[j].password = job[j].password
        /\ job'[j].pc = "work" /\ job'[j].wrote = job[j].wrote
        /\ job'[j].at = IF job[j].wrote # {} THEN "/tmp" ELSE job[j].at
    BY <1>1, <1>2, <1>9 DEF JobFields
  <2>2. ASSUME job[j].alone PROVE Progress(j)'
    <3>1. job[j].at = "home" /\ (job[j].wrote = {} \/ SetUp(j))
      BY <1>1, <1>9, <2>2 DEF FilesInv, Progress, SetUp
    <3>2. SetUp(j)'
      BY <1>7, <1>9, <2>1, <3>1 DEF SetUp, SecureWritten, Environment!Secure, CloudsWritten, Environment!Clouds
    <3> QED
      BY <2>1, <3>1, <3>2 DEF Progress
  <2>3. Progress(j)' /\ Todo(j)'
    BY <2>1, <2>2 DEF Progress, Todo
  <2> QED
    BY <1>1, <1>2, <1>6, <1>9, <2>1, <2>3, GoesOn
<1>10. CASE tmp' \in {tmp} \cup (IF todo = <<>> THEN {} ELSE {Written}) /\ (Environment!Ends(j, 1) \/ Environment!Fails(j))
  <2>1. tmp' = tmp \/ (todo # <<>> /\ tmp' = Written)
    BY <1>10
  <2>2. DOMAIN tmp' = FileNames
    BY <1>2, <2>1
  <2> QED
    BY <1>1, <1>5, <1>6, <1>10, <2>1, <2>2, FailsStep
<1> QED
  BY <1>8, <1>9, <1>10 DEF Environment!setup_cloud_environment

\* No file is written, or one is removed.
LEMMA StillLies ==
  ASSUME FilesInv, etc' = etc, tmp' = tmp \/ \E file : tmp' = [tmp EXCEPT ![file] = "none"]
  PROVE  Lies'
<1>1. Environment!CloudsFile' = Environment!CloudsFile
  BY DEF Environment!CloudsFile
<1>2. DOMAIN tmp = FileNames /\ "secure.yaml" \in FileNames /\ Environment!CloudsNames \subseteq FileNames
  BY DEF FilesInv, JobsOK, FileNames, Environment!SecureNames
<1>3. \A f \in FileNames : tmp'[f] \in {tmp[f], "none"}
  BY <1>2
<1> QED
  BY <1>1, <1>2, <1>3 DEF FilesInv, Lies

\* A command connects, or fails: it starts no program.
LEMMA ConnectionStep ==
  ASSUME FilesInv, NEW j \in Jobs, Environment!get_openstack_connection(j)
  PROVE  FilesInv'
<1>1. Environment!Active(j) /\ etc' = etc /\ tmp' = tmp
  BY DEF Environment!get_openstack_connection, Environment!Active
<1>2. CASE Environment!Goes(j, "cleanup") \/ job' = [job EXCEPT ![j].pc = "cleanup", ![j].found = Environment!Found(job[j].at)]
  <2>1. /\ DOMAIN job' = Jobs /\ \A i \in Jobs : i # j => job'[i] = job[i]
        /\ DOMAIN job'[j] = JobFields /\ job'[j].alone = job[j].alone /\ job'[j].password = job[j].password
        /\ job'[j].pc = "cleanup"
    BY <1>1, <1>2, ActiveJob DEF Environment!Goes, JobFields
  <2>2. Progress(j)' /\ Todo(j)'
    BY <2>1 DEF Progress, Todo
  <2> QED
    BY <1>1, <2>1, <2>2, ActiveJob, StillLies, GoesOn
<1>3. CASE Environment!Fails(j)
  BY <1>1, <1>3, ActiveJob, StillLies, FailsStep
<1> QED
  BY <1>2, <1>3 DEF Environment!get_openstack_connection

\* A program in /tmp finds what the setup has written.
LEMMA ProgramStep ==
  ASSUME FilesInv, NEW j \in Jobs, Environment!run_openstack_command(j)
  PROVE  FilesInv'
<1> DEFINE at == IF job[j].call.do = "project" THEN "project" ELSE job[j].at
<1>1. Environment!Active(j) /\ job[j].pc = "work" /\ etc' = etc /\ tmp' = tmp
  BY DEF Environment!run_openstack_command, Environment!Active
<1>2. CASE job' = [job EXCEPT ![j].pc = "runs", ![j].at = at, ![j].found = Environment!Found(at)]
  <2>1. /\ DOMAIN job' = Jobs /\ \A i \in Jobs : i # j => job'[i] = job[i]
        /\ DOMAIN job'[j] = JobFields /\ job'[j].alone = job[j].alone /\ job'[j].password = job[j].password
        /\ job'[j].pc = "runs" /\ job'[j].at = at /\ job'[j].found = Environment!Found(at)
    BY <1>1, <1>2, ActiveJob DEF JobFields
  <2>2. ASSUME job[j].alone, at = "/tmp"
        PROVE  Environment!Found(at) =
                 IF job[j].password = "none" \/ tmp["secure.yaml"] # "none" THEN "secure" ELSE job[j].password
    <3>1. job[j].wrote # {} /\ SetUp(j) /\ Given(j) /\ JobsOK /\ Lies
      BY <1>1, <2>2 DEF FilesInv, Progress
    <3> QED
      BY <1>1, <2>2, <3>1, FindsOwn
  <2> HIDE DEF at
  <2>3. Progress(j)' /\ Todo(j)'
    BY <1>1, <2>1, <2>2 DEF Progress, Todo
  <2> QED
    BY <1>1, <2>1, <2>3, ActiveJob, StillLies, GoesOn
<1>3. CASE Environment!Fails(j)
  BY <1>1, <1>3, ActiveJob, StillLies, FailsStep
<1> QED
  BY <1>2, <1>3 DEF Environment!run_openstack_command

LEMMA EndStep ==
  ASSUME FilesInv, NEW j \in Jobs, Environment!ProgramEnds(j) \/ Environment!cleanup_cloud_environment(j)
  PROVE  FilesInv'
<1>1. Environment!Active(j) /\ etc' = etc
  BY DEF Environment!ProgramEnds, Environment!cleanup_cloud_environment, Environment!Active
<1>2. DOMAIN tmp' = FileNames
  BY <1>1, ActiveJob DEF Environment!ProgramEnds, Environment!cleanup_cloud_environment
<1>3. /\ DOMAIN job' = Jobs /\ \A i \in Jobs : i # j => job'[i] = job[i]
      /\ DOMAIN job'[j] = JobFields /\ job'[j].alone = job[j].alone /\ job'[j].password = job[j].password
      /\ job'[j].pc \in {"cleanup", "ended"}
  BY <1>1, ActiveJob DEF Environment!ProgramEnds, Environment!Goes, Environment!cleanup_cloud_environment, JobFields
<1>4. Progress(j)' /\ Todo(j)'
  BY <1>3 DEF Progress, Todo, Environment!Active
<1>5. Lies'
  BY <1>1, StillLies DEF Environment!ProgramEnds, Environment!cleanup_cloud_environment
<1> QED
  BY <1>1, <1>2, <1>3, <1>4, <1>5, GoesOn

LEMMA FilesStep == FilesInv /\ [Environment!environmentNext]_fileVars => FilesInv'
<1> SUFFICES ASSUME FilesInv, [Environment!environmentNext]_fileVars PROVE FilesInv'
  OBVIOUS
<1>1. CASE UNCHANGED fileVars
  BY <1>1 DEF FilesInv, JobsOK, Lies, AloneIsOnly, Given, Todo, Progress, SetUp, SecureWritten, Environment!Secure, CloudsWritten,
     Environment!Clouds, Environment!CloudsFile, Environment!SecureFile, Environment!Files, HasClouds, Environment!Active, fileVars
<1> QED
  BY <1>1, StartsStep, SetupStep, ConnectionStep, ProgramStep, EndStep DEF Environment!environmentNext

\* For any commands and tasks, clouds and files in /etc/openstack: a program that
\* overlaps with no other command or task reads the password of its own cloud,
\* whatever files failed ones have left in /tmp, but for a copy of secure.yaml.
LEMMA FilesAreTheirs == environmentSpec => []Environment!ProgramsFindTheirCloud
<1>1. FilesInv => Environment!ProgramsFindTheirCloud
  BY DEF FilesInv, Progress, Environment!Active, Environment!ProgramsFindTheirCloud
<1> QED
  BY <1>1, FilesStart, FilesStep, PTL DEF environmentSpec

-----------------------------------------------------------------------------
(* The roles.                                                                *)

applySpec == Applying!applyInit /\ [][Applying!applyNext]_applyVars

\* The roles of commands and of collections.
Named == UNION {Applying!Elements(q.names) : q \in Applications}
Grown == UNION {{Collections[n][i].role : i \in DOMAIN Collections[n]} : n \in DOMAIN Collections}
Roles == Named \cup Grown

TaskQueues == {"osism-ansible", "kolla-ansible", "ceph-ansible", "kubernetes"}

TaskStates == {"queued", "chained", "checked", "runs", "ended", "failed"}

Tasks ==
  [role : Roles, queue : TaskQueues, noop : BOOLEAN, after : Nat, for : Clients \X (Nat \ {0}),
   state : TaskStates, rc : {0, 1}]

\* A client that has a command, at a segment of it.
Calls ==
  [pc : {"segment", "follow", "ended"}, call : Applications, at : Nat \ {0}, attempt : Nat,
   task : Nat, rc : {0, 1}]

Called(c) == "call" \in DOMAIN client[c]

ClientsOK ==
  /\ DOMAIN client = Clients
  /\ \A c \in Clients :
       /\ "pc" \in DOMAIN client[c]
       /\ client[c].pc \in {"segment", "follow"} => Called(c)
       /\ Called(c) => client[c] \in Calls /\ client[c].at \in DOMAIN client[c].call.names

TasksOK ==
  /\ task \in Seq(Tasks)
  /\ \A t \in DOMAIN task : task[t].after < t /\ Called(task[t].for[1])

\* A client follows a task of the segment it is at.
FollowsOwn ==
  \A c \in Clients : client[c].pc = "follow" =>
    client[c].task \in DOMAIN task /\ task[client[c].task].for = <<c, client[c].at>>

\* The task of a role waits in its chain until the one it depends on has ended.
ChainsWait ==
  \A t \in DOMAIN task :
    task[t].after # 0 /\ task[t].state # "chained" => task[task[t].after].state = "ended"

\* An attempt at segment k of c's command has ended well.
Won(c, k) ==
  \E s \in DOMAIN task : task[s].for = <<c, k>> /\ task[s].state = "ended" /\ task[s].rc = 0

\* A client that waits has won all segments before the one it is at ...
ClientsWon ==
  \A c \in Clients : Called(c) /\ client[c].call.wait =>
    \A k \in 1..(client[c].at - 1) : Won(c, k)

\* ... and had when it submitted a task.
TasksWon ==
  \A t \in DOMAIN task, c \in Clients, n \in Nat \ {0} :
    task[t].for = <<c, n>> /\ client[c].call.wait => \A k \in 1..(n - 1) : Won(c, k)

ApplyInv == ClientsOK /\ TasksOK /\ FollowsOwn /\ ChainsWait /\ ClientsWon /\ TasksWon

-----------------------------------------------------------------------------
LEMMA NamedRoles ==
  ASSUME NEW q \in Applications, NEW i \in DOMAIN q.names
  PROVE  q.names[i] \in Roles
<1>1. q.names[i] \in Applying!Elements(q.names)
  BY DEF Applying!Elements
<1> QED
  BY <1>1 DEF Roles, Named

LEMMA GrownRoles ==
  ASSUME NEW n \in DOMAIN Collections, NEW i \in DOMAIN Collections[n]
  PROVE  Collections[n][i].role \in Roles
BY DEF Roles, Grown

LEMMA ApplyStarts == Applying!applyInit => ApplyInv
<1> SUFFICES ASSUME Applying!applyInit PROVE ApplyInv
  OBVIOUS
<1>1. \A c \in Clients : client[c] = [pc |-> "idle", rc |-> 0]
  BY DEF Applying!applyInit
<1>2. ClientsOK
  BY <1>1 DEF Applying!applyInit, ClientsOK, Called
<1>3. task = <<>> /\ DOMAIN task = {}
  BY DEF Applying!applyInit
<1>4. TasksOK /\ ChainsWait /\ FollowsOwn
  BY <1>1, <1>3 DEF TasksOK, ChainsWait, FollowsOwn
<1>5. ClientsWon /\ TasksWon
  BY <1>1, <1>3 DEF ClientsWon, TasksWon, Called
<1> QED
  BY <1>2, <1>4, <1>5 DEF ApplyInv

\* What the invariant says of a single task.
LEMMA Typed ==
  ASSUME ApplyInv
  PROVE  /\ Len(task) \in Nat /\ DOMAIN task = 1..Len(task)
         /\ \A t \in DOMAIN task :
              /\ task[t] \in Tasks
              /\ \E c \in Clients, n \in Nat \ {0} : task[t].for = <<c, n>> /\ Called(c)
              /\ task[t].after \in Nat /\ task[t].after < t
<1>1. task \in Seq(Tasks) /\ \A t \in DOMAIN task : task[t].after < t /\ Called(task[t].for[1])
  BY DEF ApplyInv, TasksOK
<1>2. Len(task) \in Nat /\ DOMAIN task = 1..Len(task) /\ \A t \in DOMAIN task : task[t] \in Tasks
  BY <1>1
<1>3. \A x \in Tasks : x.for \in Clients \X (Nat \ {0}) /\ x.after \in Nat
  BY DEF Tasks
<1>4. \A x \in Clients \X (Nat \ {0}) : \E c \in Clients, n \in Nat \ {0} : x = <<c, n>> /\ x[1] = c
  OBVIOUS
<1> QED
  BY <1>1, <1>2, <1>3, <1>4

\* What the invariant says of the order is the property.
LEMMA InOrder == ApplyInv => Applying!AppliedInOrder
<1> SUFFICES ASSUME ApplyInv PROVE Applying!AppliedInOrder
  OBVIOUS
<1>1. Applying!ChainsInOrder
  BY DEF ApplyInv, ChainsWait, Applying!ChainsInOrder, Applying!Started
<1>2. Applying!SegmentsInOrder
  <2> SUFFICES ASSUME NEW t \in DOMAIN task, client[task[t].for[1]].call.wait,
                      NEW k \in 1..(task[t].for[2] - 1)
               PROVE  \E s \in DOMAIN task :
                        /\ task[s].for = <<task[t].for[1], k>>
                        /\ task[s].state = "ended" /\ task[s].rc = 0
    BY DEF Applying!SegmentsInOrder
  <2>1. PICK c \in Clients, n \in Nat \ {0} : task[t].for = <<c, n>>
    BY Typed
  <2>2. task[t].for[1] = c /\ task[t].for[2] = n
    BY <2>1
  <2>3. Won(c, k)
    BY <2>1, <2>2 DEF ApplyInv, TasksWon
  <2> QED
    BY <2>2, <2>3 DEF Won
<1> QED
  BY <1>1, <1>2 DEF Applying!AppliedInOrder

-----------------------------------------------------------------------------
\* Tasks are not forgotten, and one that has ended stays as it is.
ShapeKept ==
  \A t \in DOMAIN task :
    /\ t \in DOMAIN task'
    /\ task'[t].for = task[t].for /\ task'[t].after = task[t].after
    /\ task[t].state = "ended" => task'[t] = task[t]

LEMMA KeptWon ==
  ASSUME ShapeKept, NEW c, NEW k, Won(c, k)
  PROVE  Won(c, k)'
BY DEF ShapeKept, Won

LEMMA Sequence ==
  ASSUME NEW S, NEW n \in Nat, NEW f, f = [i \in 1..n |-> f[i]], \A i \in 1..n : f[i] \in S
  PROVE  f \in Seq(S)
OBVIOUS

\* Tasks change as Kept says, and no task and no client is added: the rest of the
\* invariant stands if the chains do.
LEMMA ShapeStep ==
  ASSUME ApplyInv, ShapeKept, task' \in Seq(Tasks), DOMAIN task' = DOMAIN task, UNCHANGED client, ChainsWait'
  PROVE  ApplyInv'
<1>1. ClientsOK'
  BY DEF ApplyInv, ClientsOK, Called
<1>2. TasksOK' /\ FollowsOwn'
  BY DEF ApplyInv, TasksOK, FollowsOwn, ShapeKept, Called
<1>3. ClientsWon'
  BY KeptWon DEF ApplyInv, ClientsWon, Called
<1>4. TasksWon'
  BY KeptWon DEF ApplyInv, TasksWon, ShapeKept
<1> QED
  BY <1>1, <1>2, <1>3, <1>4 DEF ApplyInv

\* A task moves on, without an end that others wait for.
LEMMA MovesStep ==
  ASSUME ApplyInv, NEW t \in DOMAIN task, task[t].state \in {"queued", "checked", "runs"},
         NEW state \in {"checked", "runs", "failed"}, task' = [task EXCEPT ![t].state = state]
  PROVE  /\ ShapeKept /\ task' \in Seq(Tasks) /\ DOMAIN task' = DOMAIN task
         /\ ChainsWait'
<1>1. DOMAIN task = 1..Len(task) /\ Len(task) \in Nat /\ \A u \in DOMAIN task : task[u] \in Tasks
  BY DEF ApplyInv, TasksOK
<1>2. DOMAIN task' = DOMAIN task /\ \A u \in DOMAIN task : u # t => task'[u] = task[u]
  OBVIOUS
<1>3. task'[t] = [task[t] EXCEPT !.state = state]
  OBVIOUS
<1>4. /\ task'[t] \in Tasks /\ task'[t].state = state
      /\ task'[t].for = task[t].for /\ task'[t].after = task[t].after
  BY <1>1, <1>3 DEF Tasks, TaskStates
<1>5. task' \in Seq(Tasks)
  <2>1. \A u \in 1..Len(task) : task'[u] \in Tasks
    BY <1>1, <1>2, <1>4
  <2>2. task' = [u \in 1..Len(task) |-> task'[u]]
    BY <1>1, <1>2
  <2> QED
    BY <1>1, <2>1, <2>2, Sequence
<1>6. ShapeKept
  BY <1>2, <1>4 DEF ShapeKept
<1>7. ChainsWait'
  <2> SUFFICES ASSUME NEW u \in DOMAIN task, task'[u].after # 0, task'[u].state # "chained"
               PROVE  task'[task'[u].after].state = "ended"
    BY <1>2 DEF ChainsWait
  <2>1. task[u].after \in DOMAIN task /\ task'[u].after = task[u].after
    BY <1>1, <1>2, <1>4, Typed
  <2>2. task[task[u].after].state = "ended"
    BY <1>2, <1>4, <2>1 DEF ApplyInv, ChainsWait
  <2> QED
    BY <1>6, <2>1, <2>2 DEF ShapeKept
<1> QED
  BY <1>2, <1>5, <1>6, <1>7

\* A task ends, and those chained to it are queued.
LEMMA SucceedsStep ==
  ASSUME ApplyInv, NEW t \in DOMAIN task, task[t].state \in {"queued", "runs"},
         NEW rc \in {0, 1}, Applying!Succeeds(t, rc), UNCHANGED client
  PROVE  ApplyInv'
<1>1. DOMAIN task = 1..Len(task) /\ Len(task) \in Nat /\ \A u \in DOMAIN task : task[u] \in Tasks
  BY DEF ApplyInv, TasksOK
<1>2. DOMAIN task' = DOMAIN task
  BY DEF Applying!Succeeds
<1>3. /\ task'[t] \in Tasks /\ task'[t].state = "ended"
      /\ task'[t].for = task[t].for /\ task'[t].after = task[t].after
  <2>1. task'[t] = [task[t] EXCEPT !.state = "ended", !.rc = rc]
    BY DEF Applying!Succeeds
  <2> QED
    BY <1>1, <2>1 DEF Tasks, TaskStates
<1>4. ASSUME NEW u \in DOMAIN task, u # t
      PROVE  /\ task'[u] \in Tasks /\ task'[u].for = task[u].for /\ task'[u].after = task[u].after
             /\ \/ task[u].after = t /\ task[u].state = "chained" /\ task'[u].state = "queued"
                \/ task'[u] = task[u]
  <2>1. CASE task[u].after = t /\ task[u].state = "chained"
    <3>1. task'[u] = [task[u] EXCEPT !.state = "queued"]
      BY <1>4, <2>1 DEF Applying!Succeeds
    <3> QED
      BY <1>1, <2>1, <3>1 DEF Tasks, TaskStates
  <2>2. CASE ~(task[u].after = t /\ task[u].state = "chained")
    <3>1. task'[u] = task[u]
      BY <1>4, <2>2 DEF Applying!Succeeds
    <3> QED
      BY <1>1, <3>1
  <2> QED
    BY <2>1, <2>2
<1>5. task' \in Seq(Tasks)
  <2>1. \A u \in 1..Len(task) : task'[u] \in Tasks
    BY <1>1, <1>3, <1>4
  <2>2. task' = [u \in 1..Len(task) |-> task'[u]]
    BY <1>1 DEF Applying!Succeeds
  <2> QED
    BY <1>1, <2>1, <2>2, Sequence
<1>6. ShapeKept
  BY <1>2, <1>3, <1>4 DEF ShapeKept
<1>7. ChainsWait'
  <2> SUFFICES ASSUME NEW u \in DOMAIN task, task'[u].after # 0, task'[u].state # "chained"
               PROVE  task'[task'[u].after].state = "ended"
    BY <1>2 DEF ChainsWait
  <2>1. task[u].after \in DOMAIN task
    <3>1. task[u].after \in Nat /\ task[u].after < u /\ task[u].after # 0
      BY <1>1, <1>3, <1>4 DEF ApplyInv, TasksOK, Tasks
    <3> QED
      BY <1>1, <3>1
  <2>2. task[u].after = t \/ task[task[u].after].state = "ended"
    BY <1>3, <1>4 DEF ApplyInv, ChainsWait
  <2> QED
    BY <1>3, <1>4, <1>6, <2>1, <2>2 DEF ShapeKept
<1> QED
  BY <1>2, <1>5, <1>6, <1>7, ShapeStep

LEMMA RunStep ==
  ASSUME ApplyInv, NEW t \in DOMAIN task, Applying!run(t)
  PROVE  ApplyInv'
<1>1. CASE task[t].noop
  BY <1>1, SucceedsStep DEF Applying!run
<1>2. CASE ~task[t].noop
  <2>1. PICK state \in {"checked", "failed"} : task' = [task EXCEPT ![t].state = state]
    BY <1>2 DEF Applying!run
  <2> QED
    BY <2>1, MovesStep, ShapeStep DEF Applying!run
<1> QED
  BY <1>1, <1>2

LEMMA PlaysStep ==
  ASSUME ApplyInv, NEW t \in DOMAIN task, Applying!Plays(t)
  PROVE  ApplyInv'
<1>1. CASE task[t].state = "runs" /\ \E rc \in {0, 1} : Applying!Succeeds(t, rc)
  BY <1>1, SucceedsStep DEF Applying!Plays
<1>2. CASE /\ task[t].state \in {"checked", "runs"}
           /\ \E state \in {"runs", "failed"} : task' = [task EXCEPT ![t].state = state]
  <2>1. PICK state \in {"runs", "failed"} : task' = [task EXCEPT ![t].state = state]
    BY <1>2
  <2> QED
    BY <1>2, <2>1, MovesStep, ShapeStep DEF Applying!Plays
<1> QED
  BY <1>1, <1>2 DEF Applying!Plays

-----------------------------------------------------------------------------
\* A client that looks at the lock and gets its first segment has no task yet.
LEMMA SubmitStep ==
  ASSUME Applying!ApplyAssumption, ApplyInv, NEW c \in Clients, NEW q \in Applications, Applying!take_action(c, q)
  PROVE  ApplyInv'
<1>1. client[c].pc = "idle" /\ ~Called(c) /\ "pc" \in DOMAIN client[c] /\ DOMAIN client = Clients
  <2>1. client[c].pc = "idle"
    BY DEF Applying!take_action
  <2>2. \A x \in Calls : x.pc # "idle"
    BY DEF Calls
  <2> QED
    BY <2>1, <2>2 DEF ApplyInv, ClientsOK
<1>2. task' = task /\ DOMAIN client' = Clients /\ \A d \in Clients : d # c => client'[d] = client[d]
  BY <1>1 DEF Applying!take_action, Applying!Ends
<1>0. \A t \in DOMAIN task : \E d \in Clients, n \in Nat \ {0} :
        task[t].for = <<d, n>> /\ Called(d) /\ d # c /\ client'[d] = client[d]
  BY <1>1, <1>2, Typed
<1>a. TasksOK' /\ TasksWon' /\ ChainsWait'
  <2>1. TasksOK'
    BY <1>0, <1>2 DEF ApplyInv, TasksOK, Called
  <2>2. TasksWon'
    <3> SUFFICES ASSUME NEW t \in DOMAIN task, NEW d \in Clients, NEW n \in Nat \ {0},
                        task[t].for = <<d, n>>, client'[d].call.wait, NEW k \in 1..(n - 1)
                 PROVE  Won(d, k)'
      BY <1>2 DEF TasksWon
    <3>1. client'[d] = client[d]
      BY <1>0
    <3>2. Won(d, k)
      BY <3>1 DEF ApplyInv, TasksWon
    <3> QED
      BY <1>2, <3>2 DEF Won
  <2> QED
    BY <1>2, <2>1, <2>2 DEF ApplyInv, ChainsWait
<1>b. ASSUME NEW d \in Clients, d # c, Called(d)', client'[d].call.wait, NEW k \in 1..(client'[d].at - 1)
      PROVE  Won(d, k)'
  <2>1. Called(d) /\ client'[d] = client[d]
    BY <1>2, <1>b DEF Called
  <2>2. Won(d, k)
    BY <1>b, <2>1 DEF ApplyInv, ClientsWon
  <2> QED
    BY <1>2, <2>2 DEF Won
<1>3. CASE Applying!Ends(c, 1)
  <2>1. client'[c].pc = "ended" /\ "pc" \in DOMAIN client'[c] /\ ~Called(c)'
    BY <1>1, <1>3 DEF Applying!Ends, Called
  <2>2. ClientsOK' /\ FollowsOwn' /\ ChainsWait'
    BY <1>1, <1>2, <2>1 DEF ApplyInv, ClientsOK, FollowsOwn, ChainsWait, Called
  <2>3. ClientsWon'
    BY <1>b, <2>1 DEF ClientsWon
  <2> QED
    BY <1>a, <2>2, <2>3 DEF ApplyInv
<1>4. CASE client' = [client EXCEPT ![c] =
             [pc |-> "segment", call |-> q, at |-> 1, attempt |-> 0, task |-> 0, rc |-> 0]]
  <2>1. client'[c] = [pc |-> "segment", call |-> q, at |-> 1, attempt |-> 0, task |-> 0, rc |-> 0]
    BY <1>1, <1>4
  <2>2. 1 \in DOMAIN q.names
    BY DEF Applying!ApplyAssumption
  <2>3. client'[c] \in Calls /\ client'[c].pc = "segment" /\ client'[c].at = 1 /\ client'[c].call = q /\ Called(c)'
    BY <2>1 DEF Calls, Called
  <2>4. "pc" \in DOMAIN client'[c]
    BY <2>1
  <2>5. ClientsOK' /\ FollowsOwn' /\ ChainsWait'
    BY <1>1, <1>2, <2>2, <2>3, <2>4 DEF ApplyInv, ClientsOK, FollowsOwn, ChainsWait, Called
  <2>6. ClientsWon'
    BY <1>b, <2>3 DEF ClientsWon
  <2> QED
    BY <1>a, <2>5, <2>6 DEF ApplyInv
<1> QED
  BY <1>3, <1>4 DEF Applying!take_action

\* A client with a command goes on with it, and may have added tasks for its
\* segment; it comes to the next one only after winning this.
LEMMA ClientStep ==
  ASSUME ApplyInv, NEW c \in Clients, Called(c), NEW at, at = client[c].at,
         ShapeKept, task' \in Seq(Tasks), ChainsWait',
         \A t \in DOMAIN task' :
           task'[t].after < t /\ (t \in DOMAIN task \/ task'[t].for = <<c, at>>),
         DOMAIN client' = Clients, \A d \in Clients : d # c => client'[d] = client[d],
         client'[c] \in Calls, client'[c].call = client[c].call,
         client'[c].at \in DOMAIN client[c].call.names,
         \/ client'[c].at = at
         \/ client'[c].at = at + 1 /\ (client[c].call.wait => Won(c, at)'),
         client'[c].pc = "follow" =>
           client'[c].task \in DOMAIN task' /\ task'[client'[c].task].for = <<c, client'[c].at>>
  PROVE  ApplyInv'
<1>1. Called(c)' /\ "pc" \in DOMAIN client'[c]
  BY DEF Called, Calls
<1>2. ClientsOK'
  BY <1>1 DEF ApplyInv, ClientsOK, Called
<1>3. client[c] \in Calls /\ at \in Nat \ {0}
  BY DEF ApplyInv, ClientsOK, Calls
<1>4. \A t \in DOMAIN task' : \E d \in Clients, n \in Nat \ {0} :
        task'[t].for = <<d, n>> /\ Called(d)' /\ (t \in DOMAIN task \/ (d = c /\ n = at))
  <2> SUFFICES ASSUME NEW t \in DOMAIN task'
               PROVE  \E d \in Clients, n \in Nat \ {0} :
                        task'[t].for = <<d, n>> /\ Called(d)' /\ (t \in DOMAIN task \/ (d = c /\ n = at))
    OBVIOUS
  <2>1. CASE t \in DOMAIN task
    <3>1. PICK d \in Clients, n \in Nat \ {0} : task[t].for = <<d, n>> /\ Called(d)
      BY <2>1, Typed
    <3>2. task'[t].for = <<d, n>> /\ Called(d)'
      BY <1>1, <2>1, <3>1 DEF ShapeKept, Called
    <3> QED
      BY <2>1, <3>2
  <2>2. CASE t \notin DOMAIN task
    BY <1>1, <1>3, <2>2
  <2> QED
    BY <2>1, <2>2
<1>5. TasksOK'
  BY <1>4 DEF TasksOK
<1>6. FollowsOwn'
  BY DEF ApplyInv, FollowsOwn, ShapeKept
<1>7. ClientsWon'
  <2> SUFFICES ASSUME NEW d \in Clients, Called(d)', client'[d].call.wait,
                      NEW k \in 1..(client'[d].at - 1)
               PROVE  Won(d, k)'
    BY DEF ClientsWon
  <2>1. CASE d # c
    BY <2>1, KeptWon DEF ApplyInv, ClientsWon, Called
  <2>2. CASE d = c /\ k \in 1..(at - 1)
    BY <2>2, KeptWon DEF ApplyInv, ClientsWon
  <2>3. CASE d = c /\ k \notin 1..(at - 1)
    <3>1. client'[c].at = at + 1 /\ k = at
      BY <2>3, <1>3
    <3> QED
      BY <2>3, <3>1
  <2> QED
    BY <2>1, <2>2, <2>3
<1>8. TasksWon'
  <2> SUFFICES ASSUME NEW t \in DOMAIN task', NEW d \in Clients, NEW n \in Nat \ {0},
                      task'[t].for = <<d, n>>, client'[d].call.wait, NEW k \in 1..(n - 1)
               PROVE  Won(d, k)'
    BY DEF TasksWon
  <2>1. client[d].call.wait
    OBVIOUS
  <2>2. CASE t \in DOMAIN task
    <3>1. Won(d, k)
      BY <2>1, <2>2 DEF ApplyInv, TasksWon, ShapeKept
    <3> QED
      BY <3>1, KeptWon
  <2>3. CASE t \notin DOMAIN task
    <3>1. d = c /\ n = at
      BY <2>3
    <3>2. Won(d, k)
      BY <2>1, <3>1 DEF ApplyInv, ClientsWon
    <3> QED
      BY <3>2, KeptWon
  <2> QED
    BY <2>2, <2>3
<1> QED
  BY <1>2, <1>5, <1>6, <1>7, <1>8 DEF ApplyInv

\* What an attempt leads to.
LEMMA AttemptedClient ==
  ASSUME Applying!ApplyAssumption, ApplyInv, NEW c \in Clients, Called(c), client[c].pc \in {"segment", "follow"},
         NEW rc \in {0, 1}, Applying!Attempted(c, rc)
  PROVE  /\ DOMAIN client' = Clients /\ \A d \in Clients : d # c => client'[d] = client[d]
         /\ client'[c] \in Calls /\ client'[c].call = client[c].call
         /\ client'[c].at \in DOMAIN client[c].call.names
         /\ client'[c].at = client[c].at \/ (client'[c].at = client[c].at + 1 /\ rc = 0)
         /\ client'[c].pc # "follow"
<1>1. client[c] \in Calls /\ client[c].at \in DOMAIN client[c].call.names /\ DOMAIN client = Clients
  BY DEF ApplyInv, ClientsOK
<1>2. CASE client' = [client EXCEPT ![c].pc = "segment", ![c].attempt = @ + 1]
  <2>1. client'[c] = [client[c] EXCEPT !.pc = "segment", !.attempt = client[c].attempt + 1]
    BY <1>1, <1>2
  <2> QED
    BY <1>1, <1>2, <2>1 DEF Calls
<1>3. CASE Applying!Ends(c, rc)
  <2>1. client'[c] = [client[c] EXCEPT !.pc = "ended", !.rc = rc]
    BY <1>1, <1>3 DEF Applying!Ends
  <2> QED
    BY <1>1, <1>3, <2>1 DEF Calls, Applying!Ends
<1>4. CASE /\ client' = [client EXCEPT ![c].pc = "segment", ![c].at = @ + 1, ![c].attempt = 0]
           /\ client[c].at # Len(client[c].call.names) /\ rc = 0
  <2>1. client'[c] = [client[c] EXCEPT !.pc = "segment", !.at = client[c].at + 1, !.attempt = 0]
    BY <1>1, <1>4
  <2>0. client[c].at + 1 \in Nat \ {0}
    BY <1>1 DEF Calls
  <2>2. client'[c] \in Calls /\ client'[c].call = client[c].call /\ client'[c].pc = "segment"
        /\ client'[c].at = client[c].at + 1
    <3> DEFINE next == client[c].at + 1
    <3>1. client'[c] = [client[c] EXCEPT !.pc = "segment", !.at = next, !.attempt = 0] /\ next \in Nat \ {0}
      BY <2>0, <2>1
    <3> HIDE DEF next
    <3>2. client'[c] = [pc |-> "segment", call |-> client[c].call, at |-> next, attempt |-> 0,
                        task |-> client[c].task, rc |-> client[c].rc]
      BY <1>1, <3>1 DEF Calls
    <3>3. client[c].call \in Applications /\ client[c].task \in Nat /\ client[c].rc \in {0, 1}
      BY <1>1 DEF Calls
    <3>4. client'[c].call = client[c].call /\ client'[c].pc = "segment" /\ client'[c].at = next
      BY <3>2
    <3>5. \A q \in Applications, n \in Nat \ {0}, t \in Nat, r \in {0, 1} :
            [pc |-> "segment", call |-> q, at |-> n, attempt |-> 0, task |-> t, rc |-> r] \in Calls
      BY DEF Calls
    <3>6. client'[c] \in Calls
      <4>1. next \in Nat \ {0}
        BY <3>1
      <4>2. [pc |-> "segment", call |-> client[c].call, at |-> next, attempt |-> 0,
             task |-> client[c].task, rc |-> client[c].rc] \in Calls
        BY <3>3, <3>5, <4>1
      <4> QED
        BY <3>2, <4>2, Zenon
    <3> QED
      BY <3>4, <3>6 DEF next
  <2>3. client[c].at + 1 \in DOMAIN client[c].call.names
    BY <1>1, <1>4 DEF Calls, Applying!ApplyAssumption
  <2> QED
    BY <1>1, <1>4, <2>2, <2>3
<1> QED
  BY <1>2, <1>3, <1>4 DEF Applying!Attempted

\* A role that was followed, or is not.
LEMMA HandleTaskStep ==
  ASSUME Applying!ApplyAssumption, ApplyInv, NEW c \in Clients, Applying!handle_task(c)
  PROVE  ApplyInv'
<1> DEFINE t == client[c].task
           at == client[c].at
<1>1. client[c].pc = "follow" /\ Called(c)
  BY DEF Applying!handle_task, ApplyInv, ClientsOK
<1>2. t \in DOMAIN task /\ task[t].for = <<c, at>> /\ task[t] \in Tasks
  BY <1>1, Typed DEF ApplyInv, FollowsOwn
<1>3. ShapeKept /\ task' \in Seq(Tasks) /\ DOMAIN task' = DOMAIN task /\ ChainsWait'
  <2>1. CASE task' = task
    BY <2>1 DEF ApplyInv, TasksOK, ChainsWait, ShapeKept
  <2>2. CASE task[t].state \in {"queued", "checked", "runs"} /\ task' = [task EXCEPT ![t].state = "failed"]
    <3> HIDE DEF t
    <3> QED
      BY <1>2, <2>2, MovesStep
  <2> QED
    BY <2>1, <2>2 DEF Applying!handle_task
<1>4. PICK rc \in {0, 1} : Applying!Attempted(c, rc) /\ (rc = 0 => task[t].state = "ended" /\ task[t].rc = 0)
  <2>1. task[t].rc \in {0, 1}
    BY <1>2 DEF Tasks
  <2> QED
    BY <2>1 DEF Applying!handle_task
<1>5. /\ DOMAIN client' = Clients /\ \A d \in Clients : d # c => client'[d] = client[d]
      /\ client'[c] \in Calls /\ client'[c].call = client[c].call
      /\ client'[c].at \in DOMAIN client[c].call.names
      /\ client'[c].at = at \/ (client'[c].at = at + 1 /\ rc = 0)
      /\ client'[c].pc # "follow"
  BY <1>1, <1>4, AttemptedClient
<1>6. rc = 0 => Won(c, at)
  BY <1>2, <1>4 DEF Won
<1>7. \A u \in DOMAIN task' : task'[u].after < u
  BY <1>3, Typed DEF ShapeKept
<1>8. PICK n : n = at
  OBVIOUS
<1>9. rc = 0 => Won(c, n)'
  BY <1>3, <1>6, <1>8, KeptWon
<1> HIDE DEF t, at
<1> QED
  BY <1>1, <1>3, <1>5, <1>7, <1>8, <1>9, ClientStep DEF at

\* Tasks of its segment follow the others.
LEMMA Added ==
  ASSUME ApplyInv, NEW c \in Clients, Called(c), NEW new \in Seq(Tasks), task' = task \o new,
         \A i \in DOMAIN new :
           /\ new[i].for = <<c, client[c].at>> /\ new[i].after < Len(task) + i
           /\ new[i].after # 0 => new[i].state = "chained"
  PROVE  /\ ShapeKept /\ task' \in Seq(Tasks) /\ ChainsWait' /\ Len(task') = Len(task) + Len(new)
         /\ \A t \in DOMAIN task' :
              task'[t].after < t /\ (t \in DOMAIN task \/ task'[t].for = <<c, client[c].at>>)
         /\ \A i \in DOMAIN new : task'[Len(task) + i] = new[i]
<1>1. /\ task \in Seq(Tasks) /\ Len(task) \in Nat /\ DOMAIN task = 1..Len(task)
      /\ Len(new) \in Nat /\ DOMAIN new = 1..Len(new)
  BY DEF ApplyInv, TasksOK
<1>2. /\ task' \in Seq(Tasks) /\ Len(task') = Len(task) + Len(new) /\ DOMAIN task' = 1..Len(task')
      /\ \A t \in 1..Len(task) : task'[t] = task[t]
      /\ \A i \in 1..Len(new) : task'[Len(task) + i] = new[i]
  BY <1>1
<1>3. ShapeKept
  BY <1>1, <1>2 DEF ShapeKept
<1>4. ASSUME NEW t \in DOMAIN task'
      PROVE  \/ t \in DOMAIN task /\ task'[t] = task[t]
             \/ \E i \in DOMAIN new : t = Len(task) + i /\ task'[t] = new[i]
  <2>1. CASE t \in 1..Len(task)
    BY <1>1, <1>2, <2>1
  <2>2. CASE t \notin 1..Len(task)
    <3>1. t - Len(task) \in 1..Len(new) /\ t = Len(task) + (t - Len(task))
      BY <1>1, <1>2, <2>2
    <3> QED
      BY <1>1, <1>2, <3>1
  <2> QED
    BY <2>1, <2>2
<1>5. \A t \in DOMAIN task' :
        task'[t].after < t /\ (t \in DOMAIN task \/ task'[t].for = <<c, client[c].at>>)
  BY <1>4, Typed
<1>6. ChainsWait'
  <2> SUFFICES ASSUME NEW t \in DOMAIN task', task'[t].after # 0, task'[t].state # "chained"
               PROVE  task'[task'[t].after].state = "ended"
    BY DEF ChainsWait
  <2>1. t \in DOMAIN task /\ task'[t] = task[t]
    BY <1>4
  <2>2. task[t].after \in DOMAIN task
    BY <1>1, <2>1, Typed
  <2> QED
    BY <1>3, <2>1, <2>2 DEF ApplyInv, ChainsWait, ShapeKept
<1> QED
  BY <1>1, <1>2, <1>3, <1>5, <1>6

\* The task of a role has the type of tasks.
LEMMA Prepared ==
  ASSUME ApplyInv, NEW c \in Clients, Called(c), NEW role \in Roles, NEW after \in Nat,
         NEW state \in {"queued", "chained"}
  PROVE  /\ Applying!prepare_task(c, role, after, state) \in Tasks
         /\ Applying!prepare_task(c, role, after, state).for = <<c, client[c].at>>
         /\ Applying!prepare_task(c, role, after, state).after = after
         /\ Applying!prepare_task(c, role, after, state).state = state
<1>1. client[c].at \in Nat \ {0}
  BY DEF ApplyInv, ClientsOK, Calls
<1>2. Applying!Queue(client[c].call, role) \in TaskQueues
  BY DEF Applying!Queue, TaskQueues
<1>3. <<c, client[c].at>> \in Clients \X (Nat \ {0})
  BY <1>1
<1> QED
  BY <1>2, <1>3 DEF Applying!prepare_task, Tasks, TaskStates

LEMMA HandleRoleStep ==
  ASSUME Applying!ApplyAssumption, ApplyInv, NEW c \in Clients, Applying!handle_role(c)
  PROVE  ApplyInv'
<1> DEFINE at == client[c].at
           new == Applying!prepare_task(c, Applying!Segment(c), 0, "queued")
<1>1. client[c].pc = "segment" /\ Called(c) /\ client[c] \in Calls /\ at \in DOMAIN client[c].call.names
      /\ DOMAIN client = Clients
  BY DEF Applying!handle_role, ApplyInv, ClientsOK
<1>2. Applying!Segment(c) \in Roles
  <2>1. client[c].call \in Applications
    BY <1>1 DEF Calls
  <2> QED
    BY <1>1, <2>1, NamedRoles DEF Applying!Segment
<1>3. new \in Tasks /\ new.for = <<c, at>> /\ new.after = 0
  BY <1>1, <1>2, Prepared
<1>4. task' = Append(task, new) /\ task \in Seq(Tasks) /\ Len(task) \in Nat /\ DOMAIN task = 1..Len(task)
  BY Typed DEF Applying!handle_role, ApplyInv, TasksOK
<1> HIDE DEF new
<1>5. task' = task \o <<new>> /\ <<new>> \in Seq(Tasks) /\ DOMAIN <<new>> = {1} /\ <<new>>[1] = new
      /\ Len(<<new>>) = 1
  BY <1>3, <1>4
<1>6. /\ ShapeKept /\ task' \in Seq(Tasks) /\ ChainsWait' /\ Len(task') = Len(task) + 1
      /\ \A t \in DOMAIN task' :
           task'[t].after < t /\ (t \in DOMAIN task \/ task'[t].for = <<c, client[c].at>>)
      /\ task'[Len(task) + 1] = new
  <2>1. \A i \in DOMAIN <<new>> :
          /\ <<new>>[i].for = <<c, client[c].at>> /\ <<new>>[i].after < Len(task) + i
          /\ <<new>>[i].after # 0 => <<new>>[i].state = "chained"
    BY <1>3, <1>4, <1>5
  <2> QED
    BY <1>1, <1>5, <2>1, Added
<1>7. PICK n : n = at
  OBVIOUS
<1>8. CASE client' = [client EXCEPT ![c].pc = "follow", ![c].task = Len(task')]
  <2>1. client'[c] = [client[c] EXCEPT !.pc = "follow", !.task = Len(task')]
        /\ DOMAIN client' = Clients /\ \A d \in Clients : d # c => client'[d] = client[d]
    BY <1>1, <1>8
  <2>2. Len(task') \in Nat /\ Len(task') \in DOMAIN task' /\ Len(task') = Len(task) + 1
    BY <1>4, <1>6
  <2>3. client'[c] \in Calls /\ client'[c].call = client[c].call /\ client'[c].at = at
        /\ client'[c].task = Len(task')
    BY <1>1, <2>1, <2>2 DEF Calls
  <2>4. client'[c].task \in DOMAIN task' /\ task'[client'[c].task].for = <<c, client'[c].at>>
    BY <1>3, <1>6, <2>2, <2>3
  <2>5. ShapeKept /\ task' \in Seq(Tasks) /\ ChainsWait'
    BY <1>6
  <2>6. \A t \in DOMAIN task' : task'[t].after < t /\ (t \in DOMAIN task \/ task'[t].for = <<c, n>>)
    BY <1>6, <1>7
  <2>7. DOMAIN client' = Clients /\ \A d \in Clients : d # c => client'[d] = client[d]
    BY <2>1
  <2>8. client'[c].at = n /\ n = client[c].at /\ n \in DOMAIN client[c].call.names
    BY <1>1, <1>7, <2>3
  <2> QED
    BY <1>1, <2>3, <2>4, <2>5, <2>6, <2>7, <2>8, ClientStep
<1>9. CASE Applying!Attempted(c, 0) /\ ~client[c].call.wait
  <2>1. /\ DOMAIN client' = Clients /\ \A d \in Clients : d # c => client'[d] = client[d]
        /\ client'[c] \in Calls /\ client'[c].call = client[c].call
        /\ client'[c].at \in DOMAIN client[c].call.names
        /\ client'[c].at = at \/ client'[c].at = at + 1
        /\ client'[c].pc # "follow"
    BY <1>1, <1>9, AttemptedClient
  <2> HIDE DEF at
  <2> QED
    BY <1>1, <1>6, <1>7, <1>9, <2>1, ClientStep DEF at
<1> QED
  BY <1>8, <1>9 DEF Applying!handle_role

LEMMA HandleCollectionStep ==
  ASSUME Applying!ApplyAssumption, ApplyInv, NEW c \in Clients, Applying!handle_collection(c)
  PROVE  ApplyInv'
<1> DEFINE roles == Collections[Applying!Segment(c)]
           Place(i) == IF roles[i].after = 0 THEN 0 ELSE Len(task) + roles[i].after
           Task(i) == [Applying!prepare_task(c, roles[i].role, Place(i), Applying!Chained(roles[i].after))
                         EXCEPT !.noop = client[c].call.mode = "dry-run"]
           new == [i \in DOMAIN roles |-> Task(i)]
           at == client[c].at
<1>1. client[c].pc = "segment" /\ Called(c) /\ client[c] \in Calls /\ at \in DOMAIN client[c].call.names
      /\ DOMAIN client = Clients
  BY DEF Applying!handle_collection, ApplyInv, ClientsOK
<1>2. /\ client'[c] = [client[c] EXCEPT !.pc = "ended", !.rc = 0]
      /\ DOMAIN client' = Clients /\ \A d \in Clients : d # c => client'[d] = client[d]
  BY <1>1 DEF Applying!handle_collection, Applying!Ends
<1>3. client'[c] \in Calls /\ client'[c].call = client[c].call /\ client'[c].at = at
      /\ client'[c].pc = "ended"
  BY <1>1, <1>2 DEF Calls
<1>4. /\ ShapeKept /\ task' \in Seq(Tasks) /\ ChainsWait'
      /\ \A t \in DOMAIN task' :
           task'[t].after < t /\ (t \in DOMAIN task \/ task'[t].for = <<c, client[c].at>>)
  <2>1. CASE task' = task
    BY <2>1, Typed DEF ApplyInv, TasksOK, ChainsWait, ShapeKept
  <2>2. CASE task' = task \o new
    <3>1. Len(task) \in Nat /\ Len(roles) \in Nat /\ DOMAIN roles = 1..Len(roles)
          /\ \A i \in DOMAIN roles : roles[i].after \in 0..(i - 1) /\ roles[i].role \in Roles
      <4>1. Applying!Segment(c) \in DOMAIN Collections
        BY DEF Applying!handle_collection
      <4>2. roles \in Seq(Applying!Elements(roles)) /\ \A i \in DOMAIN roles : roles[i].after \in 0..(i - 1)
        BY <4>1 DEF Applying!ApplyAssumption
      <4>3. \A i \in DOMAIN roles : roles[i].role \in Roles
        BY <4>1, GrownRoles
      <4> QED
        BY <4>2, <4>3, Typed
    <3>2. ASSUME NEW i \in DOMAIN roles
          PROVE  /\ new[i] \in Tasks /\ new[i].for = <<c, at>> /\ new[i].after < Len(task) + i
                 /\ new[i].after # 0 => new[i].state = "chained"
      <4> DEFINE state == Applying!Chained(roles[i].after)
      <4>1. Place(i) \in Nat /\ Place(i) < Len(task) + i /\ (Place(i) # 0 => roles[i].after # 0)
        BY <3>1
      <4>2. state \in {"queued", "chained"} /\ (roles[i].after # 0 => state = "chained")
        BY DEF Applying!Chained
      <4> DEFINE place == Place(i)
      <4> HIDE DEF state, Place, place
      <4>3. Applying!prepare_task(c, roles[i].role, place, state) \in Tasks
            /\ Applying!prepare_task(c, roles[i].role, place, state).for = <<c, at>>
            /\ Applying!prepare_task(c, roles[i].role, place, state).after = place
            /\ Applying!prepare_task(c, roles[i].role, place, state).state = state
        BY <1>1, <3>1, <4>1, <4>2, Prepared DEF place
      <4>4. new[i] = [Applying!prepare_task(c, roles[i].role, place, state)
                        EXCEPT !.noop = client[c].call.mode = "dry-run"]
        BY DEF place, state
      <4> HIDE DEF new
      <4>5. \A x \in Tasks : \A y \in BOOLEAN :
              LET z == [x EXCEPT !.noop = y]
              IN z \in Tasks /\ z.for = x.for /\ z.after = x.after /\ z.state = x.state
        BY DEF Tasks
      <4>6. new[i] \in Tasks /\ new[i].for = <<c, at>> /\ new[i].after = place /\ new[i].state = state
        BY <4>3, <4>4, <4>5
      <4> QED
        BY <4>1, <4>2, <4>6 DEF place
    <3>3. DOMAIN new = 1..Len(roles)
      BY <3>1
    <3>4. new = [i \in 1..Len(roles) |-> new[i]]
      BY <3>1
    <3> HIDE DEF new
    <3>5. new \in Seq(Tasks)
      BY <3>1, <3>2, <3>4, Sequence
    <3>6. \A i \in DOMAIN new :
            /\ new[i].for = <<c, client[c].at>> /\ new[i].after < Len(task) + i
            /\ new[i].after # 0 => new[i].state = "chained"
      BY <3>1, <3>2, <3>3
    <3> HIDE DEF roles, at
    <3> QED
      BY <1>1, <2>2, <3>5, <3>6, Added
  <2> QED
    BY <2>1, <2>2 DEF Applying!handle_collection
<1>5. PICK n : n = at
  OBVIOUS
<1> HIDE DEF at
<1> QED
  BY <1>1, <1>2, <1>3, <1>4, <1>5, ClientStep DEF at

-----------------------------------------------------------------------------
LEMMA ApplyStep ==
  ASSUME Applying!ApplyAssumption, ApplyInv, [Applying!applyNext]_applyVars
  PROVE  ApplyInv'
<1>1. ASSUME NEW c \in Clients, NEW q \in Applications, Applying!take_action(c, q) PROVE ApplyInv'
  BY <1>1, SubmitStep
<1>2. ASSUME NEW c \in Clients, Applying!handle_collection(c) PROVE ApplyInv'
  BY <1>2, HandleCollectionStep
<1>3. ASSUME NEW c \in Clients, Applying!handle_role(c) PROVE ApplyInv'
  BY <1>3, HandleRoleStep
<1>4. ASSUME NEW c \in Clients, Applying!handle_task(c) PROVE ApplyInv'
  BY <1>4, HandleTaskStep
<1>5. ASSUME NEW t \in DOMAIN task, Applying!run(t) \/ Applying!Plays(t) PROVE ApplyInv'
  BY <1>5, RunStep, PlaysStep
<1>6. CASE UNCHANGED <<task, client>>
  <2>1. ShapeKept /\ task' \in Seq(Tasks) /\ ChainsWait'
    BY <1>6 DEF ShapeKept, ApplyInv, TasksOK, ChainsWait
  <2> QED
    BY <1>6, <2>1, ShapeStep
<1> QED
  BY <1>1, <1>2, <1>3, <1>4, <1>5, <1>6 DEF Applying!applyNext, applyVars, Applying!Lock, Applying!Unlock

\* For any clients, applications, trees and workers: no role starts before the
\* role it depends on is over, and with --wait none before an attempt at each
\* earlier segment has ended well, whatever locks, failures and revocations come.
LEMMA RolesApplied ==
  ASSUME Applying!ApplyAssumption
  PROVE  applySpec => []Applying!AppliedInOrder
<1>1. ApplyInv /\ [Applying!applyNext]_applyVars => ApplyInv'
  BY ApplyStep
<1> QED
  BY <1>1, ApplyStarts, InOrder, PTL DEF applySpec

-----------------------------------------------------------------------------
(* The servers.                                                              *)

Works == {"none", "stop", "start", "live", "cold", "confirm", "evacuate", "delete"}

ServerStates ==
  [status : Statuses \cup {"SHUTOFF", "ACTIVE", "VERIFY_RESIZE", "gone", "ERROR"},
   on : {"host", "other"}, work : Works, up : SUBSET {"host", "other"}]

\* Nova works only on a server in a status it takes the request in.
ServersOK ==
  /\ server \in [Compute!All -> ServerStates]
  /\ by \in [Compute!All -> SUBSET (Admins \cup {"owner"})]
  /\ \A s \in Compute!All :
       /\ IsFiniteSet(by[s])
       /\ by[s] = {} => server[s].work = "none"
       /\ server[s].work # "none" => server[s].status \in Compute!Sources[server[s].work]

Positions == {"next", "ask", "stopping", "moving", "evacuating", "starting", "awaiting", "service", "evacuated"}

UnderWay(a) == admin[a].pc \in Positions

\* An administrator's command, once the servers are listed: what was not touched
\* since has the status it was listed with.
AdminOK(a) ==
  /\ "pc" \in DOMAIN admin[a] /\ admin[a].pc \in Positions \cup {"idle", "ended"}
  /\ admin[a].pc = "idle" => \A s \in Compute!All : a \notin by[s]
  /\ UnderWay(a) =>
       /\ DOMAIN admin[a] = {"call", "todo", "seen", "started", "rc", "pc"}
       /\ admin[a].todo \in Seq(Compute!All) /\ admin[a].started \in Seq(Compute!All)
       /\ \A s \in Compute!All :
            by[s] = {} /\ admin[a].seen[s] # "not listed" => admin[a].seen[s] = server[s].status
  /\ admin[a].pc \in {"ask", "stopping", "moving", "awaiting"} => admin[a].todo # <<>>
  /\ admin[a].pc \in {"stopping", "evacuating", "starting", "awaiting", "evacuated"} =>
       Compute!Asks(a, {"evacuate"})
  /\ admin[a].pc \in {"moving", "service"} => ~Compute!Asks(a, {"evacuate"})

Among(s, list) == \E i \in DOMAIN list : list[i] = s

\* Nobody but a has acted on s.
Alone(a, s) == by[s] \subseteq {a}

Is(s, status, work) == server[s].status = status /\ server[s].work = work
Off(s)   == Is(s, "SHUTOFF", "none")
Moves(s) == Is(s, "SHUTOFF", "evacuate") \/ (Off(s) /\ server[s].on = "other") \/ Is(s, "ERROR", "none")
Runs(s)  == Is(s, "ACTIVE", "none") /\ server[s].on = "other"

\* While an evacuation stops servers it has touched no others; the stopped ones are
\* off, and those listed as ACTIVE are stopped or still to come ...
StopPhase(a) ==
  admin[a].pc \in {"next", "ask", "stopping"} /\ Compute!Asks(a, {"evacuate"}) =>
    /\ \A s \in Compute!All :
         admin[a].seen[s] = "ACTIVE" => Among(s, admin[a].started) \/ Among(s, admin[a].todo)
    /\ \A s \in Compute!All : Among(s, admin[a].started) => admin[a].seen[s] = "ACTIVE"
    /\ admin[a].pc = "stopping" => Among(Compute!This(a), admin[a].started)
    /\ \A s \in Compute!All : Alone(a, s) =>
         IF Among(s, admin[a].started)
         THEN Off(s) \/ (admin[a].pc = "stopping" /\ s = Compute!This(a) /\ Is(s, "ACTIVE", "stop"))
         ELSE by[s] = {}

\* ... while it evacuates those listed as ACTIVE or SHUTOFF none of them runs, and
\* the stopped ones it has come to are on their way ...
EvacuatePhase(a) ==
  admin[a].pc = "evacuating" =>
    /\ \A s \in Compute!All : Among(s, admin[a].started) <=> admin[a].seen[s] = "ACTIVE"
    /\ \A s \in Compute!All : Alone(a, s) =>
         /\ admin[a].seen[s] \in {"ACTIVE", "SHUTOFF"} => Off(s) \/ Moves(s)
         /\ admin[a].seen[s] = "ACTIVE" => Among(s, admin[a].todo) \/ Moves(s)

\* ... and while it starts them again they run, or it comes to them.
StartPhase(a) ==
  admin[a].pc \in {"starting", "awaiting", "evacuated"} =>
    /\ admin[a].pc = "evacuated" => admin[a].todo = <<>>
    /\ \A s \in Compute!All : Alone(a, s) /\ Among(s, admin[a].started) =>
         \/ Runs(s)
         \/ admin[a].pc = "awaiting" /\ s = Compute!This(a) /\ server[s].on = "other"
            /\ (Is(s, "SHUTOFF", "start") \/ Is(s, "ERROR", "none"))
         \/ ~(admin[a].pc = "awaiting" /\ s = Compute!This(a)) /\ Among(s, admin[a].todo) /\ Moves(s)

\* At most one has acted on s.
Single(s) == \A x, y \in by[s] : x = y

\* The guest of s runs where s is, if it runs.
Tidy(s) ==
  /\ server[s].up \subseteq {server[s].on}
  /\ server[s].status \in {"SHUTOFF", "VERIFY_RESIZE"} => server[s].up = {}
  /\ server[s].work = "evacuate" => server[s].status = "SHUTOFF"

AdminsOK ==
  /\ DOMAIN admin = Admins
  /\ \A a \in Admins : AdminOK(a) /\ StopPhase(a) /\ EvacuatePhase(a) /\ StartPhase(a)

ComputeInv ==
  /\ ServersOK
  /\ AdminsOK
  /\ \A s \in Compute!All : Single(s) => Tidy(s)

LEMMA ComputeStarts == Compute!computeInit => ComputeInv
<1> SUFFICES ASSUME Compute!computeInit PROVE ComputeInv
  OBVIOUS
<1>1. ServersOK
  <2>1. server \in [Compute!All -> ServerStates]
    BY DEF Compute!computeInit, Compute!At, ServerStates, Works
  <2>2. \A s \in Compute!All : by[s] = {} /\ server[s].work = "none"
    BY DEF Compute!computeInit, Compute!At
  <2>3. by \in [Compute!All -> SUBSET (Admins \cup {"owner"})]
    BY DEF Compute!computeInit
  <2> QED
    BY <2>1, <2>2, <2>3, FS_EmptySet DEF ServersOK
<1>2. \A s \in Compute!All : Tidy(s)
  BY DEF Compute!computeInit, Compute!At, Tidy
<1>3. DOMAIN admin = Admins /\ \A a \in Admins : admin[a].pc = "idle" /\ "pc" \in DOMAIN admin[a]
  BY DEF Compute!computeInit
<1>4. \A a \in Admins : AdminOK(a)
  BY <1>3 DEF AdminOK, UnderWay, Positions, Compute!computeInit
<1> QED
  BY <1>1, <1>2, <1>3, <1>4 DEF ComputeInv, AdminsOK, StopPhase, EvacuatePhase, StartPhase

\* A command that does nothing meanwhile: others have acted on what has changed.
LEMMA Others ==
  ASSUME ComputeInv, NEW b \in Admins, admin'[b] = admin[b],
         \A s \in Compute!All :
           \/ server'[s] = server[s] /\ by'[s] = by[s]
           \/ \E x : x # b /\ by'[s] = by[s] \cup {x}
  PROVE  (AdminOK(b) /\ StopPhase(b) /\ EvacuatePhase(b) /\ StartPhase(b))'
<1>1. AdminOK(b) /\ StopPhase(b) /\ EvacuatePhase(b) /\ StartPhase(b)
  BY DEF ComputeInv, AdminsOK
<1>2. \A s \in Compute!All : Alone(b, s)' => Alone(b, s) /\ server'[s] = server[s] /\ by'[s] = by[s]
  BY DEF Alone
<1>3. \A s \in Compute!All : by'[s] = {} => server'[s] = server[s] /\ by'[s] = by[s]
  OBVIOUS
<1>4. \A s \in Compute!All : b \notin by[s] => b \notin by'[s]
  OBVIOUS
<1>5. AdminOK(b)'
  BY <1>1, <1>3, <1>4 DEF AdminOK, UnderWay, Compute!Asks
<1>6. StopPhase(b)'
  BY <1>1, <1>2 DEF StopPhase, Compute!Asks, Among, Off, Is, Compute!This
<1>7. EvacuatePhase(b)'
  BY <1>1, <1>2 DEF EvacuatePhase, Among, Off, Moves, Is
<1>8. StartPhase(b)'
  BY <1>1, <1>2 DEF StartPhase, Among, Off, Runs, Moves, Is, Compute!This
<1> QED
  BY <1>5, <1>6, <1>7, <1>8

\* A step of a alone.
LEMMA PrivateStep ==
  ASSUME ComputeInv, NEW a \in Admins, server' = server, by' = by,
         DOMAIN admin' = Admins, \A b \in Admins : b # a => admin'[b] = admin[b],
         (AdminOK(a) /\ StopPhase(a) /\ EvacuatePhase(a) /\ StartPhase(a))'
  PROVE  ComputeInv'
<1>1. ServersOK' /\ \A s \in Compute!All : Single(s)' => Tidy(s)'
  BY DEF ComputeInv, ServersOK, Single, Tidy
<1>2. \A b \in Admins : (AdminOK(b) /\ StopPhase(b) /\ EvacuatePhase(b) /\ StartPhase(b))'
  BY Others
<1> QED
  BY <1>1, <1>2 DEF ComputeInv, AdminsOK

\* Nova takes a request of a; an evacuation only of a server that is off, if a is alone.
LEMMA AskStep ==
  ASSUME ComputeInv, NEW a \in Admins, NEW s \in Compute!All, NEW verb \in Works \ {"none"},
         Compute!Accepts(s, verb), server' = [server EXCEPT ![s].work = verb],
         by' = [by EXCEPT ![s] = @ \cup {a}],
         verb = "evacuate" /\ Alone(a, s) => server[s].status # "ACTIVE",
         DOMAIN admin' = Admins, \A b \in Admins : b # a => admin'[b] = admin[b],
         (AdminOK(a) /\ StopPhase(a) /\ EvacuatePhase(a) /\ StartPhase(a))'
  PROVE  ComputeInv'
<1>1. server \in [Compute!All -> ServerStates] /\ by \in [Compute!All -> SUBSET (Admins \cup {"owner"})]
  BY DEF ComputeInv, ServersOK
<1>2. /\ server'[s] = [server[s] EXCEPT !.work = verb] /\ by'[s] = by[s] \cup {a}
      /\ \A t \in Compute!All : t # s => server'[t] = server[t] /\ by'[t] = by[t]
  BY <1>1
<1>3. /\ server'[s].status = server[s].status /\ server'[s].work = verb
      /\ server'[s].on = server[s].on /\ server'[s].up = server[s].up
  BY <1>1, <1>2 DEF ServerStates
<1>4. ServersOK'
  <2>1. server' \in [Compute!All -> ServerStates]
    BY <1>1 DEF ServerStates
  <2>2. by' \in [Compute!All -> SUBSET (Admins \cup {"owner"})]
    BY <1>1
  <2>3. IsFiniteSet(by'[s])
    BY <1>2, FS_AddElement DEF ComputeInv, ServersOK
  <2>4. server[s].status \in Compute!Sources[verb]
    BY DEF Compute!Accepts
  <2> QED
    BY <1>2, <1>3, <2>1, <2>2, <2>3, <2>4 DEF ComputeInv, ServersOK
<1>5. ASSUME NEW t \in Compute!All, Single(t)' PROVE Tidy(t)'
  <2>1. Single(t)
    BY <1>2, <1>5 DEF Single
  <2>2. CASE t # s
    BY <1>2, <2>1, <2>2 DEF ComputeInv, Tidy
  <2>3. CASE t = s
    <3>1. Alone(a, s)
      BY <1>2, <1>5, <2>3 DEF Single, Alone
    <3>2. verb = "evacuate" => server[s].status = "SHUTOFF"
      BY <3>1 DEF Compute!Accepts, Compute!Sources
    <3> QED
      BY <1>3, <2>1, <2>3, <3>2 DEF ComputeInv, Tidy
  <2> QED
    BY <2>2, <2>3
<1>6. ASSUME NEW b \in Admins, b # a PROVE (AdminOK(b) /\ StopPhase(b) /\ EvacuatePhase(b) /\ StartPhase(b))'
  BY <1>2, <1>6, Others
<1> QED
  BY <1>4, <1>5, <1>6 DEF ComputeInv, AdminsOK

\* A command ends, maybe by Nova's refusal.
LEMMA StopsStep ==
  ASSUME ComputeInv, NEW a \in Admins, NEW rc, Compute!Stops(a, rc), server' = server,
         by' = by \/ \E s \in Compute!All : by' = [by EXCEPT ![s] = @ \cup {a}]
  PROVE  ComputeInv'
<1>1. DOMAIN admin = Admins /\ AdminOK(a)
  BY DEF ComputeInv, AdminsOK
<1>2. /\ DOMAIN admin' = Admins /\ \A b \in Admins : b # a => admin'[b] = admin[b]
      /\ admin'[a].pc = "ended" /\ "pc" \in DOMAIN admin'[a]
  BY <1>1 DEF Compute!Stops, AdminOK
<1>3. (AdminOK(a) /\ StopPhase(a) /\ EvacuatePhase(a) /\ StartPhase(a))'
  BY <1>2 DEF AdminOK, UnderWay, Positions, StopPhase, EvacuatePhase, StartPhase
<1>4. by \in [Compute!All -> SUBSET (Admins \cup {"owner"})]
  BY DEF ComputeInv, ServersOK
<1>5. \A s \in Compute!All : by'[s] = by[s] \/ by'[s] = by[s] \cup {a}
  BY <1>4
<1>6. ServersOK'
  <2>1. by' \in [Compute!All -> SUBSET (Admins \cup {"owner"})]
    BY <1>4
  <2>2. \A s \in Compute!All : IsFiniteSet(by'[s])
    BY <1>5, FS_AddElement DEF ComputeInv, ServersOK
  <2>3. \A s \in Compute!All : by'[s] = {} => by[s] = {}
    BY <1>5
  <2> QED
    BY <2>1, <2>2, <2>3 DEF ComputeInv, ServersOK
<1>7. \A s \in Compute!All : Single(s)' => Tidy(s)'
  BY <1>5 DEF ComputeInv, Single, Tidy
<1>8. ASSUME NEW b \in Admins, b # a PROVE (AdminOK(b) /\ StopPhase(b) /\ EvacuatePhase(b) /\ StartPhase(b))'
  BY <1>2, <1>5, <1>8, Others
<1> QED
  BY <1>2, <1>3, <1>6, <1>7, <1>8 DEF ComputeInv, AdminsOK

\* What Nova did ends: well, or in ERROR.
LEMMA NovaEffect ==
  ASSUME ServersOK, NEW s \in Compute!All, Compute!NovaEnds(s)
  PROVE  /\ server' \in [Compute!All -> ServerStates] /\ server[s].work # "none" /\ server'[s].work = "none"
         /\ \A t \in Compute!All : t # s => server'[t] = server[t]
         /\ \/ /\ server[s].work \in {"start", "cold", "evacuate"}
               /\ server'[s].status = "ERROR" /\ server'[s].on = server[s].on /\ server'[s].up = server[s].up
            \/ /\ server[s].work = "stop" /\ server'[s].status = "SHUTOFF" /\ server'[s].on = server[s].on
               /\ server'[s].up = server[s].up \ {server[s].on}
            \/ /\ server[s].work = "confirm" /\ server'[s].status = "SHUTOFF" /\ server'[s].on = server[s].on
               /\ server'[s].up = server[s].up
            \/ /\ server[s].work = "start" /\ server'[s].status = "ACTIVE" /\ server'[s].on = server[s].on
               /\ server'[s].up = server[s].up \cup {server[s].on}
            \/ /\ server[s].work = "live" /\ server'[s].status = server[s].status /\ server'[s].on = "other"
               /\ server'[s].up = {"other"}
            \/ /\ server[s].work = "cold" /\ server'[s].status = "VERIFY_RESIZE" /\ server'[s].on = "other"
               /\ server'[s].up = server[s].up
            \/ /\ server[s].work = "delete" /\ server'[s].status = "gone" /\ server'[s].on = server[s].on
               /\ server'[s].up = server[s].up \ {server[s].on}
            \/ /\ server[s].work = "evacuate" /\ server'[s].status = server[s].status /\ server'[s].on = "other"
               /\ server[s].status # "ACTIVE" => server'[s].up = server[s].up
<1> DEFINE w == server[s].work
<1>1. server[s] \in ServerStates /\ server \in [Compute!All -> ServerStates] /\ w # "none" /\ w \in Works
  BY DEF ServersOK, ServerStates, Compute!NovaEnds
<1>2. CASE /\ w \in {"start", "cold", "evacuate"}
           /\ server' = [server EXCEPT ![s].work = "none", ![s].status = "ERROR"]
  <2>1. server' \in [Compute!All -> ServerStates]
    BY <1>1, <1>2 DEF ServerStates, Works
  <2>2. server'[s] = [server[s] EXCEPT !.work = "none", !.status = "ERROR"]
    BY <1>1, <1>2
  <2>3. \A t \in Compute!All : t # s => server'[t] = server[t]
    BY <1>1, <1>2
  <2>4. /\ server'[s].work = "none" /\ server'[s].status = "ERROR"
        /\ server'[s].on = server[s].on /\ server'[s].up = server[s].up
    BY <1>1, <2>2 DEF ServerStates
  <2> QED
    BY <1>1, <1>2, <2>1, <2>3, <2>4
<1>3. CASE ~(/\ w \in {"start", "cold", "evacuate"}
             /\ server' = [server EXCEPT ![s].work = "none", ![s].status = "ERROR"])
  <2> DEFINE status == CASE w \in {"stop", "confirm"} -> "SHUTOFF" [] w = "start" -> "ACTIVE"
                         [] w = "cold" -> "VERIFY_RESIZE" [] w = "delete" -> "gone" [] OTHER -> server[s].status
             on     == IF w \in {"live", "cold", "evacuate"} THEN "other" ELSE server[s].on
             up     == CASE w \in {"stop", "delete"} -> server[s].up \ {server[s].on}
                         [] w = "start" -> server[s].up \cup {server[s].on}
                         [] w = "live" -> {"other"}
                         [] w = "evacuate" /\ server[s].status = "ACTIVE" -> server[s].up \cup {"other"}
                         [] OTHER -> server[s].up
  <2>1. server' = [server EXCEPT ![s].work = "none", ![s].status = status, ![s].on = on, ![s].up = up]
    BY <1>1, <1>3 DEF Compute!NovaEnds, ServerStates
  <2>2. /\ status \in Statuses \cup {"SHUTOFF", "ACTIVE", "VERIFY_RESIZE", "gone", "ERROR"}
        /\ on \in {"host", "other"} /\ up \in SUBSET {"host", "other"}
    BY <1>1 DEF ServerStates, Works
  <2>3. /\ w = "stop" => status = "SHUTOFF" /\ on = server[s].on /\ up = server[s].up \ {server[s].on}
        /\ w = "confirm" => status = "SHUTOFF" /\ on = server[s].on /\ up = server[s].up
        /\ w = "start" => status = "ACTIVE" /\ on = server[s].on /\ up = server[s].up \cup {server[s].on}
        /\ w = "live" => status = server[s].status /\ on = "other" /\ up = {"other"}
    OBVIOUS
  <2>4. /\ w = "cold" => status = "VERIFY_RESIZE" /\ on = "other" /\ up = server[s].up
        /\ w = "delete" => status = "gone" /\ on = server[s].on /\ up = server[s].up \ {server[s].on}
        /\ w = "evacuate" => status = server[s].status /\ on = "other"
        /\ w = "evacuate" /\ server[s].status # "ACTIVE" => up = server[s].up
    OBVIOUS
  <2> HIDE DEF status, on, up
  <2>5. server'[s] = [server[s] EXCEPT !.work = "none", !.status = status, !.on = on, !.up = up]
    BY <1>1, <2>1
  <2>6. /\ server'[s].work = "none" /\ server'[s].status = status /\ server'[s].on = on /\ server'[s].up = up
        /\ server'[s] \in ServerStates
    BY <1>1, <2>2, <2>5 DEF ServerStates, Works
  <2>7. server' \in [Compute!All -> ServerStates] /\ \A t \in Compute!All : t # s => server'[t] = server[t]
    BY <1>1, <2>1, <2>5, <2>6
  <2> QED
    BY <1>1, <2>3, <2>4, <2>6, <2>7 DEF Works
<1> QED
  BY <1>2, <1>3

LEMMA NovaStep ==
  ASSUME ComputeInv, NEW s \in Compute!All, Compute!NovaEnds(s)
  PROVE  ComputeInv'
<1> DEFINE w == server[s].work
<1>1. by' = by /\ admin' = admin /\ DOMAIN admin = Admins
  BY DEF Compute!NovaEnds, ComputeInv, AdminsOK
<1>2. ServersOK
  BY DEF ComputeInv
<1>3. /\ server' \in [Compute!All -> ServerStates] /\ w # "none" /\ server'[s].work = "none"
      /\ \A t \in Compute!All : t # s => server'[t] = server[t]
  BY <1>2, NovaEffect
<1>4. server[s].status \in Compute!Sources[w] /\ by[s] # {}
  BY <1>2, <1>3 DEF ServersOK
<1>5. ServersOK'
  BY <1>1, <1>2, <1>3 DEF ServersOK
<1>6. ASSUME NEW t \in Compute!All, Single(t)' PROVE Tidy(t)'
  <2>1. Single(t) /\ Tidy(t)
    BY <1>1, <1>6 DEF ComputeInv, Single
  <2>2. CASE t # s
    BY <1>3, <2>1, <2>2 DEF Tidy
  <2>3. CASE t = s
    <3>1. /\ w \in {"start", "cold"} => server[s].status = "SHUTOFF"
          /\ w = "confirm" => server[s].status = "VERIFY_RESIZE"
          /\ w = "live" => server[s].status \in {"ACTIVE", "PAUSED"}
      BY <1>4 DEF Compute!Sources
    <3>2. server[s].up \subseteq {server[s].on} /\ (w \in {"start", "cold", "confirm", "evacuate"} => server[s].up = {})
      BY <2>1, <2>3, <3>1 DEF Tidy
    <3>3. /\ server[s].on \in {"host", "other"}
          /\ w = "stop" => server[s].status = "ACTIVE"
          /\ w = "evacuate" => server[s].status = "SHUTOFF"
          /\ w = "delete" => server[s].status \in {"ERROR", "BUILD"}
      BY <1>2, <1>4, <2>1, <2>3 DEF Tidy, ServersOK, ServerStates, Compute!Sources
    <3>4. server'[s].up \subseteq {server'[s].on}
      BY <1>2, <3>2, <3>3, NovaEffect
    <3>5. server'[s].status \in {"SHUTOFF", "VERIFY_RESIZE"} => server'[s].up = {}
      BY <1>2, <3>1, <3>2, <3>3, NovaEffect
    <3> QED
      BY <1>3, <2>3, <3>4, <3>5 DEF Tidy
  <2> QED
    BY <2>2, <2>3
<1>7. ASSUME NEW a \in Admins PROVE (AdminOK(a) /\ StopPhase(a) /\ EvacuatePhase(a) /\ StartPhase(a))'
  <2>1. AdminOK(a) /\ StopPhase(a) /\ EvacuatePhase(a) /\ StartPhase(a)
    BY DEF ComputeInv, AdminsOK
  <2>2. /\ \A t : Among(t, admin'[a].started) = Among(t, admin[a].started)
        /\ \A t : Among(t, admin'[a].todo) = Among(t, admin[a].todo)
        /\ \A t \in Compute!All : (Alone(a, t)' <=> Alone(a, t))
    BY <1>1 DEF Among, Alone
  <2>3. AdminOK(a)'
    BY <1>1, <1>3, <1>4, <2>1 DEF AdminOK, UnderWay, Compute!Asks
  <2>4. /\ Is(s, "ACTIVE", "stop") => Off(s)'
        /\ Is(s, "SHUTOFF", "evacuate") => Moves(s)'
        /\ Is(s, "SHUTOFF", "start") /\ server[s].on = "other" =>
             Runs(s)' \/ (Is(s, "ERROR", "none") /\ server[s].on = "other")'
    BY <1>2, <1>3, NovaEffect DEF Is, Off, Moves, Runs
  <2>5. ~Off(s) /\ ~Runs(s) /\ ~Is(s, "ERROR", "none")
    BY <1>3 DEF Off, Runs, Is
  <2>6. \A t \in Compute!All : t # s =>
          /\ server'[t] = server[t] /\ (Off(t)' <=> Off(t)) /\ (Moves(t)' <=> Moves(t)) /\ (Runs(t)' <=> Runs(t))
          /\ Is(t, "ACTIVE", "stop")' = Is(t, "ACTIVE", "stop")
          /\ Is(t, "SHUTOFF", "start")' = Is(t, "SHUTOFF", "start")
          /\ Is(t, "ERROR", "none")' = Is(t, "ERROR", "none")
    BY <1>3 DEF Off, Runs, Moves, Is
  <2>7. StopPhase(a)'
    BY <1>1, <1>4, <2>1, <2>2, <2>4, <2>5, <2>6 DEF StopPhase, Compute!Asks, Compute!This
  <2>8. EvacuatePhase(a)'
    BY <1>1, <2>1, <2>2, <2>4, <2>5, <2>6 DEF EvacuatePhase, Moves
  <2>9. StartPhase(a)'
    BY <1>1, <2>1, <2>2, <2>4, <2>5, <2>6 DEF StartPhase, Compute!This, Moves
  <2> QED
    BY <2>3, <2>7, <2>8, <2>9
<1> QED
  BY <1>1, <1>5, <1>6, <1>7 DEF ComputeInv, AdminsOK

\* An owner acts.
LEMMA OwnerStep ==
  ASSUME Compute!ComputeAssumption, ComputeInv, NEW s \in Compute!All, Compute!OwnerActs(s)
  PROVE  ComputeInv'
<1>1. by' = [by EXCEPT ![s] = @ \cup {"owner"}] /\ admin' = admin /\ DOMAIN admin = Admins
  BY DEF Compute!OwnerActs, ComputeInv, AdminsOK
<1>2. server \in [Compute!All -> ServerStates] /\ by \in [Compute!All -> SUBSET (Admins \cup {"owner"})]
  BY DEF ComputeInv, ServersOK
<1>3. /\ by'[s] = by[s] \cup {"owner"} /\ by' \in [Compute!All -> SUBSET (Admins \cup {"owner"})]
      /\ \A t \in Compute!All : t # s => by'[t] = by[t]
  BY <1>1, <1>2
<1>4. /\ server' \in [Compute!All -> ServerStates]
      /\ \A t \in Compute!All : t # s => server'[t] = server[t]
      /\ \/ \E verb \in {"stop", "start"} :
              /\ Compute!Accepts(s, verb) /\ server'[s].work = verb /\ server'[s].status = server[s].status
              /\ server'[s].on = server[s].on /\ server'[s].up = server[s].up
         \/ server'[s] = [status |-> "ACTIVE", on |-> "host", work |-> "none", up |-> {"host"}]
  <2>1. CASE \E verb \in {"stop", "start"} :
               Compute!Accepts(s, verb) /\ server' = [server EXCEPT ![s].work = verb]
    BY <1>2, <2>1 DEF ServerStates, Works
  <2>2. CASE server' = [server EXCEPT ![s] = Compute!At("ACTIVE")]
    <3>1. Compute!At("ACTIVE") = [status |-> "ACTIVE", on |-> "host", work |-> "none", up |-> {"host"}]
      BY DEF Compute!At
    <3> QED
      BY <1>2, <2>2, <3>1 DEF ServerStates, Works
  <2> QED
    BY <2>1, <2>2 DEF Compute!OwnerActs
<1>5. ServersOK'
  <2>1. IsFiniteSet(by'[s])
    BY <1>3, FS_AddElement DEF ComputeInv, ServersOK
  <2>2. server'[s].work # "none" => server'[s].status \in Compute!Sources[server'[s].work]
    BY <1>4 DEF Compute!Accepts
  <2> QED
    BY <1>3, <1>4, <2>1, <2>2 DEF ComputeInv, ServersOK
<1>6. ASSUME NEW t \in Compute!All, Single(t)' PROVE Tidy(t)'
  <2>1. Single(t) /\ Tidy(t)
    BY <1>3, <1>6 DEF ComputeInv, Single
  <2> QED
    BY <1>4, <2>1 DEF Tidy
<1>7. \A a \in Admins : (AdminOK(a) /\ StopPhase(a) /\ EvacuatePhase(a) /\ StartPhase(a))'
  BY <1>1, <1>3, <1>4, Others DEF Compute!ComputeAssumption
<1> QED
  BY <1>1, <1>5, <1>6, <1>7 DEF ComputeInv, AdminsOK

\* The fields of a command whose position changes ...
LEMMA GoesShape ==
  ASSUME ComputeInv, NEW a \in Admins, UnderWay(a), NEW pc, Compute!Goes(a, pc)
  PROVE  /\ DOMAIN admin' = Admins /\ \A b \in Admins : b # a => admin'[b] = admin[b]
         /\ DOMAIN admin'[a] = DOMAIN admin[a] /\ admin'[a].pc = pc /\ admin'[a].call = admin[a].call
         /\ admin'[a].todo = admin[a].todo /\ admin'[a].seen = admin[a].seen
         /\ admin'[a].started = admin[a].started /\ admin[a].todo \in Seq(Compute!All)
         /\ admin[a].started \in Seq(Compute!All)
<1>1. DOMAIN admin = Admins /\ DOMAIN admin[a] = {"call", "todo", "seen", "started", "rc", "pc"}
  BY DEF ComputeInv, AdminsOK, AdminOK
<1>2. admin' = [admin EXCEPT ![a].pc = pc]
  BY DEF Compute!Goes
<1>3. admin[a].todo \in Seq(Compute!All) /\ admin[a].started \in Seq(Compute!All)
  BY DEF ComputeInv, AdminsOK, AdminOK
<1> QED
  BY <1>1, <1>2, <1>3

\* ... and of one that turns to the next server.
LEMMA TurnsShape ==
  ASSUME ComputeInv, NEW a \in Admins, UnderWay(a), admin[a].todo # <<>>, NEW pc, Compute!Turns(a, pc)
  PROVE  /\ DOMAIN admin' = Admins /\ \A b \in Admins : b # a => admin'[b] = admin[b]
         /\ DOMAIN admin'[a] = DOMAIN admin[a] /\ admin'[a].pc = pc /\ admin'[a].call = admin[a].call
         /\ admin'[a].todo = Tail(admin[a].todo) /\ admin'[a].seen = admin[a].seen
         /\ admin'[a].started = admin[a].started
         /\ admin'[a].todo \in Seq(Compute!All) /\ admin[a].started \in Seq(Compute!All)
         /\ Compute!This(a) \in Compute!All
         /\ \A s : Among(s, admin[a].todo) => s = Compute!This(a) \/ Among(s, admin'[a].todo)
         /\ \A s : Among(s, admin'[a].todo) => Among(s, admin[a].todo)
<1>1. DOMAIN admin = Admins /\ DOMAIN admin[a] = {"call", "todo", "seen", "started", "rc", "pc"}
  BY DEF ComputeInv, AdminsOK, AdminOK
<1>2. admin' = [admin EXCEPT ![a].pc = pc, ![a].todo = Tail(admin[a].todo)]
  BY <1>1 DEF Compute!Turns
<1>3. admin[a].todo \in Seq(Compute!All) /\ admin[a].started \in Seq(Compute!All)
  BY DEF ComputeInv, AdminsOK, AdminOK
<1>4. admin'[a] = [admin[a] EXCEPT !.pc = pc, !.todo = Tail(admin[a].todo)]
  BY <1>1, <1>2
<1>5. admin'[a].todo = Tail(admin[a].todo)
  BY <1>1, <1>4
<1>6. /\ Compute!This(a) \in Compute!All /\ Tail(admin[a].todo) \in Seq(Compute!All)
      /\ \A s : Among(s, admin[a].todo) => s = Compute!This(a) \/ Among(s, Tail(admin[a].todo))
      /\ \A s : Among(s, Tail(admin[a].todo)) => Among(s, admin[a].todo)
  <2> DEFINE todo == admin[a].todo
  <2>1. todo \in Seq(Compute!All) /\ todo # <<>>
    BY <1>3
  <2> HIDE DEF todo
  <2>2. Head(todo) \in Compute!All /\ Tail(todo) \in Seq(Compute!All)
    BY <2>1
  <2>3. ASSUME NEW s, NEW i \in DOMAIN todo, todo[i] = s, s # Head(todo)
        PROVE  \E j \in DOMAIN Tail(todo) : Tail(todo)[j] = s
    <3>1. i \in 1..Len(todo) /\ i # 1
      BY <2>1, <2>3
    <3>2. i - 1 \in DOMAIN Tail(todo) /\ Tail(todo)[i - 1] = s
      BY <2>1, <2>3, <3>1
    <3> QED
      BY <3>2
  <2>4. ASSUME NEW s, NEW i \in DOMAIN Tail(todo), Tail(todo)[i] = s
        PROVE  \E j \in DOMAIN todo : todo[j] = s
    <3>1. i + 1 \in DOMAIN todo /\ todo[i + 1] = s
      BY <2>1, <2>4
    <3> QED
      BY <3>1
  <2> QED
    BY <2>2, <2>3, <2>4 DEF Among, Compute!This, todo
<1> QED
  BY <1>1, <1>2, <1>3, <1>4, <1>5, <1>6

\* A command goes on: it has its fields, and no server loses an actor.
LEMMA GoesOnward ==
  ASSUME NEW a \in Admins, AdminOK(a), UnderWay(a), DOMAIN admin'[a] = DOMAIN admin[a],
         admin'[a].call = admin[a].call, admin'[a].seen = admin[a].seen,
         admin'[a].todo \in Seq(Compute!All), admin'[a].started \in Seq(Compute!All),
         admin'[a].pc \in Positions,
         admin'[a].pc \in {"ask", "stopping", "moving", "awaiting"} => admin'[a].todo # <<>>,
         admin'[a].pc \in {"stopping", "evacuating", "starting", "awaiting", "evacuated"} =>
           Compute!Asks(a, {"evacuate"}),
         admin'[a].pc \in {"moving", "service"} => ~Compute!Asks(a, {"evacuate"}),
         \A s \in Compute!All : by'[s] = {} => by[s] = {} /\ server'[s].status = server[s].status
  PROVE  AdminOK(a)'
<1>1. admin'[a].pc # "idle" /\ DOMAIN admin[a] = {"call", "todo", "seen", "started", "rc", "pc"}
  BY DEF Positions, AdminOK
<1> QED
  BY <1>1 DEF AdminOK, UnderWay, Compute!Asks

\* What a shows of the others' state while it asks Nova about s.
LEMMA AskedServers ==
  ASSUME ComputeInv, NEW a \in Admins, NEW s \in Compute!All, NEW verb \in Works \ {"none"},
         server' = [server EXCEPT ![s].work = verb], by' = [by EXCEPT ![s] = @ \cup {a}]
  PROVE  /\ server'[s].status = server[s].status /\ server'[s].work = verb /\ server'[s].on = server[s].on
         /\ \A t \in Compute!All :
              /\ by'[t] # {} \/ by'[t] = by[t]
              /\ by'[t] = {} => by[t] = {} /\ server'[t].status = server[t].status
              /\ (Alone(a, t)' <=> Alone(a, t))
              /\ t # s => /\ server'[t] = server[t] /\ by'[t] = by[t]
                          /\ (Off(t)' <=> Off(t)) /\ (Moves(t)' <=> Moves(t)) /\ (Runs(t)' <=> Runs(t))
<1>1. server \in [Compute!All -> ServerStates] /\ by \in [Compute!All -> SUBSET (Admins \cup {"owner"})]
  BY DEF ComputeInv, ServersOK
<1>2. /\ server'[s] = [server[s] EXCEPT !.work = verb] /\ by'[s] = by[s] \cup {a}
      /\ \A t \in Compute!All : t # s => server'[t] = server[t] /\ by'[t] = by[t]
  BY <1>1
<1>3. server'[s].status = server[s].status /\ server'[s].work = verb /\ server'[s].on = server[s].on
  BY <1>1, <1>2 DEF ServerStates
<1> QED
  BY <1>2, <1>3 DEF Alone, Off, Moves, Runs, Is

\* Nova refuses what a asks for, and a ends.
LEMMA RefusedStep ==
  ASSUME ComputeInv, NEW a \in Admins, NEW s \in Compute!All, UNCHANGED server, Compute!Stops(a, 1),
         by' = [by EXCEPT ![s] = @ \cup {a}]
  PROVE  ComputeInv'
BY StopsStep

LEMMA ListsStep ==
  ASSUME Compute!ComputeAssumption, ComputeInv, NEW a \in Admins, NEW q \in Requests, Compute!Lists(a, q)
  PROVE  ComputeInv'
<1>1. /\ admin[a].pc = "idle" /\ server' = server /\ by' = by
      /\ DOMAIN admin = Admins /\ AdminOK(a)
  BY DEF Compute!Lists, ComputeInv, AdminsOK
<1>2. CASE \E rc \in {0, 1} : Compute!Stops(a, rc)
  BY <1>1, <1>2, StopsStep
<1>3. CASE \E todo \in Compute!Queues(q) :
             admin' = [admin EXCEPT ![a] =
               [call |-> q, todo |-> todo, seen |-> Compute!Listing(q), started |-> <<>>, rc |-> 0,
                pc |-> IF q.do \in {"enable", "disable"} THEN "service" ELSE "next"]]
  <2>1. PICK todo \in Compute!Queues(q) :
          admin' = [admin EXCEPT ![a] =
            [call |-> q, todo |-> todo, seen |-> Compute!Listing(q), started |-> <<>>, rc |-> 0,
             pc |-> IF q.do \in {"enable", "disable"} THEN "service" ELSE "next"]]
    BY <1>3
  <2>2. admin'[a] = [call |-> q, todo |-> todo, seen |-> Compute!Listing(q), started |-> <<>>, rc |-> 0,
                     pc |-> IF q.do \in {"enable", "disable"} THEN "service" ELSE "next"]
    BY <1>1, <2>1
  <2>3. /\ DOMAIN admin'[a] = {"call", "todo", "seen", "started", "rc", "pc"}
        /\ admin'[a].call = q /\ admin'[a].todo = todo /\ admin'[a].seen = Compute!Listing(q)
        /\ admin'[a].started = <<>>
        /\ admin'[a].pc = IF q.do \in {"enable", "disable"} THEN "service" ELSE "next"
    BY <2>2
  <2>4. todo \in Seq(Compute!All) /\ (q.do = "evacuate" => todo = Servers)
    <3>1. CASE q.do = "one"
      <4>1. PICK s \in Compute!All : todo = <<s>>
        BY <2>1, <3>1 DEF Compute!Queues
      <4> QED
        BY <3>1, <4>1
    <3>2. CASE q.do # "one"
      BY <2>1, <3>2 DEF Compute!Queues, Compute!ComputeAssumption, Compute!All
    <3> QED
      BY <3>1, <3>2
  <2>5. \A s \in Compute!All :
          by[s] = {} /\ Compute!Listing(q)[s] # "not listed" => Compute!Listing(q)[s] = server[s].status
    BY DEF ComputeInv, ServersOK, Compute!Listing, Compute!Shown
  <2>6. AdminOK(a)'
    <3>1. admin'[a].pc \in {"next", "service"} /\ (admin'[a].pc = "service" => q.do # "evacuate")
      BY <2>3
    <3>2. "pc" \in DOMAIN admin'[a] /\ admin'[a].pc \in Positions
      BY <2>3, <3>1 DEF Positions
    <3>3. \A s \in Compute!All :
            by'[s] = {} /\ admin'[a].seen[s] # "not listed" => admin'[a].seen[s] = server'[s].status
      BY <1>1, <2>3, <2>5
    <3>4. admin'[a].todo \in Seq(Compute!All) /\ admin'[a].started \in Seq(Compute!All)
      BY <2>3, <2>4
    <3> QED
      BY <2>3, <3>1, <3>2, <3>3, <3>4 DEF AdminOK, UnderWay, Compute!Asks
  <2>7. StopPhase(a)'
    <3> SUFFICES ASSUME q.do = "evacuate", admin'[a].pc \in {"next", "ask", "stopping"} PROVE StopPhase(a)'
      BY <2>3 DEF StopPhase, Compute!Asks
    <3>1. \A s \in Compute!All : Among(s, Servers)
      BY DEF Among, Compute!All
    <3>2. \A s : ~Among(s, <<>>)
      BY DEF Among
    <3>3. \A s \in Compute!All : Alone(a, s)' => by'[s] = {}
      BY <1>1 DEF AdminOK, Alone
    <3> QED
      BY <1>1, <2>3, <2>4, <3>1, <3>2, <3>3 DEF StopPhase
  <2>8. EvacuatePhase(a)' /\ StartPhase(a)'
    BY <2>3 DEF EvacuatePhase, StartPhase
  <2> QED
    BY <1>1, <2>1, <2>6, <2>7, <2>8, PrivateStep
<1> QED
  BY <1>2, <1>3 DEF Compute!Lists

LEMMA ChoosesStep ==
  ASSUME ComputeInv, NEW a \in Admins, Compute!Chooses(a)
  PROVE  ComputeInv'
<1>1. /\ admin[a].pc = "next" /\ admin[a].todo # <<>> /\ server' = server /\ by' = by
      /\ DOMAIN admin = Admins /\ AdminOK(a) /\ StopPhase(a) /\ UnderWay(a)
  BY DEF Compute!Chooses, ComputeInv, AdminsOK, UnderWay, Positions
<1>2. CASE Compute!Goes(a, "ask")
  <2>1. AdminOK(a)'
    BY <1>1, <1>2, GoesShape, GoesOnward DEF Positions
  <2>2. StopPhase(a)'
    BY <1>1, <1>2, GoesShape DEF StopPhase, Compute!Asks, Off, Is, Alone
  <2>3. EvacuatePhase(a)' /\ StartPhase(a)'
    BY <1>1, <1>2, GoesShape DEF EvacuatePhase, StartPhase
  <2> QED
    BY <1>1, <1>2, <2>1, <2>2, <2>3, GoesShape, PrivateStep
<1>3. CASE Compute!Stops(a, 0) \/ Compute!Stops(a, 1)
  BY <1>1, <1>3, StopsStep
<1>4. CASE /\ Compute!Turns(a, "next")
           /\ \/ ~(Compute!Flag(a, "yes") \/ Compute!Asks(a, {"evacuate"}))
              \/ Compute!Listed(a) \notin Compute!Touches[admin[a].call.do]
              \/ Compute!Listed(a) = "SHUTOFF"
  <2>1. AdminOK(a)'
    BY <1>1, <1>4, TurnsShape, GoesOnward DEF Positions
  <2>2. Compute!Asks(a, {"evacuate"}) => admin[a].seen[Compute!This(a)] # "ACTIVE"
    BY <1>4 DEF Compute!Asks, Compute!Listed, Compute!Touches
  <2>3. StopPhase(a)'
    BY <1>1, <1>4, <2>2, TurnsShape DEF StopPhase, Compute!Asks, Off, Is, Alone
  <2>4. EvacuatePhase(a)' /\ StartPhase(a)'
    BY <1>1, <1>4, TurnsShape DEF EvacuatePhase, StartPhase
  <2> QED
    BY <1>1, <1>4, <2>1, <2>3, <2>4, TurnsShape, PrivateStep
<1> QED
  BY <1>2, <1>3, <1>4 DEF Compute!Chooses

LEMMA StoppingStep ==
  ASSUME ComputeInv, NEW a \in Admins, Compute!Stopping(a)
  PROVE  ComputeInv'
<1>1. /\ admin[a].pc = "stopping" /\ Compute!Turns(a, "next") /\ server' = server /\ by' = by
      /\ DOMAIN admin = Admins /\ AdminOK(a) /\ StopPhase(a) /\ UnderWay(a)
      /\ admin[a].todo # <<>> /\ Compute!Asks(a, {"evacuate"})
      /\ server[Compute!This(a)].status = "SHUTOFF"
  BY DEF Compute!Stopping, ComputeInv, AdminsOK, UnderWay, Positions, AdminOK, Compute!Shown
<1>2. AdminOK(a)'
  BY <1>1, TurnsShape, GoesOnward DEF Positions
<1>3. StopPhase(a)'
  BY <1>1, TurnsShape DEF StopPhase, Compute!Asks, Off, Is, Alone
<1>4. EvacuatePhase(a)' /\ StartPhase(a)'
  BY <1>1, TurnsShape DEF EvacuatePhase, StartPhase
<1> QED
  BY <1>1, <1>2, <1>3, <1>4, TurnsShape, PrivateStep

LEMMA ThroughStep ==
  ASSUME Compute!ComputeAssumption, ComputeInv, NEW a \in Admins, Compute!Through(a)
  PROVE  ComputeInv'
<1>1. /\ admin[a].pc = "next" /\ admin[a].todo = <<>> /\ server' = server /\ by' = by
      /\ DOMAIN admin = Admins /\ AdminOK(a) /\ StopPhase(a) /\ UnderWay(a)
      /\ DOMAIN admin[a] = {"call", "todo", "seen", "started", "rc", "pc"}
  BY DEF Compute!Through, ComputeInv, AdminsOK, AdminOK, UnderWay, Positions
<1>2. CASE ~Compute!Asks(a, {"evacuate"})
  BY <1>1, <1>2, StopsStep DEF Compute!Through
<1>3. CASE Compute!Asks(a, {"evacuate"})
  <2>1. admin' = [admin EXCEPT ![a].pc = "evacuating", ![a].todo = Servers]
    BY <1>3 DEF Compute!Through
  <2>2. /\ DOMAIN admin' = Admins /\ \A b \in Admins : b # a => admin'[b] = admin[b]
        /\ admin'[a] = [admin[a] EXCEPT !.pc = "evacuating", !.todo = Servers]
    BY <1>1, <2>1
  <2>3. /\ DOMAIN admin'[a] = DOMAIN admin[a] /\ admin'[a].pc = "evacuating"
        /\ admin'[a].todo = Servers /\ admin'[a].call = admin[a].call
        /\ admin'[a].seen = admin[a].seen /\ admin'[a].started = admin[a].started
    BY <1>1, <2>2
  <2>4. Servers \in Seq(Compute!All) /\ \A s \in Compute!All : Among(s, Servers)
    BY DEF Compute!ComputeAssumption, Compute!All, Among
  <2>5. admin[a].started \in Seq(Compute!All)
    BY <1>1 DEF AdminOK
  <2>6. AdminOK(a)'
    BY <1>1, <1>3, <2>3, <2>4, <2>5, GoesOnward DEF Positions
  <2>7. EvacuatePhase(a)'
    <3>1. \A s \in Compute!All : Among(s, admin[a].started) <=> admin[a].seen[s] = "ACTIVE"
      BY <1>1, <1>3 DEF StopPhase, Among
    <3>2. ASSUME NEW s \in Compute!All, Alone(a, s), admin[a].seen[s] \in {"ACTIVE", "SHUTOFF"} PROVE Off(s)
      <4>1. CASE admin[a].seen[s] = "ACTIVE"
        BY <1>1, <1>3, <3>1, <3>2, <4>1 DEF StopPhase
      <4>2. CASE admin[a].seen[s] = "SHUTOFF"
        <5>1. by[s] = {}
          BY <1>1, <1>3, <3>1, <3>2, <4>2 DEF StopPhase
        <5> QED
          BY <1>1, <4>2, <5>1 DEF AdminOK, Off, Is, ComputeInv, ServersOK
      <4> QED
        BY <3>2, <4>1, <4>2
    <3> QED
      BY <1>1, <2>3, <2>4, <3>1, <3>2 DEF EvacuatePhase, Off, Is, Alone
  <2>8. StopPhase(a)' /\ StartPhase(a)'
    BY <2>3 DEF StopPhase, StartPhase
  <2> QED
    BY <1>1, <2>2, <2>6, <2>7, <2>8, PrivateStep
<1> QED
  BY <1>2, <1>3

LEMMA RequestedStep ==
  ASSUME ComputeInv, NEW a \in Admins, Compute!Requested(a)
  PROVE  ComputeInv'
<1>0. PICK s : s = Compute!This(a)
  OBVIOUS
<1>1. /\ admin[a].pc = "ask" /\ admin[a].todo # <<>> /\ DOMAIN admin = Admins
      /\ AdminOK(a) /\ StopPhase(a) /\ UnderWay(a)
      /\ DOMAIN admin[a] = {"call", "todo", "seen", "started", "rc", "pc"}
      /\ admin[a].todo \in Seq(Compute!All) /\ admin[a].started \in Seq(Compute!All)
  BY DEF Compute!Requested, ComputeInv, AdminsOK, AdminOK, UnderWay, Positions
<1>2. s \in Compute!All
  BY <1>0, <1>1 DEF Compute!This
<1>3. CASE Compute!Asks(a, {"evacuate"}) /\ Compute!Listed(a) = "ACTIVE"
  <2>1. CASE UNCHANGED server /\ Compute!Stops(a, 1) /\ by' = [by EXCEPT ![s] = @ \cup {a}]
    BY <1>2, <2>1, RefusedStep
  <2>2. CASE /\ Compute!Accepts(s, "stop") /\ server' = [server EXCEPT ![s].work = "stop"]
             /\ by' = [by EXCEPT ![s] = @ \cup {a}]
             /\ admin' = [admin EXCEPT ![a].pc = "stopping", ![a].started = Append(@, s)]
    <3>0. /\ server'[s].status = server[s].status /\ server'[s].work = "stop" /\ server'[s].on = server[s].on
          /\ \A t \in Compute!All :
               /\ by'[t] = {} => by[t] = {} /\ server'[t].status = server[t].status
               /\ (Alone(a, t)' <=> Alone(a, t))
               /\ t # s => /\ server'[t] = server[t] /\ by'[t] = by[t]
                           /\ (Off(t)' <=> Off(t)) /\ (Moves(t)' <=> Moves(t)) /\ (Runs(t)' <=> Runs(t))
      <4>1. PICK verb \in Works \ {"none"} : verb = "stop"
        BY DEF Works
      <4>2. server' = [server EXCEPT ![s].work = verb] /\ by' = [by EXCEPT ![s] = @ \cup {a}]
        BY <1>2, <2>2, <4>1
      <4> QED
        BY <1>2, <4>1, <4>2, AskedServers
    <3>1. /\ DOMAIN admin' = Admins /\ \A b \in Admins : b # a => admin'[b] = admin[b]
          /\ admin'[a] = [admin[a] EXCEPT !.pc = "stopping", !.started = Append(admin[a].started, s)]
      BY <1>1, <2>2
    <3>2. /\ DOMAIN admin'[a] = DOMAIN admin[a] /\ admin'[a].pc = "stopping"
          /\ admin'[a].todo = admin[a].todo /\ admin'[a].call = admin[a].call
          /\ admin'[a].seen = admin[a].seen /\ admin'[a].started = Append(admin[a].started, s)
      BY <1>1, <3>1
    <3>3. \A t : Among(t, admin'[a].started) <=> (Among(t, admin[a].started) \/ t = s)
      <4> DEFINE started == admin[a].started
      <4>1. started \in Seq(Compute!All)
        BY <1>1
      <4> HIDE DEF started
      <4>2. \A t : (\E i \in DOMAIN Append(started, s) : Append(started, s)[i] = t)
                     <=> (\E i \in DOMAIN started : started[i] = t) \/ t = s
        <5>1. /\ DOMAIN Append(started, s) = 1..(Len(started) + 1) /\ DOMAIN started = 1..Len(started)
              /\ Len(started) \in Nat /\ Append(started, s)[Len(started) + 1] = s
              /\ \A i \in 1..Len(started) : Append(started, s)[i] = started[i]
          BY <1>2, <4>1
        <5> QED
          BY <5>1
      <4> QED
        BY <3>2, <4>2 DEF Among, started
    <3>4. /\ server[s].status = "ACTIVE" /\ server'[s].status = "ACTIVE" /\ server'[s].work = "stop"
      BY <2>2, <3>0 DEF Compute!Accepts, Compute!Sources
    <3>5. admin'[a].started \in Seq(Compute!All)
      BY <1>1, <1>2, <3>2
    <3>6. AdminOK(a)'
      <4>1. \A t \in Compute!All : by'[t] = {} => by[t] = {} /\ server'[t].status = server[t].status
        BY <3>0
      <4> QED
        BY <1>1, <1>3, <3>2, <3>5, <4>1, GoesOnward DEF Positions
    <3>7. StopPhase(a)'
      <4>1. \A t \in Compute!All : Alone(a, t)' /\ ~Among(t, admin'[a].started) => by'[t] = {}
        BY <1>1, <1>3, <3>0, <3>3 DEF StopPhase
      <4>2. \A t \in Compute!All : Alone(a, t)' /\ Among(t, admin'[a].started) /\ t # s => Off(t)'
        BY <1>1, <1>3, <3>0, <3>3 DEF StopPhase
      <4>3. Is(s, "ACTIVE", "stop")' /\ Compute!This(a)' = s
        BY <1>0, <3>2, <3>4 DEF Is, Compute!This
      <4>4. admin[a].seen[s] = "ACTIVE"
        BY <1>0, <1>3 DEF Compute!Listed
      <4>5. \A t \in Compute!All :
              admin'[a].seen[t] = "ACTIVE" => Among(t, admin'[a].started) \/ Among(t, admin'[a].todo)
        BY <1>1, <1>3, <3>2, <3>3 DEF StopPhase
      <4>6. \A t \in Compute!All : Among(t, admin'[a].started) => admin'[a].seen[t] = "ACTIVE"
        BY <1>1, <1>3, <3>2, <3>3, <4>4 DEF StopPhase
      <4>7. \A t \in Compute!All : Alone(a, t)' =>
              IF Among(t, admin'[a].started)
              THEN Off(t)' \/ (admin'[a].pc = "stopping" /\ t = Compute!This(a)' /\ Is(t, "ACTIVE", "stop")')
              ELSE by'[t] = {}
        BY <3>2, <4>1, <4>2, <4>3
      <4> QED
        BY <3>3, <4>3, <4>5, <4>6, <4>7 DEF StopPhase
    <3>8. EvacuatePhase(a)' /\ StartPhase(a)'
      BY <3>2 DEF EvacuatePhase, StartPhase
    <3> QED
      BY <1>2, <2>2, <3>1, <3>6, <3>7, <3>8, AskStep DEF Works
  <2> QED
    BY <1>0, <1>3, <2>1, <2>2 DEF Compute!Requested, Compute!Asked
<1>4. CASE Compute!Asks(a, {"evacuate"}) /\ Compute!Listed(a) # "ACTIVE"
  <2>1. Compute!Turns(a, "next") /\ server' = server /\ by' = by
    BY <1>4 DEF Compute!Requested
  <2>2. AdminOK(a)'
    BY <1>1, <2>1, TurnsShape, GoesOnward DEF Positions
  <2>3. StopPhase(a)'
    <3>1. /\ admin'[a].pc = "next" /\ admin'[a].call = admin[a].call /\ admin'[a].seen = admin[a].seen
          /\ admin'[a].started = admin[a].started
          /\ \A t : Among(t, admin[a].todo) => t = s \/ Among(t, admin'[a].todo)
      BY <1>0, <1>1, <2>1, TurnsShape
    <3>2. admin[a].seen[s] # "ACTIVE"
      BY <1>0, <1>4 DEF Compute!Listed
    <3> QED
      BY <1>1, <1>4, <2>1, <3>1, <3>2 DEF StopPhase, Off, Is, Alone
  <2>4. EvacuatePhase(a)' /\ StartPhase(a)'
    BY <1>1, <2>1, TurnsShape DEF EvacuatePhase, StartPhase
  <2> QED
    BY <1>1, <2>1, <2>2, <2>3, <2>4, TurnsShape, PrivateStep
<1>5. CASE ~Compute!Asks(a, {"evacuate"})
  <2>1. PICK verb \in Works \ {"none", "evacuate"} :
          /\ by' = [by EXCEPT ![s] = @ \cup {a}]
          /\ \/ UNCHANGED server /\ Compute!Stops(a, 1)
             \/ /\ Compute!Accepts(s, verb) /\ server' = [server EXCEPT ![s].work = verb]
                /\ Compute!Goes(a, "moving") \/ Compute!Turns(a, "next")
    <3>1. Compute!Verb(a) \in Works \ {"none", "evacuate"}
      BY DEF Compute!Verb, Works
    <3> QED
      BY <1>0, <1>5, <3>1 DEF Compute!Requested, Compute!Asked
  <2>2. CASE UNCHANGED server /\ Compute!Stops(a, 1)
    BY <1>2, <2>1, <2>2, RefusedStep
  <2>3. CASE /\ Compute!Accepts(s, verb) /\ server' = [server EXCEPT ![s].work = verb]
             /\ Compute!Goes(a, "moving") \/ Compute!Turns(a, "next")
    <3>1. \A t \in Compute!All : by'[t] = {} => by[t] = {} /\ server'[t].status = server[t].status
      BY <1>2, <2>1, <2>3, AskedServers
    <3>2. /\ DOMAIN admin' = Admins /\ \A b \in Admins : b # a => admin'[b] = admin[b]
          /\ DOMAIN admin'[a] = DOMAIN admin[a] /\ admin'[a].pc \in {"moving", "next"}
          /\ admin'[a].call = admin[a].call /\ admin'[a].seen = admin[a].seen
          /\ admin'[a].todo \in Seq(Compute!All) /\ admin'[a].started \in Seq(Compute!All)
          /\ admin'[a].pc = "moving" => admin'[a].todo # <<>>
      BY <1>1, <2>3, GoesShape, TurnsShape
    <3>3. AdminOK(a)'
      BY <1>1, <1>5, <3>1, <3>2, GoesOnward DEF Positions
    <3>4. StopPhase(a)' /\ EvacuatePhase(a)' /\ StartPhase(a)'
      BY <1>5, <3>2 DEF StopPhase, EvacuatePhase, StartPhase, Compute!Asks
    <3> QED
      BY <1>2, <2>1, <2>3, <3>2, <3>3, <3>4, AskStep
  <2> QED
    BY <2>1, <2>2, <2>3
<1> QED
  BY <1>3, <1>4, <1>5

LEMMA MovingStep ==
  ASSUME ComputeInv, NEW a \in Admins, Compute!Moving(a)
  PROVE  ComputeInv'
<1>0. PICK s : s = Compute!This(a)
  OBVIOUS
<1>1. /\ admin[a].pc = "moving" /\ admin[a].todo # <<>> /\ DOMAIN admin = Admins
      /\ AdminOK(a) /\ UnderWay(a) /\ ~Compute!Asks(a, {"evacuate"})
      /\ admin[a].todo \in Seq(Compute!All)
  BY DEF Compute!Moving, ComputeInv, AdminsOK, AdminOK, UnderWay, Positions
<1>2. s \in Compute!All
  BY <1>0, <1>1 DEF Compute!This
<1>3. CASE UNCHANGED server /\ Compute!Stops(a, 1) /\ by' = [by EXCEPT ![s] = @ \cup {a}]
  BY <1>2, <1>3, RefusedStep
<1>4. CASE /\ Compute!Turns(a, "next")
           /\ \/ server' = server /\ by' = by
              \/ /\ Compute!Accepts(s, "confirm") /\ server' = [server EXCEPT ![s].work = "confirm"]
                 /\ by' = [by EXCEPT ![s] = @ \cup {a}]
  <2>1. \A t \in Compute!All : by'[t] = {} => by[t] = {} /\ server'[t].status = server[t].status
    BY <1>2, <1>4, AskedServers DEF Works
  <2>2. AdminOK(a)'
    BY <1>1, <1>4, <2>1, TurnsShape, GoesOnward DEF Positions
  <2>3. StopPhase(a)' /\ EvacuatePhase(a)' /\ StartPhase(a)'
    BY <1>1, <1>4, TurnsShape DEF StopPhase, EvacuatePhase, StartPhase, Compute!Asks
  <2> QED
    BY <1>1, <1>2, <1>4, <2>2, <2>3, TurnsShape, PrivateStep, AskStep DEF Works
<1> QED
  BY <1>0, <1>3, <1>4 DEF Compute!Moving, Compute!Asked

LEMMA EvacuatingStep ==
  ASSUME ComputeInv, NEW a \in Admins, Compute!Evacuating(a)
  PROVE  ComputeInv'
<1>0. PICK s : s = Compute!This(a)
  OBVIOUS
<1>1. /\ admin[a].pc = "evacuating" /\ DOMAIN admin = Admins
      /\ AdminOK(a) /\ EvacuatePhase(a) /\ UnderWay(a) /\ Compute!Asks(a, {"evacuate"})
      /\ DOMAIN admin[a] = {"call", "todo", "seen", "started", "rc", "pc"}
      /\ admin[a].todo \in Seq(Compute!All) /\ admin[a].started \in Seq(Compute!All)
  BY DEF Compute!Evacuating, ComputeInv, AdminsOK, AdminOK, UnderWay, Positions
<1>2. CASE admin[a].todo = <<>>
  <2>1. /\ server' = server /\ by' = by
        /\ admin' = [admin EXCEPT ![a].pc = "starting", ![a].todo = admin[a].started]
    BY <1>2 DEF Compute!Evacuating
  <2>2. /\ DOMAIN admin' = Admins /\ \A b \in Admins : b # a => admin'[b] = admin[b]
        /\ admin'[a] = [admin[a] EXCEPT !.pc = "starting", !.todo = admin[a].started]
    BY <1>1, <2>1
  <2>3. /\ DOMAIN admin'[a] = DOMAIN admin[a] /\ admin'[a].pc = "starting"
        /\ admin'[a].todo = admin[a].started /\ admin'[a].call = admin[a].call
        /\ admin'[a].seen = admin[a].seen /\ admin'[a].started = admin[a].started
    BY <1>1, <2>2
  <2>4. AdminOK(a)'
    BY <1>1, <2>1, <2>3, GoesOnward DEF Positions
  <2>5. \A t \in Compute!All : Alone(a, t) /\ Among(t, admin[a].started) => Moves(t)
    BY <1>1, <1>2 DEF EvacuatePhase, Among
  <2>6. StartPhase(a)'
    BY <2>1, <2>3, <2>5 DEF StartPhase, Moves, Off, Is, Alone
  <2>7. StopPhase(a)' /\ EvacuatePhase(a)'
    BY <2>3 DEF StopPhase, EvacuatePhase
  <2> QED
    BY <1>1, <2>1, <2>2, <2>4, <2>6, <2>7, PrivateStep
<1>3. CASE admin[a].todo # <<>> /\ Compute!Listed(a) \in Compute!Touches.evacuate
  <2>1. s \in Compute!All /\ admin[a].seen[s] \in {"ACTIVE", "SHUTOFF"}
    BY <1>0, <1>1, <1>3 DEF Compute!This, Compute!Listed, Compute!Touches
  <2>2. CASE UNCHANGED server /\ Compute!Stops(a, 1) /\ by' = [by EXCEPT ![s] = @ \cup {a}]
    BY <2>1, <2>2, RefusedStep
  <2>3. CASE /\ Compute!Accepts(s, "evacuate") /\ server' = [server EXCEPT ![s].work = "evacuate"]
             /\ by' = [by EXCEPT ![s] = @ \cup {a}] /\ Compute!Turns(a, "evacuating")
    <3>1. /\ server'[s].status = server[s].status /\ server'[s].work = "evacuate" /\ server'[s].on = server[s].on
          /\ \A t \in Compute!All :
               /\ by'[t] = {} => by[t] = {} /\ server'[t].status = server[t].status
               /\ (Alone(a, t)' <=> Alone(a, t))
               /\ t # s => /\ server'[t] = server[t] /\ by'[t] = by[t]
                           /\ (Off(t)' <=> Off(t)) /\ (Moves(t)' <=> Moves(t)) /\ (Runs(t)' <=> Runs(t))
      <4>1. PICK verb \in Works \ {"none"} : verb = "evacuate"
        BY DEF Works
      <4>2. server' = [server EXCEPT ![s].work = verb] /\ by' = [by EXCEPT ![s] = @ \cup {a}]
        BY <2>1, <2>3, <4>1
      <4> QED
        BY <2>1, <4>1, <4>2, AskedServers
    <3>9. /\ admin'[a].pc = "evacuating" /\ admin'[a].seen = admin[a].seen
          /\ admin'[a].started = admin[a].started
          /\ \A t : Among(t, admin[a].todo) => t = s \/ Among(t, admin'[a].todo)
      BY <1>0, <1>1, <1>3, <2>3, TurnsShape
    <3>2. AdminOK(a)'
      BY <1>1, <1>3, <2>3, <3>1, TurnsShape, GoesOnward DEF Positions
    <3>3. Alone(a, s) => server[s].status # "ACTIVE"
      BY <1>1, <2>1 DEF EvacuatePhase, Off, Moves, Is
    <3>4. Alone(a, s) => Moves(s)'
      <4>1. server[s].status \in {"ACTIVE", "SHUTOFF"}
        BY <2>3 DEF Compute!Accepts, Compute!Sources
      <4> QED
        BY <3>1, <3>3, <4>1 DEF Moves, Is
    <3>5. \A t \in Compute!All : Alone(a, t)' =>
            /\ admin[a].seen[t] \in {"ACTIVE", "SHUTOFF"} => Off(t)' \/ Moves(t)'
            /\ admin[a].seen[t] = "ACTIVE" => Among(t, admin[a].todo) \/ Moves(t)'
      BY <1>1, <3>1, <3>4 DEF EvacuatePhase
    <3>6. EvacuatePhase(a)'
      <4>1. \A t \in Compute!All : Among(t, admin'[a].started) <=> admin'[a].seen[t] = "ACTIVE"
        BY <1>1, <3>9 DEF EvacuatePhase
      <4>2. \A t \in Compute!All : Alone(a, t)' =>
              /\ admin'[a].seen[t] \in {"ACTIVE", "SHUTOFF"} => Off(t)' \/ Moves(t)'
              /\ admin'[a].seen[t] = "ACTIVE" => Among(t, admin'[a].todo) \/ Moves(t)'
        BY <2>1, <3>1, <3>4, <3>5, <3>9
      <4> QED
        BY <4>1, <4>2 DEF EvacuatePhase
    <3>7. StopPhase(a)' /\ StartPhase(a)'
      BY <1>1, <1>3, <2>3, TurnsShape DEF StopPhase, StartPhase
    <3> QED
      BY <1>1, <1>3, <2>1, <2>3, <3>2, <3>3, <3>6, <3>7, TurnsShape, AskStep DEF Works
  <2> QED
    BY <1>0, <1>3, <2>2, <2>3 DEF Compute!Evacuating, Compute!Asked
<1>4. CASE admin[a].todo # <<>> /\ Compute!Listed(a) \notin Compute!Touches.evacuate
  <2>1. server' = server /\ by' = by /\ Compute!Turns(a, "evacuating")
    BY <1>4 DEF Compute!Evacuating
  <2>2. AdminOK(a)'
    BY <1>1, <1>4, <2>1, TurnsShape, GoesOnward DEF Positions
  <2>3. admin[a].seen[s] # "ACTIVE"
    BY <1>0, <1>4 DEF Compute!Listed, Compute!Touches
  <2>4. EvacuatePhase(a)'
    <3>1. /\ admin'[a].pc = "evacuating" /\ admin'[a].seen = admin[a].seen
          /\ admin'[a].started = admin[a].started
          /\ \A t : Among(t, admin[a].todo) => t = s \/ Among(t, admin'[a].todo)
      BY <1>0, <1>1, <1>4, <2>1, TurnsShape
    <3> QED
      BY <1>1, <2>1, <2>3, <3>1 DEF EvacuatePhase, Off, Moves, Is, Alone
  <2>5. StopPhase(a)' /\ StartPhase(a)'
    BY <1>1, <1>4, <2>1, TurnsShape DEF StopPhase, StartPhase
  <2> QED
    BY <1>1, <1>4, <2>1, <2>2, <2>4, <2>5, TurnsShape, PrivateStep
<1> QED
  BY <1>2, <1>3, <1>4

LEMMA StartingStep ==
  ASSUME ComputeInv, NEW a \in Admins, Compute!Starting(a)
  PROVE  ComputeInv'
<1>0. PICK s : s = Compute!This(a)
  OBVIOUS
<1>1. /\ admin[a].pc = "starting" /\ DOMAIN admin = Admins
      /\ AdminOK(a) /\ StartPhase(a) /\ UnderWay(a) /\ Compute!Asks(a, {"evacuate"})
      /\ admin[a].todo \in Seq(Compute!All)
  BY DEF Compute!Starting, ComputeInv, AdminsOK, AdminOK, UnderWay, Positions
<1>2. CASE admin[a].todo = <<>>
  <2>1. server' = server /\ by' = by /\ Compute!Goes(a, "evacuated")
    BY <1>2 DEF Compute!Starting
  <2>2. AdminOK(a)'
    BY <1>1, <2>1, GoesShape, GoesOnward DEF Positions
  <2>3. /\ admin'[a].pc = "evacuated" /\ admin'[a].todo = <<>> /\ admin'[a].started = admin[a].started
    BY <1>1, <1>2, <2>1, GoesShape
  <2>4. \A t : ~Among(t, admin[a].todo)
    BY <1>2 DEF Among
  <2>5. StartPhase(a)'
    BY <1>1, <2>1, <2>3, <2>4 DEF StartPhase, Runs, Is, Alone
  <2>6. StopPhase(a)' /\ EvacuatePhase(a)'
    BY <2>3 DEF StopPhase, EvacuatePhase
  <2> QED
    BY <1>1, <2>1, <2>2, <2>5, <2>6, GoesShape, PrivateStep
<1>3. CASE admin[a].todo # <<>>
  <2>1. s \in Compute!All
    BY <1>0, <1>1, <1>3 DEF Compute!This
  <2>2. CASE UNCHANGED server /\ Compute!Stops(a, 1) /\ by' = [by EXCEPT ![s] = @ \cup {a}]
    BY <2>1, <2>2, RefusedStep
  <2>3. CASE /\ Compute!Accepts(s, "start") /\ server' = [server EXCEPT ![s].work = "start"]
             /\ by' = [by EXCEPT ![s] = @ \cup {a}] /\ Compute!Goes(a, "awaiting")
    <3>1. /\ server'[s].status = server[s].status /\ server'[s].work = "start" /\ server'[s].on = server[s].on
          /\ \A t \in Compute!All :
               /\ by'[t] = {} => by[t] = {} /\ server'[t].status = server[t].status
               /\ (Alone(a, t)' <=> Alone(a, t))
               /\ t # s => /\ server'[t] = server[t] /\ by'[t] = by[t]
                           /\ (Off(t)' <=> Off(t)) /\ (Moves(t)' <=> Moves(t)) /\ (Runs(t)' <=> Runs(t))
      <4>1. PICK verb \in Works \ {"none"} : verb = "start"
        BY DEF Works
      <4>2. server' = [server EXCEPT ![s].work = verb] /\ by' = [by EXCEPT ![s] = @ \cup {a}]
        BY <2>1, <2>3, <4>1
      <4> QED
        BY <2>1, <4>1, <4>2, AskedServers
    <3>2. /\ admin'[a].pc = "awaiting" /\ admin'[a].started = admin[a].started
          /\ admin'[a].todo = admin[a].todo
      BY <1>1, <2>3, GoesShape
    <3>3. AdminOK(a)'
      BY <1>1, <1>3, <2>3, <3>1, GoesShape, GoesOnward DEF Positions
    <3>4. Compute!Accepts(s, "start")
      BY <2>3
    <3>5. server[s].status = "SHUTOFF" /\ server[s].work = "none"
      BY <3>4 DEF Compute!Accepts, Compute!Sources
    <3>6. Alone(a, s) /\ Among(s, admin[a].started) => server[s].on = "other"
      BY <1>1, <2>1, <3>5 DEF StartPhase, Runs, Moves, Off, Is
    <3>7. Is(s, "SHUTOFF", "start")' /\ Compute!This(a)' = s
      BY <1>0, <3>1, <3>2, <3>5 DEF Is, Compute!This
    <3>8. \A t \in Compute!All : Alone(a, t)' /\ Among(t, admin'[a].started) =>
            IF t = s THEN server'[s].on = "other"
                     ELSE Runs(t)' \/ (Among(t, admin'[a].todo) /\ Moves(t)')
      BY <1>1, <2>1, <3>1, <3>2, <3>6 DEF StartPhase
    <3>9. StartPhase(a)'
      BY <2>1, <3>2, <3>7, <3>8 DEF StartPhase
    <3>10. StopPhase(a)' /\ EvacuatePhase(a)'
      BY <3>2 DEF StopPhase, EvacuatePhase
    <3> QED
      BY <1>1, <2>1, <2>3, <3>3, <3>9, <3>10, GoesShape, AskStep DEF Works
  <2> QED
    BY <1>0, <1>3, <2>2, <2>3 DEF Compute!Starting, Compute!Asked
<1> QED
  BY <1>2, <1>3

LEMMA AwaitingStep ==
  ASSUME ComputeInv, NEW a \in Admins, Compute!Awaiting(a)
  PROVE  ComputeInv'
<1>0. PICK s : s = Compute!This(a)
  OBVIOUS
<1>1. /\ admin[a].pc = "awaiting" /\ DOMAIN admin = Admins /\ admin[a].todo # <<>>
      /\ AdminOK(a) /\ StartPhase(a) /\ UnderWay(a) /\ Compute!Asks(a, {"evacuate"})
      /\ server' = server /\ by' = by /\ Compute!Turns(a, "starting")
  BY DEF Compute!Awaiting, ComputeInv, AdminsOK, AdminOK, UnderWay, Positions
<1>2. AdminOK(a)'
  BY <1>1, TurnsShape, GoesOnward DEF Positions
<1>3. /\ admin'[a].pc = "starting" /\ admin'[a].started = admin[a].started /\ s \in Compute!All
      /\ \A t : Among(t, admin[a].todo) => t = s \/ Among(t, admin'[a].todo)
  BY <1>0, <1>1, TurnsShape
<1>4. server[s].status = "ACTIVE"
  BY <1>0 DEF Compute!Awaiting, Compute!Shown
<1>5. \A t \in Compute!All : Alone(a, t) /\ Among(t, admin[a].started) =>
        Runs(t) \/ (t # s /\ Among(t, admin[a].todo) /\ Moves(t))
  BY <1>0, <1>1, <1>3, <1>4 DEF StartPhase, Is
<1>6. StartPhase(a)'
  BY <1>1, <1>3, <1>5 DEF StartPhase, Runs, Moves, Off, Is, Alone
<1>7. StopPhase(a)' /\ EvacuatePhase(a)'
  BY <1>3 DEF StopPhase, EvacuatePhase
<1> QED
  BY <1>1, <1>2, <1>6, <1>7, TurnsShape, PrivateStep

LEMMA ServiceStep ==
  ASSUME ComputeInv, NEW a \in Admins, Compute!ComputeEnable(a) \/ Compute!ComputeDisable(a)
  PROVE  ComputeInv'
<1>1. server' = server /\ by' = by /\ \E rc \in {0, 1} : Compute!Stops(a, rc)
  BY DEF Compute!ComputeEnable, Compute!ComputeDisable
<1> QED
  BY <1>1, StopsStep

LEMMA RestartedStep ==
  ASSUME ComputeInv, UNCHANGED <<server, by, admin>>
  PROVE  ComputeInv'
<1>1. \A b \in Admins : (AdminOK(b) /\ StopPhase(b) /\ EvacuatePhase(b) /\ StartPhase(b))'
  BY Others
<1> QED
  BY <1>1 DEF ComputeInv, AdminsOK, ServersOK, Single, Tidy

LEMMA ComputeKept ==
  ASSUME Compute!ComputeAssumption PROVE computeSpec => []ComputeInv
<1>1. ComputeInv /\ [Compute!computeNext]_computeVars => ComputeInv'
  <2> SUFFICES ASSUME ComputeInv, [Compute!computeNext]_computeVars PROVE ComputeInv'
    OBVIOUS
  <2>1. ASSUME NEW a \in Admins, NEW q \in Requests, Compute!Lists(a, q) PROVE ComputeInv'
    BY <2>1, ListsStep
  <2>2. ASSUME NEW a \in Admins, Compute!Chooses(a) PROVE ComputeInv'
    BY <2>2, ChoosesStep
  <2>3. ASSUME NEW a \in Admins, Compute!Requested(a) PROVE ComputeInv'
    BY <2>3, RequestedStep
  <2>4. ASSUME NEW a \in Admins, Compute!Stopping(a) PROVE ComputeInv'
    BY <2>4, StoppingStep
  <2>5. ASSUME NEW a \in Admins, Compute!Moving(a) PROVE ComputeInv'
    BY <2>5, MovingStep
  <2>6. ASSUME NEW a \in Admins, Compute!Through(a) PROVE ComputeInv'
    BY <2>6, ThroughStep
  <2>7. ASSUME NEW a \in Admins, Compute!Evacuating(a) PROVE ComputeInv'
    BY <2>7, EvacuatingStep
  <2>8. ASSUME NEW a \in Admins, Compute!Starting(a) PROVE ComputeInv'
    BY <2>8, StartingStep
  <2>9. ASSUME NEW a \in Admins, Compute!Awaiting(a) PROVE ComputeInv'
    BY <2>9, AwaitingStep
  <2>10. ASSUME NEW a \in Admins, Compute!ComputeEnable(a) \/ Compute!ComputeDisable(a) PROVE ComputeInv'
    BY <2>10, ServiceStep
  <2>11. ASSUME NEW s \in Compute!All, Compute!NovaEnds(s) PROVE ComputeInv'
    BY <2>11, NovaStep
  <2>12. ASSUME NEW s \in Compute!All, Compute!OwnerActs(s) PROVE ComputeInv'
    BY <2>12, OwnerStep
  <2>13. CASE Compute!Restarted \/ UNCHANGED computeVars
    BY <2>13, RestartedStep DEF Compute!Restarted, computeVars
  <2>14. ASSUME NEW a \in Admins, Compute!AdminActs(a) PROVE ComputeInv'
    BY <2>1, <2>2, <2>3, <2>4, <2>5, <2>6, <2>7, <2>8, <2>9, <2>10, <2>14 DEF Compute!AdminActs
  <2> QED
    BY <2>11, <2>12, <2>13, <2>14 DEF Compute!computeNext
<1> QED
  BY <1>1, ComputeStarts, PTL DEF computeSpec

\* Sets with at most one element, by their cardinality.
LEMMA AtMostOne ==
  ASSUME NEW S, IsFiniteSet(S), Cardinality(S) <= 1
  PROVE  \A x, y \in S : x = y
<1> SUFFICES ASSUME NEW x \in S, NEW y \in S, x # y PROVE FALSE
  OBVIOUS
<1>1. Cardinality(S) \in Nat /\ Cardinality(S \ {x}) \in Nat /\ Cardinality(S \ {x}) = Cardinality(S) - 1
  BY FS_RemoveElement, FS_CardinalityType
<1>2. IsFiniteSet(S \ {x}) /\ Cardinality(S \ {x}) = 0
  BY <1>1, FS_RemoveElement
<1> QED
  BY <1>2, FS_EmptySet

LEMMA InOne ==
  ASSUME NEW x, NEW S \in SUBSET {x}
  PROVE  Cardinality(S) <= 1
<1>1. CASE S = {}
  BY <1>1, FS_EmptySet
<1>2. CASE S = {x}
  BY <1>2, FS_Singleton
<1> QED
  BY <1>1, <1>2

LEMMA ComputeSafe == ComputeInv => NoSplitBrain /\ EvacueesRunAgain
<1> SUFFICES ASSUME ComputeInv PROVE NoSplitBrain /\ EvacueesRunAgain
  OBVIOUS
<1>1. ASSUME NEW s \in Compute!All, Cardinality(by[s]) <= 1 PROVE Cardinality(server[s].up) <= 1
  <2>1. Single(s)
    BY <1>1, AtMostOne DEF ComputeInv, ServersOK, Single
  <2>2. server[s].up \subseteq {server[s].on}
    BY <2>1 DEF ComputeInv, Tidy
  <2> QED
    BY <2>2, InOne
<1>2. ASSUME NEW a \in Admins, admin[a].pc = "evacuated", NEW i \in DOMAIN admin[a].started,
             by[admin[a].started[i]] = {a}
      PROVE  /\ server[admin[a].started[i]].status = "ACTIVE" /\ server[admin[a].started[i]].on = "other"
  <2>1. PICK s : s = admin[a].started[i]
    OBVIOUS
  <2>2. StartPhase(a) /\ AdminOK(a) /\ UnderWay(a)
    BY <1>2 DEF ComputeInv, AdminsOK, UnderWay, Positions
  <2>3. s \in Compute!All /\ Among(s, admin[a].started)
    <3>1. admin[a].started \in Seq(Compute!All)
      BY <2>2 DEF AdminOK
    <3> QED
      BY <1>2, <2>1, <3>1 DEF Among
  <2>4. Alone(a, s)
    BY <1>2, <2>1 DEF Alone
  <2>5. \A t : ~Among(t, <<>>)
    BY DEF Among
  <2>6. Runs(s)
    BY <1>2, <2>2, <2>3, <2>4, <2>5 DEF StartPhase
  <2> QED
    BY <2>1, <2>6 DEF Runs, Is
<1>3. NoSplitBrain
  <2>1. \A S : Compute!Cardinality(S) = Cardinality(S)
    BY DEF Compute!Cardinality, Cardinality
  <2> QED
    BY <1>1, <2>1 DEF NoSplitBrain, Compute!NoSplitBrain
<1>4. EvacueesRunAgain
  BY <1>2 DEF EvacueesRunAgain, Compute!EvacueesRunAgain
<1> QED
  BY <1>3, <1>4

-----------------------------------------------------------------------------
(* The volumes and load balancers.                                           *)

\* A command that has read what it acts on; those it has failed over it remembers.
Started(r) ==
  /\ DOMAIN repair[r] = {"call", "rc", "done", "turned", "again", "phase", "seen", "todo", "pc"}
  /\ repair[r].turned \subseteq repair[r].done

RepairInv ==
  /\ DOMAIN repair = Repairers
  /\ \A r \in Repairers :
       /\ {"pc", "again"} \subseteq DOMAIN repair[r] /\ ~repair[r].again
       /\ repair[r].pc \in {"idle", "ended"} \/ Started(r)

\* A step that leaves alone what is remembered.
LEMMA RepairGoesOn ==
  ASSUME RepairInv, NEW r \in Repairers, DOMAIN repair' = Repairers,
         \A x \in Repairers : x # r => repair'[x] = repair[x],
         DOMAIN repair'[r] = DOMAIN repair[r], repair'[r].again = repair[r].again,
         repair[r].pc # "idle" \/ repair'[r].pc = "ended",
         repair[r].pc \notin {"idle", "ended"} =>
           repair'[r].turned = repair[r].turned /\ repair'[r].done = repair[r].done,
         repair[r].pc = "ended" => repair'[r].pc = "ended"
  PROVE  RepairInv'
BY DEF RepairInv, Started

LEMMA RepairEnds ==
  ASSUME RepairInv, NEW r \in Repairers, NEW rc, repair[r].pc # "ended", Cloud!Ends(r, rc)
  PROVE  RepairInv'
<1>1. repair' = [repair EXCEPT ![r].pc = "ended", ![r].rc = rc] /\ DOMAIN repair = Repairers /\ "pc" \in DOMAIN repair[r]
  BY DEF Cloud!Ends, RepairInv
<1>2. /\ DOMAIN repair' = Repairers /\ \A x \in Repairers : x # r => repair'[x] = repair[x]
      /\ repair'[r] = [repair[r] EXCEPT !.pc = "ended", !.rc = rc]
  BY <1>1
<1>3. /\ DOMAIN repair'[r] = DOMAIN repair[r] /\ repair'[r].again = repair[r].again /\ repair'[r].pc = "ended"
      /\ repair[r].pc \notin {"idle", "ended"} =>
           repair'[r].turned = repair[r].turned /\ repair'[r].done = repair[r].done
  BY <1>1, <1>2 DEF RepairInv, Started
<1>4. repair[r].pc = "ended" => repair'[r].pc = "ended"
  BY <1>3
<1> QED
  BY <1>2, <1>3, <1>4, RepairGoesOn

LEMMA RepairGoes ==
  ASSUME RepairInv, NEW r \in Repairers, NEW pc, repair[r].pc \notin {"idle", "ended"}, Cloud!Goes(r, pc)
  PROVE  RepairInv'
<1>1. repair' = [repair EXCEPT ![r].pc = pc] /\ DOMAIN repair = Repairers
  BY DEF Cloud!Goes, RepairInv
<1> QED
  BY <1>1 DEF RepairInv, Started

LEMMA RepairOnwards ==
  ASSUME RepairInv, NEW r \in Repairers, NEW pc, NEW a, repair[r].pc \notin {"idle", "ended"},
         Cloud!Onwards(r, pc, a)
  PROVE  RepairInv'
<1>1. repair' = [repair EXCEPT ![r].pc = pc, ![r].todo = repair[r].todo \ {a}] /\ DOMAIN repair = Repairers
  BY DEF Cloud!Onwards, RepairInv
<1> QED
  BY <1>1 DEF RepairInv, Started

LEMMA RepairBegins ==
  ASSUME RepairInv, NEW r \in Repairers, NEW q \in Repairs, Cloud!take_action(r, q)
  PROVE  RepairInv'
<1>1. CASE Cloud!Ends(r, 1)
  BY <1>1, RepairEnds DEF Cloud!take_action
<1>2. CASE ~Cloud!Ends(r, 1)
  <2> DEFINE todo == {a \in Amphorae : amphora[a].status = (IF q.do = "restore" THEN "ERROR" ELSE "ALLOCATED")}
             pc == CASE q.do \in {"reset", "delete"} -> "confirm" [] q.do = "repair" -> "list" [] OTHER -> "amphorae"
  <2>1. repair' = [repair EXCEPT ![r] = [call |-> q, rc |-> 0, done |-> {}, turned |-> {}, again |-> FALSE,
                     phase |-> "detaching", seen |-> amphora, todo |-> todo, pc |-> pc]]
    BY <1>2 DEF Cloud!take_action
  <2> HIDE DEF todo, pc
  <2> QED
    BY <2>1 DEF RepairInv, Started
<1> QED
  BY <1>1, <1>2

\* A load balancer is failed over when it is not done yet, and is done then.
LEMMA RepairRotates ==
  ASSUME RepairInv, NEW r \in Repairers, NEW a \in Amphorae, Cloud!Rotates(r, a)
  PROVE  RepairInv'
<1> DEFINE b == Serves[a]
<1>1. repair[r].pc = "amphorae" /\ DOMAIN repair = Repairers /\ Started(r) /\ repair[r].again = FALSE
  BY DEF Cloud!Rotates, Cloud!Turn, RepairInv
<1>2. CASE Cloud!Ends(r, 1) \/ Cloud!Onwards(r, "amphorae", a)
  BY <1>1, <1>2, RepairEnds, RepairOnwards
<1>3. CASE /\ Cloud!Chosen(r, a)
           /\ repair' = [repair EXCEPT ![r].todo = @ \ {a}, ![r].pc = "wait", ![r].done = Cloud!Remembered(r, b),
                           ![r].turned = @ \cup {b}, ![r].again = @ \/ b \in repair[r].turned]
  <2>1. b \notin repair[r].done
    BY <1>3 DEF Cloud!Chosen
  <2>2. b \notin repair[r].turned
    BY <1>1, <2>1 DEF Started
  <2>3. /\ DOMAIN repair' = Repairers /\ \A x \in Repairers : x # r => repair'[x] = repair[x]
        /\ repair'[r] = [repair[r] EXCEPT !.todo = repair[r].todo \ {a}, !.pc = "wait",
                           !.done = repair[r].done \cup {b}, !.turned = repair[r].turned \cup {b},
                           !.again = repair[r].again \/ b \in repair[r].turned]
    BY <1>1, <1>3 DEF Cloud!Remembered
  <2>4. /\ DOMAIN repair'[r] = DOMAIN repair[r] /\ repair'[r].done = repair[r].done \cup {b}
        /\ repair'[r].turned = repair[r].turned \cup {b}
        /\ repair'[r].again = (repair[r].again \/ b \in repair[r].turned)
    BY <1>1, <2>3 DEF Started
  <2> HIDE DEF b
  <2>5. ~repair'[r].again /\ Started(r)'
    BY <1>1, <2>2, <2>4 DEF Started
  <2>6. {"pc", "again"} \subseteq DOMAIN repair'[r]
    BY <1>1, <2>4 DEF Started
  <2>7. \A x \in Repairers : x # r =>
          /\ {"pc", "again"} \subseteq DOMAIN repair'[x] /\ ~repair'[x].again
          /\ repair'[x].pc \in {"idle", "ended"} \/ Started(x)'
    BY <2>3 DEF RepairInv, Started
  <2> QED
    BY <2>3, <2>5, <2>6, <2>7 DEF RepairInv
<1> QED
  BY <1>2, <1>3 DEF Cloud!Rotates

LEMMA RepairActs ==
  ASSUME Cloud!CloudAssumption, RepairInv, NEW r \in Repairers, Cloud!Repairer(r)
  PROVE  RepairInv'
<1>1. CASE Cloud!Confirmed(r)
  BY <1>1, RepairEnds, RepairGoes DEF Cloud!Confirmed
<1>2. CASE Cloud!reset_status(r)
  BY <1>2, RepairEnds, RepairGoes DEF Cloud!reset_status
<1>3. CASE Cloud!Requested(r)
  BY <1>3, RepairEnds, RepairGoes DEF Cloud!Requested
<1>4. ASSUME NEW a \in Amphorae, Cloud!Restores(r, a) PROVE RepairInv'
  BY <1>4, RepairEnds, RepairOnwards DEF Cloud!Restores, Cloud!Turn
<1>5. CASE Cloud!Waits(r)
  BY <1>5, RepairEnds, RepairGoes DEF Cloud!Waits
<1>6. CASE Cloud!AmphoraeDone(r)
  BY <1>6, RepairEnds DEF Cloud!AmphoraeDone
<1>7. CASE Cloud!ListsVolumes(r)
  <2>1. repair[r].pc = "list" /\ DOMAIN repair = Repairers
    BY <1>7 DEF Cloud!ListsVolumes, RepairInv
  <2>2. CASE Cloud!Ends(r, 0)
    BY <2>1, <2>2, RepairEnds
  <2>3. CASE ~Cloud!Ends(r, 0)
    <3>1. \E todo : repair' = [repair EXCEPT ![r].pc = "volumes", ![r].todo = todo]
      BY <1>7, <2>3 DEF Cloud!ListsVolumes
    <3> QED
      BY <2>1, <3>1 DEF RepairInv, Started
  <2> QED
    BY <2>2, <2>3
<1>8. CASE Cloud!NextStatus(r)
  <2>1. repair[r].pc = "volumes" /\ DOMAIN repair = Repairers
        /\ \E phase : repair' = [repair EXCEPT ![r].pc = "list", ![r].phase = phase]
    BY <1>8 DEF Cloud!NextStatus, RepairInv
  <2> QED
    BY <2>1 DEF RepairInv, Started
<1>9. ASSUME NEW v \in Volumes, Cloud!Repaired(r, v) PROVE RepairInv'
  <2>1. repair[r].pc = "volumes" /\ (Cloud!Onwards(r, "volumes", v) \/ Cloud!Onwards(r, v, v) \/ Cloud!Ends(r, 1))
    BY <1>9 DEF Cloud!Repaired
  <2> QED
    BY <2>1, RepairEnds, RepairOnwards
<1>10. ASSUME NEW v \in Volumes, Cloud!DeletesAgain(r, v) PROVE RepairInv'
  <2>1. repair[r].pc \notin {"idle", "ended"}
    BY <1>10 DEF Cloud!DeletesAgain, Cloud!CloudAssumption
  <2> QED
    BY <1>10, <2>1, RepairEnds, RepairGoes DEF Cloud!DeletesAgain
<1>11. ASSUME NEW q \in Repairs, Cloud!take_action(r, q) PROVE RepairInv'
  BY <1>11, RepairBegins
<1>12. ASSUME NEW a \in Amphorae, Cloud!Rotates(r, a) PROVE RepairInv'
  BY <1>12, RepairRotates
<1> QED
  BY <1>1, <1>2, <1>3, <1>4, <1>5, <1>6, <1>7, <1>8, <1>9, <1>10, <1>11, <1>12 DEF Cloud!Repairer

LEMMA RotationKept ==
  ASSUME Cloud!CloudAssumption PROVE repairSpec => []RotatedOnce
<1>1. Cloud!cloudInit => RepairInv
  BY DEF Cloud!cloudInit, RepairInv
<1>2. RepairInv /\ [Cloud!cloudNext]_cloudVars => RepairInv'
  <2> SUFFICES ASSUME RepairInv, [Cloud!cloudNext]_cloudVars PROVE RepairInv'
    OBVIOUS
  <2>1. CASE repair' = repair
    BY <2>1 DEF RepairInv, Started
  <2>2. CASE \E r \in Repairers : Cloud!Repairer(r)
    BY <2>2, RepairActs
  <2> QED
    BY <2>1, <2>2 DEF Cloud!cloudNext, Cloud!OctaviaEnds, Cloud!CinderEnds, Cloud!TwoHours, cloudVars
<1>3. RepairInv => RotatedOnce
  BY DEF RepairInv, RotatedOnce, Cloud!RotatedOnce
<1> QED
  BY <1>1, <1>2, <1>3, PTL DEF repairSpec

-----------------------------------------------------------------------------
(* The switches.                                                             *)

PathSteps ==
  {"local", "connect", "name", "copy", "upload", "load", "reload", "save", "clean", "enable", "disable",
   "show", "reboot", "uninstall", "ONIE", "keys", "state"}

\* What is left of a path: a configuration is saved after the old one is copied,
\* and copied right after a name for the copy was found.
Follows(p) == \A i \in DOMAIN p : p[i] = "save" => \E j \in DOMAIN p : j < i /\ p[j] = "copy"
Finds(p)   == \A i \in 1..(Len(p) - 1) : p[i + 1] = "copy" => p[i] = "name"

LEMMA PathsAreCareful ==
  ASSUME NEW do \in DOMAIN Switches!Paths
  PROVE  /\ Follows(Switches!Paths[do]) /\ Finds(Switches!Paths[do])
         /\ Switches!Paths[do] \in Seq(PathSteps) /\ Head(Switches!Paths[do]) # "copy"
<1> DEFINE p == Switches!Paths[do]
<1>1. CASE do = "load"
  <2>1. p = <<"local", "connect", "name", "copy", "upload", "load", "save", "clean">>
    BY <1>1 DEF Switches!Paths, Switches!Load
  <2> HIDE DEF p
  <2>2. p \in Seq(PathSteps) /\ Len(p) = 8 /\ DOMAIN p = 1..8 /\ Head(p) # "copy"
    BY <2>1 DEF PathSteps
  <2>3. Follows(p)
    <3>1. p[4] = "copy" /\ \A i \in 1..8 : p[i] = "save" => i = 7
      BY <2>1
    <3> QED
      BY <2>2, <3>1 DEF Follows
  <2>4. Finds(p)
    <3>1. p[3] = "name" /\ \A i \in 1..7 : p[i + 1] = "copy" => i = 3
      BY <2>1
    <3> QED
      BY <2>2, <3>1 DEF Finds
  <2> QED
    BY <2>2, <2>3, <2>4 DEF p
<1>2. CASE do = "reload"
  <2>1. p = <<"local", "connect", "name", "copy", "upload", "load", "reload", "save", "clean">>
    BY <1>2 DEF Switches!Paths, Switches!Reload
  <2> HIDE DEF p
  <2>2. p \in Seq(PathSteps) /\ Len(p) = 9 /\ DOMAIN p = 1..9 /\ Head(p) # "copy"
    BY <2>1 DEF PathSteps
  <2>3. Follows(p)
    <3>1. p[4] = "copy" /\ \A i \in 1..9 : p[i] = "save" => i = 8
      BY <2>1
    <3> QED
      BY <2>2, <3>1 DEF Follows
  <2>4. Finds(p)
    <3>1. p[3] = "name" /\ \A i \in 1..8 : p[i + 1] = "copy" => i = 3
      BY <2>1
    <3> QED
      BY <2>2, <3>1 DEF Finds
  <2> QED
    BY <2>2, <2>3, <2>4 DEF p
<1>3. CASE do = "backup"
  <2>1. p = <<"connect", "name", "copy">>
    BY <1>3 DEF Switches!Paths, Switches!Backup
  <2> HIDE DEF p
  <2>2. p \in Seq(PathSteps) /\ Len(p) = 3 /\ DOMAIN p = 1..3 /\ Head(p) # "copy"
    BY <2>1 DEF PathSteps
  <2>3. Follows(p)
    <3>1. \A i \in 1..3 : p[i] # "save"
      BY <2>1
    <3> QED
      BY <2>2, <3>1 DEF Follows
  <2>4. Finds(p)
    <3>1. p[2] = "name" /\ \A i \in 1..2 : p[i + 1] = "copy" => i = 2
      BY <2>1
    <3> QED
      BY <2>2, <3>1 DEF Finds
  <2> QED
    BY <2>2, <2>3, <2>4 DEF p
<1>4. CASE do = "reset"
  <2>1. p = <<"connect", "uninstall", "ONIE", "reboot", "keys", "state">>
    BY <1>4 DEF Switches!Paths, Switches!Reset
  <2> HIDE DEF p
  <2>2. p \in Seq(PathSteps) /\ Len(p) = 6 /\ DOMAIN p = 1..6 /\ Head(p) # "copy"
    BY <2>1 DEF PathSteps
  <2>3. Follows(p)
    <3>1. \A i \in 1..6 : p[i] # "save"
      BY <2>1
    <3> QED
      BY <2>2, <3>1 DEF Follows
  <2>4. Finds(p)
    <3>1. \A i \in 1..5 : p[i + 1] # "copy"
      BY <2>1
    <3> QED
      BY <2>2, <3>1 DEF Finds
  <2> QED
    BY <2>2, <2>3, <2>4 DEF p
<1>5. CASE do \in {"enable", "disable", "show", "reboot"}
  <2>1. p = <<"connect", do>>
    BY <1>5 DEF Switches!Paths, Switches!Ztp, Switches!Show, Switches!Reboot
  <2> HIDE DEF p
  <2>5. do # "copy" /\ do # "save" /\ do \in PathSteps
    BY <1>5 DEF PathSteps
  <2>2. p \in Seq(PathSteps) /\ Len(p) = 2 /\ DOMAIN p = 1..2 /\ Head(p) # "copy"
    BY <2>1, <2>5 DEF PathSteps
  <2>3. Follows(p)
    <3>1. \A i \in 1..2 : p[i] # "save"
      BY <2>1, <2>5
    <3> QED
      BY <2>2, <3>1 DEF Follows
  <2>4. Finds(p)
    <3>1. \A i \in 1..1 : p[i + 1] # "copy"
      BY <2>1, <2>5
    <3> QED
      BY <2>2, <3>1 DEF Finds
  <2> QED
    BY <2>2, <2>3, <2>4 DEF p
<1>6. do \in {"load", "reload", "backup", "enable", "disable", "show", "reboot", "reset"}
  BY DEF Switches!Paths
<1> QED
  BY <1>1, <1>2, <1>3, <1>4, <1>5, <1>6

LEMMA StepOfPath ==
  ASSUME NEW p \in Seq(PathSteps), p # <<>>
  PROVE  /\ Tail(p) \in Seq(PathSteps)
         /\ Follows(p) /\ Head(p) # "copy" => Follows(Tail(p)) /\ Head(p) # "save"
         /\ Finds(p) => Finds(Tail(p))
         /\ Finds(p) /\ Tail(p) # <<>> /\ Head(Tail(p)) = "copy" => Head(p) = "name"
<1>1. /\ Tail(p) \in Seq(PathSteps) /\ Len(p) \in Nat /\ Len(p) > 0 /\ DOMAIN p = 1..Len(p)
      /\ DOMAIN Tail(p) = 1..(Len(p) - 1) /\ Head(p) = p[1]
      /\ \A i \in 1..(Len(p) - 1) : Tail(p)[i] = p[i + 1]
  OBVIOUS
<1>2. ASSUME Follows(p), Head(p) # "copy" PROVE Follows(Tail(p)) /\ Head(p) # "save"
  <2>1. ASSUME NEW i \in 1..(Len(p) - 1), Tail(p)[i] = "save"
        PROVE  \E j \in 1..(Len(p) - 1) : j < i /\ Tail(p)[j] = "copy"
    <3>1. i + 1 \in 1..Len(p) /\ p[i + 1] = "save"
      BY <1>1, <2>1
    <3>2. PICK j \in 1..Len(p) : j < i + 1 /\ p[j] = "copy"
      BY <1>1, <1>2, <3>1 DEF Follows
    <3>3. j # 1
      BY <1>1, <1>2, <3>2
    <3>4. j - 1 \in 1..(Len(p) - 1) /\ j - 1 < i /\ Tail(p)[j - 1] = "copy"
      BY <1>1, <3>2, <3>3
    <3> QED
      BY <3>4
  <2>2. Head(p) # "save"
    BY <1>1, <1>2 DEF Follows
  <2> QED
    BY <1>1, <2>1, <2>2 DEF Follows
<1>3. ASSUME Finds(p) PROVE Finds(Tail(p))
  <2>1. ASSUME NEW i \in 1..(Len(Tail(p)) - 1), Tail(p)[i + 1] = "copy" PROVE Tail(p)[i] = "name"
    <3>1. Len(Tail(p)) = Len(p) - 1
      BY <1>1
    <3>2. i + 1 \in 1..(Len(p) - 1) /\ i \in 1..(Len(p) - 1)
      BY <1>1, <3>1
    <3>3. p[(i + 1) + 1] = "copy"
      BY <1>1, <2>1, <3>2
    <3>4. p[i + 1] = "name"
      BY <1>3, <3>2, <3>3 DEF Finds
    <3> QED
      BY <1>1, <3>2, <3>4
  <2> QED
    BY <2>1 DEF Finds
<1>4. ASSUME Finds(p), Tail(p) # <<>>, Head(Tail(p)) = "copy" PROVE Head(p) = "name"
  <2>1. 1 \in 1..(Len(p) - 1) /\ p[1 + 1] = "copy"
    BY <1>1, <1>4
  <2>2. p[1] = "name"
    BY <1>4, <2>1 DEF Finds
  <2> QED
    BY <1>1, <2>2
<1> QED
  BY <1>1, <1>2, <1>3, <1>4

Logged(s) == session[s].pc = "runs"

SessionsOK ==
  /\ DOMAIN session = Sessions
  /\ \A s \in Sessions :
       /\ {"pc", "shared"} \subseteq DOMAIN session[s] /\ session[s].shared \in BOOLEAN
       /\ session[s].pc = "idle" => ~session[s].shared
       /\ Logged(s) =>
            /\ DOMAIN session[s] = {"pc", "path", "refresh", "ctx", "x", "rc", "shared"}
            /\ session[s].path \in Seq(PathSteps) /\ session[s].x \in Backups /\ Finds(session[s].path)

SwitchOK ==
  /\ DOMAIN switch = {"saved", "running", "temp", "backups", "grub", "ztp", "key", "up"}
  /\ DOMAIN switch.backups = Backups /\ switch.key \in Nat \ {0}

\* The switch was not installed anew, and no two sessions took one name.
Undisturbed == switch.key = 1 /\ \A s \in Sessions : ~session[s].shared

BackedUp == \E x \in Backups : switch.backups[x] = 0

\* The original is saved or copied; before somebody saves another one it is
\* copied; and a name that somebody is about to copy to is free.
SwitchInv ==
  /\ SessionsOK
  /\ SwitchOK
  /\ Undisturbed =>
       /\ switch.saved = 0 \/ BackedUp
       /\ \A s \in Sessions : Logged(s) => Follows(session[s].path) \/ BackedUp
       /\ \A s \in Sessions : Switches!At(s, "copy") => switch.backups[session[s].x] = Switches!None

LEMMA SwitchStarts == Switches!SwitchAssumption /\ Switches!switchInit => SwitchInv
<1> SUFFICES ASSUME Switches!SwitchAssumption, Switches!switchInit PROVE SwitchInv
  OBVIOUS
<1>1. /\ switch = [saved |-> 0, running |-> 0, temp |-> 0, backups |-> [x \in Backups |-> Switches!None],
                   grub |-> {}, ztp |-> FALSE, key |-> 1, up |-> TRUE]
      /\ DOMAIN session = Sessions
      /\ \A s \in Sessions : session[s] = [pc |-> "idle", path |-> <<>>, rc |-> 0, shared |-> FALSE]
  BY DEF Switches!switchInit, Switches!Installed
<1>2. SessionsOK /\ \A s \in Sessions : ~Logged(s) /\ ~Switches!At(s, "copy")
  <2>1. \A s \in Sessions : session[s].pc = "idle" /\ session[s].shared = FALSE /\ {"pc", "shared"} \subseteq DOMAIN session[s]
    BY <1>1
  <2> QED
    BY <1>1, <2>1 DEF SessionsOK, Logged, Switches!At
<1>3. SwitchOK /\ switch.saved = 0
  BY <1>1 DEF SwitchOK
<1> QED
  BY <1>2, <1>3 DEF SwitchInv

\* A session that does nothing with what is saved or copied: it may be over, or
\* not be about to copy.
LEMMA QuietStep ==
  ASSUME SwitchInv, NEW s \in Sessions, SessionsOK', SwitchOK',
         switch'.saved = switch.saved, switch'.backups = switch.backups, switch'.key = switch.key,
         \A t \in Sessions : t # s => session'[t] = session[t],
         session'[s].shared = session[s].shared,
         Logged(s)' /\ (Follows(session[s].path) \/ ~Logged(s)) => Follows(session'[s].path),
         Switches!At(s, "copy")' => switch.backups[session'[s].x] = Switches!None
  PROVE  SwitchInv'
<1>1. Undisturbed' => Undisturbed
  BY DEF Undisturbed
<1>2. BackedUp' <=> BackedUp
  BY DEF BackedUp
<1>3. \A t \in Sessions : t # s => (Logged(t)' <=> Logged(t)) /\ (Switches!At(t, "copy")' <=> Switches!At(t, "copy"))
  BY DEF Logged, Switches!At
<1>4. ASSUME Undisturbed' PROVE \A t \in Sessions : Logged(t)' => Follows(session'[t].path) \/ BackedUp'
  BY <1>1, <1>2, <1>3, <1>4 DEF SwitchInv
<1>5. ASSUME Undisturbed'
      PROVE  \A t \in Sessions : Switches!At(t, "copy")' => switch'.backups[session'[t].x] = Switches!None
  BY <1>1, <1>3, <1>5 DEF SwitchInv
<1> QED
  BY <1>1, <1>2, <1>4, <1>5 DEF SwitchInv

\* A session ends.
LEMMA SessionEnds ==
  ASSUME SwitchInv, NEW s \in Sessions, NEW rc, Switches!Ends(s, rc), switch' = switch
  PROVE  SwitchInv'
<1>1. session' = [session EXCEPT ![s].pc = "ended", ![s].rc = rc] /\ DOMAIN session = Sessions
  BY DEF Switches!Ends, SwitchInv, SessionsOK
<1>2. /\ DOMAIN session' = Sessions /\ \A t \in Sessions : t # s => session'[t] = session[t]
      /\ session'[s] = [session[s] EXCEPT !.pc = "ended", !.rc = rc]
  BY <1>1
<1>3. DOMAIN session'[s] = DOMAIN session[s] /\ session'[s].pc = "ended" /\ session'[s].shared = session[s].shared
  BY <1>2 DEF SwitchInv, SessionsOK
<1>4. SessionsOK' /\ ~Logged(s)' /\ ~Switches!At(s, "copy")'
  <2>1. \A t \in Sessions : t # s => (Logged(t)' <=> Logged(t)) /\ (Finds(session[t].path)' <=> Finds(session[t].path))
    BY <1>2 DEF Logged, Finds
  <2>2. ~Logged(s)' /\ ~Switches!At(s, "copy")'
    BY <1>3 DEF Logged, Switches!At
  <2>3. /\ {"pc", "shared"} \subseteq DOMAIN session'[s] /\ session'[s].shared \in BOOLEAN
        /\ session'[s].pc # "idle"
    BY <1>3 DEF SwitchInv, SessionsOK
  <2>4. SessionsOK
    BY DEF SwitchInv
  <2>5. SessionsOK'
    BY <1>2, <2>1, <2>2, <2>3, <2>4 DEF SessionsOK
  <2> QED
    BY <2>2, <2>5
<1>5. SwitchOK'
  BY DEF SwitchInv, SwitchOK
<1> QED
  BY <1>2, <1>3, <1>4, <1>5, QuietStep

\* The fields of a session that takes a step of its path.
LEMMA SessionProceeds ==
  ASSUME SwitchInv, NEW s \in Sessions, NEW step, Switches!At(s, step), Switches!Proceeds(s)
  PROVE  /\ SessionsOK' /\ Logged(s) /\ Logged(s)' /\ session[s].path \in Seq(PathSteps)
         /\ session[s].path # <<>> /\ Head(session[s].path) = step
         /\ \A t \in Sessions : t # s => session'[t] = session[t]
         /\ session'[s].path = Tail(session[s].path) /\ session'[s].x = session[s].x
         /\ session'[s].shared = session[s].shared
         /\ Switches!At(s, "copy")' => step = "name"
<1>1. /\ session' = [session EXCEPT ![s].path = Tail(session[s].path)] /\ DOMAIN session = Sessions
      /\ Logged(s) /\ session[s].path # <<>> /\ Head(session[s].path) = step
      /\ DOMAIN session[s] = {"pc", "path", "refresh", "ctx", "x", "rc", "shared"}
      /\ session[s].path \in Seq(PathSteps) /\ session[s].x \in Backups /\ Finds(session[s].path)
  BY DEF Switches!Proceeds, Switches!At, SwitchInv, SessionsOK, Logged
<1>2. /\ DOMAIN session' = Sessions /\ \A t \in Sessions : t # s => session'[t] = session[t]
      /\ session'[s] = [session[s] EXCEPT !.path = Tail(session[s].path)]
  BY <1>1
<1>3. /\ DOMAIN session'[s] = DOMAIN session[s] /\ session'[s].path = Tail(session[s].path)
      /\ session'[s].x = session[s].x /\ session'[s].shared = session[s].shared /\ session'[s].pc = session[s].pc
  BY <1>1, <1>2
<1>4. /\ Tail(session[s].path) \in Seq(PathSteps) /\ Finds(Tail(session[s].path))
      /\ Tail(session[s].path) # <<>> /\ Head(Tail(session[s].path)) = "copy" => step = "name"
  BY <1>1, StepOfPath
<1>5. Switches!At(s, "copy")' => step = "name"
  BY <1>3, <1>4 DEF Switches!At
<1>6. Logged(s)' /\ (Finds(session[s].path)' <=> Finds(Tail(session[s].path)))
  BY <1>1, <1>3 DEF Logged, Finds
<1>7. \A t \in Sessions : t # s =>
        (Logged(t)' <=> Logged(t)) /\ (Finds(session[t].path)' <=> Finds(session[t].path))
  BY <1>2 DEF Logged, Finds
<1>8. SessionsOK'
  BY <1>1, <1>2, <1>3, <1>4, <1>6, <1>7 DEF SwitchInv, SessionsOK
<1> QED
  BY <1>1, <1>2, <1>3, <1>5, <1>6, <1>8

\* A step that changes neither the saved configuration nor the copies.
LEMMA PlainStep ==
  ASSUME SwitchInv, NEW s \in Sessions, NEW step, step \notin {"copy", "save"}, Switches!At(s, step),
         Switches!Proceeds(s), SwitchOK',
         switch'.saved = switch.saved, switch'.backups = switch.backups, switch'.key = switch.key,
         step = "name" => switch.backups[session[s].x] = Switches!None
  PROVE  SwitchInv'
<1>1. /\ SessionsOK' /\ Logged(s) /\ session[s].path \in Seq(PathSteps)
      /\ session[s].path # <<>> /\ Head(session[s].path) = step
      /\ \A t \in Sessions : t # s => session'[t] = session[t]
      /\ session'[s].path = Tail(session[s].path) /\ session'[s].x = session[s].x
      /\ session'[s].shared = session[s].shared /\ (Switches!At(s, "copy")' => step = "name")
  BY SessionProceeds
<1>2. Follows(session[s].path) => Follows(session'[s].path)
  BY <1>1, StepOfPath
<1> QED
  BY <1>1, <1>2, QuietStep

\* The configuration is saved, over the original or not.
LEMMA SaveStep ==
  ASSUME SwitchInv, NEW s \in Sessions, Switches!At(s, "save"), Switches!Proceeds(s), SwitchOK',
         switch'.backups = switch.backups, switch'.key = switch.key
  PROVE  SwitchInv'
<1>1. /\ SessionsOK' /\ Logged(s) /\ session[s].path \in Seq(PathSteps)
      /\ session[s].path # <<>> /\ Head(session[s].path) = "save"
      /\ \A t \in Sessions : t # s => session'[t] = session[t]
      /\ session'[s].x = session[s].x /\ session'[s].shared = session[s].shared
      /\ ~Switches!At(s, "copy")'
  <2>1. PICK step : step = "save"
    OBVIOUS
  <2> QED
    BY <2>1, SessionProceeds
<1>2. ~Follows(session[s].path)
  BY <1>1, StepOfPath
<1>3. Undisturbed' => Undisturbed /\ BackedUp
  BY <1>1, <1>2 DEF Undisturbed, SwitchInv
<1>4. BackedUp' <=> BackedUp
  BY DEF BackedUp
<1>5. \A t \in Sessions : t # s => (Switches!At(t, "copy")' <=> Switches!At(t, "copy"))
  BY <1>1 DEF Switches!At
<1> QED
  BY <1>1, <1>3, <1>4, <1>5 DEF SwitchInv

LEMMA CopyStep ==
  ASSUME SwitchInv, NEW s \in Sessions, Switches!backup_current_config(s)
  PROVE  SwitchInv'
<1> DEFINE x == session[s].x
           too == \E t \in Sessions : t # s /\ Switches!At(t, "copy") /\ session[t].x = x
<1>1. /\ switch' = [switch EXCEPT !.backups[x] = switch.saved]
      /\ session' = [session EXCEPT ![s].path = Tail(session[s].path), ![s].shared = session[s].shared \/ too]
      /\ DOMAIN session = Sessions /\ Switches!At(s, "copy")
      /\ Logged(s) /\ session[s].path # <<>> /\ Head(session[s].path) = "copy"
      /\ DOMAIN session[s] = {"pc", "path", "refresh", "ctx", "x", "rc", "shared"}
      /\ session[s].path \in Seq(PathSteps) /\ x \in Backups /\ Finds(session[s].path)
      /\ session[s].shared \in BOOLEAN
  BY DEF Switches!backup_current_config, Switches!At, SwitchInv, SessionsOK, Logged
<1> HIDE DEF too
<1>2. /\ DOMAIN session' = Sessions /\ \A t \in Sessions : t # s => session'[t] = session[t]
      /\ session'[s] = [session[s] EXCEPT !.path = Tail(session[s].path), !.shared = session[s].shared \/ too]
  BY <1>1
<1>3. /\ DOMAIN session'[s] = DOMAIN session[s] /\ session'[s].path = Tail(session[s].path)
      /\ session'[s].x = x /\ session'[s].shared = (session[s].shared \/ too) /\ session'[s].pc = session[s].pc
  BY <1>1, <1>2
<1>4. /\ Tail(session[s].path) \in Seq(PathSteps) /\ Finds(Tail(session[s].path))
      /\ ~(Tail(session[s].path) # <<>> /\ Head(Tail(session[s].path)) = "copy")
  BY <1>1, StepOfPath
<1>5. ~Switches!At(s, "copy")' /\ Logged(s)' /\ (Finds(session[s].path)' <=> Finds(Tail(session[s].path)))
  BY <1>1, <1>3, <1>4 DEF Switches!At, Logged, Finds
<1>6. \A t \in Sessions : t # s =>
        /\ (Logged(t)' <=> Logged(t)) /\ (Finds(session[t].path)' <=> Finds(session[t].path))
        /\ (Switches!At(t, "copy")' <=> Switches!At(t, "copy"))
  BY <1>2 DEF Logged, Finds, Switches!At
<1>7. SessionsOK'
  BY <1>1, <1>2, <1>3, <1>4, <1>5, <1>6 DEF SwitchInv, SessionsOK
<1>8. /\ switch'.saved = switch.saved /\ switch'.key = switch.key /\ SwitchOK'
      /\ switch'.backups = [switch.backups EXCEPT ![x] = switch.saved]
  BY <1>1 DEF SwitchInv, SwitchOK
<1>9. /\ DOMAIN switch.backups = Backups /\ switch'.backups[x] = switch.saved
      /\ \A y \in Backups : y # x => switch'.backups[y] = switch.backups[y]
  BY <1>1, <1>8 DEF SwitchInv, SwitchOK
<1>10. ASSUME Undisturbed'
       PROVE  /\ switch'.saved = 0 \/ BackedUp'
              /\ \A t \in Sessions : Logged(t)' => Follows(session[t].path)' \/ BackedUp'
              /\ \A t \in Sessions : Switches!At(t, "copy")' => switch'.backups[session'[t].x] = Switches!None
  <2>1. Undisturbed /\ ~too
    BY <1>1, <1>2, <1>3, <1>8, <1>10 DEF Undisturbed
  <2>2. switch.backups[x] = Switches!None
    BY <1>1, <2>1 DEF SwitchInv
  <2>3. switch.saved = 0 \/ \E y \in Backups : y # x /\ switch.backups[y] = 0
    BY <1>1, <2>1, <2>2 DEF SwitchInv, BackedUp, Switches!None
  <2>4. BackedUp'
    BY <1>1, <1>9, <2>3 DEF BackedUp
  <2>5. ASSUME NEW t \in Sessions, Switches!At(t, "copy")' PROVE switch'.backups[session'[t].x] = Switches!None
    <3>1. t # s /\ session'[t] = session[t] /\ Switches!At(t, "copy")
      BY <1>2, <1>5, <1>6, <2>5
    <3>2. session[t].x # x /\ switch.backups[session[t].x] = Switches!None
      BY <2>1, <3>1 DEF too, SwitchInv
    <3>3. session[t].x \in Backups
      BY <3>1 DEF SwitchInv, SessionsOK, Switches!At, Logged
    <3> QED
      BY <1>9, <3>1, <3>2, <3>3
  <2> QED
    BY <2>4, <2>5
<1> QED
  BY <1>7, <1>8, <1>10 DEF SwitchInv

LEMMA SessionBegins ==
  ASSUME Switches!SwitchAssumption, SwitchInv, NEW s \in Sessions, NEW q \in Orders, Switches!Begins(s, q)
  PROVE  SwitchInv'
<1>1. switch' = switch /\ session[s].pc = "idle" /\ DOMAIN session = Sessions /\ SwitchOK'
  BY DEF Switches!Begins, SwitchInv, SessionsOK, SwitchOK
<1>2. CASE \E rc \in {0, 1} : Switches!Ends(s, rc)
  BY <1>1, <1>2, SessionEnds
<1>3. CASE session' = [session EXCEPT ![s] =
             [pc |-> "runs", path |-> Switches!Paths[q.do], refresh |-> q.refresh,
              ctx |-> context, x |-> 1, rc |-> 0, shared |-> FALSE]]
  <2>1. /\ DOMAIN session' = Sessions /\ \A t \in Sessions : t # s => session'[t] = session[t]
        /\ session'[s] = [pc |-> "runs", path |-> Switches!Paths[q.do], refresh |-> q.refresh,
                          ctx |-> context, x |-> 1, rc |-> 0, shared |-> FALSE]
    BY <1>1, <1>3
  <2> DEFINE p == Switches!Paths[q.do]
  <2>2. Follows(p) /\ Finds(p) /\ p \in Seq(PathSteps) /\ Head(p) # "copy" /\ 1 \in Backups
    BY PathsAreCareful DEF Switches!SwitchAssumption
  <2> HIDE DEF p
  <2>3. /\ DOMAIN session'[s] = {"pc", "path", "refresh", "ctx", "x", "rc", "shared"}
        /\ session'[s].pc = "runs" /\ session'[s].path = p /\ session'[s].x = 1 /\ session'[s].shared = FALSE
    BY <2>1 DEF p
  <2>4. \A t \in Sessions : t # s =>
          (Logged(t)' <=> Logged(t)) /\ (Finds(session[t].path)' <=> Finds(session[t].path))
    BY <2>1 DEF Logged, Finds
  <2>5. Finds(session[s].path)' <=> Finds(p)
    BY <2>3 DEF Finds
  <2>6. SessionsOK'
    BY <1>1, <2>1, <2>2, <2>3, <2>4, <2>5 DEF SwitchInv, SessionsOK
  <2>7. ~Switches!At(s, "copy")' /\ ~Logged(s)
    BY <1>1, <2>2, <2>3 DEF Switches!At, Logged
  <2>8. Undisturbed' => Undisturbed
    BY <1>1, <2>1 DEF Undisturbed, SwitchInv, SessionsOK
  <2>9. BackedUp' <=> BackedUp
    BY <1>1 DEF BackedUp
  <2>10. \A t \in Sessions : t # s => (Switches!At(t, "copy")' <=> Switches!At(t, "copy"))
    BY <2>1 DEF Switches!At
  <2> QED
    BY <1>1, <2>1, <2>2, <2>3, <2>4, <2>6, <2>7, <2>8, <2>9, <2>10 DEF SwitchInv, SessionsOK
<1> QED
  BY <1>2, <1>3 DEF Switches!Begins

LEMMA NameStep ==
  ASSUME SwitchInv, NEW s \in Sessions, Switches!generate_backup_filename(s)
  PROVE  SwitchInv'
<1>1. switch' = switch /\ Switches!At(s, "name") /\ SwitchOK'
  BY DEF Switches!generate_backup_filename, SwitchInv, SwitchOK
<1>2. CASE switch.backups[session[s].x] = Switches!None /\ Switches!Proceeds(s)
  <2>1. PICK step : step = "name"
    OBVIOUS
  <2> QED
    BY <1>1, <1>2, <2>1, PlainStep
<1>3. CASE session[s].x + 1 \in Backups /\ session' = [session EXCEPT ![s].x = @ + 1]
  <2>1. /\ DOMAIN session = Sessions /\ Logged(s) /\ ~Switches!At(s, "copy")
        /\ DOMAIN session[s] = {"pc", "path", "refresh", "ctx", "x", "rc", "shared"}
    BY <1>1 DEF SwitchInv, SessionsOK, Switches!At, Logged
  <2>2. /\ DOMAIN session' = Sessions /\ \A t \in Sessions : t # s => session'[t] = session[t]
        /\ session'[s] = [session[s] EXCEPT !.x = session[s].x + 1]
    BY <1>3, <2>1
  <2>3. /\ DOMAIN session'[s] = DOMAIN session[s] /\ session'[s].x = session[s].x + 1
        /\ session'[s].path = session[s].path /\ session'[s].shared = session[s].shared
        /\ session'[s].pc = session[s].pc
    BY <2>1, <2>2
  <2>4. \A t \in Sessions : (Logged(t)' <=> Logged(t)) /\ (Finds(session[t].path)' <=> Finds(session[t].path))
    <3>1. (Logged(s)' <=> Logged(s)) /\ (Finds(session[s].path)' <=> Finds(session[s].path))
      BY <2>3 DEF Logged, Finds
    <3>2. \A t \in Sessions : t # s =>
            (Logged(t)' <=> Logged(t)) /\ (Finds(session[t].path)' <=> Finds(session[t].path))
      BY <2>2 DEF Logged, Finds
    <3> QED
      BY <3>1, <3>2
  <2>5. SessionsOK'
    BY <1>3, <2>2, <2>3, <2>4 DEF SwitchInv, SessionsOK
  <2>6. ~Switches!At(s, "copy")'
    BY <2>1, <2>3 DEF Switches!At
  <2>7. Follows(session[s].path)' <=> Follows(session[s].path)
    BY <2>3 DEF Follows
  <2> QED
    BY <1>1, <2>1, <2>2, <2>3, <2>5, <2>6, <2>7, QuietStep
<1> QED
  BY <1>2, <1>3 DEF Switches!generate_backup_filename

LEMMA ExecuteStep ==
  ASSUME SwitchInv, NEW s \in Sessions, Switches!Executes(s)
  PROVE  SwitchInv'
<1>1. PICK step \in Switches!Remote :
        Switches!At(s, step) /\ switch' \in Switches!Outcomes(step) /\ Switches!Proceeds(s)
  BY DEF Switches!Executes
<1>2. /\ DOMAIN switch = {"saved", "running", "temp", "backups", "grub", "ztp", "key", "up"}
      /\ DOMAIN switch.backups = Backups /\ switch.key \in Nat \ {0}
  BY DEF SwitchInv, SwitchOK
<1>3. step \in {"upload", "load", "reload", "save", "clean", "enable", "disable", "show", "uninstall", "ONIE", "reboot"}
  BY DEF Switches!Remote
<1>4. \/ \E v : \/ switch' = [switch EXCEPT !.temp = v]
                \/ switch' = [switch EXCEPT !.running = v]
                \/ switch' = [switch EXCEPT !.ztp = v]
                \/ switch' = [switch EXCEPT !.grub = v]
                \/ switch' = [switch EXCEPT !.up = v]
                \/ step = "save" /\ switch' = [switch EXCEPT !.saved = v]
      \/ switch' = switch
  BY <1>1, <1>3 DEF Switches!Outcomes
<1>5. SwitchOK' /\ switch'.backups = switch.backups /\ switch'.key = switch.key
      /\ (step # "save" => switch'.saved = switch.saved)
  BY <1>2, <1>4 DEF SwitchOK
<1>6. step \notin {"copy", "name"}
  BY <1>3
<1>7. CASE step = "save"
  BY <1>1, <1>5, <1>7, SaveStep
<1>8. CASE step # "save"
  BY <1>1, <1>5, <1>6, <1>8, PlainStep
<1> QED
  BY <1>7, <1>8

LEMMA SessionSteps ==
  ASSUME Switches!SwitchAssumption, SwitchInv, NEW s \in Sessions, Switches!Session(s)
  PROVE  SwitchInv'
<1>1. ASSUME NEW step \in {"local", "connect", "keys", "state"}, Switches!At(s, step), Switches!Proceeds(s),
             switch' = switch
      PROVE  SwitchInv'
  <2>1. SwitchOK'
    BY <1>1 DEF SwitchInv, SwitchOK
  <2> QED
    BY <1>1, <2>1, PlainStep
<1>2. CASE Switches!save_config_context(s)
  BY <1>1, <1>2 DEF Switches!save_config_context
<1>3. CASE Switches!create_ssh_connection(s)
  BY <1>1, <1>3, SessionEnds DEF Switches!create_ssh_connection
<1>4. CASE Switches!cleanup_ssh_known_hosts_for_node(s) \/ Switches!set_provision_state(s)
  BY <1>1, <1>4 DEF Switches!cleanup_ssh_known_hosts_for_node, Switches!set_provision_state
<1>5. CASE Switches!Fails(s) \/ Switches!Returns(s)
  BY <1>5, SessionEnds DEF Switches!Fails, Switches!Returns
<1> QED
  BY <1>2, <1>3, <1>4, <1>5, SessionBegins, NameStep, CopyStep, ExecuteStep DEF Switches!Session

\* The switch boots: installed anew it is another one, with another key.
LEMMA BootStep ==
  ASSUME SwitchInv, Switches!Boots
  PROVE  SwitchInv'
<1>1. /\ session' = session /\ SwitchOK /\ SessionsOK'
      /\ DOMAIN switch = {"saved", "running", "temp", "backups", "grub", "ztp", "key", "up"}
      /\ DOMAIN switch.backups = Backups /\ switch.key \in Nat \ {0}
  <2>1. session' = session
    BY DEF Switches!Boots
  <2>2. \A t \in Sessions : (Logged(t)' <=> Logged(t)) /\ (Finds(session[t].path)' <=> Finds(session[t].path))
    BY <2>1 DEF Logged, Finds
  <2> QED
    BY <2>1, <2>2 DEF SwitchInv, SwitchOK, SessionsOK
<1>2. CASE switch' = Switches!Installed(switch.key + 1, [x \in Backups |-> Switches!None])
  <2>1. /\ DOMAIN switch' = {"saved", "running", "temp", "backups", "grub", "ztp", "key", "up"}
        /\ DOMAIN switch'.backups = Backups /\ switch'.key = switch.key + 1
    BY <1>2 DEF Switches!Installed
  <2>2. SwitchOK' /\ ~Undisturbed'
    BY <1>1, <2>1 DEF SwitchOK, Undisturbed
  <2> QED
    BY <1>1, <2>2 DEF SwitchInv
<1>3. CASE switch' = [switch EXCEPT !.up = TRUE, !.running = switch.saved, !.temp = 0,
                                    !.grub = switch.grub \ {"ONIE"}]
  <2>1. /\ DOMAIN switch' = DOMAIN switch /\ switch'.saved = switch.saved
        /\ switch'.backups = switch.backups /\ switch'.key = switch.key
    BY <1>1, <1>3
  <2>2. SwitchOK'
    BY <1>1, <2>1 DEF SwitchOK
  <2>3. (Undisturbed' <=> Undisturbed) /\ (BackedUp' <=> BackedUp)
        /\ \A t \in Sessions : (Switches!At(t, "copy")' <=> Switches!At(t, "copy")) /\ (Logged(t)' <=> Logged(t))
                               /\ (Follows(session[t].path)' <=> Follows(session[t].path))
    BY <1>1, <2>1 DEF Undisturbed, BackedUp, Switches!At, Logged, Follows
  <2> QED
    BY <1>1, <2>1, <2>2, <2>3 DEF SwitchInv
<1> QED
  BY <1>1, <1>2, <1>3 DEF Switches!Boots

LEMMA OriginalSafe == SwitchInv => OriginalKept
<1> SUFFICES ASSUME SwitchInv PROVE OriginalKept
  OBVIOUS
<1>1. ASSUME Undisturbed PROVE 0 \in {switch.saved} \cup Switches!Range(switch.backups)
  <2>1. switch.saved = 0 \/ \E x \in DOMAIN switch.backups : switch.backups[x] = 0
    BY <1>1 DEF SwitchInv, SwitchOK, BackedUp
  <2> QED
    BY <2>1 DEF Switches!Range
<1> QED
  BY <1>1 DEF OriginalKept, Switches!OriginalKept, Undisturbed

LEMMA OriginalStays ==
  ASSUME Switches!SwitchAssumption PROVE switchSpec => []OriginalKept
<1>1. SwitchInv /\ [Switches!switchNext]_switchVars => SwitchInv'
  <2> SUFFICES ASSUME SwitchInv, [Switches!switchNext]_switchVars PROVE SwitchInv'
    OBVIOUS
  <2>1. CASE switch' = switch /\ session' = session
    <3>1. (Undisturbed' <=> Undisturbed) /\ (BackedUp' <=> BackedUp)
          /\ \A t \in Sessions : (Switches!At(t, "copy")' <=> Switches!At(t, "copy")) /\ (Logged(t)' <=> Logged(t))
                                 /\ (Follows(session[t].path)' <=> Follows(session[t].path))
                                 /\ (Finds(session[t].path)' <=> Finds(session[t].path))
      BY <2>1 DEF Undisturbed, BackedUp, Switches!At, Logged, Follows, Finds
    <3>2. SessionsOK' /\ SwitchOK'
      BY <2>1, <3>1 DEF SwitchInv, SessionsOK, SwitchOK
    <3> QED
      BY <2>1, <3>1, <3>2 DEF SwitchInv
  <2>2. ASSUME NEW s \in Sessions, Switches!Session(s) PROVE SwitchInv'
    BY <2>2, SessionSteps
  <2>3. CASE Switches!Boots
    BY <2>3, BootStep
  <2>4. CASE Switches!Changes \/ UNCHANGED switchVars
    BY <2>1, <2>4 DEF Switches!Changes, switchVars
  <2> QED
    BY <2>2, <2>3, <2>4 DEF Switches!switchNext
<1> QED
  BY <1>1, SwitchStarts, OriginalSafe, PTL DEF switchSpec

-----------------------------------------------------------------------------
(* The nodes.                                                                *)

BmFields == {"pc", "call", "seen", "target", "steps", "todo", "failed", "rc"}
BmTargets == {"active", "rebuild", "undeploy", "provide", "clean", "service"}
BurninSteps == {"burnin_cpu", "burnin_memory", "burnin_disk"}

Commanded(o) == cmd[o].pc \notin {"idle", "ended"}

\* Steps are served to an active node by a burn-in alone.
CommandsOK ==
  /\ DOMAIN cmd = Operators /\ \A o \in Operators : "pc" \in DOMAIN cmd[o]
  /\ \A o \in Operators : Commanded(o) =>
       /\ DOMAIN cmd[o] = BmFields /\ cmd[o].target \in BmTargets \cup {"none"}
       /\ cmd[o].call.do = "burnin" => cmd[o].steps \subseteq BurninSteps
       /\ cmd[o].target = "service" => cmd[o].call.do = "burnin"

\* An instance is on the disk only in states in which Ironic does not clean, and
\* what a node in service runs erases nothing.
NodesOK ==
  /\ DOMAIN node = Nodes
  /\ \A n \in Nodes :
       /\ DOMAIN node[n] = {"state", "maint", "raid", "volumes", "info", "saved", "disk", "steps"}
       /\ node[n].disk = "instance" => node[n].state \in Baremetal!Hosting
       /\ node[n].state = "servicing" => node[n].steps \cap Baremetal!Erasing = {}

BaremetalInv == CommandsOK /\ NodesOK

LEMMA BaremetalStarts == Baremetal!BaremetalAssumption /\ Baremetal!bmInit => BaremetalInv
<1> SUFFICES ASSUME Baremetal!BaremetalAssumption, Baremetal!bmInit PROVE BaremetalInv
  OBVIOUS
<1>1. CommandsOK
  BY DEF Baremetal!bmInit, Baremetal!NoCall, CommandsOK, Commanded
<1>2. NodesOK
  BY DEF Baremetal!bmInit, Baremetal!BaremetalAssumption, NodesOK, Baremetal!Idle
<1> QED
  BY <1>1, <1>2 DEF BaremetalInv

\* A command goes on with its call; its target and steps stay.
LEMMA CommandGoes ==
  ASSUME CommandsOK, NEW o \in Operators, Commanded(o), NEW c, cmd' = [cmd EXCEPT ![o] = c],
         DOMAIN c = DOMAIN cmd[o], c.target = cmd[o].target, c.steps = cmd[o].steps, c.call = cmd[o].call
  PROVE  CommandsOK'
BY DEF CommandsOK, Commanded

LEMMA CommandEnds ==
  ASSUME CommandsOK, NEW o \in Operators, NEW rc, Baremetal!End(o, rc)
  PROVE  CommandsOK'
<1>1. cmd' = [cmd EXCEPT ![o].pc = "ended", ![o].rc = rc] /\ DOMAIN cmd = Operators
  BY DEF Baremetal!End, CommandsOK
<1>2. /\ DOMAIN cmd' = Operators /\ \A p \in Operators : p # o => cmd'[p] = cmd[p]
      /\ cmd'[o] = [cmd[o] EXCEPT !.pc = "ended", !.rc = rc]
  BY <1>1
<1>3. ~Commanded(o)' /\ "pc" \in DOMAIN cmd'[o]
  BY <1>2 DEF Commanded, CommandsOK
<1>4. \A p \in Operators : p # o => (Commanded(p)' <=> Commanded(p))
  BY <1>2 DEF Commanded
<1> QED
  BY <1>2, <1>3, <1>4 DEF CommandsOK

LEMMA CommandContinues ==
  ASSUME CommandsOK, NEW o \in Operators, Commanded(o), NEW failed, Baremetal!Continue(o, failed)
  PROVE  CommandsOK'
<1>1. PICK c : /\ cmd' = [cmd EXCEPT ![o] = c] /\ DOMAIN c = DOMAIN cmd[o]
               /\ c.target = cmd[o].target /\ c.steps = cmd[o].steps /\ c.call = cmd[o].call
  <2> DEFINE c == [cmd[o] EXCEPT !.pc = "node", !.todo = Tail(cmd[o].todo), !.failed = cmd[o].failed \/ failed]
  <2>1. cmd' = [cmd EXCEPT ![o] = c]
    BY DEF Baremetal!Continue, CommandsOK
  <2>2. DOMAIN c = DOMAIN cmd[o] /\ c.target = cmd[o].target /\ c.steps = cmd[o].steps /\ c.call = cmd[o].call
    BY DEF CommandsOK, BmFields
  <2> QED
    BY <2>1, <2>2
<1> QED
  BY <1>1, CommandGoes

\* Where a command goes with a node, and with which target: service is burn-in's.
LEMMA Entries ==
  ASSUME NEW q, NEW s
  PROVE  /\ Baremetal!Entry(q, s)[2] \in BmTargets \cup {"none"}
         /\ Baremetal!Entry(q, s)[2] = "service" => q.do = "burnin"
<1>1. Baremetal!BaremetalDeploy(s, q.opts)[2] \in {"active", "rebuild", "none"}
  BY DEF Baremetal!BaremetalDeploy, Baremetal!Target, Baremetal!Skip
<1>2. Baremetal!BaremetalUndeploy(s)[2] \in {"undeploy", "none"}
  BY DEF Baremetal!BaremetalUndeploy, Baremetal!Skip
<1>3. Baremetal!BaremetalProvide(s)[2] \in {"provide", "none"}
  BY DEF Baremetal!BaremetalProvide, Baremetal!Skip
<1>4. Baremetal!BaremetalClean(s)[2] \in {"clean", "none"}
  BY DEF Baremetal!BaremetalClean, Baremetal!Skip
<1>5. Baremetal!BaremetalBurnIn(s, q.opts)[2] \in {"clean", "service", "none"}
  BY <1>4 DEF Baremetal!BaremetalBurnIn, Baremetal!Skip
<1>6. \/ q.do = "deploy"   /\ Baremetal!Entry(q, s) = Baremetal!BaremetalDeploy(s, q.opts)
      \/ q.do = "undeploy" /\ Baremetal!Entry(q, s) = Baremetal!BaremetalUndeploy(s)
      \/ q.do = "provide"  /\ Baremetal!Entry(q, s) = Baremetal!BaremetalProvide(s)
      \/ q.do = "clean"    /\ Baremetal!Entry(q, s) = Baremetal!BaremetalClean(s)
      \/ q.do = "burnin"   /\ Baremetal!Entry(q, s) = Baremetal!BaremetalBurnIn(s, q.opts)
      \/ Baremetal!Entry(q, s) = <<"ports", "none">>
      \/ Baremetal!Entry(q, s) = <<"request", "none">>
  BY DEF Baremetal!Entry
<1> QED
  BY <1>1, <1>2, <1>3, <1>4, <1>5, <1>6 DEF BmTargets

LEMMA CommandLooks ==
  ASSUME CommandsOK, NEW o \in Operators, Baremetal!Look(o)
  PROVE  CommandsOK'
<1> DEFINE raid  == IF Baremetal!Do(o, {"clean"}) /\ "metadata" \notin Baremetal!Opt(o) /\ Baremetal!Seen(o).raid
                    THEN {"delete_configuration"} ELSE {}
           entry == Baremetal!Entry(cmd[o].call, Baremetal!Seen(o))
           pc    == IF entry = Baremetal!Skip THEN "node" ELSE entry[1]
           todo  == IF entry = Baremetal!Skip THEN Tail(cmd[o].todo) ELSE cmd[o].todo
           c == [cmd[o] EXCEPT !.steps = cmd[o].steps \cup raid, !.target = entry[2], !.pc = pc, !.todo = todo]
<1>1. Commanded(o) /\ DOMAIN cmd[o] = BmFields /\ DOMAIN cmd = Operators
  BY DEF Baremetal!Look, CommandsOK, Commanded
<1>2. cmd' = [cmd EXCEPT ![o] = c]
  BY <1>1 DEF Baremetal!Look, BmFields
<1>3. entry[2] \in BmTargets \cup {"none"} /\ (entry[2] = "service" => cmd[o].call.do = "burnin")
  BY Entries
<1>4. cmd[o].call.do = "burnin" => raid = {}
  BY DEF Baremetal!Do
<1> HIDE DEF raid, entry, pc, todo
<1>5. /\ DOMAIN c = BmFields /\ c.target = entry[2] /\ c.steps = cmd[o].steps \cup raid
      /\ c.call = cmd[o].call
  BY <1>1 DEF BmFields
<1> HIDE DEF c
<1>6. \A p \in Operators : p # o => cmd'[p] = cmd[p]
  BY <1>1, <1>2
<1>7. cmd'[o] = c /\ DOMAIN cmd' = Operators
  BY <1>1, <1>2
<1>8. cmd[o].call.do = "burnin" => cmd[o].steps \subseteq BurninSteps
  BY <1>1 DEF CommandsOK
<1>9. "pc" \in BmFields
  BY DEF BmFields
<1> QED
  BY <1>3, <1>4, <1>5, <1>6, <1>7, <1>8, <1>9 DEF CommandsOK, Commanded

LEMMA CommandTaken ==
  ASSUME CommandsOK, NEW o \in Operators, NEW q \in Commands, Baremetal!take_action(o, q)
  PROVE  CommandsOK'
<1>1. CASE cmd' = [cmd EXCEPT ![o].pc = "ended", ![o].rc = 1]
  BY <1>1, CommandEnds DEF Baremetal!End
<1>2. CASE cmd' = [cmd EXCEPT ![o] =
             [pc |-> "node", call |-> q, seen |-> node, target |-> "none", steps |-> Baremetal!FirstSteps(q),
              todo |-> Baremetal!Listed(q), failed |-> FALSE, rc |-> 0]]
  <2>1. q.do = "burnin" => Baremetal!FirstSteps(q) \subseteq BurninSteps
    BY DEF Baremetal!FirstSteps, Baremetal!Burnin, BurninSteps
  <2>2. /\ DOMAIN cmd' = Operators /\ \A p \in Operators : p # o => cmd'[p] = cmd[p]
        /\ cmd'[o] = [pc |-> "node", call |-> q, seen |-> node, target |-> "none", steps |-> Baremetal!FirstSteps(q),
                      todo |-> Baremetal!Listed(q), failed |-> FALSE, rc |-> 0]
    BY <1>2 DEF CommandsOK
  <2>3. /\ DOMAIN cmd'[o] = BmFields /\ cmd'[o].target = "none" /\ cmd'[o].call = q
        /\ cmd'[o].steps = Baremetal!FirstSteps(q) /\ "pc" \in DOMAIN cmd'[o]
    BY <2>2 DEF BmFields
  <2> QED
    BY <2>1, <2>2, <2>3 DEF CommandsOK, Commanded
<1> QED
  BY <1>1, <1>2 DEF Baremetal!take_action

\* One field of a node is set, or nothing is.
LEMMA NodeSet ==
  ASSUME NodesOK, NEW n, NEW state, NEW steps, NEW maint, NEW info,
         \/ node' = [node EXCEPT ![n].state = state] /\ state # "servicing"
            /\ (n \in Nodes /\ node[n].disk = "instance" => state \in Baremetal!Hosting)
         \/ node' = [node EXCEPT ![n].state = state, ![n].steps = steps]
            /\ (n \in Nodes /\ node[n].disk = "instance" => state \in Baremetal!Hosting)
            /\ (state = "servicing" => steps \cap Baremetal!Erasing = {})
         \/ node' = [node EXCEPT ![n].maint = maint]
         \/ node' = [node EXCEPT ![n].info = info]
         \/ node' = node
  PROVE  NodesOK' /\ \A m \in Nodes : node'[m].disk = node[m].disk
<1>1. /\ DOMAIN node = Nodes
      /\ n \in Nodes => DOMAIN node[n] = {"state", "maint", "raid", "volumes", "info", "saved", "disk", "steps"}
  BY DEF NodesOK
<1>2. DOMAIN node' = Nodes /\ \A m \in Nodes : m # n => node'[m] = node[m]
  BY <1>1
<1>3. ASSUME n \in Nodes
      PROVE  /\ DOMAIN node'[n] = DOMAIN node[n] /\ node'[n].disk = node[n].disk
             /\ \/ node'[n].state = node[n].state /\ node'[n].steps = node[n].steps
                \/ /\ node'[n].state = state /\ (node[n].disk = "instance" => state \in Baremetal!Hosting)
                   /\ state = "servicing" => node'[n].steps \cap Baremetal!Erasing = {}
  BY <1>1, <1>3
<1> QED
  BY <1>1, <1>2, <1>3 DEF NodesOK


\* No command changes what is on a disk: only Ironic does, as it ends a request.
DisksStay == \A m \in Nodes : node'[m].disk = node[m].disk

LEMMA NodesStay ==
  ASSUME NodesOK, node' = node
  PROVE  NodesOK' /\ DisksStay
BY NodeSet DEF DisksStay

\* A command goes on to another place of its walk.
LEMMA CommandMoves ==
  ASSUME CommandsOK, NEW o \in Operators, Commanded(o), NEW pc, cmd' = [cmd EXCEPT ![o].pc = pc]
  PROVE  CommandsOK'
<1> DEFINE c == [cmd[o] EXCEPT !.pc = pc]
<1>1. cmd' = [cmd EXCEPT ![o] = c]
  BY DEF CommandsOK
<1>2. DOMAIN c = DOMAIN cmd[o] /\ c.target = cmd[o].target /\ c.steps = cmd[o].steps /\ c.call = cmd[o].call
  BY DEF CommandsOK, BmFields
<1> HIDE DEF c
<1> QED
  BY <1>1, <1>2, CommandGoes

\* What a request makes of a node, and whom Ironic takes it for.
LEMMA Targets ==
  ASSUME NEW t \in BmTargets
  PROVE  /\ t = "active"   => /\ Baremetal!Moves[t].via = "wait call-back"
                              /\ Baremetal!Moves[t].to = "active" /\ Baremetal!Moves[t].or = "deploy failed"
         /\ t = "rebuild"  => Baremetal!Moves[t].via = "wait call-back"
         /\ t = "undeploy" => /\ Baremetal!Moves[t].via = "deleting"
                              /\ Baremetal!Moves[t].to = "available" /\ Baremetal!Moves[t].or = "error"
         /\ t = "provide"  => /\ Baremetal!Moves[t].from = {"manageable"} /\ Baremetal!Moves[t].via = "providing"
                              /\ Baremetal!Moves[t].to = "available" /\ Baremetal!Moves[t].or = "clean failed"
         /\ t = "clean"    => /\ Baremetal!Moves[t].from = {"manageable"} /\ Baremetal!Moves[t].via = "cleaning"
                              /\ Baremetal!Moves[t].to = "manageable" /\ Baremetal!Moves[t].or = "clean failed"
         /\ t = "service"  => /\ Baremetal!Moves[t].via = "servicing"
                              /\ Baremetal!Moves[t].to = "active" /\ Baremetal!Moves[t].or = "service failed"
<1>1. CASE t = "active"
  BY <1>1 DEF Baremetal!Moves
<1>2. CASE t = "rebuild"
  BY <1>2 DEF Baremetal!Moves
<1>3. CASE t = "undeploy"
  BY <1>3 DEF Baremetal!Moves
<1>4. CASE t = "provide"
  BY <1>4 DEF Baremetal!Moves
<1>5. CASE t = "clean"
  BY <1>5 DEF Baremetal!Moves
<1>6. CASE t = "service"
  BY <1>6 DEF Baremetal!Moves
<1> QED
  BY <1>1, <1>2, <1>3, <1>4, <1>5, <1>6 DEF BmTargets

LEMMA CommandManages ==
  ASSUME CommandsOK, NodesOK, NEW o \in Operators, Baremetal!Manage(o)
  PROVE  CommandsOK' /\ NodesOK' /\ DisksStay
<1>1. Commanded(o) /\ DOMAIN cmd[o] = BmFields
  BY DEF Baremetal!Manage, CommandsOK, Commanded
<1>2. CommandsOK'
  <2>1. CASE Baremetal!Continue(o, TRUE)
    BY <1>1, <2>1, CommandContinues
  <2>2. CASE cmd' = [cmd EXCEPT ![o].pc = "refresh", ![o].seen[Baremetal!On(o)] = node'[Baremetal!On(o)]]
    <3> DEFINE c == [cmd[o] EXCEPT !.pc = "refresh",
                       !.seen = [cmd[o].seen EXCEPT ![Baremetal!On(o)] = node'[Baremetal!On(o)]]]
    <3>1. cmd' = [cmd EXCEPT ![o] = c]
      BY <1>1, <2>2 DEF BmFields, CommandsOK
    <3>2. DOMAIN c = DOMAIN cmd[o] /\ c.target = cmd[o].target /\ c.steps = cmd[o].steps /\ c.call = cmd[o].call
      BY <1>1 DEF BmFields
    <3> HIDE DEF c
    <3> QED
      BY <1>1, <3>1, <3>2, CommandGoes
  <2> QED
    BY <2>1, <2>2 DEF Baremetal!Manage
<1>3. CASE /\ node[Baremetal!On(o)].state \in {"available", "manageable", "clean failed", "enroll"}
           /\ node' = [node EXCEPT ![Baremetal!On(o)].state = "manageable"]
  <2>1. Baremetal!On(o) \in Nodes => node[Baremetal!On(o)].disk # "instance"
    BY <1>3 DEF NodesOK, Baremetal!Hosting
  <2> QED
    BY <1>2, <1>3, <2>1, NodeSet DEF DisksStay
<1>4. CASE node' = node
  BY <1>2, <1>4, NodesStay
<1> QED
  BY <1>3, <1>4 DEF Baremetal!Manage

LEMMA CommandRefreshes ==
  ASSUME CommandsOK, NodesOK, NEW o \in Operators, Baremetal!Refresh(o)
  PROVE  CommandsOK' /\ NodesOK' /\ DisksStay
<1>1. Commanded(o) /\ DOMAIN cmd[o] = BmFields
  BY DEF Baremetal!Refresh, CommandsOK, Commanded
<1>2. CommandsOK'
  <2>1. CASE Baremetal!End(o, 1)
    BY <2>1, CommandEnds
  <2>2. CASE cmd' = [cmd EXCEPT ![o].pc = "request", ![o].seen[Baremetal!On(o)] = node'[Baremetal!On(o)]]
    <3> DEFINE c == [cmd[o] EXCEPT !.pc = "request",
                       !.seen = [cmd[o].seen EXCEPT ![Baremetal!On(o)] = node'[Baremetal!On(o)]]]
    <3>1. cmd' = [cmd EXCEPT ![o] = c]
      BY <1>1, <2>2 DEF BmFields, CommandsOK
    <3>2. DOMAIN c = DOMAIN cmd[o] /\ c.target = cmd[o].target /\ c.steps = cmd[o].steps /\ c.call = cmd[o].call
      BY <1>1 DEF BmFields
    <3> HIDE DEF c
    <3> QED
      BY <1>1, <3>1, <3>2, CommandGoes
  <2>3. CASE cmd' = [cmd EXCEPT ![o].pc = "request"]
    BY <1>1, <2>3, CommandMoves
  <2> QED
    BY <2>1, <2>2, <2>3 DEF Baremetal!Refresh
<1>3. CASE node' = [node EXCEPT ![Baremetal!On(o)].info = TRUE]
  BY <1>2, <1>3, NodeSet DEF DisksStay
<1>4. CASE node' = node
  BY <1>2, <1>4, NodesStay
<1> QED
  BY <1>3, <1>4 DEF Baremetal!Refresh

\* Ironic takes a request for a node with an instance on its disk only towards
\* another of those states; and what is served is of a burn-in, without the disk.
LEMMA CommandRequests ==
  ASSUME CommandsOK, NodesOK, NEW o \in Operators, Baremetal!Request(o)
  PROVE  CommandsOK' /\ NodesOK' /\ DisksStay
<1> DEFINE n == Baremetal!On(o)  target == cmd[o].target
<1>1. Commanded(o) /\ target \in BmTargets
  BY DEF Baremetal!Request, CommandsOK, Commanded
<1>2. CommandsOK'
  BY <1>1, CommandContinues, CommandEnds DEF Baremetal!Request
<1>3. CASE /\ Baremetal!Takes(n, target)
           /\ node' = [node EXCEPT ![n].state = Baremetal!Moves[target].via, ![n].steps = Baremetal!Steps(o)]
  <2>1. n \in Nodes /\ node[n].disk = "instance" => Baremetal!Moves[target].via \in Baremetal!Hosting
    <3>1. node[n].state \in Baremetal!Hosting => target \notin {"provide", "clean"}
      BY <1>1, <1>3, Targets DEF Baremetal!Takes, Baremetal!Hosting
    <3>2. target \notin {"provide", "clean"} => Baremetal!Moves[target].via \in Baremetal!Hosting
      BY <1>1, Targets DEF BmTargets, Baremetal!Hosting
    <3> QED
      BY <3>1, <3>2 DEF NodesOK
  <2>2. Baremetal!Moves[target].via = "servicing" => target = "service"
    BY <1>1, Targets DEF BmTargets
  <2>3. target = "service" => Baremetal!Steps(o) \cap Baremetal!Erasing = {}
    <3>1. target = "service" => cmd[o].steps \subseteq BurninSteps
      BY <1>1 DEF CommandsOK
    <3> QED
      BY <3>1 DEF Baremetal!Steps, Baremetal!Erasing, BurninSteps
  <2> QED
    BY <1>2, <1>3, <2>1, <2>2, <2>3, NodeSet DEF DisksStay
<1>4. CASE node' = node
  BY <1>2, <1>4, NodesStay
<1> QED
  BY <1>3, <1>4 DEF Baremetal!Request

LEMMA CommandSets ==
  ASSUME CommandsOK, NodesOK, NEW o \in Operators, NEW do, NEW value, Baremetal!Sets(o, do, value)
  PROVE  CommandsOK' /\ NodesOK' /\ DisksStay
<1>1. CommandsOK'
  BY CommandEnds DEF Baremetal!Sets
<1>2. CASE node' = [node EXCEPT ![Baremetal!On(o)].maint = value]
  BY <1>1, <1>2, NodeSet DEF DisksStay
<1>3. CASE node' = node
  BY <1>1, <1>3, NodesStay
<1> QED
  BY <1>2, <1>3 DEF Baremetal!Sets

LEMMA CommandDeletes ==
  ASSUME CommandsOK, NodesOK, NEW o \in Operators, Baremetal!DeleteNode(o)
  PROVE  CommandsOK' /\ NodesOK' /\ DisksStay
<1>1. Commanded(o) /\ DOMAIN cmd[o] = BmFields
  BY DEF Baremetal!DeleteNode, CommandsOK, Commanded
<1>2. CommandsOK'
  <2>1. CASE Baremetal!Continue(o, TRUE)
    BY <1>1, <2>1, CommandContinues
  <2>2. CASE cmd' = [cmd EXCEPT ![o].pc = "clear"]
    BY <1>1, <2>2, CommandMoves
  <2> QED
    BY <2>1, <2>2 DEF Baremetal!DeleteNode
<1>3. CASE node' = [node EXCEPT ![Baremetal!On(o)].state = "gone"]
  <2>1. "gone" # "servicing" /\ "gone" \in Baremetal!Hosting
    BY DEF Baremetal!Hosting
  <2> QED
    BY <1>2, <1>3, <2>1, NodeSet DEF DisksStay
<1>4. CASE node' = node
  BY <1>2, <1>4, NodesStay
<1> QED
  BY <1>3, <1>4 DEF Baremetal!DeleteNode

LEMMA CommandWorks ==
  ASSUME CommandsOK, NodesOK, NEW o \in Operators, Baremetal!Command(o)
  PROVE  CommandsOK' /\ NodesOK' /\ DisksStay
<1>1. CASE \E q \in Commands : Baremetal!take_action(o, q)
  BY <1>1, CommandTaken, NodesStay DEF Baremetal!take_action
<1>2. CASE Baremetal!Look(o)
  BY <1>2, CommandLooks, NodesStay DEF Baremetal!Look
<1>3. CASE Baremetal!Done(o)
  BY <1>3, CommandEnds, NodesStay DEF Baremetal!Done
<1>4. CASE Baremetal!Manage(o)
  BY <1>4, CommandManages
<1>5. CASE Baremetal!Refresh(o)
  BY <1>5, CommandRefreshes
<1>6. CASE Baremetal!Request(o)
  BY <1>6, CommandRequests
<1>7. CASE Baremetal!BaremetalMaintenanceSet(o) \/ Baremetal!BaremetalMaintenanceUnset(o)
  BY <1>7, CommandSets DEF Baremetal!BaremetalMaintenanceSet, Baremetal!BaremetalMaintenanceUnset
<1>8. CASE Baremetal!DeleteNode(o)
  BY <1>8, CommandDeletes
<1>9. CASE Baremetal!ClearStates(o)
  <2>1. Commanded(o)
    BY <1>9 DEF Baremetal!ClearStates, Commanded
  <2> QED
    BY <1>9, <2>1, CommandContinues, NodesStay DEF Baremetal!ClearStates
<1> QED
  BY <1>1, <1>2, <1>3, <1>4, <1>5, <1>6, <1>7, <1>8, <1>9 DEF Baremetal!Command

\* What Ironic ends leaves an instance in place, but for a deployment and an
\* undeployment.
LEMMA NodeFinishes ==
  ASSUME CommandsOK, NodesOK, NEW n \in Nodes, Baremetal!Finishes(n)
  PROVE  /\ CommandsOK' /\ NodesOK'
         /\ \A m \in Nodes : node[m].disk = "instance" /\ node'[m].disk # "instance" =>
              node[m].state \in {"wait call-back", "deleting"}
<1>1. CommandsOK'
  BY DEF Baremetal!Finishes, Baremetal!Ends, CommandsOK, Commanded
<1>2. PICK t \in DOMAIN Baremetal!Moves \ {"rebuild"}, ok \in BOOLEAN : Baremetal!Ends(n, t, ok)
  BY DEF Baremetal!Finishes
<1>3. /\ DOMAIN node = Nodes
      /\ DOMAIN node[n] = {"state", "maint", "raid", "volumes", "info", "saved", "disk", "steps"}
  BY DEF NodesOK
<1>4. PICK state, disk :
        /\ state = IF ok THEN Baremetal!Moves[t].to ELSE Baremetal!Moves[t].or
        /\ disk = Baremetal!Disk(n, t, ok)
  OBVIOUS
<1>5. /\ DOMAIN node' = Nodes /\ \A m \in Nodes : m # n => node'[m] = node[m]
      /\ DOMAIN node'[n] = DOMAIN node[n] /\ node'[n].state = state
      /\ node'[n].steps = {} /\ node'[n].disk = disk
  BY <1>2, <1>3, <1>4 DEF Baremetal!Ends
<1>6. t \in BmTargets \ {"rebuild"} /\ node[n].state = Baremetal!Moves[t].via
  BY <1>2 DEF Baremetal!Ends, Baremetal!Moves, BmTargets
<1>7. state # "servicing"
  BY <1>4, <1>6, Targets DEF BmTargets
<1>8. disk = "instance" => state \in Baremetal!Hosting
  <2>1. CASE t = "active"
    BY <1>4, <1>6, <2>1, Targets DEF Baremetal!Disk, Baremetal!Hosting
  <2>2. CASE t = "undeploy"
    BY <1>4, <1>6, <2>2, Targets DEF Baremetal!Disk, Baremetal!Hosting
  <2>3. CASE t = "service"
    BY <1>4, <1>6, <2>3, Targets DEF Baremetal!Disk, Baremetal!Hosting
  <2>4. CASE t \in {"provide", "clean"}
    <3>1. node[n].state \notin Baremetal!Hosting
      BY <1>4, <1>6, <2>4, Targets DEF Baremetal!Disk, Baremetal!Hosting
    <3>2. node[n].disk # "instance"
      BY <3>1 DEF NodesOK
    <3> QED
      BY <1>4, <2>4, <3>2 DEF Baremetal!Disk
  <2> QED
    BY <1>4, <1>6, <2>1, <2>2, <2>3, <2>4 DEF BmTargets
<1>9. node[n].disk = "instance" /\ disk # "instance" => node[n].state \in {"wait call-back", "deleting"}
  <2>1. CASE t = "active"
    BY <1>4, <1>6, <2>1, Targets DEF Baremetal!Disk
  <2>2. CASE t = "undeploy"
    BY <1>4, <1>6, <2>2, Targets DEF Baremetal!Disk
  <2>3. CASE t = "service"
    <3>1. node[n].steps \cap Baremetal!Erasing = {}
      BY <1>4, <1>6, <2>3, Targets DEF NodesOK
    <3> QED
      BY <1>4, <2>3, <3>1 DEF Baremetal!Disk
  <2>4. CASE t \in {"provide", "clean"}
    BY <1>4, <1>6, <2>4, Targets DEF Baremetal!Disk, Baremetal!Hosting, NodesOK
  <2> QED
    BY <1>4, <1>6, <2>1, <2>2, <2>3, <2>4 DEF BmTargets
<1>10. NodesOK'
  BY <1>3, <1>5, <1>7, <1>8 DEF NodesOK
<1> QED
  BY <1>1, <1>5, <1>9, <1>10

DiskStep ==
  \A n \in Nodes : node[n].disk = "instance" /\ node'[n].disk # "instance" =>
    node[n].state \in {"wait call-back", "deleting"}

LEMMA BaremetalStep ==
  BaremetalInv /\ [Baremetal!bmNext]_bmVars => BaremetalInv' /\ [DiskStep]_node
<1> SUFFICES ASSUME BaremetalInv, [Baremetal!bmNext]_bmVars
             PROVE  BaremetalInv' /\ [DiskStep]_node
  OBVIOUS
<1> USE DEF BaremetalInv
<1>1. ASSUME NEW o \in Operators, Baremetal!Command(o)
      PROVE  CommandsOK' /\ NodesOK' /\ DiskStep
  BY <1>1, CommandWorks DEF DisksStay, DiskStep
<1>2. ASSUME NEW n \in Nodes, Baremetal!Finishes(n)
      PROVE  CommandsOK' /\ NodesOK' /\ DiskStep
  BY <1>2, NodeFinishes DEF DiskStep
<1>3. CASE UNCHANGED bmVars
  <2>1. node' = node /\ cmd' = cmd
    BY <1>3 DEF bmVars
  <2> QED
    BY <2>1, NodesStay DEF CommandsOK, Commanded
<1> QED
  BY <1>1, <1>2, <1>3 DEF Baremetal!bmNext

LEMMA InstancesStay ==
  ASSUME Baremetal!BaremetalAssumption
  PROVE  baremetalSpec => Baremetal!InstancesSurvive
<1>1. BaremetalInv /\ [Baremetal!bmNext]_bmVars => BaremetalInv' /\ [DiskStep]_node
  BY BaremetalStep
<1>2. QED
  BY <1>1, BaremetalStarts, PTL DEF baremetalSpec, Baremetal!InstancesSurvive, DiskStep

-----------------------------------------------------------------------------
(* The parts together.                                                       *)

\* Operations implements each of its parts: their initial states are its own, and
\* each of its steps is a step of a part, or leaves the part alone.
THEOREM Implemented ==
  Spec => /\ baremetalSpec /\ computeSpec /\ switchSpec /\ migrationSpec
          /\ repairSpec /\ environmentSpec /\ applySpec
<1>1. Init => /\ Baremetal!bmInit /\ Compute!computeInit /\ Switches!switchInit /\ Migration!migrationInit
              /\ Cloud!cloudInit /\ Environment!environmentInit /\ Applying!applyInit
  BY DEF Init
<1>2. [Next]_vars =>
        /\ [Baremetal!bmNext]_bmVars /\ [Compute!computeNext]_computeVars /\ [Switches!switchNext]_switchVars
        /\ [Migration!migrationNext]_migrationVars /\ [Cloud!cloudNext]_cloudVars
        /\ [Environment!environmentNext]_fileVars /\ [Applying!applyNext]_applyVars
  BY DEF Next, vars, BaremetalNext, ComputeNext, SwitchNext, MigrationNext, CloudNext, FilesNext, ApplyNext
<1> QED
  BY <1>1, <1>2, PTL DEF Spec, baremetalSpec, computeSpec, switchSpec, migrationSpec, repairSpec,
                         environmentSpec, applySpec

\* A quorum queue survives every removal of classic queues, for any services,
\* operators and commands - unless another operator's command has deleted the
\* classic queue under the one that removes it.
THEOREM QuorumQueues == Spec => QuorumKept
BY Implemented, MigrationKept, MigrationsAreMigrations, PTL DEF QuorumKept

\* For any commands and tasks, clouds and files in /etc/openstack: a program that
\* overlaps with no other command or task reads the password of its own cloud,
\* whatever files failed ones have left in /tmp, but for a copy of secure.yaml.
THEOREM TheirClouds == Spec => []ProgramsFindTheirCloud
BY Implemented, FilesAreTheirs, PTL DEF ProgramsFindTheirCloud

\* For any clients, applications, trees and workers: no role starts before the
\* role it depends on is over, and with --wait none before an attempt at each
\* earlier segment has ended well, whatever locks, failures and revocations come.
THEOREM Applied == Spec => []AppliedInOrder
BY Implemented, RolesApplied, ApplicationsAreApplications, PTL DEF AppliedInOrder

\* For any servers, administrators and owners, statuses and commands: no guest
\* runs on two hosts, however long stopping takes, unless two have acted on its
\* server.
THEOREM OneGuest == Spec => []NoSplitBrain
BY Implemented, ComputeKept, ComputeSafe, ServersAreServers, PTL

\* ... and an evacuation that has come to its end has every server it stopped
\* running on another host, unless another has acted on it.
THEOREM Evacuated == Spec => []EvacueesRunAgain
BY Implemented, ComputeKept, ComputeSafe, ServersAreServers, PTL

\* For any balancers, amphorae, volumes and commands, and whatever fails: no
\* command fails a load balancer over twice.
THEOREM Rotated == Spec => []RotatedOnce
BY Implemented, RotationKept, VolumesAreVolumes, PTL

\* For any sessions and orders, and any set of names for backups: as long as no
\* two sessions take the same free name at once and no reset wipes the switch,
\* what it was first configured with stays, saved or in a backup.
THEOREM Original == Spec => []OriginalKept
BY Implemented, OriginalStays, SwitchesAreSwitches, PTL

\* For any nodes, operators and commands, whatever was seen before and whatever
\* others have changed since: no clean, provide or burn-in wipes an instance.
THEOREM Survive == Spec => InstancesSurvive
BY Implemented, InstancesStay, NodesAreNodes, PTL DEF InstancesSurvive
=============================================================================
