----------------------------- MODULE CloudRepair -----------------------------
(* The repair commands for what hangs in a cloud: `osism loadbalancer reset`  *)
(* and `delete` (commands/loadbalancer.py), `osism amphora restore` and       *)
(* `rotate` (commands/amphora.py, octavia.py), `osism volume repair`          *)
(* (commands/volume.py).  They look, ask, and then act - on the database of   *)
(* Octavia for a load balancer - while Octavia, Cinder and the users go on.   *)
(* These are external.                                                        *)
EXTENDS Naturals

CONSTANTS
  Balancers, Amphorae, Serves,   \* Serves: amphora -> its load balancer
  Volumes, VolumeStates,         \* what a volume may be at first
  Repairers,
  Repairs                        \* do: the command, lb: its load balancer, opts

CloudAssumption == Volumes \cap {"idle", "ended"} = {}   \* a pc may be a volume

VARIABLES
  lb,       \* prov(isioning) and oper(ating) status, busy: a worker of Octavia is at it
  amphora,  \* status, old: older than 30 days
  volume,   \* status, old: created more than 2 hours ago, long: so long in this status
  repair,   \* the commands
  aborted   \* the volumes whose detachment was aborted before it took 2 hours

cloudVars == <<lb, amphora, volume, repair, aborted>>

cloudInit ==
  /\ lb \in [Balancers -> [prov : {"ACTIVE", "PENDING_CREATE", "PENDING_UPDATE", "ERROR"},
                           oper : {"ONLINE", "ERROR"}, busy : {FALSE}]]
  /\ amphora \in [Amphorae -> [status : {"ALLOCATED", "ERROR"}, old : {TRUE}]]
  /\ volume \in [Volumes -> [status : VolumeStates, old : BOOLEAN, long : {FALSE}]]
  /\ repair = [r \in Repairers |-> [pc |-> "idle", rc |-> 0, again |-> FALSE]]
  /\ aborted = {}

Mutable == {"ACTIVE", "ERROR"}   \* Octavia takes requests; else it is a conflict
Of(b)   == {a \in Amphorae : Serves[a] = b}

-----------------------------------------------------------------------------
(* Octavia ends a failover (all amphorae anew, or one of them) or a deletion. *)
OctaviaEnds(b) ==
  /\ lb[b].busy
  /\ \/ /\ lb[b].prov = "PENDING_DELETE"
        /\ lb' = [lb EXCEPT ![b].prov = "gone", ![b].busy = FALSE]
        /\ amphora' = [a \in Amphorae |-> IF a \in Of(b) THEN [amphora[a] EXCEPT !.status = "gone"] ELSE amphora[a]]
     \/ \E ok \in BOOLEAN :
          /\ lb' = [lb EXCEPT ![b].prov = IF ok THEN "ACTIVE" ELSE "ERROR", ![b].busy = FALSE]
          /\ amphora' = [a \in Amphorae |->
               IF a \in Of(b) /\ amphora[a].status = "BOOTING"
               THEN [status |-> IF ok THEN "ALLOCATED" ELSE "ERROR", old |-> FALSE] ELSE amphora[a]]
  /\ UNCHANGED <<volume, repair, aborted>>

\* Cinder ends what it does, or fails; a user detaches a volume; time passes.
CinderEnds(v) ==
  /\ volume[v].status \in {"detaching", "creating", "deleting", "available", "in-use"}
  /\ \E s \in CASE volume[v].status = "detaching" -> {"available"}
                [] volume[v].status = "creating" -> {"available"}
                [] volume[v].status = "deleting" -> {"gone", "error_deleting"}
                [] volume[v].status = "available" -> {"in-use"}
                [] OTHER -> {"detaching"} :
       volume' = [volume EXCEPT ![v].status = s, ![v].long = FALSE]
  /\ UNCHANGED <<lb, amphora, repair, aborted>>

TwoHours(v) ==
  /\ volume[v].status # "gone" /\ ~(volume[v].old /\ volume[v].long)
  /\ volume' = [volume EXCEPT ![v].old = TRUE, ![v].long = TRUE]
  /\ UNCHANGED <<lb, amphora, repair, aborted>>

-----------------------------------------------------------------------------
Ends(r, rc)   == repair' = [repair EXCEPT ![r].pc = "ended", ![r].rc = rc]
Goes(r, pc)   == repair' = [repair EXCEPT ![r].pc = pc]
Opt(r, o)     == o \in repair[r].call.opts

\* What a command accepts of what it reads first.
Validated(q) ==
  CASE q.do = "reset" /\ "operating" \notin q.opts -> lb[q.lb].prov \in {"PENDING_UPDATE", "ERROR"}
    [] q.do = "reset"  -> lb[q.lb].oper = "ERROR" /\ lb[q.lb].prov = "ACTIVE"
    [] q.do = "delete" -> lb[q.lb].prov = "PENDING_CREATE"
    [] OTHER           -> TRUE

take_action(r, q) ==
  /\ repair[r].pc = "idle"
  /\ \/ Ends(r, 1)
     \/ /\ Validated(q)
        /\ repair' = [repair EXCEPT ![r] =
             [call |-> q, rc |-> 0, done |-> {}, turned |-> {}, again |-> FALSE, phase |-> "detaching", seen |-> amphora,
              todo |-> {a \in Amphorae : amphora[a].status = (IF q.do = "restore" THEN "ERROR" ELSE "ALLOCATED")},
              pc |-> CASE q.do \in {"reset", "delete"} -> "confirm" [] q.do = "repair" -> "list" [] OTHER -> "amphorae"]]
  /\ UNCHANGED <<lb, amphora, volume, aborted>>

\* The operator confirms, and the database answers: as the sharded user of
\* ProxySQL or as the plain one.
Confirmed(r) ==
  /\ repair[r].pc = "confirm"
  /\ \/ Goes(r, "database")
     \/ ~Opt(r, "yes") /\ Ends(r, 0)
     \/ Ends(r, 1)
  /\ UNCHANGED <<lb, amphora, volume, aborted>>

\* The status is written over whatever it is by now.
reset_status(r) ==
  LET b == repair[r].call.lb IN
  /\ repair[r].pc = "database"
  /\ lb' = IF lb[b].prov = "gone" THEN lb
           ELSE IF Opt(r, "operating") THEN [lb EXCEPT ![b].oper = "ONLINE"]
           ELSE [lb EXCEPT ![b].prov = IF repair[r].call.do = "delete" THEN "ERROR" ELSE "ACTIVE"]
  /\ IF Opt(r, "no-failover") THEN Ends(r, 0) ELSE Goes(r, repair[r].call.do)
  /\ UNCHANGED <<amphora, volume, aborted>>

FailsOver(b, slots) ==
  /\ lb' = [lb EXCEPT ![b].prov = "PENDING_UPDATE", ![b].busy = TRUE]
  /\ amphora' = [a \in Amphorae |-> IF a \in slots THEN [amphora[a] EXCEPT !.status = "BOOTING"] ELSE amphora[a]]

\* The failover after a reset, and the deletion; a conflict ends the command.
Requested(r) ==
  LET b == repair[r].call.lb IN
  /\ repair[r].pc \in {"reset", "delete"}
  /\ \/ /\ lb[b].prov \in Mutable /\ repair[r].pc = "reset"
        /\ FailsOver(b, Of(b)) /\ Goes(r, "wait")
     \/ /\ lb[b].prov \in Mutable /\ repair[r].pc = "delete"
        /\ lb' = [lb EXCEPT ![b].prov = "PENDING_DELETE", ![b].busy = TRUE]
        /\ Ends(r, 0) /\ UNCHANGED amphora
     \/ Ends(r, 1) /\ UNCHANGED <<lb, amphora>>
  /\ UNCHANGED <<volume, aborted>>

\* Amphorae are listed once, and taken one after the other.
Turn(r, do, a) == repair[r].pc = "amphorae" /\ repair[r].call.do = do /\ a \in repair[r].todo
Onwards(r, pc, a) == repair' = [repair EXCEPT ![r].pc = pc, ![r].todo = @ \ {a}]

\* The failover of an amphora in ERROR; a conflict ends the command.
Restores(r, a) ==
  /\ Turn(r, "restore", a)
  /\ \/ lb[Serves[a]].prov \in Mutable /\ FailsOver(Serves[a], {a}) /\ Onwards(r, "wait", a)
     \/ Ends(r, 1) /\ UNCHANGED <<lb, amphora>>
  /\ UNCHANGED <<volume, aborted>>

\* A bug: the load balancers done are not remembered.
Forgotten(r, b) == repair[r].done

Remembered(r, b) == repair[r].done \cup {b}

Chosen(r, a) == Serves[a] \notin repair[r].done /\ (repair[r].seen[a].old \/ Opt(r, "force"))

\* An old amphora, any with --force, is rotated by a failover of its load
\* balancer, if that is not done yet; a conflict skips it, other errors end the
\* command.  again remembers a second failover, counted in turned.
Rotates(r, a) ==
  LET b == Serves[a] IN
  /\ Turn(r, "rotate", a)
  /\ \/ /\ Chosen(r, a) /\ lb[b].prov \in Mutable
        /\ FailsOver(b, Of(b))
        /\ repair' = [repair EXCEPT ![r].todo = @ \ {a}, ![r].pc = "wait", ![r].done = Remembered(r, b),
                        ![r].turned = @ \cup {b}, ![r].again = @ \/ b \in repair[r].turned]
     \/ Chosen(r, a) /\ Ends(r, 1) /\ UNCHANGED <<lb, amphora>>
     \/ (Chosen(r, a) => lb[b].prov \notin Mutable) /\ Onwards(r, "amphorae", a) /\ UNCHANGED <<lb, amphora>>
  /\ UNCHANGED <<volume, aborted>>

\* Booting and deletions are waited for, 2 minutes and 1 at most: the command
\* goes on whether they are over or not.
Waits(r) ==
  /\ repair[r].pc = "wait"
  /\ IF repair[r].call.do = "reset" THEN Ends(r, 0) ELSE Goes(r, "amphorae")
  /\ UNCHANGED <<lb, amphora, volume, aborted>>

AmphoraeDone(r) ==
  /\ repair[r].pc = "amphorae" /\ repair[r].todo = {}
  /\ Ends(r, 0)
  /\ UNCHANGED <<lb, amphora, volume, aborted>>

-----------------------------------------------------------------------------
After == [detaching |-> "creating", creating |-> "error_deleting", error_deleting |-> "deleting",
          deleting |-> "end"]

\* One listing per status; in error_deleting the age does not matter.
ListsVolumes(r) ==
  LET phase == repair[r].phase IN
  /\ repair[r].pc = "list"
  /\ IF phase = "end" THEN Ends(r, 0)
     ELSE repair' = [repair EXCEPT ![r].pc = "volumes",
            ![r].todo = {v \in Volumes : volume[v].status = phase /\ (volume[v].old \/ phase = "error_deleting")}]
  /\ UNCHANGED <<lb, amphora, volume, aborted>>

\* A detachment is aborted; what is not deleted yet is, after a question; one
\* that hangs in deleting is made available first.
Repaired(r, v) ==
  LET phase == repair[r].phase
      Sets(s) == volume' = [volume EXCEPT ![v].status = s, ![v].long = FALSE]
  IN
  /\ repair[r].pc = "volumes" /\ v \in repair[r].todo
  /\ \/ /\ phase = "detaching" /\ volume[v].status = "detaching"
        /\ Sets("in-use") /\ Onwards(r, "volumes", v)
        /\ aborted' = IF volume[v].long THEN aborted ELSE aborted \cup {v}
     \/ /\ UNCHANGED aborted
        /\ \/ phase # "detaching" /\ ~Opt(r, "yes") /\ Onwards(r, "volumes", v) /\ UNCHANGED volume
           \/ phase \in {"creating", "error_deleting"} /\ Sets("deleting") /\ Onwards(r, "volumes", v)
           \/ phase = "deleting" /\ Sets("available") /\ Onwards(r, v, v)
           \/ Ends(r, 1) /\ UNCHANGED volume
  /\ UNCHANGED <<lb, amphora>>

DeletesAgain(r, v) ==
  /\ repair[r].pc = v
  /\ \/ volume' = [volume EXCEPT ![v].status = "deleting", ![v].long = FALSE] /\ Goes(r, "volumes")
     \/ Ends(r, 1) /\ UNCHANGED volume
  /\ UNCHANGED <<lb, amphora, aborted>>

NextStatus(r) ==
  /\ repair[r].pc = "volumes" /\ repair[r].todo = {}
  /\ repair' = [repair EXCEPT ![r].pc = "list", ![r].phase = After[@]]
  /\ UNCHANGED <<lb, amphora, volume, aborted>>

Repairer(r) ==
  \/ \E q \in Repairs : take_action(r, q)
  \/ Confirmed(r) \/ reset_status(r) \/ Requested(r)
  \/ \E a \in Amphorae : Restores(r, a) \/ Rotates(r, a)
  \/ Waits(r) \/ AmphoraeDone(r) \/ ListsVolumes(r) \/ NextStatus(r)
  \/ \E v \in Volumes : Repaired(r, v) \/ DeletesAgain(r, v)

cloudNext ==
  \/ \E r \in Repairers : Repairer(r)
  \/ \E b \in Balancers : OctaviaEnds(b)
  \/ \E v \in Volumes : CinderEnds(v) \/ TwoHours(v)

cloudSpec == cloudInit /\ [][cloudNext]_cloudVars

-----------------------------------------------------------------------------
\* One rotation fails a load balancer over once, however many of its amphorae
\* were listed, and whatever state they and it are in when their turn comes.
RotatedOnce == \A r \in Repairers : ~repair[r].again

\* "DETACHING (> 2 hours): Aborts the detach operation": no detachment that
\* began less than 2 hours ago is aborted.  The code violates it: it takes the
\* age of the volume, created_at, for the time in this status.
OnlyStuckDetachmentsAborted == aborted = {}
=============================================================================
