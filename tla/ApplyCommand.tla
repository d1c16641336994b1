------------------------------ MODULE ApplyCommand ------------------------------
(* `osism apply` (commands/apply.py): roles and collections of roles become   *)
(* Celery tasks, in the order the `//` of the command and the trees of the    *)
(* collections ask for; the workers run them (tasks/ansible.py, kolla.py,     *)
(* ceph.py, kubernetes.py) unless `osism lock` (commands/lock.py) says no.    *)
(* What a task runs, and the stream with its output, is TaskRunner's.  Celery *)
(* is external: the tasks of a chain are queued one when the one before it    *)
(* has succeeded, and one that ends with an exit code has.                    *)
EXTENDS Naturals, Sequences, FiniteSets

CONSTANTS
  Clients,       \* each runs one `osism apply`
  Applications,  \* names: the `//` segments, environment: --environment or
                 \* "none", retry, wait, mode: "run", "dry-run" or "tree"
  Collections,   \* name -> the roles of its trees, each with the place of the
                 \* one it depends on, or 0
  MAP_ROLE2ENVIRONMENT, OsismRoles,   \* playbooks.py; those that run in osism-ansible
  Slots,         \* queue -> the tasks it runs at once
  Lockers        \* each locks the tasks once and unlocks them once

Elements(s) == {s[i] : i \in DOMAIN s}

ApplyAssumption ==
  /\ \A q \in Applications :
       /\ q.names \in Seq(Elements(q.names)) /\ q.names # <<>>
       /\ q.wait \in BOOLEAN
  /\ \A name \in DOMAIN Collections :
       LET roles == Collections[name] IN
       /\ roles \in Seq(Elements(roles))
       /\ \A i \in DOMAIN roles : roles[i].after \in 0..(i - 1)

VARIABLES
  task,        \* the Celery tasks: role, queue, after (its place), noop, for
               \* (client, segment), state, rc
  client,
  task_lock,   \* Redis: who is named there, or "none"
  locker

applyVars == <<task, client, task_lock, locker>>

applyInit ==
  /\ task = <<>>
  /\ client = [c \in Clients |-> [pc |-> "idle", rc |-> 0]]
  /\ task_lock = "none"
  /\ locker = [u \in Lockers |-> "idle"]

-----------------------------------------------------------------------------
\* is_task_locked: what Redis does not answer is not locked.
is_task_locked == {FALSE, task_lock # "none"}

Ends(c, rc) == client' = [client EXCEPT ![c].pc = "ended", ![c].rc = rc]

take_action(c, q) ==
  /\ client[c].pc = "idle"
  /\ \E isLocked \in is_task_locked :
       IF isLocked THEN Ends(c, 1)
       ELSE client' = [client EXCEPT ![c] = [pc |-> "segment", call |-> q, at |-> 1, attempt |-> 0, task |-> 0, rc |-> 0]]
  /\ UNCHANGED <<task, task_lock, locker>>

\* The environment of a role, and the queue of its task.
Environment(q, role) ==
  IF role = "ceph" THEN "ceph"
  ELSE IF q.environment # "none" THEN q.environment
  ELSE IF role \in DOMAIN MAP_ROLE2ENVIRONMENT THEN MAP_ROLE2ENVIRONMENT[role] ELSE "custom"

Queue(q, role) ==
  LET environment == Environment(q, role) IN
  CASE environment = "ceph"       -> "ceph-ansible"
    [] environment = "kubernetes" -> "kubernetes"
    [] environment = "kolla" /\ (role = "common" \/ role \notin OsismRoles) -> "kolla-ansible"
    [] OTHER                      -> "osism-ansible"

prepare_task(c, role, after, state) ==
  [role |-> role, queue |-> Queue(client[c].call, role), noop |-> FALSE, after |-> after,
   for |-> <<c, client[c].at>>, state |-> state, rc |-> 0]

\* A bug: a group instead of a chain.
Grouped(place) == "queued"

\* chain(pt, st): a role that depends on another waits for its task.
Chained(place) == IF place = 0 THEN "queued" ELSE "chained"

Segment(c) == client[c].call.names[client[c].at]

\* A collection is submitted and not followed.  There is no exit code, which is
\* not 0: the segments after it are skipped.
handle_collection(c) ==
  LET roles == Collections[Segment(c)]
      Place(i) == IF roles[i].after = 0 THEN 0 ELSE Len(task) + roles[i].after
      Task(i) == [prepare_task(c, roles[i].role, Place(i), Chained(roles[i].after))
                    EXCEPT !.noop = client[c].call.mode = "dry-run"]
  IN
  /\ client[c].pc = "segment" /\ Segment(c) \in DOMAIN Collections
  /\ task' = IF client[c].call.mode = "tree" THEN task ELSE task \o [i \in DOMAIN roles |-> Task(i)]
  /\ Ends(c, 0)
  /\ UNCHANGED <<task_lock, locker>>

\* rc is that of an attempt at a role: another attempt, the next segment, or
\* the end.
Attempted(c, rc) ==
  LET q == client[c].call IN
  IF rc # 0 /\ client[c].attempt < q.retry
  THEN client' = [client EXCEPT ![c].pc = "segment", ![c].attempt = @ + 1]
  ELSE IF rc # 0 \/ client[c].at = Len(q.names) THEN Ends(c, rc)
  ELSE client' = [client EXCEPT ![c].pc = "segment", ![c].at = @ + 1, ![c].attempt = 0]

\* A role is submitted, --dry-run or not, and followed unless --no-wait is given.
handle_role(c) ==
  /\ client[c].pc = "segment" /\ Segment(c) \notin DOMAIN Collections
  /\ task' = Append(task, prepare_task(c, Segment(c), 0, "queued"))
  /\ IF client[c].call.wait THEN client' = [client EXCEPT ![c].pc = "follow", ![c].task = Len(task')]
     ELSE Attempted(c, 0)
  /\ UNCHANGED <<task_lock, locker>>

\* The exit code comes, or nothing does for too long, or the operator
\* interrupts, and may have the task revoked.
handle_task(c) ==
  LET t == client[c].task IN
  /\ client[c].pc = "follow"
  /\ \/ task[t].state = "ended" /\ Attempted(c, task[t].rc) /\ UNCHANGED task
     \/ task[t].state # "ended" /\ Attempted(c, 1) /\ UNCHANGED task
     \/ task[t].state \in {"queued", "checked", "runs"} /\ Attempted(c, 1) /\ task' = [task EXCEPT ![t].state = "failed"]
  /\ UNCHANGED <<task_lock, locker>>

-----------------------------------------------------------------------------
(* The workers.                                                              *)

Busy(queue) == {t \in DOMAIN task : task[t].queue = queue /\ task[t].state \in {"checked", "runs"}}

\* A task succeeds: those chained to it are queued.
Succeeds(t, rc) ==
  task' = [u \in DOMAIN task |->
    IF u = t THEN [task[u] EXCEPT !.state = "ended", !.rc = rc]
    ELSE IF task[u].after = t /\ task[u].state = "chained" THEN [task[u] EXCEPT !.state = "queued"] ELSE task[u]]

\* A worker takes a task and looks at the lock, which ends it with SystemExit.
run(t) ==
  /\ task[t].state = "queued" /\ Cardinality(Busy(task[t].queue)) < Slots[task[t].queue]
  /\ IF task[t].noop THEN Succeeds(t, 0)
     ELSE \E isLocked \in is_task_locked :
            task' = [task EXCEPT ![t].state = IF isLocked THEN "failed" ELSE "checked"]
  /\ UNCHANGED <<client, task_lock, locker>>

\* run_ansible_in_environment runs the play, whatever the lock says by now; its
\* exit code is not the task's result.
Plays(t) ==
  /\ \/ task[t].state = "checked" /\ task' = [task EXCEPT ![t].state = "runs"]
     \/ task[t].state = "runs" /\ \E rc \in {0, 1} : Succeeds(t, rc)
     \/ task[t].state \in {"checked", "runs"} /\ task' = [task EXCEPT ![t].state = "failed"]
  /\ UNCHANGED <<client, task_lock, locker>>

-----------------------------------------------------------------------------
(* Locking: a look at the lock, and then the change.                         *)

Turns(u, pc) == locker' = [locker EXCEPT ![u] = pc]

\* Redis may not answer: that is an error in the log and an exit code.
set_task_lock(u) == task_lock' = u \/ UNCHANGED task_lock
remove_task_lock == task_lock' = "none" \/ UNCHANGED task_lock

Lock(u) ==
  /\ \/ /\ locker[u] = "idle" /\ UNCHANGED task_lock
        /\ \E isLocked \in is_task_locked : Turns(u, IF isLocked THEN "locked" ELSE "sets")
     \/ locker[u] = "sets" /\ set_task_lock(u) /\ Turns(u, "locked")
  /\ UNCHANGED <<task, client>>

Unlock(u) ==
  /\ \/ /\ locker[u] = "locked" /\ UNCHANGED task_lock
        /\ \E isLocked \in is_task_locked : Turns(u, IF isLocked THEN "deletes" ELSE "done")
     \/ locker[u] = "deletes" /\ remove_task_lock /\ Turns(u, "done")
  /\ UNCHANGED <<task, client>>

applyNext ==
  \/ \E c \in Clients :
       \/ \E q \in Applications : take_action(c, q)
       \/ handle_collection(c) \/ handle_role(c) \/ handle_task(c)
  \/ \E t \in DOMAIN task : run(t) \/ Plays(t)
  \/ \E u \in Lockers : Lock(u) \/ Unlock(u)

-----------------------------------------------------------------------------
Started(t) == task[t].state \in {"checked", "runs", "ended"}

\* A role of a collection starts when the play of the role it depends on is over,
\* on whichever worker that ran.
ChainsInOrder ==
  \A t \in DOMAIN task : Started(t) /\ task[t].after # 0 => task[task[t].after].state = "ended"

\* A segment of a command that waits starts when an attempt at each segment
\* before it has ended well - locked, timed out, revoked or lost ones have not.
SegmentsInOrder ==
  \A t \in DOMAIN task :
    LET c == task[t].for[1] IN
    Started(t) /\ client[c].call.wait =>
      \A k \in 1..(task[t].for[2] - 1) :
        \E s \in DOMAIN task : task[s].for = <<c, k>> /\ task[s].state = "ended" /\ task[s].rc = 0

AppliedInOrder == ChainsInOrder /\ SegmentsInOrder
=============================================================================
