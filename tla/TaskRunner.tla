----------------------------- MODULE TaskRunner -----------------------------
(***************************************************************************)
(* The life of a task that runs a program: run_ansible_in_environment and  *)
(* run_command in a Celery worker, the program they start, the Redis       *)
(* stream that carries its output (push_task_output, finish_task_output)   *)
(* and the command-line clients that follow the stream (fetch_task_output, *)
(* called by handle_task and by `osism wait --live`).                      *)
(*                                                                         *)
(* The tasks compete for one Redlock (they run the same role, or the same  *)
(* command, with locking on).  The lock is released by the worker, or by   *)
(* Redis when auto_release_time has passed, whoever still needs it.        *)
(***************************************************************************)
EXTENDS Integers, Sequences, FiniteSetsExt

CONSTANTS
  Tasks,      \* the tasks of one role
  NReaders,   \* how many clients follow a task, numbered in that order
  NoTask,     \* not a task
  Watched,    \* the tasks that clients follow
  MaxLines    \* bound: lines each program writes

ASSUME RunnerAssumption ==
  /\ NoTask \notin Tasks
  /\ NReaders \in Nat
  /\ Watched \subseteq Tasks
  /\ MaxLines \in [Tasks -> Nat]

VARIABLES
  runner,     \* the function all the tasks run: "ansible" or "command"
  lock,       \* who owns the Redlock
  lapsed,     \* tasks whose lock was released automatically
  pc,         \* where each task's worker is
  written,    \* how many lines each program has written
  exit,       \* each program's exit code, or one of the two values below
  consumed,   \* how many of them the worker has read
  stream,     \* everything ever added to each task's stream
  deleted,    \* the positions of each stream that were XDELed
  reader,     \* what each client does
  printed,    \* the lines the clients of each task have printed
  disturbed   \* tasks whose clients overlapped, left in mid-message or came late

Readers == 1..NReaders

workerVars == <<lock, lapsed, pc>>
programVars == <<written, exit>>
clientVars == <<deleted, reader, printed, disturbed>>
vars == <<runner, lock, lapsed, pc, written, exit, consumed, stream,
          deleted, reader, printed, disturbed>>

-----------------------------------------------------------------------------
\* Entries of a stream; line 0 is the empty string read at end of file.
Stdout(n) == [type |-> "stdout", value |-> n]
Rc(n) == [type |-> "rc", value |-> n]
Quit == [type |-> "action", value |-> 0]

NotStarted == -2
StillRuns == -1

Running(t) == exit[t] = StillRuns

\* The worker is between Popen and the release of the lock.
Supervised(t) == pc[t] \in {"poll", "read", "wait", "quit", "release"}

Offline == [pc |-> "offline", task |-> NoTask, last |-> 0, rc |-> 0]

Following(t) == {r \in Readers : reader[r].task = t /\ reader[r].pc \in {"waiting", "got"}}

\* The entries XREAD would return to a client.
Available(r) ==
  {i \in 1..Len(stream[reader[r].task]) :
     i > reader[r].last /\ i \notin deleted[reader[r].task]}

-----------------------------------------------------------------------------
Init ==
  /\ runner \in {"ansible", "command"}
  /\ lock = NoTask
  /\ lapsed = {}
  /\ pc = [t \in Tasks |-> "queued"]
  /\ written = [t \in Tasks |-> 0]
  /\ exit = [t \in Tasks |-> NotStarted]
  /\ consumed = [t \in Tasks |-> 0]
  /\ stream = [t \in Tasks |-> <<>>]
  /\ deleted = [t \in Tasks |-> {}]
  /\ reader = [r \in Readers |-> Offline]
  /\ printed = [t \in Tasks |-> <<>>]
  /\ disturbed = {}

-----------------------------------------------------------------------------
(* The worker. *)

Goto(t, label) == pc' = [pc EXCEPT ![t] = label]

\* Mutant: the result of acquire is ignored.
AcquirableAnyway(t) == TRUE

\* Redlock.acquire blocks while another task owns the lock.
Acquirable(t) == lock = NoTask

\* lock.acquire() returns and Popen starts the program.
Launch(t) ==
  /\ pc[t] = "queued"
  /\ Acquirable(t)
  /\ lock' = t
  /\ exit' = [exit EXCEPT ![t] = StillRuns]
  /\ Goto(t, "poll")
  /\ UNCHANGED <<runner, lapsed, written, consumed, stream, clientVars>>

\* `while p.poll() is None`.
Poll(t) ==
  /\ pc[t] = "poll"
  /\ Goto(t, IF Running(t) THEN "read" ELSE "wait")
  /\ UNCHANGED <<runner, lock, lapsed, programVars, consumed, stream, clientVars>>

\* readline() blocks until there is a line, or returns "" at the end of the
\* file; push_task_output.
Read(t) ==
  /\ pc[t] = "read"
  /\ \/ /\ consumed[t] < written[t]
        /\ consumed' = [consumed EXCEPT ![t] = @ + 1]
        /\ stream' = [stream EXCEPT ![t] = Append(@, Stdout(consumed[t] + 1))]
     \/ /\ consumed[t] = written[t]
        /\ ~Running(t)
        /\ stream' = [stream EXCEPT ![t] = Append(@, Stdout(0))]
        /\ UNCHANGED consumed
  /\ Goto(t, "poll")
  /\ UNCHANGED <<runner, lock, lapsed, programVars, clientVars>>

\* Mutant: the end marker before the exit code.
FinishSwapped(t) ==
  \/ /\ pc[t] = "wait"
     /\ stream' = [stream EXCEPT ![t] = Append(@, Quit)]
     /\ Goto(t, "quit")
  \/ /\ pc[t] = "quit"
     /\ stream' = [stream EXCEPT ![t] = Append(@, Rc(exit[t]))]
     /\ Goto(t, "release")

\* Mutant: no end marker.
FinishWithoutQuit(t) ==
  /\ pc[t] = "wait"
  /\ stream' = [stream EXCEPT ![t] = Append(@, Rc(exit[t]))]
  /\ Goto(t, "release")

\* finish_task_output: the exit code, then the end marker.
Finish(t) ==
  \/ /\ pc[t] = "wait"
     /\ stream' = [stream EXCEPT ![t] = Append(@, Rc(exit[t]))]
     /\ Goto(t, "quit")
  \/ /\ pc[t] = "quit"
     /\ stream' = [stream EXCEPT ![t] = Append(@, Quit)]
     /\ Goto(t, "release")

\* p.wait() and finish_task_output, one XADD at a time.
Report(t) ==
  /\ Finish(t)
  /\ UNCHANGED <<runner, lock, lapsed, programVars, consumed, clientVars>>

\* Redlock.release: only the owner's release frees the lock.
Unlocked(t) == IF lock = t THEN NoTask ELSE lock

\* The normal release.  Releasing a lapsed lock raises; ansible runs log
\* that, a command fails although its output is complete.
Release(t) ==
  /\ pc[t] = "release"
  /\ lock' = Unlocked(t)
  /\ Goto(t, IF lock = t \/ runner = "ansible" THEN "done" ELSE "failed")
  /\ UNCHANGED <<runner, lapsed, programVars, consumed, stream, clientVars>>

\* A Redis call of the loop raises.  run_ansible_in_environment releases the
\* lock in its `finally`; run_command does not.  Neither stops the program.
RunnerRaises(t) ==
  /\ pc[t] \in {"read", "wait", "quit"}
  /\ Goto(t, "failed")
  /\ lock' = IF runner = "ansible" THEN Unlocked(t) ELSE lock
  /\ UNCHANGED <<runner, lapsed, programVars, consumed, stream, clientVars>>

\* The worker is killed: revoke_task(terminate=True) or a crash.
Kill(t) ==
  /\ Supervised(t)
  /\ Goto(t, "failed")
  /\ UNCHANGED <<runner, lock, lapsed, programVars, consumed, stream, clientVars>>

\* auto_release_time has passed.
AutoRelease ==
  /\ lock # NoTask
  /\ lapsed' = lapsed \cup {lock}
  /\ lock' = NoTask
  /\ UNCHANGED <<runner, pc, programVars, consumed, stream, clientVars>>

-----------------------------------------------------------------------------
(* The program. *)

Write(t) ==
  /\ Running(t)
  /\ written[t] < MaxLines[t]
  /\ written' = [written EXCEPT ![t] = @ + 1]
  /\ UNCHANGED <<runner, workerVars, exit, consumed, stream, clientVars>>

Exit(t) ==
  /\ Running(t)
  /\ \E code \in {0, 1} : exit' = [exit EXCEPT ![t] = code]
  /\ UNCHANGED <<runner, workerVars, written, consumed, stream, clientVars>>

-----------------------------------------------------------------------------
(* The clients. *)

\* The end marker has been read by somebody.
EndTaken(t) == \E i \in deleted[t] : stream[t][i] = Quit

\* fetch_task_output begins, at the start of the stream: handle_task follows
\* its own task, `wait --live` one it has seen in state STARTED.
Follow(r, t) ==
  /\ reader[r].pc = "offline"
  /\ \A q \in 1..(r - 1) : reader[q].pc # "offline"
  /\ reader' = [reader EXCEPT ![r] = [pc |-> "waiting", task |-> t, last |-> 0, rc |-> 0]]
  /\ disturbed' = IF Following(t) # {} \/ EndTaken(t) THEN disturbed \cup {t} ELSE disturbed
  /\ UNCHANGED <<runner, workerVars, programVars, consumed, stream, deleted, printed>>

\* XREAD with count=1 returns the first entry after the last one seen.
XRead(r) ==
  /\ reader[r].pc = "waiting"
  /\ Available(r) # {}
  /\ reader' = [reader EXCEPT ![r].pc = "got", ![r].last = Min(Available(r))]
  /\ UNCHANGED <<runner, workerVars, programVars, consumed, stream, deleted, printed, disturbed>>

\* Mutant: XTRIM to the newest entry instead of XDEL of this one.
TakenTrim(t, i) == 1..Len(stream[t])

\* XDEL of the entry.
Taken(t, i) == {i}

\* The entry is deleted and acted upon.
Process(r) ==
  LET t == reader[r].task
      entry == stream[t][reader[r].last]
  IN
  /\ reader[r].pc = "got"
  /\ deleted' = [deleted EXCEPT ![t] = @ \cup Taken(t, reader[r].last)]
  /\ reader' = [reader EXCEPT
       ![r].pc = IF entry.type = "action" THEN "returned" ELSE "waiting",
       ![r].rc = IF entry.type = "rc" THEN entry.value ELSE @]
  /\ printed' = IF entry.type = "stdout" /\ entry.value # 0
                THEN [printed EXCEPT ![t] = Append(@, entry.value)] ELSE printed
  /\ UNCHANGED <<runner, workerVars, programVars, consumed, stream, disturbed>>

\* A client that has taken the exit code leaves with it; the next client of
\* the task will not find it.
LeavesWithRc(r) ==
  LET t == reader[r].task IN
  \E i \in deleted[t] : i <= reader[r].last /\ stream[t][i].type = "rc"

Leave(r, spoiled) ==
  /\ reader' = [reader EXCEPT ![r] = [@ EXCEPT !.pc = "left", !.last = 0, !.rc = 0]]
  /\ disturbed' = IF spoiled THEN disturbed \cup {reader[r].task} ELSE disturbed

\* No entry for `timeout` seconds: TimeoutError, handle_task returns 1.
TimeOut(r) ==
  /\ reader[r].pc = "waiting"
  /\ Available(r) = {}
  /\ Leave(r, LeavesWithRc(r))
  /\ UNCHANGED <<runner, workerVars, programVars, consumed, stream, deleted, printed>>

\* Ctrl-C: between two messages, or with a message read and, possibly,
\* deleted already.
Interrupt(r) ==
  /\ \/ /\ reader[r].pc = "waiting"
        /\ Leave(r, LeavesWithRc(r))
        /\ UNCHANGED deleted
     \/ /\ reader[r].pc = "got"
        /\ Leave(r, LeavesWithRc(r))
        /\ UNCHANGED deleted
     \/ /\ reader[r].pc = "got"
        /\ Leave(r, TRUE)
        /\ deleted' = [deleted EXCEPT
             ![reader[r].task] = @ \cup Taken(reader[r].task, reader[r].last)]
  /\ UNCHANGED <<runner, workerVars, programVars, consumed, stream, printed>>

-----------------------------------------------------------------------------
Work(t) == Launch(t) \/ Poll(t) \/ Read(t) \/ Report(t) \/ Release(t)

Next ==
  \/ \E t \in Tasks : Work(t) \/ RunnerRaises(t) \/ Kill(t) \/ Write(t) \/ Exit(t)
  \/ AutoRelease
  \/ \E r \in Readers : XRead(r) \/ Process(r) \/ TimeOut(r) \/ Interrupt(r)
  \/ \E r \in Readers, t \in Watched : Follow(r, t)

Spec == Init /\ [][Next]_vars

\* Workers and clients keep running, every program exits, a lock that nobody
\* releases is released by Redis.
FairSpec ==
  /\ Spec
  /\ \A t \in Tasks : WF_vars(Work(t)) /\ WF_vars(Exit(t))
  /\ WF_vars(AutoRelease)
  /\ \A r \in Readers : WF_vars(XRead(r) \/ Process(r))

-----------------------------------------------------------------------------
\* Every variable has its type.
TypeOK ==
  /\ runner \in {"ansible", "command"}
  /\ lock \in Tasks \cup {NoTask}
  /\ lapsed \in SUBSET Tasks
  /\ pc \in [Tasks -> {"queued", "poll", "read", "wait", "quit", "release",
                       "done", "failed"}]
  /\ \A t \in Tasks : written[t] \in 0..MaxLines[t]
  /\ exit \in [Tasks -> {NotStarted, StillRuns, 0, 1}]
  /\ \A t \in Tasks : consumed[t] \in 0..written[t]
  /\ \A t \in Tasks : deleted[t] \in SUBSET (1..Len(stream[t]))
  /\ \A r \in Readers : reader[r].task \in Tasks \cup {NoTask}
  /\ disturbed \in SUBSET Tasks

\* Two workers supervise programs of the same role at the same time only if
\* the lock of one of them was released automatically.
OneSupervisedProgram ==
  \A t, u \in Tasks \ lapsed : Supervised(t) /\ Supervised(u) => t = u

\* The clients of a task that follow it one after the other have printed the
\* program's lines from the first on, in order, each once; and every line the
\* worker has read, once one of them has come to the end marker.
PrintedInOrder ==
  \A t \in Tasks \ disturbed :
    /\ Len(printed[t]) <= written[t]
    /\ \A i \in 1..Len(printed[t]) : printed[t][i] = i
    /\ \A r \in Readers : reader[r].pc = "returned" /\ reader[r].task = t =>
         Len(printed[t]) = consumed[t]

\* A client that comes to the end marker returns the program's exit code.
RcFaithful ==
  \A r \in Readers :
    LET t == reader[r].task IN
    reader[r].pc = "returned" /\ t \notin disturbed => reader[r].rc = exit[t]

\* A client that follows a task alone returns (or gives up), unless the
\* worker fails.
FollowerReturns ==
  \A r \in Readers, t \in Watched :
    reader[r].task = t ~>
      reader[r].pc \in {"returned", "left"}
      \/ t \in disturbed \/ pc[t] = "failed"

\* `osism wait --live` shows the output "until it is finished": the end
\* marker of a task is there for every client that waits for it.
EndMarkerForEveryFollower ==
  \A r \in Readers :
    LET t == reader[r].task IN
    reader[r].pc = "waiting" =>
      \A i \in deleted[t] : i > reader[r].last => stream[t][i] # Quit
=============================================================================
