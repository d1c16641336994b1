-------------------------- MODULE TaskRunnerProofs --------------------------
(***************************************************************************)
(* Proofs about TaskRunner for any number of tasks, clients and lines: the *)
(* lock of a role keeps its programs apart, and what the clients of a task *)
(* print and return is what its program has written and exited with.      *)
(***************************************************************************)
EXTENDS TaskRunner, WellFoundedInduction, TLAPS

\* The types the lock's argument needs.
LockTypes ==
  /\ pc \in [Tasks -> {"queued", "poll", "read", "wait", "quit", "release",
                       "done", "failed"}]
  /\ lock \in Tasks \cup {NoTask}

\* A worker that supervises a program owns the lock unless Redis took it away.
SupervisorsOwn ==
  \A t \in Tasks \ lapsed : Supervised(t) => lock = t

LockInv == LockTypes /\ SupervisorsOwn

LEMMA InitLockInv == Init => LockInv
BY DEF Init, LockInv, LockTypes, SupervisorsOwn, Supervised

\* No step takes the lock from a worker that supervises a program, except the
\* automatic release, which marks the worker as lapsed.
LEMMA StepLockInv == LockInv /\ [Next]_vars => LockInv'
<1> SUFFICES ASSUME LockInv, [Next]_vars PROVE LockInv'
  OBVIOUS
<1> USE RunnerAssumption DEF LockInv, LockTypes, SupervisorsOwn, Supervised
<1>1. ASSUME NEW t \in Tasks, Launch(t) PROVE LockInv'
  BY <1>1 DEF Launch, Acquirable, Goto
<1>2. ASSUME NEW t \in Tasks, Poll(t) PROVE LockInv'
  BY <1>2 DEF Poll, Goto
<1>3. ASSUME NEW t \in Tasks, Read(t) PROVE LockInv'
  BY <1>3 DEF Read, Goto
<1>4. ASSUME NEW t \in Tasks, Report(t) PROVE LockInv'
  BY <1>4 DEF Report, Finish, Goto
<1>5. ASSUME NEW t \in Tasks, Release(t) PROVE LockInv'
  <2>1. PICK label \in {"done", "failed"} : Goto(t, label)
    BY <1>5 DEF Release
  <2> QED
    BY <1>5, <2>1 DEF Release, Unlocked, Goto
<1>6. ASSUME NEW t \in Tasks, RunnerRaises(t) PROVE LockInv'
  BY <1>6 DEF RunnerRaises, Unlocked, Goto
<1>7. ASSUME NEW t \in Tasks, Kill(t) PROVE LockInv'
  BY <1>7 DEF Kill, Goto
<1>8. CASE AutoRelease
  BY <1>8 DEF AutoRelease
<1>9. ASSUME NEW t \in Tasks, Write(t) \/ Exit(t) PROVE LockInv'
  BY <1>9 DEF Write, Exit, workerVars
<1>10. ASSUME NEW r \in Readers, XRead(r) \/ Process(r) \/ TimeOut(r) \/ Interrupt(r)
       PROVE  LockInv'
  <2>1. UNCHANGED workerVars
    BY <1>10 DEF XRead, Process, TimeOut, Interrupt
  <2> QED
    BY <2>1 DEF workerVars
<1>11. ASSUME NEW r \in Readers, NEW t \in Watched, Follow(r, t) PROVE LockInv'
  BY <1>11 DEF Follow, workerVars
<1>12. CASE UNCHANGED vars
  BY <1>12 DEF vars
<1> QED
  BY <1>1, <1>2, <1>3, <1>4, <1>5, <1>6, <1>7, <1>8, <1>9, <1>10, <1>11, <1>12
  DEF Next, Work

\* Two workers never supervise programs of one role at the same time, unless
\* the lock of one of them was released automatically.
THEOREM OneProgram == Spec => []OneSupervisedProgram
<1>1. LockInv => OneSupervisedProgram
  BY DEF LockInv, SupervisorsOwn, OneSupervisedProgram
<1> QED
  BY <1>1, InitLockInv, StepLockInv, PTL DEF Spec

-----------------------------------------------------------------------------
(* The output of a task.                                                     *)

Entries == [type : {"stdout", "rc", "action"}, value : Int]

Clients == [pc : {"offline", "waiting", "got", "returned", "left"},
            task : Tasks \cup {NoTask}, last : Nat, rc : Int]

Types ==
  /\ LockTypes
  /\ lapsed \in SUBSET Tasks /\ disturbed \in SUBSET Tasks
  /\ written \in [Tasks -> Nat] /\ consumed \in [Tasks -> Nat]
  /\ \A t \in Tasks : written[t] <= MaxLines[t] /\ consumed[t] <= written[t]
  /\ exit \in [Tasks -> {NotStarted, StillRuns, 0, 1}]
  /\ stream \in [Tasks -> Seq(Entries)]
  /\ deleted \in [Tasks -> SUBSET Nat]
  /\ reader \in [Readers -> Clients]
  /\ printed \in [Tasks -> Seq(Int)]

\* What the clients hold are positions of the streams they follow.
Positions ==
  /\ \A t \in Tasks : deleted[t] \subseteq 1..Len(stream[t])
  /\ \A r \in Readers : reader[r].pc # "offline" => reader[r].task \in Tasks
  /\ \A r \in Readers :
       reader[r].pc = "got" => reader[r].last \in 1..Len(stream[reader[r].task])

LEMMA Numbers == NotStarted = -2 /\ StillRuns = -1 /\ NotStarted # StillRuns
BY DEF NotStarted, StillRuns

LEMMA EntryTypes ==
  /\ \A n \in Int : Stdout(n) \in Entries /\ Rc(n) \in Entries
  /\ Quit \in Entries
BY DEF Stdout, Rc, Quit, Entries

\* The entries are told apart by their types.
LEMMA EntryKinds ==
  ASSUME NEW m \in Int, NEW n \in Int
  PROVE  /\ Stdout(m) # Rc(n) /\ Stdout(m) # Quit /\ Rc(n) # Quit
         /\ Stdout(m) = Stdout(n) => m = n
         /\ Stdout(m).type = "stdout" /\ Stdout(m).value = m
         /\ Rc(n).type = "rc" /\ Rc(n).value = n /\ Quit.type = "action"
BY DEF Stdout, Rc, Quit

\* A worker or a program does what it does for its own task, and nothing to
\* the clients.
LEMMA OthersStay ==
  ASSUME NEW t \in Tasks, Work(t) \/ RunnerRaises(t) \/ Kill(t) \/ Write(t) \/ Exit(t),
         Types, NEW u \in Tasks \ {t}
  PROVE  /\ pc'[u] = pc[u] /\ written'[u] = written[u] /\ consumed'[u] = consumed[u]
         /\ exit'[u] = exit[u] /\ stream'[u] = stream[u]
<1> USE DEF Types, LockTypes, Goto, programVars, workerVars
<1>1. CASE Launch(t) BY <1>1 DEF Launch
<1>2. CASE Poll(t) BY <1>2 DEF Poll
<1>3. CASE Read(t) BY <1>3 DEF Read
<1>4. CASE Report(t) BY <1>4 DEF Report, Finish
<1>5. CASE Release(t) BY <1>5 DEF Release
<1>6. CASE RunnerRaises(t) BY <1>6 DEF RunnerRaises
<1>7. CASE Kill(t) BY <1>7 DEF Kill
<1>8. CASE Write(t) BY <1>8 DEF Write
<1>9. CASE Exit(t) BY <1>9 DEF Exit
<1> QED BY <1>1, <1>2, <1>3, <1>4, <1>5, <1>6, <1>7, <1>8, <1>9 DEF Work

\* Min is the smallest number of a set.
LEMMA MinOfNaturals ==
  ASSUME NEW S \in SUBSET Nat, S # {}
  PROVE  Min(S) \in S /\ \A x \in S : Min(S) <= x
<1> DEFINE R == {ss \in Nat \X Nat : ss[1] < ss[2]}
<1>1. IsWellFoundedOn(R, Nat)
  BY NatLessThanWellFounded DEF OpToRel
<1>2. \A x, y \in Nat : <<y, x>> \in R <=> y < x
  OBVIOUS
<1> HIDE DEF R
<1>3. PICK x \in S : \A y \in S : ~(<<y, x>> \in R)
  BY <1>1, WFMin, Zenon
<1>4. \A y \in S : x <= y
  <2> TAKE y \in S
  <2>1. x \in Nat /\ y \in Nat /\ ~(<<y, x>> \in R)
    BY <1>3
  <2> QED
    BY <2>1, <1>2
<1> QED
  BY <1>4 DEF Min

LEMMA InitTypes == Init => Types /\ Positions
<1> SUFFICES ASSUME Init PROVE Types /\ Positions
  OBVIOUS
<1>1. LockTypes /\ lapsed \in SUBSET Tasks /\ disturbed \in SUBSET Tasks
  BY DEF Init, LockTypes
<1>2. /\ written \in [Tasks -> Nat] /\ consumed \in [Tasks -> Nat]
      /\ \A t \in Tasks : written[t] <= MaxLines[t] /\ consumed[t] <= written[t]
      /\ exit \in [Tasks -> {NotStarted, StillRuns, 0, 1}]
      /\ deleted \in [Tasks -> SUBSET Nat]
  BY RunnerAssumption DEF Init
<1>3. stream \in [Tasks -> Seq(Entries)] /\ printed \in [Tasks -> Seq(Int)]
  BY DEF Init
<1>4. Offline \in Clients /\ Offline.pc = "offline"
  BY DEF Offline, Clients
<1>5. reader = [r \in Readers |-> Offline]
  BY DEF Init
<1>6. reader \in [Readers -> Clients]
  BY <1>4, <1>5
<1>7. \A t \in Tasks : deleted[t] = {}
  BY DEF Init
<1> QED
  BY <1>1, <1>2, <1>3, <1>4, <1>5, <1>6, <1>7 DEF Types, Positions

\* What a worker or a program may do to the types.
LEMMA WorkTypes ==
  ASSUME NEW t \in Tasks, Work(t) \/ RunnerRaises(t) \/ Kill(t) \/ Write(t) \/ Exit(t),
         Types
  PROVE  Types'
<1>a. UNCHANGED clientVars
  BY DEF Work, Launch, Poll, Read, Report, Release, RunnerRaises, Kill, Write, Exit
<1>0. LockTypes /\ RunnerAssumption
  BY RunnerAssumption DEF Types
<1>1. LockTypes' /\ (lapsed \in SUBSET Tasks)'
  <2> USE <1>0 DEF LockTypes, Types, Goto, workerVars
  <2>1. CASE Launch(t) BY <2>1 DEF Launch
  <2>2. CASE Poll(t) BY <2>2 DEF Poll
  <2>3. CASE Read(t) BY <2>3 DEF Read
  <2>4. CASE Report(t) BY <2>4 DEF Report, Finish
  <2>5. CASE Release(t)
    <3>1. PICK label \in {"done", "failed"} : Goto(t, label)
      BY <2>5 DEF Release
    <3> QED
      BY <2>5, <3>1 DEF Release, Unlocked
  <2>6. CASE RunnerRaises(t) BY <2>6 DEF RunnerRaises, Unlocked, RunnerAssumption
  <2>7. CASE Kill(t) BY <2>7 DEF Kill
  <2>8. CASE Write(t) \/ Exit(t) BY <2>8 DEF Write, Exit
  <2> QED BY <2>1, <2>2, <2>3, <2>4, <2>5, <2>6, <2>7, <2>8 DEF Work
<1>2. /\ (written \in [Tasks -> Nat] /\ consumed \in [Tasks -> Nat])'
      /\ (\A u \in Tasks : written[u] <= MaxLines[u] /\ consumed[u] <= written[u])'
  <2>0. MaxLines \in [Tasks -> Nat]
    BY <1>0 DEF RunnerAssumption
  <2>1. CASE Read(t)
    <3>1. UNCHANGED written
      BY <2>1 DEF Read, programVars
    <3>2. \/ UNCHANGED consumed
          \/ consumed[t] < written[t] /\ consumed' = [consumed EXCEPT ![t] = @ + 1]
      BY <2>1 DEF Read
    <3>3. consumed[t] \in Nat /\ written[t] \in Nat
      BY DEF Types
    <3>4. \A u \in Tasks \ {t} : consumed'[u] = consumed[u]
      BY <3>2 DEF Types
    <3>5. consumed' \in [Tasks -> Nat] /\ consumed'[t] <= written[t]
      <4>1. CASE UNCHANGED consumed
        BY <4>1 DEF Types
      <4>2. CASE consumed[t] < written[t] /\ consumed' = [consumed EXCEPT ![t] = @ + 1]
        <5>1. consumed[t] + 1 \in Nat /\ consumed[t] + 1 <= written[t]
          BY <4>2, <3>3
        <5>2. consumed \in [Tasks -> Nat]
          BY DEF Types
        <5> QED
          BY <4>2, <5>1, <5>2
      <4> QED
        BY <3>2, <4>1, <4>2
    <3> QED
      BY <2>0, <3>1, <3>4, <3>5 DEF Types
  <2>2. CASE Write(t)
    BY <2>0, <2>2 DEF Write, Types
  <2>3. CASE ~Read(t) /\ ~Write(t)
    <3>1. UNCHANGED <<written, consumed>>
      BY <2>3 DEF Work, Launch, Poll, Report, Release, RunnerRaises, Kill, Exit, programVars
    <3> QED
      BY <3>1 DEF Types
  <2> QED
    BY <2>1, <2>2, <2>3
<1>3. (exit \in [Tasks -> {NotStarted, StillRuns, 0, 1}])'
  <2>1. CASE Launch(t) \/ Exit(t)
    BY <2>1 DEF Launch, Exit, Types
  <2>2. CASE ~Launch(t) /\ ~Exit(t)
    BY <2>2 DEF Work, Poll, Read, Report, Release, RunnerRaises, Kill, Write, programVars, Types
  <2> QED
    BY <2>1, <2>2
<1>4. (stream \in [Tasks -> Seq(Entries)])'
  <2>0. stream \in [Tasks -> Seq(Entries)] /\ exit[t] \in Int /\ consumed[t] + 1 \in Int
    <3>1. exit[t] \in {NotStarted, StillRuns, 0, 1} /\ consumed[t] \in Nat
      BY DEF Types
    <3>2. exit[t] \in Int
      BY <3>1, Numbers
    <3> QED
      BY <3>1, <3>2 DEF Types
  <2>1. CASE \E e \in Entries : stream' = [stream EXCEPT ![t] = Append(@, e)]
    BY <2>0, <2>1
  <2>2. CASE Read(t)
    <3>1. \E n \in Int : stream' = [stream EXCEPT ![t] = Append(@, Stdout(n))]
      BY <2>0, <2>2 DEF Read
    <3> QED
      BY <3>1, <2>1, EntryTypes
  <2>3. CASE Report(t)
    BY <2>0, <2>1, <2>3, EntryTypes DEF Report, Finish
  <2>4. CASE ~Read(t) /\ ~Report(t)
    BY <2>0, <2>4 DEF Work, Launch, Poll, Release, RunnerRaises, Kill, Write, Exit
  <2> QED
    BY <2>2, <2>3, <2>4
<1> QED
  BY <1>a, <1>1, <1>2, <1>3, <1>4 DEF Types, clientVars

\* The streams only grow, by one entry at a time.
LEMMA StreamsGrow ==
  ASSUME NEW t \in Tasks, Work(t) \/ RunnerRaises(t) \/ Kill(t) \/ Write(t) \/ Exit(t),
         Types, Positions
  PROVE  Positions'
<1>0. exit[t] \in Int /\ consumed[t] + 1 \in Int
  <2>1. exit[t] \in {NotStarted, StillRuns, 0, 1} /\ consumed[t] \in Nat
    BY DEF Types
  <2> QED
    BY <2>1, Numbers
<1>1. \A u \in Tasks :
        stream'[u] = stream[u] \/ \E e \in Entries : stream'[u] = Append(stream[u], e)
  <2> SUFFICES ASSUME NEW u \in Tasks
               PROVE  stream'[u] = stream[u] \/ \E e \in Entries : stream'[u] = Append(stream[u], e)
    OBVIOUS
  <2>1. CASE Read(t)
    <3>1. PICK n \in Int : stream' = [stream EXCEPT ![t] = Append(@, Stdout(n))]
      BY <2>1, <1>0 DEF Read
    <3> QED
      BY <3>1, EntryTypes DEF Types
  <2>2. CASE Report(t)
    BY <2>2, <1>0, EntryTypes DEF Report, Finish, Types
  <2>3. CASE ~Read(t) /\ ~Report(t)
    BY <2>3 DEF Work, Launch, Poll, Release, RunnerRaises, Kill, Write, Exit
  <2> QED
    BY <2>1, <2>2, <2>3
<1>2. \A u \in Tasks : Len(stream[u]) \in Nat /\ Len(stream'[u]) \in Nat /\ Len(stream[u]) <= Len(stream'[u])
  <2> SUFFICES ASSUME NEW u \in Tasks
               PROVE  Len(stream[u]) \in Nat /\ Len(stream'[u]) \in Nat /\ Len(stream[u]) <= Len(stream'[u])
    OBVIOUS
  <2>1. stream[u] \in Seq(Entries)
    BY DEF Types
  <2>2. CASE stream'[u] = stream[u]
    BY <2>1, <2>2
  <2>3. ASSUME NEW e \in Entries, stream'[u] = Append(stream[u], e)
        PROVE  Len(stream'[u]) = Len(stream[u]) + 1 /\ Len(stream[u]) \in Nat
    BY <2>1, <2>3
  <2> QED
    BY <1>1, <2>2, <2>3
<1>3. UNCHANGED clientVars
  BY DEF Work, Launch, Poll, Read, Report, Release, RunnerRaises, Kill, Write, Exit
<1>4. \A u \in Tasks : 1..Len(stream[u]) \subseteq 1..Len(stream'[u])
  BY <1>2
<1> QED
  BY <1>3, <1>4 DEF Positions, clientVars

\* The record of a client that has left.
LEMMA Gone ==
  ASSUME NEW d \in Clients
  PROVE  LET c == [d EXCEPT !.pc = "left", !.last = 0, !.rc = 0]
         IN  c \in Clients /\ c.task = d.task /\ c.pc = "left"
<1>1. \A e \in Clients : /\ [e EXCEPT !.pc = "left"] \in Clients 
                         /\ [e EXCEPT !.pc = "left"].task = e.task
                         /\ [e EXCEPT !.pc = "left"].pc = "left"
  BY DEF Clients
<1>2. \A e \in Clients : /\ [e EXCEPT !.last = 0] \in Clients
                         /\ [e EXCEPT !.last = 0].task = e.task
                         /\ [e EXCEPT !.last = 0].pc = e.pc
  BY DEF Clients
<1>3. \A e \in Clients : /\ [e EXCEPT !.rc = 0] \in Clients
                         /\ [e EXCEPT !.rc = 0].task = e.task
                         /\ [e EXCEPT !.rc = 0].pc = e.pc
  BY DEF Clients
<1> DEFINE a == [d EXCEPT !.pc = "left"]
           b == [a EXCEPT !.last = 0]
<1>4. a \in Clients /\ a.task = d.task /\ a.pc = "left"
  BY <1>1
<1>5. b \in Clients /\ b.task = d.task /\ b.pc = "left"
  <2> HIDE DEF a
  <2> QED BY <1>4, <1>2
<1>6. [b EXCEPT !.rc = 0] \in Clients /\ [b EXCEPT !.rc = 0].task = d.task /\ [b EXCEPT !.rc = 0].pc = "left"
  <2> HIDE DEF b
  <2> QED BY <1>5, <1>3
<1>7. [d EXCEPT !.pc = "left", !.last = 0, !.rc = 0] = [b EXCEPT !.rc = 0]
  OBVIOUS
<1> QED BY <1>6, <1>7, Zenon

\* What a client of a task does, in the terms of its record.
LEMMA ClientTypes ==
  ASSUME Types, Positions, NEW r \in Readers,
         XRead(r) \/ Process(r) \/ TimeOut(r) \/ Interrupt(r)
  PROVE  Types' /\ Positions'
<1> DEFINE t == reader[r].task
<1>1. /\ UNCHANGED <<lock, lapsed, pc, written, exit, consumed, stream>>
      /\ reader[r].pc \in {"waiting", "got"} /\ t \in Tasks /\ reader[r] \in Clients
  BY DEF XRead, Process, TimeOut, Interrupt, Types, Positions, workerVars, programVars
<1>2. stream[t] \in Seq(Entries) /\ Len(stream[t]) \in Nat /\ reader[r].last \in Nat
  BY <1>1 DEF Types, Clients
<1>3. CASE XRead(r)
  <2>1. Available(r) \subseteq 1..Len(stream[t]) /\ Available(r) # {}
    BY <1>3 DEF XRead, Available
  <2>2. Min(Available(r)) \in 1..Len(stream[t])
    BY <2>1, MinOfNaturals, <1>2
  <2> DEFINE m == Min(Available(r))
             c == [reader[r] EXCEPT !.pc = "got", !.last = m]
  <2>4. reader' = [reader EXCEPT ![r] = c]
    BY <1>3 DEF XRead, Types
  <2> HIDE DEF m
  <2>3. c \in Clients /\ c.task = t /\ c.last = m /\ c.pc = "got"
    <3>1. m \in Nat
      BY <2>2, <1>2 DEF m
    <3> QED
      BY <3>1, <1>1 DEF Clients
  <2> HIDE DEF c
  <2>5. UNCHANGED <<deleted, printed, disturbed>>
    BY <1>3 DEF XRead
  <2> QED
    BY <1>1, <2>2, <2>3, <2>4, <2>5 DEF Types, Positions, LockTypes, m
<1>4. CASE Process(r)
  <2> DEFINE entry == stream[t][reader[r].last]
             c == [reader[r] EXCEPT !.pc = IF entry.type = "action" THEN "returned" ELSE "waiting",
                                    !.rc = IF entry.type = "rc" THEN entry.value ELSE @]
  <2>1. reader[r].pc = "got" /\ reader[r].last \in 1..Len(stream[t])
    BY <1>4 DEF Process, Positions
  <2>2. entry \in Entries
    BY <2>1, <1>2
  <2>3. c \in Clients /\ c.task = t /\ c.pc \in {"returned", "waiting"}
    BY <2>2, <1>1, <1>2 DEF Clients, Entries
  <2>4. reader' = [reader EXCEPT ![r] = c]
    BY <1>4 DEF Process, Types
  <2>5. deleted' = [deleted EXCEPT ![t] = @ \cup {reader[r].last}] /\ UNCHANGED disturbed
    BY <1>4 DEF Process, Taken
  <2>6. printed' \in [Tasks -> Seq(Int)]
    BY <1>4, <1>1, <2>2 DEF Process, Types, Entries
  <2> HIDE DEF c
  <2>7. Types'
    BY <1>1, <1>2, <2>3, <2>4, <2>5, <2>6 DEF Types, LockTypes
  <2>8. Positions'
    BY <1>1, <1>2, <2>1, <2>3, <2>4, <2>5 DEF Types, Positions
  <2> QED
    BY <2>7, <2>8
<1>5. CASE TimeOut(r) \/ Interrupt(r)
  <2> DEFINE c == [reader[r] EXCEPT !.pc = "left", !.last = 0, !.rc = 0]
  <2>1. PICK spoiled \in BOOLEAN : Leave(r, spoiled)
    BY <1>5 DEF TimeOut, Interrupt, LeavesWithRc
  <2>2. c \in Clients /\ c.task = t /\ c.pc = "left"
    BY <1>1, Gone
  <2>3. reader' = [reader EXCEPT ![r] = c]
    BY <2>1 DEF Leave
  <2>4. disturbed' \in SUBSET Tasks
    BY <2>1, <1>1 DEF Leave, Types
  <2>5. \/ UNCHANGED deleted
        \/ /\ deleted' = [deleted EXCEPT ![t] = @ \cup {reader[r].last}]
           /\ reader[r].last \in 1..Len(stream[t])
    BY <1>5 DEF TimeOut, Interrupt, Taken, Positions
  <2>6. UNCHANGED printed
    BY <1>5 DEF TimeOut, Interrupt
  <2> HIDE DEF c
  <2>a. deleted' \in [Tasks -> SUBSET Nat] /\ \A u \in Tasks : deleted'[u] \subseteq 1..Len(stream[u])
    <3>0. deleted \in [Tasks -> SUBSET Nat] /\ \A u \in Tasks : deleted[u] \subseteq 1..Len(stream[u])
      BY DEF Types, Positions
    <3>1. CASE UNCHANGED deleted
      BY <3>0, <3>1
    <3>2. CASE /\ deleted' = [deleted EXCEPT ![t] = @ \cup {reader[r].last}]
               /\ reader[r].last \in 1..Len(stream[t])
      BY <3>0, <3>2, <1>1, <1>2
    <3> QED
      BY <2>5, <3>1, <3>2
  <2>b. reader' \in [Readers -> Clients]
    BY <2>2, <2>3 DEF Types
  <2>7. Types'
    BY <1>1, <2>a, <2>b, <2>4, <2>6 DEF Types, LockTypes
  <2>8. Positions'
    BY <1>1, <2>2, <2>3, <2>a DEF Types, Positions
  <2> QED
    BY <2>7, <2>8
<1> QED
  BY <1>3, <1>4, <1>5

LEMMA FollowTypes ==
  ASSUME Types, Positions, NEW r \in Readers, NEW t \in Watched, Follow(r, t)
  PROVE  Types' /\ Positions'
<1> DEFINE c == [pc |-> "waiting", task |-> t, last |-> 0, rc |-> 0]
<1>0. t \in Tasks
  BY RunnerAssumption DEF RunnerAssumption
<1>1. c \in Clients /\ c.task = t /\ c.pc = "waiting"
  BY <1>0 DEF Clients
<1>2. reader' = [reader EXCEPT ![r] = c] /\ disturbed' \in SUBSET Tasks
  BY <1>0 DEF Follow, Types
<1>3. UNCHANGED <<lock, lapsed, pc, written, exit, consumed, stream, deleted, printed>>
  BY DEF Follow, workerVars, programVars
<1> HIDE DEF c
<1>4. Types'
  BY <1>0, <1>1, <1>2, <1>3 DEF Types, LockTypes
<1> QED
  BY <1>0, <1>1, <1>2, <1>3, <1>4 DEF Types, Positions

-----------------------------------------------------------------------------
(* What a stream holds: the lines the worker has read, then the empty lines  *)
(* of the end of the file, the exit code and, last of all, the end marker.   *)

\* Where a worker is that has nothing to read any more, and where it is after
\* the end marker.
Reported == {"quit", "release", "done", "failed"}
Ended == {"release", "done", "failed"}

\* A stream s of which c entries are lines, for a program that has written w
\* lines, ended with x, and whose worker is at p.
ShapeOf(s, c, w, x, p) ==
  /\ c <= Len(s)
  /\ \A i \in 1..c : s[i] = Stdout(i)
  /\ \A i \in 1..Len(s) : i > c => s[i] \in {Stdout(0), Rc(x), Quit}
  /\ c < Len(s) => x \in {0, 1} /\ (c = w \/ p \in Reported)
  /\ \A i \in 1..Len(s) : s[i] = Rc(x) => p \in Reported
  /\ \A i \in 1..Len(s) : s[i] = Quit =>
       /\ i = Len(s) /\ p \in Ended
       /\ \E j \in 1..Len(s) : j < i /\ s[j] = Rc(x)
  /\ p = "quit" => \E j \in 1..Len(s) : s[j] = Rc(x)
  /\ x = NotStarted <=> p = "queued"
  /\ p \in {"wait", "quit"} => x \in {0, 1}

Shape(t) == ShapeOf(stream[t], consumed[t], written[t], exit[t], pc[t])

\* The worker goes on without a word.
LEMMA ShapeGoto ==
  ASSUME NEW s \in Seq(Entries), NEW c \in Nat, NEW w \in Nat, NEW x \in Int, NEW p, NEW q,
         ShapeOf(s, c, w, x, p),
         x # NotStarted, q # "queued", q # "quit", q = "wait" => x \in {0, 1},
         p \in Reported => q \in Reported, p \in Ended => q \in Ended
  PROVE  ShapeOf(s, c, w, x, q)
BY DEF ShapeOf

\* The program starts, writes a line, exits.
LEMMA ShapeProgram ==
  ASSUME NEW s \in Seq(Entries), NEW c \in Nat, NEW w \in Nat, NEW x \in Int, NEW p,
         ShapeOf(s, c, w, x, p), x \notin {0, 1},
         NEW y \in Int, y # NotStarted, NEW v \in Nat, NEW q, q \notin {"queued", "quit", "wait"},
         p \in Reported => q \in Reported, p \in Ended => q \in Ended
  PROVE  ShapeOf(s, c, v, y, q)
<1>1. c = Len(s)
  BY DEF ShapeOf
<1>2. \A i \in 1..Len(s) : s[i] = Stdout(i)
  BY <1>1 DEF ShapeOf
<1>3. \A i \in 1..Len(s) : s[i] # Rc(y) /\ s[i] # Quit
  BY <1>2, EntryKinds
<1> QED
  BY <1>1, <1>2, <1>3 DEF ShapeOf

\* The worker passes a line on, or the end of the file.
LEMMA ShapeLine ==
  ASSUME NEW s \in Seq(Entries), NEW c \in Nat, NEW w \in Nat, NEW x \in Int,
         ShapeOf(s, c, w, x, "read"), c < w
  PROVE  ShapeOf(Append(s, Stdout(c + 1)), c + 1, w, x, "poll")
<1>1. c = Len(s)
  BY DEF ShapeOf, Reported
<1>2. \A i \in 1..Len(s) : s[i] = Stdout(i)
  BY <1>1 DEF ShapeOf
<1> DEFINE r == Append(s, Stdout(c + 1))
<1>3. Len(r) = Len(s) + 1 /\ \A i \in 1..Len(r) : r[i] = Stdout(i)
  BY <1>1, <1>2, EntryTypes
<1>4. \A i \in 1..Len(r) : r[i] # Rc(x) /\ r[i] # Quit
  BY <1>3, EntryKinds
<1> HIDE DEF r
<1>5. ShapeOf(r, c + 1, w, x, "poll")
  BY <1>1, <1>3, <1>4 DEF ShapeOf, Reported
<1> QED
  BY <1>5 DEF r

LEMMA ShapeEndOfFile ==
  ASSUME NEW s \in Seq(Entries), NEW c \in Nat, NEW w \in Nat, NEW x \in {0, 1},
         ShapeOf(s, c, w, x, "read"), c = w
  PROVE  ShapeOf(Append(s, Stdout(0)), c, w, x, "poll")
<1> DEFINE r == Append(s, Stdout(0))
<1>1. Len(r) = Len(s) + 1 /\ r[Len(r)] = Stdout(0) /\ \A i \in 1..Len(s) : r[i] = s[i]
  BY EntryTypes
<1>2. Stdout(0) # Rc(x) /\ Stdout(0) # Quit
  BY EntryKinds
<1>3. \A i \in 1..Len(s) : s[i] # Rc(x) /\ s[i] # Quit
  BY DEF ShapeOf, Reported, Ended
<1>4. \A i \in 1..Len(r) : r[i] # Rc(x) /\ r[i] # Quit
  BY <1>1, <1>2, <1>3
<1> HIDE DEF r
<1>5. ShapeOf(r, c, w, x, "poll")
  BY <1>1, <1>4 DEF ShapeOf, Reported
<1> QED
  BY <1>5 DEF r

\* The worker reports the exit code, then the end.
LEMMA ShapeExitCode ==
  ASSUME NEW s \in Seq(Entries), NEW c \in Nat, NEW w \in Nat, NEW x \in Int,
         ShapeOf(s, c, w, x, "wait")
  PROVE  ShapeOf(Append(s, Rc(x)), c, w, x, "quit")
<1> DEFINE r == Append(s, Rc(x))
<1>1. Len(r) = Len(s) + 1 /\ r[Len(r)] = Rc(x) /\ \A i \in 1..Len(s) : r[i] = s[i]
  BY EntryTypes
<1>2. Rc(x) # Quit
  BY EntryKinds
<1>3. \A i \in 1..Len(s) : s[i] # Quit
  BY DEF ShapeOf, Ended
<1>4. \A i \in 1..Len(r) : r[i] # Quit
  BY <1>1, <1>2, <1>3
<1> HIDE DEF r
<1>5. ShapeOf(r, c, w, x, "quit")
  BY <1>1, <1>4 DEF ShapeOf, Reported, NotStarted
<1> QED
  BY <1>5 DEF r

LEMMA ShapeEnd ==
  ASSUME NEW s \in Seq(Entries), NEW c \in Nat, NEW w \in Nat, NEW x \in Int,
         ShapeOf(s, c, w, x, "quit")
  PROVE  ShapeOf(Append(s, Quit), c, w, x, "release")
<1> DEFINE r == Append(s, Quit)
<1>1. Len(r) = Len(s) + 1 /\ r[Len(r)] = Quit /\ \A i \in 1..Len(s) : r[i] = s[i]
  BY EntryTypes
<1>2. Rc(x) # Quit
  BY EntryKinds
<1>3. \A i \in 1..Len(s) : s[i] # Quit
  BY DEF ShapeOf, Ended
<1>4. PICK j \in 1..Len(s) : s[j] = Rc(x)
  BY DEF ShapeOf
<1>5. /\ \A i \in 1..Len(r) : r[i] = Quit => i = Len(r)
      /\ r[j] = Rc(x) /\ j \in 1..Len(r) /\ j < Len(r)
  BY <1>1, <1>3, <1>4
<1> HIDE DEF r
<1>6. ShapeOf(r, c, w, x, "release")
  BY <1>1, <1>5 DEF ShapeOf, Reported, Ended, NotStarted
<1> QED
  BY <1>6 DEF r

\* Every step of a worker or a program keeps the shape of its own stream, and
\* what it adds comes after the lines.
LEMMA WorkShape ==
  ASSUME NEW t \in Tasks, Work(t) \/ RunnerRaises(t) \/ Kill(t) \/ Write(t) \/ Exit(t),
         Types, Shape(t)
  PROVE  /\ Shape(t)'
         /\ stream'[t] = stream[t] \/ \E e \in Entries : stream'[t] = Append(stream[t], e)
         /\ \/ consumed'[t] = consumed[t]
            \/ consumed[t] = Len(stream[t]) /\ consumed'[t] = consumed[t] + 1
         /\ exit'[t] = exit[t] \/ consumed[t] = Len(stream[t])
<1> DEFINE s == stream[t]
           c == consumed[t]
           w == written[t]
           x == exit[t]
<1>1. /\ s \in Seq(Entries) /\ c \in Nat /\ w \in Nat /\ x \in Int /\ c <= w
      /\ x \in {NotStarted, StillRuns, 0, 1}
  <2>1. x \in {NotStarted, StillRuns, 0, 1}
    BY DEF Types
  <2> QED
    BY <2>1, Numbers DEF Types
<1>2. ShapeOf(s, c, w, x, pc[t])
  BY DEF Shape
<1>3. pc[t] # "queued" => x # NotStarted
  BY <1>2 DEF ShapeOf
<1>4. \A q : Goto(t, q) => pc'[t] = q
  BY DEF Goto, Types, LockTypes
<1>5. x \notin {0, 1} => c = Len(s)
  BY <1>1, <1>2 DEF ShapeOf
<1>a. Stdout(0) \in Entries /\ Stdout(c + 1) \in Entries /\ Rc(x) \in Entries /\ Quit \in Entries
  BY <1>1, EntryTypes
<1>6. CASE Launch(t)
  <2>1. /\ UNCHANGED <<written, consumed, stream>> /\ exit'[t] = StillRuns
        /\ pc[t] = "queued" /\ pc'[t] = "poll"
    BY <1>6, <1>4 DEF Launch, Types
  <2>2. x \notin {0, 1}
    BY <1>2, <2>1, Numbers DEF ShapeOf
  <2>3. ShapeOf(s, c, w, StillRuns, "poll")
    BY <1>1, <1>2, <2>1, <2>2, Numbers, ShapeProgram DEF Reported, Ended
  <2> QED
    BY <1>5, <2>1, <2>2, <2>3 DEF Shape
<1>7. CASE Poll(t)
  <2>1. UNCHANGED <<written, exit, consumed, stream>> /\ pc[t] = "poll"
    BY <1>7 DEF Poll, programVars
  <2>2. pc'[t] = IF x = StillRuns THEN "read" ELSE "wait"
    BY <1>7, <1>4 DEF Poll, Running
  <2>3. pc'[t] = "wait" => x \in {0, 1}
    BY <1>1, <1>3, <2>1, <2>2
  <2>4. ShapeOf(s, c, w, x, pc'[t])
    BY <1>1, <1>2, <1>3, <2>1, <2>2, <2>3, ShapeGoto DEF Reported, Ended
  <2> QED
    BY <2>1, <2>4 DEF Shape
<1>8. CASE Read(t)
  <2>1. UNCHANGED <<written, exit>> /\ pc[t] = "read" /\ pc'[t] = "poll"
    BY <1>8, <1>4 DEF Read, programVars
  <2>2. CASE /\ c < w /\ consumed' = [consumed EXCEPT ![t] = @ + 1]
             /\ stream' = [stream EXCEPT ![t] = Append(@, Stdout(c + 1))]
    <3>1. consumed'[t] = c + 1 /\ stream'[t] = Append(s, Stdout(c + 1))
      BY <2>2 DEF Types
    <3>2. c = Len(s)
      BY <1>1, <1>2, <2>1, <2>2 DEF ShapeOf, Reported
    <3> QED
      BY <1>1, <1>2, <1>a, <2>1, <2>2, <3>1, <3>2, ShapeLine DEF Shape
  <2>3. CASE /\ c = w /\ ~Running(t) /\ UNCHANGED consumed
             /\ stream' = [stream EXCEPT ![t] = Append(@, Stdout(0))]
    <3>1. stream'[t] = Append(s, Stdout(0))
      BY <2>3 DEF Types
    <3>2. x \in {0, 1}
      BY <1>1, <1>3, <2>1, <2>3 DEF Running
    <3> QED
      BY <1>1, <1>2, <1>a, <2>1, <2>3, <3>1, <3>2, ShapeEndOfFile DEF Shape
  <2> QED
    BY <1>8, <2>2, <2>3 DEF Read
<1>9. CASE Report(t)
  <2>1. UNCHANGED <<written, exit, consumed>>
    BY <1>9 DEF Report, programVars
  <2>2. CASE pc[t] = "wait" /\ stream' = [stream EXCEPT ![t] = Append(@, Rc(x))] /\ Goto(t, "quit")
    <3>1. stream'[t] = Append(s, Rc(x)) /\ pc'[t] = "quit"
      BY <2>2, <1>4 DEF Types
    <3> QED
      BY <1>1, <1>2, <1>a, <2>1, <2>2, <3>1, ShapeExitCode DEF Shape
  <2>3. CASE pc[t] = "quit" /\ stream' = [stream EXCEPT ![t] = Append(@, Quit)] /\ Goto(t, "release")
    <3>1. stream'[t] = Append(s, Quit) /\ pc'[t] = "release"
      BY <2>3, <1>4 DEF Types
    <3> QED
      BY <1>1, <1>2, <1>a, <2>1, <2>3, <3>1, ShapeEnd DEF Shape
  <2> QED
    BY <1>9, <2>2, <2>3 DEF Report, Finish
<1>10. CASE Release(t) \/ RunnerRaises(t) \/ Kill(t)
  <2>1. /\ UNCHANGED <<written, exit, consumed, stream>> /\ pc[t] # "queued"
        /\ pc[t] \in {"poll", "read", "wait", "quit", "release"}
    BY <1>10 DEF Release, RunnerRaises, Kill, Supervised, programVars
  <2>2. pc'[t] \in {"done", "failed"}
    BY <1>10, <1>4 DEF Release, RunnerRaises, Kill
  <2>3. ShapeOf(s, c, w, x, pc'[t])
    BY <1>1, <1>2, <1>3, <2>1, <2>2, ShapeGoto DEF Reported, Ended
  <2> QED
    BY <2>1, <2>3 DEF Shape
<1>11. CASE Write(t) \/ Exit(t)
  <2>1. UNCHANGED <<pc, consumed, stream>> /\ x = StillRuns
    BY <1>11 DEF Write, Exit, workerVars, Running
  <2>2. written'[t] \in Nat /\ exit'[t] \in Int /\ exit'[t] # NotStarted
    <3>1. CASE Write(t)
      BY <1>1, <2>1, <3>1, Numbers DEF Write, Types
    <3>2. CASE Exit(t)
      BY <1>1, <3>2, Numbers DEF Exit, Types
    <3> QED
      BY <1>11, <3>1, <3>2
  <2>3. x \notin {0, 1} /\ pc[t] \notin {"queued", "wait", "quit"}
    BY <1>2, <2>1, Numbers DEF ShapeOf
  <2>4. ShapeOf(s, c, written'[t], exit'[t], pc[t])
    BY <1>1, <1>2, <2>2, <2>3, ShapeProgram
  <2> QED
    BY <1>5, <2>1, <2>3, <2>4 DEF Shape
<1> QED
  BY <1>6, <1>7, <1>8, <1>9, <1>10, <1>11 DEF Work

-----------------------------------------------------------------------------
(* What the clients of a task know of its stream.                            *)

\* Client r follows task t, and has returned from it.
Follows(r, t) == reader[r].task = t /\ reader[r].pc \in {"waiting", "got"}
ReturnedFrom(r, t) == reader[r].task = t /\ reader[r].pc = "returned"

\* The exit code, the end marker is among the first k entries of a stream.
RcAmong(t, k) == \E i \in 1..k : stream[t][i] = Rc(exit[t])
EndAmong(t, k) == \E i \in 1..k : stream[t][i] = Quit

\* The clients of task t came one after the other; together they have taken
\* the first k entries and printed the lines among them.
Reading(t, k) ==
  /\ deleted[t] = 1..k
  /\ Len(printed[t]) = IF k <= consumed[t] THEN k ELSE consumed[t]
  /\ \A i \in 1..Len(printed[t]) : printed[t][i] = i
  /\ \A q, r \in Readers : Follows(q, t) /\ Follows(r, t) => q = r
  /\ \A r \in Readers : Follows(r, t) =>
       /\ ~EndAmong(t, k)
       /\ reader[r].pc = "waiting" => reader[r].last \in {0, k}
       /\ reader[r].pc = "got" => reader[r].last = k + 1 /\ k < Len(stream[t])
       /\ RcAmong(t, k) => reader[r].last >= k /\ reader[r].rc = exit[t]
  /\ RcAmong(t, k) => EndAmong(t, k) \/ \E r \in Readers : Follows(r, t)
  /\ \A r \in Readers : ReturnedFrom(r, t) => EndAmong(t, k) /\ reader[r].rc = exit[t]

OutputInv ==
  /\ Types
  /\ Positions
  /\ \A t \in Tasks : Shape(t)
  /\ \A t \in Tasks : t \notin disturbed => \E k \in 0..Len(stream[t]) : Reading(t, k)

LEMMA InitOutputInv == Init => OutputInv
<1> SUFFICES ASSUME Init PROVE OutputInv
  OBVIOUS
<1>1. ASSUME NEW t \in Tasks PROVE Shape(t)
  BY Numbers DEF Init, Shape, ShapeOf
<1>2. \A r \in Readers : reader[r].pc = "offline"
  BY DEF Init, Offline
<1>3. ASSUME NEW t \in Tasks PROVE 0 \in 0..Len(stream[t]) /\ Reading(t, 0)
  BY <1>2 DEF Init, Reading, Follows, ReturnedFrom, RcAmong, EndAmong
<1> QED
  BY <1>1, <1>3, InitTypes DEF OutputInv

\* Steps of the workers and the programs only add to what there is to read.
LEMMA WorkReading ==
  ASSUME NEW t \in Tasks, Shape(t), stream[t] \in Seq(Entries), consumed[t] \in Nat,
         NEW k \in 0..Len(stream[t]), Reading(t, k), UNCHANGED clientVars,
         stream'[t] = stream[t] \/ \E e \in Entries : stream'[t] = Append(stream[t], e),
         \/ consumed'[t] = consumed[t]
         \/ consumed[t] = Len(stream[t]) /\ consumed'[t] = consumed[t] + 1,
         \/ exit'[t] = exit[t]
         \/ exit[t] \in Int /\ exit'[t] \in Int /\ consumed[t] = Len(stream[t])
  PROVE  k \in 0..Len(stream'[t]) /\ Reading(t, k)'
<1>1. /\ Len(stream[t]) \in Nat /\ Len(stream'[t]) \in Nat /\ Len(stream[t]) <= Len(stream'[t])
      /\ \A i \in 1..k : stream'[t][i] = stream[t][i]
  <2>1. CASE stream'[t] = stream[t]
    BY <2>1
  <2>2. ASSUME NEW e \in Entries, stream'[t] = Append(stream[t], e)
        PROVE  /\ Len(stream'[t]) = Len(stream[t]) + 1
               /\ \A i \in 1..Len(stream[t]) : stream'[t][i] = stream[t][i]
    BY <2>2
  <2> QED
    BY <2>1, <2>2
<1>2. EndAmong(t, k)' <=> EndAmong(t, k)
  BY <1>1 DEF EndAmong
<1>3. (RcAmong(t, k)' <=> RcAmong(t, k)) /\ (RcAmong(t, k) => exit'[t] = exit[t])
  <2>1. CASE exit'[t] = exit[t]
    BY <1>1, <2>1 DEF RcAmong
  <2>2. CASE exit[t] \in Int /\ exit'[t] \in Int /\ consumed[t] = Len(stream[t])
    <3>1. \A i \in 1..k : stream[t][i] = Stdout(i)
      BY <2>2, <1>1 DEF Shape, ShapeOf
    <3>2. \A i \in 1..k : stream[t][i] # Rc(exit[t]) /\ stream'[t][i] # Rc(exit'[t])
      BY <3>1, <2>2, <1>1, EntryKinds
    <3> QED
      BY <3>2 DEF RcAmong
  <2> QED
    BY <2>1, <2>2
<1>4. EndAmong(t, k) => exit'[t] = exit[t]
  <2>1. CASE consumed[t] = Len(stream[t])
    <3>1. \A i \in 1..k : stream[t][i] = Stdout(i) /\ i \in Int
      BY <2>1, <1>1 DEF Shape, ShapeOf
    <3> QED
      BY <3>1, EntryKinds DEF EndAmong
  <2> QED
    BY <2>1
<1>5. \A r : (Follows(r, t)' <=> Follows(r, t)) /\ (ReturnedFrom(r, t)' <=> ReturnedFrom(r, t))
  BY DEF Follows, ReturnedFrom, clientVars
<1>6. (IF k <= consumed'[t] THEN k ELSE consumed'[t]) = IF k <= consumed[t] THEN k ELSE consumed[t]
  BY <1>1
<1>7. UNCHANGED <<deleted, reader, printed>>
  BY DEF clientVars
<1> QED
  BY <1>1, <1>2, <1>3, <1>4, <1>5, <1>6, <1>7 DEF Reading

\* A client changes nothing for the clients of another task.
LEMMA OthersReading ==
  ASSUME NEW r \in Readers, NEW c, reader' = [reader EXCEPT ![r] = c],
         NEW u \in Tasks, ~Follows(r, u), ~ReturnedFrom(r, u), c.task # u,
         deleted'[u] = deleted[u], printed'[u] = printed[u],
         UNCHANGED <<consumed, exit, stream>>, Types,
         NEW k, Reading(u, k)
  PROVE  Reading(u, k)'
<1>1. \A q \in Readers : (Follows(q, u)' <=> Follows(q, u)) /\ (ReturnedFrom(q, u)' <=> ReturnedFrom(q, u))
  BY DEF Follows, ReturnedFrom, Types
<1>2. \A q \in Readers : Follows(q, u) \/ ReturnedFrom(q, u) => reader'[q] = reader[q]
  BY DEF Types
<1>3. (EndAmong(u, k)' <=> EndAmong(u, k)) /\ (RcAmong(u, k)' <=> RcAmong(u, k))
  BY DEF EndAmong, RcAmong
<1> QED
  BY <1>1, <1>2, <1>3 DEF Reading

\* The clients' terms and the model's.
LEMMA Known ==
  ASSUME Types, Positions, NEW t \in Tasks, Shape(t), NEW k \in 0..Len(stream[t]), Reading(t, k)
  PROVE  /\ stream[t] \in Seq(Entries) /\ consumed[t] \in Nat /\ Len(stream[t]) \in Nat
         /\ k \in Nat /\ k <= Len(stream[t]) /\ consumed[t] <= Len(stream[t]) /\ exit[t] \in Int
         /\ EndTaken(t) <=> EndAmong(t, k)
         /\ Following(t) = {r \in Readers : Follows(r, t)}
         /\ \A i \in 1..consumed[t] : stream[t][i] = Stdout(i)
         /\ \A i \in 1..Len(stream[t]) :
              i > consumed[t] => stream[t][i] \in {Stdout(0), Rc(exit[t]), Quit}
<1>1. exit[t] \in {NotStarted, StillRuns, 0, 1}
  BY DEF Types
<1>2. exit[t] \in Int
  BY <1>1, Numbers
<1>3. deleted[t] = 1..k
  BY DEF Reading
<1>4. EndTaken(t) <=> EndAmong(t, k)
  BY <1>3 DEF EndTaken, EndAmong
<1>5. Following(t) = {r \in Readers : Follows(r, t)}
  BY DEF Following, Follows
<1> QED
  BY <1>2, <1>4, <1>5 DEF Types, Shape, ShapeOf

\* XREAD gives the only client the first entry that is left.
LEMMA XReadReading ==
  ASSUME Types, Positions, NEW r \in Readers, XRead(r),
         NEW t, t = reader[r].task, Shape(t), NEW k \in 0..Len(stream[t]), Reading(t, k)
  PROVE  Reading(t, k)'
<1>0. t \in Tasks /\ reader[r].pc = "waiting" /\ Follows(r, t)
  BY DEF XRead, Positions, Follows
<1>1. reader[r].last \in {0, k}
  BY <1>0 DEF Reading
<1>2. /\ Len(stream[t]) \in Nat /\ k \in Nat /\ k <= Len(stream[t])
  BY <1>0, Known
<1>3. Available(r) = (k + 1)..Len(stream[t])
  BY <1>1, <1>2 DEF Available, Reading
<1>4. Available(r) # {}
  BY DEF XRead
<1>5. k + 1 \in Available(r) /\ \A i \in Available(r) : k + 1 <= i
  BY <1>2, <1>3, <1>4
<1>6. Min(Available(r)) = k + 1 /\ k < Len(stream[t])
  BY <1>2, <1>3, <1>5 DEF Min
<1> DEFINE c == [reader[r] EXCEPT !.pc = "got", !.last = k + 1]
<1>7. reader' = [reader EXCEPT ![r] = c]
  BY <1>6 DEF XRead, Types
<1>8. c.task = t /\ c.pc = "got" /\ c.last = k + 1 /\ c.rc = reader[r].rc
  BY DEF Types, Clients
<1>9. UNCHANGED <<exit, consumed, stream, deleted, printed>>
  BY DEF XRead, programVars
<1> HIDE DEF c
<1>10. \A q \in Readers : (Follows(q, t)' <=> Follows(q, t)) /\ (ReturnedFrom(q, t)' <=> ReturnedFrom(q, t))
  BY <1>0, <1>7, <1>8 DEF Types, Follows, ReturnedFrom
<1>11. (EndAmong(t, k)' <=> EndAmong(t, k)) /\ (RcAmong(t, k)' <=> RcAmong(t, k))
  BY <1>9 DEF EndAmong, RcAmong
<1>12. \A q \in Readers : Follows(q, t) => q = r
  BY <1>0 DEF Reading
<1>13. reader'[r] = c /\ \A q \in Readers \ {r} : reader'[q] = reader[q]
  BY <1>7 DEF Types
<1>14. \A q \in Readers : ReturnedFrom(q, t) => q # r
  BY <1>0 DEF ReturnedFrom
<1> QED
  BY <1>0, <1>2, <1>6, <1>8, <1>9, <1>10, <1>11, <1>12, <1>13, <1>14 DEF Reading

\* A client that leaves without the exit code leaves the rest to the next.
LEMMA LeaveReading ==
  ASSUME Types, Positions, NEW r \in Readers, reader[r].pc \in {"waiting", "got"},
         ~LeavesWithRc(r), Leave(r, FALSE), UNCHANGED <<exit, consumed, stream, deleted, printed>>,
         NEW t, t = reader[r].task, Shape(t), NEW k \in 0..Len(stream[t]), Reading(t, k)
  PROVE  Reading(t, k)'
<1>0. t \in Tasks /\ Follows(r, t) /\ reader[r] \in Clients
  BY DEF Positions, Follows, Types
<1>1. /\ Len(stream[t]) \in Nat /\ k \in Nat /\ k <= Len(stream[t]) /\ exit[t] \in Int
  BY <1>0, Known
<1>2. ~RcAmong(t, k)
  <2> SUFFICES ASSUME RcAmong(t, k) PROVE FALSE
    OBVIOUS
  <2>1. PICK i \in 1..k : stream[t][i] = Rc(exit[t])
    BY DEF RcAmong
  <2>2. reader[r].last >= k /\ reader[r].last \in Nat
    BY <1>0 DEF Reading, Clients
  <2>3. i \in deleted[t] /\ i <= reader[r].last
    BY <2>1, <2>2, <1>1 DEF Reading
  <2> QED
    BY <2>1, <2>3, <1>1, EntryKinds DEF LeavesWithRc
<1> DEFINE c == [reader[r] EXCEPT !.pc = "left", !.last = 0, !.rc = 0]
<1>3. c.task = t /\ c.pc = "left"
  BY <1>0, Gone
<1>4. reader' = [reader EXCEPT ![r] = c]
  BY DEF Leave
<1> HIDE DEF c
<1>5. reader'[r] = c /\ \A q \in Readers \ {r} : reader'[q] = reader[q]
  BY <1>4 DEF Types
<1>6. \A q \in Readers : Follows(q, t) => q = r
  BY <1>0 DEF Reading
<1>7. \A q \in Readers : ~Follows(q, t)' /\ (ReturnedFrom(q, t)' => ReturnedFrom(q, t) /\ q # r)
  BY <1>3, <1>5, <1>6 DEF Follows, ReturnedFrom
<1>8. (EndAmong(t, k)' <=> EndAmong(t, k)) /\ (RcAmong(t, k)' <=> RcAmong(t, k))
  BY DEF EndAmong, RcAmong
<1> QED
  BY <1>2, <1>5, <1>7, <1>8 DEF Reading

\* The first client, or the next one after one that has left.
LEMMA FollowReading ==
  ASSUME Types, Positions, NEW r \in Readers, NEW t \in Tasks, Follow(r, t),
         Following(t) = {}, ~EndTaken(t),
         Shape(t), NEW k \in 0..Len(stream[t]), Reading(t, k)
  PROVE  Reading(t, k)'
<1>1. ~EndAmong(t, k) /\ ~RcAmong(t, k) /\ \A q \in Readers : ~Follows(q, t)
  BY Known DEF Reading
<1> DEFINE c == [pc |-> "waiting", task |-> t, last |-> 0, rc |-> 0]
<1>2. c.task = t /\ c.pc = "waiting" /\ c.last = 0
  OBVIOUS
<1>3. reader' = [reader EXCEPT ![r] = c] /\ UNCHANGED <<exit, consumed, stream, deleted, printed>>
  BY DEF Follow, programVars
<1> HIDE DEF c
<1>4. reader'[r] = c /\ \A q \in Readers \ {r} : reader'[q] = reader[q]
  BY <1>3 DEF Types
<1>5. \A q \in Readers : (Follows(q, t)' => q = r) /\ (ReturnedFrom(q, t)' => ReturnedFrom(q, t) /\ q # r)
  BY <1>1, <1>2, <1>4 DEF Follows, ReturnedFrom
<1>6. ~EndAmong(t, k)' /\ ~RcAmong(t, k)'
  BY <1>1, <1>3 DEF EndAmong, RcAmong
<1> QED
  BY <1>1, <1>2, <1>3, <1>4, <1>5, <1>6 DEF Reading

\* The only client acts upon the entry it has been given.
LEMMA ProcessReading ==
  ASSUME Types, Positions, NEW r \in Readers, Process(r),
         NEW t, t = reader[r].task, Shape(t), NEW k \in 0..Len(stream[t]), Reading(t, k)
  PROVE  k + 1 \in 0..Len(stream[t]) /\ Reading(t, k + 1)'
<1>0. /\ t \in Tasks /\ reader[r].pc = "got" /\ Follows(r, t) /\ reader[r] \in Clients
      /\ reader[r].last = k + 1 /\ k < Len(stream[t]) /\ ~EndAmong(t, k)
  BY DEF Process, Positions, Follows, Reading, Types
<1>1. /\ Len(stream[t]) \in Nat /\ k \in Nat /\ exit[t] \in Int /\ consumed[t] \in Nat
      /\ consumed[t] <= Len(stream[t]) /\ stream[t] \in Seq(Entries)
  BY <1>0, Known
<1> DEFINE entry == stream[t][k + 1]
           newpc == IF entry.type = "action" THEN "returned" ELSE "waiting"
           newrc == IF entry.type = "rc" THEN entry.value ELSE reader[r].rc
           c == [reader[r] EXCEPT !.pc = newpc, !.rc = newrc]
<1>2. /\ reader' = [reader EXCEPT ![r] = c]
      /\ UNCHANGED <<exit, consumed, stream>>
  <2> DEFINE given == stream[reader[r].task][reader[r].last]
  <2>1. reader' = [reader EXCEPT ![r] =
          [reader[r] EXCEPT !.pc = IF given.type = "action" THEN "returned" ELSE "waiting",
                            !.rc = IF given.type = "rc" THEN given.value ELSE reader[r].rc]]
    BY DEF Process, Types
  <2>2. given = entry
    BY <1>0
  <2> HIDE DEF given
  <2>3. reader' = [reader EXCEPT ![r] = c]
    BY <2>1, <2>2
  <2> QED
    BY <2>3 DEF Process, programVars
<1>3. deleted'[t] = 1..(k + 1)
  <2>1. deleted'[t] = deleted[t] \cup {k + 1}
    BY <1>0 DEF Process, Taken, Types
  <2>2. deleted[t] = 1..k
    BY DEF Reading
  <2> QED
    BY <2>1, <2>2, <1>1
<1>4. c.task = t /\ c.pc = newpc /\ c.rc = newrc /\ c.last = k + 1
  BY <1>0 DEF Clients
<1>5. printed'[t] = IF entry.type = "stdout" /\ entry.value # 0
                    THEN Append(printed[t], entry.value) ELSE printed[t]
  BY <1>0 DEF Process, Types
<1>6. \/ k + 1 <= consumed[t] /\ entry = Stdout(k + 1)
      \/ k + 1 > consumed[t] /\ entry \in {Stdout(0), Rc(exit[t]), Quit}
  <2>1. k + 1 \in 1..Len(stream[t])
    BY <1>0, <1>1
  <2> QED
    BY <1>0, <1>1, <2>1, Known
<1>7. /\ entry = Rc(exit[t]) <=> entry.type = "rc"
      /\ entry = Quit <=> entry.type = "action"
      /\ entry.type = "rc" => entry.value = exit[t]
  BY <1>1, <1>6, EntryKinds
<1>8. /\ Len(printed'[t]) = IF k + 1 <= consumed[t] THEN k + 1 ELSE consumed[t]
      /\ \A i \in 1..Len(printed'[t]) : printed'[t][i] = i
  <2>0. /\ printed[t] \in Seq(Int)
        /\ Len(printed[t]) = IF k <= consumed[t] THEN k ELSE consumed[t]
        /\ \A i \in 1..Len(printed[t]) : printed[t][i] = i
    BY <1>0 DEF Types, Reading
  <2>1. CASE k + 1 <= consumed[t] /\ entry = Stdout(k + 1)
    <3>1. printed'[t] = Append(printed[t], k + 1)
      BY <1>1, <1>5, <2>1, EntryKinds
    <3> QED
      BY <1>1, <2>0, <2>1, <3>1
  <2>2. CASE k + 1 > consumed[t] /\ entry \in {Stdout(0), Rc(exit[t]), Quit}
    <3>1. printed'[t] = printed[t]
      BY <1>1, <1>5, <2>2, EntryKinds
    <3> QED
      BY <1>1, <2>0, <2>2, <3>1
  <2> QED
    BY <1>6, <2>1, <2>2
<1>9. /\ EndAmong(t, k + 1)' <=> EndAmong(t, k) \/ entry = Quit
      /\ RcAmong(t, k + 1)' <=> RcAmong(t, k) \/ entry = Rc(exit[t])
  <2>1. \A i : i \in 1..(k + 1) <=> i \in 1..k \/ i = k + 1
    BY <1>1
  <2> QED
    BY <2>1, <1>2 DEF EndAmong, RcAmong
<1>10. entry = Quit => RcAmong(t, k)
  <2> SUFFICES ASSUME entry = Quit PROVE RcAmong(t, k)
    OBVIOUS
  <2>1. k + 1 \in 1..Len(stream[t])
    BY <1>0, <1>1
  <2>2. PICK j \in 1..Len(stream[t]) : j < k + 1 /\ stream[t][j] = Rc(exit[t])
    BY <2>1 DEF Shape, ShapeOf
  <2> QED
    BY <2>2, <1>1 DEF RcAmong
<1>11. /\ RcAmong(t, k) => reader[r].rc = exit[t]
       /\ RcAmong(t, k) /\ entry # Rc(exit[t]) => newrc = exit[t]
       /\ entry = Rc(exit[t]) => newrc = exit[t]
  BY <1>0, <1>7 DEF Reading
<1>12. /\ \A q \in Readers : Follows(q, t) => q = r
       /\ \A q \in Readers : ~ReturnedFrom(q, t)
  BY <1>0 DEF Reading
<1>13. newpc = "returned" <=> entry = Quit
  BY <1>7
<1>14. newpc \in {"waiting", "returned"}
  OBVIOUS
<1> HIDE DEF c, entry, newpc, newrc
<1>15. reader'[r] = c /\ \A q \in Readers \ {r} : reader'[q] = reader[q]
  BY <1>2 DEF Types
<1>16. /\ \A q \in Readers : Follows(q, t)' <=> q = r /\ entry # Quit
       /\ \A q \in Readers : ReturnedFrom(q, t)' <=> q = r /\ entry = Quit
  BY <1>4, <1>12, <1>13, <1>14, <1>15 DEF Follows, ReturnedFrom
<1>17. ASSUME NEW q \in Readers, Follows(q, t)'
       PROVE  /\ ~EndAmong(t, k + 1)'
              /\ reader'[q].pc = "waiting" /\ reader'[q].last = k + 1
              /\ RcAmong(t, k + 1)' => reader'[q].rc = exit[t]
  <2>1. q = r /\ entry # Quit
    BY <1>16, <1>17
  <2> QED
    BY <2>1, <1>0, <1>4, <1>9, <1>11, <1>13, <1>14, <1>15
<1>18. ASSUME NEW q \in Readers, ReturnedFrom(q, t)'
       PROVE  EndAmong(t, k + 1)' /\ reader'[q].rc = exit[t]
  <2>1. q = r /\ entry = Quit
    BY <1>16, <1>18
  <2> QED
    BY <2>1, <1>4, <1>9, <1>10, <1>11, <1>15
<1>19. RcAmong(t, k + 1)' => EndAmong(t, k + 1)' \/ \E q \in Readers : Follows(q, t)'
  BY <1>9, <1>16
<1>20. \A p, q \in Readers : Follows(p, t)' /\ Follows(q, t)' => p = q
  BY <1>16
<1>21. exit' = exit /\ consumed' = consumed /\ k + 1 \in 0..Len(stream[t])
  BY <1>0, <1>1, <1>2
<1> QED
  BY <1>1, <1>3, <1>8, <1>17, <1>18, <1>19, <1>20, <1>21 DEF Reading

\* A client takes the common reading of its task one step further, or spoils
\* it; it does nothing to the other tasks.
LEMMA ClientReading ==
  ASSUME OutputInv, NEW r \in Readers, XRead(r) \/ Process(r) \/ TimeOut(r) \/ Interrupt(r),
         NEW u \in Tasks, u \notin disturbed'
  PROVE  \E k \in 0..Len(stream'[u]) : Reading(u, k)'
<1> DEFINE t == reader[r].task
<1>1. /\ UNCHANGED <<exit, consumed, stream>> /\ t \in Tasks
      /\ reader[r].pc \in {"waiting", "got"} /\ Types /\ Positions /\ Shape(u)
  BY DEF XRead, Process, TimeOut, Interrupt, OutputInv, Positions, programVars
<1>2. u \notin disturbed
  BY DEF XRead, Process, TimeOut, Interrupt, Leave
<1>3. PICK k \in 0..Len(stream[u]) : Reading(u, k)
  BY <1>2 DEF OutputInv
<1>4. CASE u # t
  <2>1. \E c : reader' = [reader EXCEPT ![r] = c] /\ c.task = t
    <3>1. CASE XRead(r)
      <4> DEFINE c == [reader[r] EXCEPT !.pc = "got", !.last = Min(Available(r))]
      <4>1. reader' = [reader EXCEPT ![r] = c]
        BY <3>1, <1>1 DEF XRead, Types
      <4>2. c.task = t
        BY <1>1 DEF Types, Clients
      <4> HIDE DEF c
      <4> QED
        BY <4>1, <4>2
    <3>2. CASE Process(r)
      <4> DEFINE entry == stream[t][reader[r].last]
                 c == [reader[r] EXCEPT !.pc = IF entry.type = "action" THEN "returned" ELSE "waiting",
                                        !.rc = IF entry.type = "rc" THEN entry.value ELSE @]
      <4>1. reader' = [reader EXCEPT ![r] = c]
        BY <3>2, <1>1 DEF Process, Types
      <4>2. c.task = t
        BY <1>1 DEF Types, Clients
      <4> HIDE DEF c
      <4> QED
        BY <4>1, <4>2
    <3>3. CASE TimeOut(r) \/ Interrupt(r)
      <4>1. reader' = [reader EXCEPT ![r] = [reader[r] EXCEPT !.pc = "left", !.last = 0, !.rc = 0]]
        BY <3>3 DEF TimeOut, Interrupt, Leave
      <4>2. reader[r] \in Clients
        BY <1>1 DEF Types
      <4> QED
        BY <4>1, <4>2, Gone
    <3> QED
      BY <3>1, <3>2, <3>3
  <2>2. deleted'[u] = deleted[u]
    BY <1>1, <1>4 DEF XRead, Process, TimeOut, Interrupt, Types
  <2>3. printed'[u] = printed[u]
    BY <1>1, <1>4 DEF XRead, Process, TimeOut, Interrupt, Types
  <2>4. ~Follows(r, u) /\ ~ReturnedFrom(r, u)
    BY <1>4 DEF Follows, ReturnedFrom
  <2>5. Reading(u, k)'
    BY <1>1, <1>3, <1>4, <2>1, <2>2, <2>3, <2>4, OthersReading
  <2> QED
    BY <1>1, <1>3, <2>5
<1>5. CASE u = t /\ XRead(r)
  BY <1>1, <1>3, <1>5, XReadReading
<1>6. CASE u = t /\ Process(r)
  <2>1. k + 1 \in 0..Len(stream[u]) /\ Reading(u, k + 1)'
    BY <1>1, <1>3, <1>6, ProcessReading
  <2> QED
    BY <1>1, <2>1
<1>7. CASE u = t /\ (TimeOut(r) \/ Interrupt(r))
  <2>1. \/ Leave(r, LeavesWithRc(r)) /\ UNCHANGED deleted
        \/ Leave(r, TRUE)
    BY <1>7 DEF TimeOut, Interrupt
  <2>2. ~Leave(r, TRUE)
    BY <1>7 DEF Leave
  <2>3. ~LeavesWithRc(r) /\ Leave(r, FALSE)
    BY <2>1, <2>2 DEF LeavesWithRc
  <2>4. UNCHANGED printed
    BY <1>7 DEF TimeOut, Interrupt
  <2>5. Reading(u, k)'
    BY <1>1, <1>3, <1>7, <2>1, <2>2, <2>3, <2>4, LeaveReading
  <2> QED
    BY <1>1, <1>3, <2>5
<1> QED
  BY <1>4, <1>5, <1>6, <1>7

LEMMA StepOutputInv == OutputInv /\ [Next]_vars => OutputInv'
<1> SUFFICES ASSUME OutputInv, [Next]_vars PROVE OutputInv'
  OBVIOUS
<1>0. Types /\ Positions /\ \A u \in Tasks : Shape(u)
  BY DEF OutputInv
<1>1. ASSUME NEW t \in Tasks, Work(t) \/ RunnerRaises(t) \/ Kill(t) \/ Write(t) \/ Exit(t)
      PROVE  OutputInv'
  <2>1. Types' /\ Positions'
    BY <1>0, <1>1, WorkTypes, StreamsGrow
  <2>2. UNCHANGED clientVars
    BY <1>1 DEF Work, Launch, Poll, Read, Report, Release, RunnerRaises, Kill, Write, Exit
  <2>3. ASSUME NEW u \in Tasks
        PROVE  /\ Shape(u)'
               /\ stream'[u] = stream[u] \/ \E e \in Entries : stream'[u] = Append(stream[u], e)
               /\ \/ consumed'[u] = consumed[u]
                  \/ consumed[u] = Len(stream[u]) /\ consumed'[u] = consumed[u] + 1
               /\ exit'[u] = exit[u] \/ consumed[u] = Len(stream[u])
    <3>1. CASE u = t
      BY <1>0, <1>1, <3>1, WorkShape
    <3>2. CASE u # t
      <4>1. /\ pc'[u] = pc[u] /\ written'[u] = written[u] /\ consumed'[u] = consumed[u]
            /\ exit'[u] = exit[u] /\ stream'[u] = stream[u]
        BY <1>0, <1>1, <3>2, OthersStay
      <4> QED
        BY <1>0, <4>1 DEF Shape
    <3> QED
      BY <3>1, <3>2
  <2>4. ASSUME NEW u \in Tasks, u \notin disturbed'
        PROVE  \E k \in 0..Len(stream'[u]) : Reading(u, k)'
    <3>1. PICK k \in 0..Len(stream[u]) : Reading(u, k)
      BY <2>2, <2>4 DEF OutputInv, clientVars
    <3>2. stream[u] \in Seq(Entries) /\ consumed[u] \in Nat
      BY <1>0 DEF Types
    <3>3. exit[u] \in Int /\ exit'[u] \in Int
      <4>1. exit[u] \in {NotStarted, StillRuns, 0, 1} /\ exit'[u] \in {NotStarted, StillRuns, 0, 1}
        BY <1>0, <2>1 DEF Types
      <4> QED
        BY <4>1, Numbers
    <3>4. /\ stream'[u] = stream[u] \/ \E e \in Entries : stream'[u] = Append(stream[u], e)
          /\ \/ consumed'[u] = consumed[u]
             \/ consumed[u] = Len(stream[u]) /\ consumed'[u] = consumed[u] + 1
          /\ \/ exit'[u] = exit[u]
             \/ exit[u] \in Int /\ exit'[u] \in Int /\ consumed[u] = Len(stream[u])
      BY <2>3, <3>3
    <3>5. k \in 0..Len(stream'[u]) /\ Reading(u, k)'
      BY <1>0, <2>2, <3>1, <3>2, <3>4, WorkReading
    <3> QED
      BY <3>5
  <2> QED
    BY <2>1, <2>3, <2>4 DEF OutputInv
<1>2. CASE AutoRelease
  <2>1. UNCHANGED <<pc, written, exit, consumed, stream, deleted, reader, printed, disturbed>>
    BY <1>2 DEF AutoRelease, programVars, clientVars
  <2>2. Types' /\ Positions'
    BY <1>0, <1>2, <2>1 DEF AutoRelease, Types, LockTypes, Positions
  <2>3. \A u \in Tasks : Shape(u)'
    BY <1>0, <2>1 DEF Shape
  <2>4. \A u \in Tasks, k \in Nat : Reading(u, k) => Reading(u, k)'
    BY <2>1 DEF Reading, Follows, ReturnedFrom, EndAmong, RcAmong
  <2>5. \A u \in Tasks : u \notin disturbed' => \E k \in 0..Len(stream'[u]) : Reading(u, k)'
    BY <2>1, <2>4 DEF OutputInv
  <2> QED
    BY <2>2, <2>3, <2>5 DEF OutputInv
<1>3. ASSUME NEW r \in Readers, XRead(r) \/ Process(r) \/ TimeOut(r) \/ Interrupt(r)
      PROVE  OutputInv'
  <2>1. Types' /\ Positions'
    BY <1>0, <1>3, ClientTypes
  <2>2. UNCHANGED <<pc, written, exit, consumed, stream>>
    BY <1>3 DEF XRead, Process, TimeOut, Interrupt, workerVars, programVars
  <2>3. \A u \in Tasks : Shape(u)'
    BY <1>0, <2>2 DEF Shape
  <2>4. ASSUME NEW u \in Tasks, u \notin disturbed'
        PROVE  \E k \in 0..Len(stream'[u]) : Reading(u, k)'
    BY <1>3, <2>4, ClientReading
  <2> QED
    BY <2>1, <2>3, <2>4 DEF OutputInv
<1>4. ASSUME NEW r \in Readers, NEW t \in Watched, Follow(r, t) PROVE OutputInv'
  <2>0. t \in Tasks
    BY RunnerAssumption DEF RunnerAssumption
  <2>1. Types' /\ Positions'
    BY <1>0, <1>4, FollowTypes
  <2>2. UNCHANGED <<pc, written, exit, consumed, stream, deleted, printed>>
    BY <1>4 DEF Follow, workerVars, programVars
  <2>3. \A u \in Tasks : Shape(u)'
    BY <1>0, <2>2 DEF Shape
  <2>4. ASSUME NEW u \in Tasks, u \notin disturbed'
        PROVE  \E k \in 0..Len(stream'[u]) : Reading(u, k)'
    <3>1. u \notin disturbed /\ (u = t => Following(t) = {} /\ ~EndTaken(t))
      BY <1>4, <2>4 DEF Follow
    <3>2. PICK k \in 0..Len(stream[u]) : Reading(u, k)
      BY <3>1 DEF OutputInv
    <3>3. CASE u = t
      BY <1>0, <1>4, <2>2, <3>1, <3>2, <3>3, FollowReading
    <3>4. CASE u # t
      <4>1. ~Follows(r, u) /\ ~ReturnedFrom(r, u)
        BY <1>4 DEF Follow, Follows, ReturnedFrom
      <4>2. \E c : reader' = [reader EXCEPT ![r] = c] /\ c.task = t
        <5> DEFINE c == [pc |-> "waiting", task |-> t, last |-> 0, rc |-> 0]
        <5>1. reader' = [reader EXCEPT ![r] = c] /\ c.task = t
          BY <1>4 DEF Follow
        <5> HIDE DEF c
        <5> QED
          BY <5>1
      <4> QED
        BY <1>0, <2>2, <3>2, <3>4, <4>1, <4>2, OthersReading
    <3> QED
      BY <3>3, <3>4
  <2> QED
    BY <2>1, <2>3, <2>4 DEF OutputInv
<1>5. CASE UNCHANGED vars
  <2>1. UNCHANGED <<lock, lapsed, pc, written, exit, consumed, stream, deleted, reader, printed, disturbed>>
    BY <1>5 DEF vars
  <2>2. Types' /\ Positions' /\ \A u \in Tasks : Shape(u)'
    BY <1>0, <2>1 DEF Types, LockTypes, Positions, Shape
  <2>3. \A u \in Tasks, k \in Nat : Reading(u, k) => Reading(u, k)'
    BY <2>1 DEF Reading, Follows, ReturnedFrom, EndAmong, RcAmong
  <2>4. \A u \in Tasks : u \notin disturbed' => \E k \in 0..Len(stream'[u]) : Reading(u, k)'
    BY <2>1, <2>3 DEF OutputInv
  <2> QED
    BY <2>2, <2>4 DEF OutputInv
<1> QED
  BY <1>1, <1>2, <1>3, <1>4, <1>5 DEF Next

\* Once the end marker is taken, the lines are all printed.
LEMMA OutputInvPrinted == OutputInv => PrintedInOrder
<1> SUFFICES ASSUME OutputInv, NEW t \in Tasks, t \notin disturbed
             PROVE  /\ Len(printed[t]) <= written[t]
                    /\ \A i \in 1..Len(printed[t]) : printed[t][i] = i
                    /\ \A r \in Readers : reader[r].pc = "returned" /\ reader[r].task = t =>
                         Len(printed[t]) = consumed[t]
  BY DEF PrintedInOrder
<1>1. PICK k \in 0..Len(stream[t]) : Reading(t, k)
  BY DEF OutputInv
<1>2. /\ consumed[t] \in Nat /\ written[t] \in Nat /\ k \in Nat /\ Len(stream[t]) \in Nat
      /\ k <= Len(stream[t]) /\ consumed[t] <= written[t]
      /\ \A i \in 1..consumed[t] : stream[t][i] = Stdout(i)
  BY <1>1, Known DEF OutputInv, Types
<1>3. /\ Len(printed[t]) = IF k <= consumed[t] THEN k ELSE consumed[t]
      /\ \A i \in 1..Len(printed[t]) : printed[t][i] = i
  BY <1>1 DEF Reading
<1>4. ASSUME NEW r \in Readers, reader[r].pc = "returned", reader[r].task = t
      PROVE  Len(printed[t]) = consumed[t]
  <2>1. PICK i \in 1..k : stream[t][i] = Quit
    BY <1>1, <1>4 DEF Reading, ReturnedFrom, EndAmong
  <2>2. i > consumed[t]
    BY <1>2, <2>1, EntryKinds
  <2> QED
    BY <1>2, <1>3, <2>2
<1> QED
  BY <1>2, <1>3, <1>4

LEMMA OutputInvRc == OutputInv => RcFaithful
<1> SUFFICES ASSUME OutputInv, NEW r \in Readers,
                    reader[r].pc = "returned", reader[r].task \notin disturbed
             PROVE  reader[r].rc = exit[reader[r].task]
  BY DEF RcFaithful
<1>1. reader[r].task \in Tasks
  BY DEF OutputInv, Positions
<1>2. PICK k \in 0..Len(stream[reader[r].task]) : Reading(reader[r].task, k)
  BY <1>1 DEF OutputInv
<1> QED
  BY <1>2 DEF Reading, ReturnedFrom

\* The clients of a task that follow it one after the other print the lines
\* the worker has read, in order, each once and, once one of them has come to
\* the end marker, all of them.
THEOREM Printed == Spec => []PrintedInOrder
BY InitOutputInv, StepOutputInv, OutputInvPrinted, PTL DEF Spec

\* A client that has come to the end marker returns the program's exit code.
THEOREM ExitCode == Spec => []RcFaithful
BY InitOutputInv, StepOutputInv, OutputInvRc, PTL DEF Spec

=============================================================================
