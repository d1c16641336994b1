------------------------- MODULE NotificationsProofs -------------------------
(***************************************************************************)
(* Proofs about Notifications, for any clients, events and filters, any    *)
(* exchanges and any states of a node.  Whatever part is picked, a step is *)
(* one of the part's, or leaves it alone: Notifications implements each    *)
(* part's own specification, and so the theorems of EventBridgeProofs hold *)
(* of it.  The inductive invariants are those of the parts.                *)
(***************************************************************************)
EXTENDS Notifications, EventBridgeProofs

managerSpec  == Manager!Init /\ [][Manager!Next]_managerVars
listenerSpec == Listening!listenerInit /\ [][Listening!listenerNext]_listenerVars

-----------------------------------------------------------------------------
(* The manager.                                                              *)

\* The thread's event and the loop: what is scheduled needs the loop, and the
\* thread is only on a private loop while nothing is scheduled.
ThreadOK ==
  /\ thread \in {"idle", "private", "putting", "result"}
  /\ n \in 0..Len(Events)
  /\ posted \in Seq(Nat) /\ queue \in Seq(Nat)
  /\ ~loopKnown => posted = <<>>
  /\ thread = "private" => posted = <<>>

\* The events that were broadcast, that are in the queue and that are scheduled
\* follow each other without a gap.
Numbered ==
  /\ current \in Nat
  /\ Manager!Entered = current + Len(queue)
  /\ \A i \in DOMAIN queue : queue[i] = current + i
  /\ \A i \in DOMAIN posted : posted[i] = Manager!Entered + i

\* Only a broadcast has clients to send to.
Broadcasting ==
  /\ bc \in {"none", "get", "empty", "waiting", "woken", "sending"}
  /\ todo # {} => bc = "sending"
  /\ todo \in SUBSET Clients /\ connections \in SUBSET Clients

\* A client is registered from its connection until it goes; it fails after.
Registered ==
  \A c \in Clients :
    /\ peer[c] = "open" => c \in connections \ failed
    /\ peer[c] = "new" => c \notin connections \cup todo \cup failed /\ got[c] = <<>>

ClientsOK ==
  /\ peer \in [Clients -> {"new", "open", "gone"}]
  /\ got \in [Clients -> Seq(Nat)]
  /\ since \in [Clients -> Nat]
  /\ DOMAIN filters = Clients
  /\ \A c \in Clients : "None" \notin filters[c]["node"]
  /\ \A c \in Clients : since[c] <= Manager!Passed(c)

\* What an open client has got, see ExactDelivery.
Got(c) ==
  /\ Manager!Increasing(got[c])
  /\ Manager!Range(got[c]) = {i \in (since[c] + 1)..Manager!Passed(c) : Manager!Wants(c, i)}

Delivered == \A c \in Clients : peer[c] = "open" => Got(c)

ManagerInv == ThreadOK /\ Numbered /\ Broadcasting /\ ClientsOK /\ Registered /\ Delivered

-----------------------------------------------------------------------------
LEMMA AppendRange ==
  ASSUME NEW s \in Seq(Nat), NEW x \in Nat
  PROVE  Manager!Range(Append(s, x)) = Manager!Range(s) \cup {x}
<1> DEFINE r == Append(s, x)
<1>1. Len(r) = Len(s) + 1 /\ DOMAIN r = 1..(Len(s) + 1) /\ DOMAIN s = 1..Len(s)
  OBVIOUS
<1>2. \A i \in 1..Len(s) : r[i] = s[i]
  OBVIOUS
<1>3. r[Len(s) + 1] = x
  OBVIOUS
<1>4. 1..(Len(s) + 1) = 1..Len(s) \cup {Len(s) + 1}
  OBVIOUS
<1> HIDE DEF r
<1> SUFFICES Manager!Range(r) = Manager!Range(s) \cup {x}
  BY DEF r
<1> QED
  BY <1>1, <1>2, <1>3, <1>4 DEF Manager!Range

LEMMA AppendIncreasing ==
  ASSUME NEW s \in Seq(Nat), NEW x \in Nat, Manager!Increasing(s), \A y \in Manager!Range(s) : y < x
  PROVE  Manager!Increasing(Append(s, x))
<1> DEFINE r == Append(s, x)
<1>1. Len(r) = Len(s) + 1 /\ DOMAIN r = 1..(Len(s) + 1) /\ DOMAIN s = 1..Len(s)
  OBVIOUS
<1>2. \A i \in 1..Len(s) : r[i] = s[i] /\ s[i] < x
  BY DEF Manager!Range
<1>3. r[Len(s) + 1] = x
  OBVIOUS
<1> HIDE DEF r
<1> SUFFICES Manager!Increasing(r)
  BY DEF r
<1> SUFFICES ASSUME NEW i \in 1..(Len(s) + 1), NEW j \in 1..(Len(s) + 1), i < j
             PROVE  r[i] < r[j]
  BY <1>1 DEF Manager!Increasing
<1>4. i \in 1..Len(s)
  OBVIOUS
<1>5. CASE j = Len(s) + 1
  BY <1>2, <1>3, <1>4, <1>5
<1>6. CASE j \in 1..Len(s)
  BY <1>1, <1>2, <1>4, <1>6 DEF Manager!Increasing
<1> QED
  BY <1>5, <1>6

\* What the filters of the code let pass is what the client asked for.
LEMMA MatchesWants ==
  ASSUME ManagerInv, NEW c \in Clients
  PROVE  Manager!Matches(c) <=> Manager!Wants(c, current)
<1>1. "None" \notin filters[c]["node"]
  BY DEF ManagerInv, ClientsOK
<1>2. filters[c] = Manager!NoFilter => \A d \in Manager!Dimensions : filters[c][d] = {}
  BY DEF Manager!NoFilter
<1> QED
  BY <1>1, <1>2 DEF Manager!Matches, Manager!Wants, Manager!Dimensions

-----------------------------------------------------------------------------
LEMMA ManagerStarts ==
  ASSUME Manager!ManagerAssumption, Manager!Init
  PROVE  ManagerInv
<1> USE DEF Manager!Init
<1>0. Len(Events) \in Nat
  BY DEF Manager!ManagerAssumption
<1>1. ThreadOK
  BY <1>0 DEF ThreadOK
<1>4. Numbered
  <2>1. Manager!Entered = 0
    <3>1. n = 0 /\ Len(posted) = 0 /\ thread # "private"
      OBVIOUS
    <3>2. Manager!Entered = n - Len(posted) - 0
      BY <3>1 DEF Manager!Entered
    <3> HIDE DEF Manager!Init
    <3> QED
      BY <3>1, <3>2
  <2>2. current = 0 /\ Len(queue) = 0 /\ DOMAIN queue = {} /\ DOMAIN posted = {}
    OBVIOUS
  <2> QED
    BY <2>1, <2>2 DEF Numbered
<1>2. Broadcasting /\ Registered
  BY DEF Broadcasting, Registered
<1>3. ClientsOK /\ Delivered
  BY DEF ClientsOK, Delivered, Manager!NoFilter, Manager!Dimensions, Manager!Passed
<1> QED
  BY <1>1, <1>2, <1>3, <1>4 DEF ManagerInv

\* The clients are as before, and so is what is broadcast; a broadcaster that
\* waits may be woken.
LEMMA SameDelivery ==
  ASSUME ManagerInv,
         UNCHANGED <<current, todo, failed, connections, filters, peer, handled, got, since>>,
         bc' = bc \/ (bc = "waiting" /\ bc' = "woken")
  PROVE  Broadcasting' /\ ClientsOK' /\ Registered' /\ Delivered'
<1>1. Broadcasting' /\ Registered'
  BY DEF ManagerInv, Broadcasting, Registered
<1>2. ClientsOK'
  BY DEF ManagerInv, ClientsOK, Manager!Passed
<1>3. Delivered'
  BY DEF ManagerInv, Delivered, Got, Manager!Passed, Manager!Wants
<1> QED
  BY <1>1, <1>2, <1>3

-----------------------------------------------------------------------------
(* The bridge's thread and the scheduled coroutines.                         *)

LEMMA ThreadStep ==
  ASSUME Manager!ManagerAssumption, ManagerInv, Manager!Thread \/ Manager!LoopPut
  PROVE  ThreadOK' /\ Numbered'
<1> USE DEF ManagerInv, ThreadOK, Numbered, Manager!Entered
<1>0. Len(Events) \in Nat
  BY DEF Manager!ManagerAssumption
<1>1. CASE Manager!BridgeEvent
  <2>1. CASE loopKnown
    <3>1. n' = n + 1 /\ posted' = Append(posted, n + 1) /\ thread' = "result" /\ thread = "idle"
          /\ UNCHANGED <<queue, current, loopKnown>> /\ n < Len(Events)
      BY <1>1, <2>1 DEF Manager!BridgeEvent, Manager!sendVars
    <3>2. n' \in 0..Len(Events) /\ posted' \in Seq(Nat) /\ Len(posted') = Len(posted) + 1
      BY <1>0, <3>1
    <3>3. ThreadOK'
      BY <2>1, <3>1, <3>2
    <3>4. Manager!Entered' = Manager!Entered
      BY <3>1, <3>2, <1>0
    <3>5. \A i \in DOMAIN posted' : posted'[i] = Manager!Entered' + i
      <4> SUFFICES ASSUME NEW i \in 1..(Len(posted) + 1)
                   PROVE  posted'[i] = Manager!Entered + i
        BY <3>1, <3>2, <3>4
      <4>1. CASE i = Len(posted) + 1
        BY <3>1, <4>1, <1>0
      <4>2. CASE i \in 1..Len(posted)
        BY <3>1, <4>2
      <4> QED
        BY <4>1, <4>2
    <3> QED
      BY <3>1, <3>3, <3>4, <3>5
  <2>2. CASE ~loopKnown
    <3>1. n' = n + 1 /\ posted = <<>> /\ thread' = "private" /\ thread = "idle"
          /\ UNCHANGED <<posted, queue, current, loopKnown>> /\ n < Len(Events)
      BY <1>1, <2>2 DEF Manager!BridgeEvent, Manager!sendVars
    <3> QED
      BY <1>0, <3>1
  <2> QED
    BY <2>1, <2>2
<1>2. CASE Manager!PrivatePut
  <2>1. queue' = Append(queue, n) /\ thread = "private" /\ thread' = "putting" /\ posted = <<>>
        /\ UNCHANGED <<n, posted, loopKnown, current>>
    BY <1>2 DEF Manager!PrivatePut, Manager!sendVars
  <2>2. n = current + Len(queue) + 1 /\ n \in Nat
    BY <2>1, <1>0
  <2>3. queue' \in Seq(Nat) /\ Len(queue') = Len(queue) + 1
    BY <2>1, <2>2
  <2>4. \A i \in DOMAIN queue' : queue'[i] = current + i
    <3> SUFFICES ASSUME NEW i \in 1..(Len(queue) + 1)
                 PROVE  queue'[i] = current + i
      BY <2>3
    <3>1. CASE i = Len(queue) + 1
      BY <2>1, <2>2, <3>1
    <3>2. CASE i \in 1..Len(queue)
      BY <2>1, <3>2
    <3> QED
      BY <3>1, <3>2
  <2> QED
    BY <2>1, <2>2, <2>3, <2>4
<1>3. CASE Manager!LoopPut
  <2>1. posted # <<>> /\ queue' = Append(queue, Head(posted)) /\ posted' = Tail(posted)
        /\ UNCHANGED <<thread, n, loopKnown, current>>
    BY <1>3 DEF Manager!LoopPut
  <2>2. thread # "private" /\ Head(posted) \in Nat /\ Head(posted) = current + Len(queue) + 1
        /\ Len(posted) \in Nat \ {0}
    BY <2>1
  <2>3. queue' \in Seq(Nat) /\ Len(queue') = Len(queue) + 1
    BY <2>1, <2>2
  <2>4. posted' \in Seq(Nat) /\ Len(posted') = Len(posted) - 1 /\ \A i \in 1..Len(posted') : posted'[i] = posted[i + 1]
    BY <2>1
  <2>5. Manager!Entered' = Manager!Entered + 1
    BY <2>1, <2>2, <2>4, <1>0
  <2>6. \A i \in DOMAIN queue' : queue'[i] = current + i
    <3> SUFFICES ASSUME NEW i \in 1..(Len(queue) + 1)
                 PROVE  queue'[i] = current + i
      BY <2>3
    <3>1. CASE i = Len(queue) + 1
      BY <2>1, <2>2, <3>1
    <3>2. CASE i \in 1..Len(queue)
      BY <2>1, <2>2, <3>2
    <3> QED
      BY <3>1, <3>2
  <2>7. \A i \in DOMAIN posted' : posted'[i] = Manager!Entered' + i
    <3> SUFFICES ASSUME NEW i \in 1..(Len(posted) - 1)
                 PROVE  posted[i + 1] = Manager!Entered + 1 + i
      <4>1. DOMAIN posted' = 1..(Len(posted) - 1)
        BY <2>4
      <4> HIDE DEF Manager!Entered
      <4> QED
        BY <2>4, <2>5, <4>1
    <3>1. i + 1 \in DOMAIN posted /\ Manager!Entered \in Int
      BY <1>0
    <3> HIDE DEF Manager!Entered
    <3> QED
      BY <3>1
  <2>8. Manager!Entered' = current' + Len(queue')
    BY <2>1, <2>3, <2>5
  <2>9. ThreadOK'
    BY <2>1, <2>2, <2>3, <2>4
  <2> QED
    BY <2>1, <2>6, <2>7, <2>8, <2>9
<1>4. CASE Manager!Result \/ Manager!PrivateWake
  BY <1>4 DEF Manager!Result, Manager!PrivateWake, Manager!sendVars
<1> QED
  BY <1>1, <1>2, <1>3, <1>4 DEF Manager!Thread

-----------------------------------------------------------------------------
(* The clients and their handlers.                                           *)

\* A client step leaves what the thread, the loop and the broadcaster have.
LEMMA SameThread ==
  ASSUME ManagerInv, UNCHANGED <<thread, n, posted, queue, current, bc, todo, failed>>,
         loopKnown' \in {loopKnown, TRUE}, connections' \in SUBSET (connections \cup Clients)
  PROVE  ThreadOK' /\ Numbered' /\ Broadcasting'
BY DEF ManagerInv, ThreadOK, Numbered, Broadcasting, Manager!Entered

LEMMA ConnectStep ==
  ASSUME ManagerInv, NEW c \in Clients, Manager!Connect(c)
  PROVE  ManagerInv'
<1>1. /\ peer[c] = "new" /\ peer' = [peer EXCEPT ![c] = "open"]
      /\ connections' = connections \cup {c}
      /\ since' = [since EXCEPT ![c] = current]
      /\ bc' = IF bc = "none" THEN "get" ELSE bc
      /\ loopKnown' = TRUE
      /\ UNCHANGED <<thread, n, posted, queue, current, todo, failed, filters, got>>
  BY DEF Manager!Connect, Manager!threadVars
<1>2. ThreadOK' /\ Numbered' /\ Broadcasting'
  BY <1>1 DEF ManagerInv, ThreadOK, Numbered, Broadcasting, Manager!Entered
<1>3. c \notin connections \cup todo \cup failed /\ got[c] = <<>>
  BY <1>1 DEF ManagerInv, Registered
<1>4. Registered'
  BY <1>1, <1>3 DEF ManagerInv, ClientsOK, Registered
<1>5. ClientsOK'
  BY <1>1, <1>3 DEF ManagerInv, ClientsOK, Numbered, Manager!Passed
<1>6. Delivered'
  <2> SUFFICES ASSUME NEW d \in Clients, peer'[d] = "open"
               PROVE  Got(d)'
    BY DEF Delivered
  <2>1. CASE d = c
    <3>1. got'[d] = <<>> /\ since'[d] = current /\ Manager!Passed(d)' = current /\ current \in Nat
      BY <1>1, <1>3, <2>1 DEF ManagerInv, ClientsOK, Numbered, Manager!Passed
    <3>2. Manager!Range(<<>>) = {} /\ Manager!Increasing(<<>>)
      BY DEF Manager!Range, Manager!Increasing
    <3>3. (since'[d] + 1)..Manager!Passed(d)' = {}
      BY <3>1
    <3> QED
      BY <3>1, <3>2, <3>3 DEF Got
  <2>2. CASE d # c
    BY <1>1, <2>2 DEF ManagerInv, ClientsOK, Delivered, Got, Manager!Passed, Manager!Wants
  <2> QED
    BY <2>1, <2>2
<1> QED
  BY <1>2, <1>4, <1>5, <1>6 DEF ManagerInv

LEMMA SetFiltersStep ==
  ASSUME Manager!ManagerAssumption, ManagerInv, NEW c \in Clients, NEW u \in Updates, Manager!SetFilters(c, u)
  PROVE  ManagerInv'
<1>1. /\ filters' = [filters EXCEPT ![c] =
            [d \in Manager!Dimensions |-> IF d \in DOMAIN u THEN u[d] ELSE filters[c][d]]]
         \/ filters' = filters
      /\ got' = [got EXCEPT ![c] = <<>>]
      /\ since' = [since EXCEPT ![c] = Manager!Passed(c)]
      /\ UNCHANGED <<thread, n, posted, queue, current, bc, todo, failed, loopKnown, connections, peer>>
  BY DEF Manager!SetFilters, Manager!threadVars, Manager!sendVars, Manager!Passed
<1>2. ThreadOK' /\ Numbered' /\ Broadcasting'
  BY <1>1, SameThread
<1>3. Registered'
  BY <1>1 DEF ManagerInv, ClientsOK, Registered
<1>4. Manager!Passed(c) \in Int /\ Manager!Passed(c) >= 0
  BY DEF ManagerInv, ClientsOK, Numbered, Manager!Passed
<1>5. ClientsOK'
  <2>1. "node" \in Manager!Dimensions /\ ("node" \in DOMAIN u => "None" \notin u["node"])
    BY DEF Manager!ManagerAssumption, Manager!Dimensions
  <2>2. \A d \in Clients : "None" \notin filters'[d]["node"]
    <3> SUFFICES ASSUME NEW d \in Clients
                 PROVE  "None" \notin filters'[d]["node"]
      OBVIOUS
    <3>1. DOMAIN filters = Clients /\ "None" \notin filters[d]["node"] /\ "None" \notin filters[c]["node"]
      BY DEF ManagerInv, ClientsOK
    <3>2. CASE filters' = filters
      BY <3>1, <3>2
    <3>3. CASE filters' # filters /\ d # c
      BY <1>1, <3>1, <3>3
    <3>4. CASE filters' # filters /\ d = c
      <4>1. filters'[d] = [e \in Manager!Dimensions |-> IF e \in DOMAIN u THEN u[e] ELSE filters[c][e]]
        BY <1>1, <3>1, <3>4
      <4>2. filters'[d]["node"] = IF "node" \in DOMAIN u THEN u["node"] ELSE filters[c]["node"]
        BY <2>1, <4>1
      <4> QED
        BY <2>1, <3>1, <4>2
    <3> QED
      BY <3>2, <3>3, <3>4
  <2>3. \A d \in Clients : Manager!Passed(d)' = Manager!Passed(d)
    BY <1>1 DEF Manager!Passed
  <2>4. got' \in [Clients -> Seq(Nat)] /\ since' \in [Clients -> Nat]
    BY <1>1, <1>4 DEF ManagerInv, ClientsOK
  <2>5. \A d \in Clients : since'[d] <= Manager!Passed(d)
    BY <1>1, <1>4 DEF ManagerInv, ClientsOK
  <2> QED
    BY <1>1, <2>2, <2>3, <2>4, <2>5 DEF ManagerInv, ClientsOK
<1>6. Delivered'
  <2> SUFFICES ASSUME NEW d \in Clients, peer'[d] = "open"
               PROVE  Got(d)'
    BY DEF Delivered
  <2>0. Manager!Passed(d)' = Manager!Passed(d)
    BY <1>1 DEF Manager!Passed
  <2>1. CASE d = c
    <3>1. got'[d] = <<>> /\ since'[d] = Manager!Passed(d)
      BY <1>1, <2>1 DEF ManagerInv, ClientsOK
    <3>2. Manager!Range(<<>>) = {} /\ Manager!Increasing(<<>>)
      BY DEF Manager!Range, Manager!Increasing
    <3>3. (since'[d] + 1)..Manager!Passed(d)' = {}
      BY <1>4, <2>0, <2>1, <3>1
    <3> QED
      BY <3>1, <3>2, <3>3 DEF Got
  <2>2. CASE d # c
    <3>1. got'[d] = got[d] /\ since'[d] = since[d] /\ filters'[d] = filters[d] /\ Got(d)
      BY <1>1, <2>2 DEF ManagerInv, ClientsOK, Delivered
    <3> QED
      BY <2>0, <3>1 DEF Got, Manager!Wants
  <2> QED
    BY <2>1, <2>2
<1> QED
  BY <1>2, <1>3, <1>5, <1>6 DEF ManagerInv

LEMMA GoesStep ==
  ASSUME ManagerInv, NEW c \in Clients, Manager!PeerGoes(c) \/ Manager!Disconnect(c)
  PROVE  ManagerInv'
<1>1. /\ peer' \in {peer, [peer EXCEPT ![c] = "gone"]} /\ peer'[c] = "gone"
      /\ connections' \in {connections, connections \ {c}}
      /\ UNCHANGED <<thread, n, posted, queue, loopKnown, current, bc, todo, failed, filters, got, since>>
  BY DEF Manager!PeerGoes, Manager!Disconnect, Manager!threadVars, Manager!sendVars, ManagerInv, ClientsOK
<1>2. ThreadOK' /\ Numbered' /\ Broadcasting'
  BY <1>1, SameThread
<1>3. Registered'
  BY <1>1 DEF ManagerInv, ClientsOK, Registered
<1>4. ClientsOK'
  BY <1>1 DEF ManagerInv, ClientsOK, Manager!Passed
<1>5. Delivered'
  <2> SUFFICES ASSUME NEW d \in Clients, peer'[d] = "open"
               PROVE  Got(d)'
    BY DEF Delivered
  <2>1. Got(d)
    BY <1>1 DEF ManagerInv, ClientsOK, Delivered
  <2> QED
    BY <1>1, <2>1 DEF Got, Manager!Passed, Manager!Wants
<1> QED
  BY <1>2, <1>3, <1>4, <1>5 DEF ManagerInv

-----------------------------------------------------------------------------
(* The broadcaster.                                                          *)

LEMMA TakeStep ==
  ASSUME ManagerInv, Manager!Take
  PROVE  ManagerInv'
<1>1. /\ bc \in {"get", "woken"} /\ queue # <<>>
      /\ current' = Head(queue) /\ queue' = Tail(queue)
      /\ todo' = connections
      /\ bc' = IF connections = {} THEN "get" ELSE "sending"
      /\ UNCHANGED <<thread, n, posted, loopKnown, failed, connections, filters, peer, got, since>>
  BY DEF Manager!Take, Manager!threadVars, Manager!clientVars
<1>2. todo = {}
  BY <1>1 DEF ManagerInv, Broadcasting
<1>3. current' = current + 1 /\ current \in Nat /\ Len(queue) \in Nat \ {0}
  BY <1>1 DEF ManagerInv, Numbered, ThreadOK
<1>4. queue' \in Seq(Nat) /\ Len(queue') = Len(queue) - 1 /\ \A i \in 1..Len(queue') : queue'[i] = queue[i + 1]
  BY <1>1 DEF ManagerInv, ThreadOK
<1>5. ThreadOK'
  BY <1>1, <1>4 DEF ManagerInv, ThreadOK
<1>6. Numbered'
  <2>1. Manager!Entered' = Manager!Entered
    BY <1>1 DEF Manager!Entered
  <2>2. \A i \in DOMAIN queue' : queue'[i] = current' + i
    <3> SUFFICES ASSUME NEW i \in 1..(Len(queue) - 1)
                 PROVE  queue[i + 1] = current + 1 + i
      <4>1. DOMAIN queue' = 1..(Len(queue) - 1)
        BY <1>4
      <4> QED
        BY <1>3, <1>4, <4>1
    <3>1. i + 1 \in DOMAIN queue
      BY <1>3 DEF ManagerInv, ThreadOK
    <3> QED
      BY <1>3, <3>1 DEF ManagerInv, Numbered
  <2> QED
    <3>1. current' \in Nat /\ UNCHANGED posted
      BY <1>1, <1>3
    <3>2. Manager!Entered' = current' + Len(queue')
      BY <1>3, <1>4, <2>1 DEF ManagerInv, Numbered
    <3>3. \A i \in DOMAIN posted' : posted'[i] = Manager!Entered' + i
      BY <2>1, <3>1 DEF ManagerInv, Numbered
    <3> QED
      BY <2>2, <3>1, <3>2, <3>3 DEF Numbered
<1>7. Registered'
  BY <1>1 DEF ManagerInv, Registered
<1>8. \A c \in Clients : Manager!Passed(c)' = IF c \in connections THEN current ELSE current + 1
  BY <1>1, <1>3 DEF Manager!Passed
<1>9. \A c \in Clients : Manager!Passed(c) = current
  BY <1>2 DEF Manager!Passed
<1>10. Broadcasting'
  <2>1. connections \in SUBSET Clients
    BY DEF ManagerInv, Broadcasting
  <2> QED
    BY <1>1, <2>1 DEF ManagerInv, Broadcasting
<1>11. ClientsOK'
  <2>1. \A c \in Clients : since'[c] \in Nat /\ since'[c] <= current
    BY <1>1, <1>9 DEF ManagerInv, ClientsOK
  <2>2. \A c \in Clients : since'[c] <= Manager!Passed(c)'
    BY <1>3, <1>8, <2>1
  <2> QED
    BY <1>1, <2>2 DEF ManagerInv, ClientsOK
<1>12. Delivered'
  <2> SUFFICES ASSUME NEW c \in Clients, peer'[c] = "open"
               PROVE  Got(c)'
    BY DEF Delivered
  <2>1. c \in connections /\ Got(c)
    BY <1>1 DEF ManagerInv, Registered, Delivered
  <2>2. Manager!Passed(c)' = Manager!Passed(c)
    BY <1>8, <1>9, <2>1
  <2> QED
    BY <1>1, <2>1, <2>2 DEF Got, Manager!Wants
<1> QED
  BY <1>5, <1>6, <1>7, <1>10, <1>11, <1>12 DEF ManagerInv

LEMMA SendStep ==
  ASSUME ManagerInv, NEW c \in Clients, Manager!Send(c)
  PROVE  ManagerInv'
<1>1. /\ bc = "sending" /\ c \in todo /\ todo' = todo \ {c}
      /\ UNCHANGED <<thread, n, posted, queue, loopKnown, bc, current, connections, filters, peer, since>>
  BY DEF Manager!Send, Manager!threadVars
<1>2. \/ ~Manager!Matches(c) /\ UNCHANGED <<got, failed>>
      \/ Manager!Matches(c) /\ peer[c] = "open" /\ got' = [got EXCEPT ![c] = Append(got[c], current)] /\ failed' = failed
      \/ Manager!Matches(c) /\ peer[c] # "open" /\ failed' = failed \cup {c} /\ got' = got
  BY DEF Manager!Send, Manager!Sent
<1>3. ThreadOK' /\ Numbered'
  BY <1>1 DEF ManagerInv, ThreadOK, Numbered, Manager!Entered
<1>4. Broadcasting'
  BY <1>1, <1>2 DEF ManagerInv, Broadcasting
<1>5. peer[c] # "new"
  BY <1>1 DEF ManagerInv, Registered
<1>6. Registered'
  BY <1>1, <1>2, <1>5 DEF ManagerInv, ClientsOK, Registered
<1>7. Manager!Passed(c) = current - 1 /\ Manager!Passed(c)' = current /\ current \in Nat
  BY <1>1 DEF ManagerInv, Numbered, Manager!Passed
<1>8. \A d \in Clients : d # c => Manager!Passed(d)' = Manager!Passed(d)
  BY <1>1 DEF Manager!Passed
<1>9. ClientsOK'
  <2>1. got' \in [Clients -> Seq(Nat)]
    <3>1. got \in [Clients -> Seq(Nat)] /\ got[c] \in Seq(Nat)
      BY DEF ManagerInv, ClientsOK
    <3>2. Append(got[c], current) \in Seq(Nat)
      BY <1>7, <3>1
    <3> QED
      BY <1>2, <3>1, <3>2
  <2>2. \A d \in Clients : since'[d] <= Manager!Passed(d)'
    <3> SUFFICES ASSUME NEW d \in Clients PROVE since'[d] <= Manager!Passed(d)'
      OBVIOUS
    <3>1. since'[d] \in Nat /\ since'[d] <= Manager!Passed(d)
      BY <1>1 DEF ManagerInv, ClientsOK
    <3> QED
      BY <1>7, <1>8, <3>1
  <2> QED
    BY <1>1, <2>1, <2>2 DEF ManagerInv, ClientsOK
<1>10. Delivered'
  <2> SUFFICES ASSUME NEW d \in Clients, peer'[d] = "open"
               PROVE  Got(d)'
    BY DEF Delivered
  <2>0. Got(d)
    BY <1>1 DEF ManagerInv, Delivered
  <2>1. CASE d # c
    <3>1. got'[d] = got[d]
      BY <1>2, <2>1 DEF ManagerInv, ClientsOK
    <3> QED
      BY <1>1, <1>8, <2>0, <2>1, <3>1 DEF Got, Manager!Wants
  <2>2. CASE d = c
    <3>1. Manager!Matches(c) <=> Manager!Wants(c, current)
      BY MatchesWants
    <3>2. \A i : Manager!Wants(c, i)' <=> Manager!Wants(c, i)
      BY <1>1 DEF Manager!Wants
    <3>3. since[c] \in Nat /\ since[c] <= current - 1 /\ since'[c] = since[c] /\ got[c] \in Seq(Nat)
      BY <1>1, <1>7 DEF ManagerInv, ClientsOK
    <3>4. (since[c] + 1)..current = ((since[c] + 1)..(current - 1)) \cup {current}
      BY <1>7, <3>3
    <3>5. Manager!Range(got[c]) = {i \in (since[c] + 1)..(current - 1) : Manager!Wants(c, i)}
          /\ Manager!Increasing(got[c])
      BY <1>7, <2>0, <2>2 DEF Got
    <3>6. CASE ~Manager!Matches(c)
      <4>1. got' = got
        BY <1>2, <3>6
      <4>2. Manager!Range(got[c]) = {i \in (since[c] + 1)..current : Manager!Wants(c, i)}
        BY <3>1, <3>4, <3>5, <3>6
      <4> QED
        BY <1>7, <2>2, <3>2, <3>3, <3>5, <4>1, <4>2 DEF Got
    <3>7. CASE Manager!Matches(c)
      <4>1. got'[c] = Append(got[c], current)
        BY <1>1, <1>2, <2>2, <3>7 DEF ManagerInv, ClientsOK
      <4>2. Manager!Range(got'[c]) = Manager!Range(got[c]) \cup {current}
        BY <1>7, <3>3, <4>1, AppendRange
      <4>3. \A y \in Manager!Range(got[c]) : y < current
        BY <1>7, <3>3, <3>5
      <4>4. Manager!Increasing(got'[c])
        BY <1>7, <3>3, <3>5, <4>1, <4>3, AppendIncreasing
      <4>5. Manager!Range(got'[c]) = {i \in (since[c] + 1)..current : Manager!Wants(c, i)}
        BY <3>1, <3>4, <3>5, <3>7, <4>2
      <4> QED
        BY <1>7, <2>2, <3>2, <3>3, <4>4, <4>5 DEF Got
    <3> QED
      BY <3>6, <3>7
  <2> QED
    BY <2>1, <2>2
<1> QED
  BY <1>3, <1>4, <1>6, <1>9, <1>10 DEF ManagerInv

LEMMA IdleStep ==
  ASSUME ManagerInv, Manager!LookIn \/ Manager!Wait \/ Manager!CleanUp
  PROVE  ManagerInv'
<1>1. /\ bc' \in {"empty", "waiting", "get"} /\ todo = {} /\ todo' = {}
      /\ failed' \in {failed, {}} /\ connections' \in {connections, connections \ failed}
      /\ UNCHANGED <<thread, n, posted, queue, loopKnown, current, filters, peer, got, since>>
  BY DEF Manager!LookIn, Manager!Wait, Manager!CleanUp, Manager!threadVars, Manager!clientVars, ManagerInv, Broadcasting
<1>2. ThreadOK' /\ Numbered'
  BY <1>1 DEF ManagerInv, ThreadOK, Numbered, Manager!Entered
<1>3. Broadcasting' /\ Registered'
  BY <1>1 DEF ManagerInv, Broadcasting, Registered
<1>4. ClientsOK'
  BY <1>1 DEF ManagerInv, ClientsOK, Manager!Passed
<1>5. Delivered'
  BY <1>1 DEF ManagerInv, Delivered, Got, Manager!Passed, Manager!Wants
<1> QED
  BY <1>2, <1>3, <1>4, <1>5 DEF ManagerInv

-----------------------------------------------------------------------------
LEMMA ManagerStep ==
  ASSUME Manager!ManagerAssumption, ManagerInv, [Manager!Next]_managerVars
  PROVE  ManagerInv'
<1>1. CASE Manager!Thread \/ Manager!LoopPut
  <2>1. /\ UNCHANGED <<current, todo, failed, connections, filters, peer, handled, got, since>>
        /\ bc' = bc \/ (bc = "waiting" /\ bc' = "woken")
    BY <1>1 DEF Manager!Thread, Manager!LoopPut, Manager!BridgeEvent, Manager!PrivatePut, Manager!PrivateWake,
                Manager!Wakes, Manager!Result, Manager!sendVars, Manager!clientVars
  <2> QED
    BY <1>1, <2>1, ThreadStep, SameDelivery DEF ManagerInv
<1>2. CASE Manager!Broadcaster
  BY <1>2, TakeStep, SendStep, IdleStep DEF Manager!Broadcaster
<1>3. CASE \E c \in Clients : Manager!Connect(c) \/ Manager!PeerGoes(c) \/ Manager!Disconnect(c)
                              \/ \E u \in Updates : Manager!SetFilters(c, u)
  BY <1>3, ConnectStep, GoesStep, SetFiltersStep
<1>4. CASE UNCHANGED managerVars
  <2>1. UNCHANGED <<thread, n, posted, queue, loopKnown, current, bc, todo, failed, connections, filters,
                    peer, handled, got, since>>
    BY <1>4 DEF managerVars
  <2> QED
    BY <2>1, SameThread, SameDelivery DEF ManagerInv
<1> QED
  BY <1>1, <1>2, <1>3, <1>4 DEF Manager!Next

LEMMA ManagerKept == Manager!ManagerAssumption => (managerSpec => []ManagerInv)
<1> SUFFICES ASSUME Manager!ManagerAssumption PROVE managerSpec => []ManagerInv
  OBVIOUS
<1>1. Manager!Init => ManagerInv
  BY ManagerStarts
<1>2. ManagerInv /\ [Manager!Next]_managerVars => ManagerInv'
  BY ManagerStep
<1> QED
  BY <1>1, <1>2, PTL DEF managerSpec

LEMMA ManagerDelivers == ManagerInv => Manager!ExactDelivery
BY DEF ManagerInv, Numbered, Delivered, Got, Manager!ExactDelivery

-----------------------------------------------------------------------------
(* The synchronisation of the states.                                        *)

\* The fields of the node.
Copies == Listening!Range(Fields)

\* The states are those of the fields.
StatesOK ==
  /\ ironic = [f \in Copies |-> ironic[f]]
  /\ netbox = [f \in Copies |-> netbox[f]]

\* The run: before it has read the states it has no more than its outcome; after,
\* it is at one of the fields or past them.
RunOK ==
  \/ /\ sync.pc \in {"idle", "ended 1"}
     /\ {"pc", "quiet"} \subseteq DOMAIN sync
  \/ /\ sync.pc \in {"sync", "ended 0"}
     /\ {"pc", "quiet", "at", "seen", "failed"} \subseteq DOMAIN sync
     /\ sync.at \in 1..(Len(Fields) + 1)
     /\ sync.pc = "ended 0" => sync.at = Len(Fields) + 1

\* A run on which nothing has intruded still has the states as they are, and the
\* fields it is past are copied, unless one failed.
Copied ==
  sync.pc \in {"sync", "ended 0"} /\ sync.quiet =>
    /\ sync.seen = ironic
    /\ ~sync.failed => \A i \in DOMAIN Fields : i < sync.at => netbox[Fields[i]] = ironic[Fields[i]]

ListenerInv == StatesOK /\ RunOK /\ Copied

LEMMA ListenerStarts == Listening!listenerInit => ListenerInv
BY DEF Listening!listenerInit, ListenerInv, StatesOK, RunOK, Copied, Copies

LEMMA FieldsLength ==
  ASSUME Listening!ListenerAssumption
  PROVE  /\ Len(Fields) \in Nat /\ DOMAIN Fields = 1..Len(Fields)
         /\ \A i \in 1..Len(Fields) : i < Len(Fields) + 1
BY DEF Listening!ListenerAssumption

\* A state, a notification or a task that comes between is seen by the run.
LEMMA IntrudedStep ==
  ASSUME ListenerInv, sync' = [sync EXCEPT !.quiet = FALSE], StatesOK'
  PROVE  ListenerInv'
<1>1. "quiet" \in DOMAIN sync
  BY DEF ListenerInv, RunOK
<1>2. ~sync'.quiet /\ DOMAIN sync' = DOMAIN sync /\ sync'.pc = sync.pc
  BY <1>1
<1>3. sync'.at = sync.at
  OBVIOUS
<1>4. RunOK'
  BY <1>2, <1>3 DEF ListenerInv, RunOK
<1> QED
  BY <1>2, <1>4 DEF ListenerInv, Copied

LEMMA ReadStep ==
  ASSUME Listening!ListenerAssumption, ListenerInv, Listening!sync_netbox_from_ironic
  PROVE  ListenerInv'
<1>1. sync.pc = "idle" /\ UNCHANGED <<ironic, netbox>>
      /\ \/ sync' = [sync EXCEPT !.pc = "ended 1"]
         \/ sync' = [pc |-> "sync", at |-> 1, seen |-> ironic, failed |-> FALSE,
                     quiet |-> tasks = <<>> /\ notes = <<>>]
  BY DEF Listening!sync_netbox_from_ironic
<1>2. StatesOK' /\ Len(Fields) \in Nat
  BY <1>1, FieldsLength DEF ListenerInv, StatesOK
<1>3. CASE sync' = [sync EXCEPT !.pc = "ended 1"]
  <2>1. sync'.pc = "ended 1" /\ DOMAIN sync' = DOMAIN sync /\ {"pc", "quiet"} \subseteq DOMAIN sync
    BY <1>1, <1>3 DEF ListenerInv, RunOK
  <2>2. RunOK' /\ Copied'
    BY <2>1 DEF RunOK, Copied
  <2> QED
    BY <1>2, <2>2 DEF ListenerInv
<1>4. CASE sync' = [pc |-> "sync", at |-> 1, seen |-> ironic, failed |-> FALSE,
                    quiet |-> tasks = <<>> /\ notes = <<>>]
  <2>1. sync'.pc = "sync" /\ sync'.at = 1 /\ sync'.seen = ironic
        /\ DOMAIN sync' = {"pc", "at", "seen", "failed", "quiet"}
    BY <1>4
  <2>2. \A i \in DOMAIN Fields : ~(i < sync'.at)
    BY <2>1, FieldsLength
  <2>3. 1 \in 1..(Len(Fields) + 1)
    BY <1>2
  <2> QED
    BY <1>1, <1>2, <2>1, <2>2, <2>3 DEF ListenerInv, RunOK, Copied
<1> QED
  BY <1>1, <1>3, <1>4

LEMMA CopyStep ==
  ASSUME Listening!ListenerAssumption, ListenerInv, Listening!SyncField
  PROVE  ListenerInv'
<1> DEFINE f == Fields[sync.at]
<1>1. sync.pc = "sync" /\ sync.at <= Len(Fields) /\ ironic' = ironic
  BY DEF Listening!SyncField
<1>2. PICK b \in BOOLEAN :
        /\ netbox' = IF b THEN netbox ELSE [netbox EXCEPT ![f] = sync.seen[f]]
        /\ sync' = [sync EXCEPT !.at = sync.at + 1, !.failed = sync.failed \/ b]
  BY DEF Listening!SyncField, Listening!Fails
<1>3. Len(Fields) \in Nat /\ {"pc", "quiet", "at", "seen", "failed"} \subseteq DOMAIN sync
      /\ sync.at \in 1..Len(Fields)
  BY <1>1 DEF ListenerInv, RunOK, Listening!ListenerAssumption
<1>4. sync'.pc = "sync" /\ sync'.at = sync.at + 1 /\ DOMAIN sync' = DOMAIN sync /\ sync'.seen = sync.seen
  BY <1>1, <1>2, <1>3
<1>5. sync'.quiet <=> sync.quiet
  BY <1>2
<1>6. sync'.failed <=> (sync.failed \/ b)
  BY <1>2, <1>3
<1>7. RunOK'
  BY <1>3, <1>4 DEF RunOK
<1>8. f \in Copies /\ \A i \in 1..Len(Fields) : Fields[i] \in Copies
  BY <1>3 DEF Copies, Listening!Range, Listening!ListenerAssumption
<1>9. StatesOK'
  BY <1>1, <1>2 DEF ListenerInv, StatesOK
<1>10. Copied'
  <2> SUFFICES ASSUME sync.quiet
               PROVE  /\ sync'.seen = ironic'
                      /\ ~sync'.failed =>
                           \A i \in DOMAIN Fields : i < sync'.at => netbox'[Fields[i]] = ironic'[Fields[i]]
    BY <1>5 DEF Copied
  <2>1. sync.seen = ironic
    BY <1>1 DEF ListenerInv, Copied
  <2> SUFFICES ASSUME ~sync.failed, ~b, NEW i \in DOMAIN Fields, i < sync.at + 1
               PROVE  netbox'[Fields[i]] = ironic[Fields[i]]
    BY <1>1, <1>4, <1>6, <2>1
  <2>5. i \in 1..Len(Fields)
    BY FieldsLength
  <2>2. netbox' = [netbox EXCEPT ![f] = ironic[f]] /\ DOMAIN netbox = Copies /\ Fields[i] \in Copies
    BY <1>2, <1>8, <2>1, <2>5 DEF ListenerInv, StatesOK
  <2>3. CASE Fields[i] = f
    BY <2>2, <2>3
  <2>4. CASE Fields[i] # f
    <3>1. i < sync.at
      BY <1>3, <2>4, <2>5
    <3>2. netbox[Fields[i]] = ironic[Fields[i]]
      BY <1>1, <3>1 DEF ListenerInv, Copied
    <3> QED
      BY <2>2, <2>4, <3>2
  <2> QED
    BY <2>3, <2>4
<1> QED
  BY <1>7, <1>9, <1>10 DEF ListenerInv

\* The end of a run changes no other field of it.
LEMMA SameField ==
  ASSUME NEW r, NEW s, NEW v, r = [s EXCEPT !.pc = v]
  PROVE  (r.quiet <=> s.quiet) /\ (r.failed <=> s.failed)
OBVIOUS

LEMMA EndStep ==
  ASSUME Listening!ListenerAssumption, ListenerInv, Listening!SyncEnds
  PROVE  ListenerInv'
<1>0. sync' = [sync EXCEPT !.pc = "ended 0"]
  BY DEF Listening!SyncEnds
<1>1. sync.pc = "sync" /\ sync.at > Len(Fields) /\ UNCHANGED <<ironic, netbox>>
  BY DEF Listening!SyncEnds
<1>2. Len(Fields) \in Nat /\ {"pc", "quiet", "at", "seen", "failed"} \subseteq DOMAIN sync
      /\ sync.at = Len(Fields) + 1
  <2>1. Len(Fields) \in Nat
    BY FieldsLength
  <2>2. sync.at \in 1..(Len(Fields) + 1) /\ {"pc", "quiet", "at", "seen", "failed"} \subseteq DOMAIN sync
    BY <1>1 DEF ListenerInv, RunOK
  <2> DEFINE at == sync.at
  <2>3. at > Len(Fields) /\ at \in 1..(Len(Fields) + 1)
    BY <1>1, <2>2
  <2> HIDE DEF at
  <2>4. at = Len(Fields) + 1
    BY <2>1, <2>3
  <2> QED
    BY <2>1, <2>2, <2>4 DEF at
<1>3. sync'.pc = "ended 0" /\ sync'.at = sync.at /\ sync'.seen = sync.seen /\ DOMAIN sync' = DOMAIN sync
  BY <1>0, <1>2
<1>4. sync'.quiet <=> sync.quiet
  BY <1>0, SameField
<1>7. sync'.failed <=> sync.failed
  BY <1>0, SameField
<1>8. Len(Fields) + 1 \in 1..(Len(Fields) + 1)
  BY <1>2
<1>5. RunOK'
  BY <1>2, <1>3, <1>8 DEF RunOK
<1>6. Copied'
  BY <1>1, <1>3, <1>4, <1>7 DEF ListenerInv, Copied
<1> QED
  BY <1>1, <1>5, <1>6 DEF ListenerInv, StatesOK

LEMMA Synchronised ==
  ASSUME Listening!ListenerAssumption, ListenerInv, [Listening!listenerNext]_listenerVars
  PROVE  ListenerInv'
<1>1. CASE \/ \E e \in Exchanges : Listening!Appears(e)
           \/ Listening!main \/ Listening!get_consumers \/ Listening!exchange_discovery_loop
           \/ Listening!Stops \/ Listening!Loses \/ UNCHANGED listenerVars
           \/ \E e \in Exchanges : Listening!FoundLate(e)
  <2>1. UNCHANGED <<ironic, netbox, sync>>
    BY <1>1 DEF Listening!Appears, Listening!main, Listening!get_consumers, Listening!exchange_discovery_loop,
                Listening!Stops, Listening!Loses, Listening!FoundLate, Listening!stateVars, listenerVars
  <2> QED
    BY <2>1 DEF ListenerInv, StatesOK, RunOK, Copied
<1>2. CASE \E f \in Copies : Listening!Changes(f)
  <2>1. StatesOK' /\ sync' = [sync EXCEPT !.quiet = FALSE]
    BY <1>2 DEF Listening!Changes, ListenerInv, StatesOK
  <2> QED
    BY <2>1, IntrudedStep
<1>3. CASE Listening!on_message
  <2>1. StatesOK' /\ sync' = [sync EXCEPT !.quiet = FALSE]
    BY <1>3 DEF Listening!on_message, ListenerInv, StatesOK
  <2> QED
    BY <2>1, IntrudedStep
<1>4. CASE \E i \in DOMAIN tasks : Listening!set_state(i)
  <2>1. StatesOK' /\ sync' = [sync EXCEPT !.quiet = FALSE]
    BY <1>4 DEF Listening!set_state, ListenerInv, StatesOK
  <2> QED
    BY <2>1, IntrudedStep
<1>5. CASE Listening!sync_netbox_from_ironic \/ Listening!SyncField \/ Listening!SyncEnds
  BY <1>5, ReadStep, CopyStep, EndStep
<1> QED
  BY <1>1, <1>2, <1>3, <1>4, <1>5 DEF Listening!listenerNext, Copies

LEMMA ListenerKept == Listening!ListenerAssumption => (listenerSpec => []ListenerInv)
<1> SUFFICES ASSUME Listening!ListenerAssumption PROVE listenerSpec => []ListenerInv
  OBVIOUS
<1>1. Listening!listenerInit => ListenerInv
  BY ListenerStarts
<1>2. ListenerInv /\ [Listening!listenerNext]_listenerVars => ListenerInv'
  BY Synchronised
<1> QED
  BY <1>1, <1>2, PTL DEF listenerSpec

LEMMA ListenerSettles == Listening!ListenerAssumption /\ ListenerInv => Listening!SyncSettles
<1> SUFFICES ASSUME Listening!ListenerAssumption, ListenerInv,
                    sync.pc = "ended 0", sync.quiet, ~sync.failed
             PROVE  netbox = ironic
  BY DEF Listening!SyncSettles
<1>1. Len(Fields) \in Nat /\ DOMAIN Fields = 1..Len(Fields)
  BY FieldsLength
<1>2. sync.at = Len(Fields) + 1
  BY DEF ListenerInv, RunOK
<1>3. \A i \in 1..Len(Fields) : netbox[Fields[i]] = ironic[Fields[i]]
  <2>1. \A i \in 1..Len(Fields) : i < Len(Fields) + 1
    BY FieldsLength
  <2> QED
    BY <1>1, <1>2, <2>1 DEF ListenerInv, Copied
<1>4. \A f \in Copies : netbox[f] = ironic[f]
  BY <1>1, <1>3 DEF Copies, Listening!Range
<1> QED
  BY <1>4 DEF ListenerInv, StatesOK

-----------------------------------------------------------------------------
(* Notifications.                                                            *)

\* Whatever part is picked, Notifications implements the specification of each:
\* the step of one is a step of its own specification and leaves the others.
THEOREM EachPart == NotificationsSpec => Spec /\ managerSpec /\ listenerSpec
<1>1. NotificationsInit => Init /\ Manager!Init /\ Listening!listenerInit
  BY DEF NotificationsInit
<1>2. [NotificationsNext]_<<component, vars, managerVars, listenerVars>> =>
        [Next]_vars /\ [Manager!Next]_managerVars /\ [Listening!listenerNext]_listenerVars
  BY DEF NotificationsNext, BridgeNext, ManagerNext, ListenerNext
<1> QED
  BY <1>1, <1>2, PTL DEF NotificationsSpec, Spec, managerSpec, listenerSpec

\* For any clients, events and filters: a client that stays gets, in order and
\* once, exactly the events it wants of those broadcast since it connected or set
\* its filters, and no event that has entered the queue is left out - whatever
\* other clients do, and on whichever loop the bridge's thread runs.
THEOREM Delivery == NotificationsSpec => []ExactDelivery
BY EachPart, ManagerKept, ManagerDelivers, EventsAreEvents, PTL DEF ExactDelivery

\* For any states of a node, any exchanges, changes and notifications, lost,
\* repeated or overtaken: a synchronisation that nothing has intruded on, and in
\* which no call failed, leaves the states of Ironic in the NetBox.
THEOREM Settled == NotificationsSpec => []SyncSettles
BY EachPart, ListenerKept, ListenerSettles, FieldsAreFields, PTL DEF SyncSettles

\* The events that the bridge hands over are in order, and have no more gaps than
\* Redis had failures.
THEOREM Bridged == NotificationsSpec => [](InOrder /\ GapsAreOutages)
BY EachPart, Order, Gaplessness, PTL
=============================================================================
