-------------------------- MODULE EventBridgeProofs --------------------------
(***************************************************************************)
(* Proofs about EventBridge for any number of events, retries and outages: *)
(* a retry never puts an event behind a later one, a gap in the events is  *)
(* a failure of Redis, and a subscriber thread that has ended leaves no    *)
(* subscriber open.                                                        *)
(***************************************************************************)
EXTENDS EventBridge, SequenceTheorems, FiniteSetTheorems, TLAPS

Sorted(s) == \A i, j \in 1..Len(s) : i < j => s[i] <= s[j]

Below(s, n) == \A i \in 1..Len(s) : s[i] <= n

\* Events come to the wire and from there to the manager in the order of the
\* notifications, and none is newer than the one add_event works on.
Ordered ==
  /\ Sorted(received) /\ Sorted(wire)
  /\ Below(received, event) /\ Below(wire, event)
  /\ \A i \in 1..Len(received), j \in 1..Len(wire) : received[i] <= wire[j]

\* Only a subscribed connection holds messages, and none is there to back off.
OnlySubscribed ==
  /\ sub # "subscribed" => wire = <<>>
  /\ loop = "backoff" => sub = "none"

\* add_event works on an event.
Working == pub # "idle" => event \in 1..MaxEvents

\* An ended thread is past its last try, and counts no more.
Counted == loop \in {"subscribe", "get"} => retries < MaxRetries

IInv == TypeOK /\ Ordered /\ OnlySubscribed /\ Working /\ Counted /\ EndClosesSubscriber

-----------------------------------------------------------------------------
LEMMA EmptySorted == Sorted(<<>>) /\ \A n : Below(<<>>, n)
BY DEF Sorted, Below

\* An event at least as new as those before it, behind them.
LEMMA AppendSorted ==
  ASSUME NEW s \in Seq(Nat), NEW n \in Nat, Sorted(s), Below(s, n)
  PROVE  Sorted(Append(s, n)) /\ Below(Append(s, n), n)
<1>1. /\ Len(Append(s, n)) = Len(s) + 1 /\ Len(s) \in Nat
      /\ \A i \in 1..Len(s) : Append(s, n)[i] = s[i] /\ s[i] \in Nat
      /\ Append(s, n)[Len(s) + 1] = n
  OBVIOUS
<1>2. \A i \in 1..(Len(s) + 1) : i \in 1..Len(s) \/ i = Len(s) + 1
  BY <1>1
<1> QED
  BY <1>1, <1>2 DEF Sorted, Below

\* The first message of a wire is its oldest.
LEMMA TailSorted ==
  ASSUME NEW s \in Seq(Nat), s # <<>>, NEW n \in Nat, Sorted(s), Below(s, n)
  PROVE  /\ Sorted(Tail(s)) /\ Below(Tail(s), n)
         /\ Head(s) \in Nat /\ Head(s) <= n
         /\ \A i \in 1..Len(Tail(s)) : Head(s) <= Tail(s)[i]
<1>1. /\ Len(s) \in Nat \ {0} /\ Len(Tail(s)) = Len(s) - 1 /\ Head(s) = s[1]
      /\ \A i \in 1..Len(Tail(s)) : Tail(s)[i] = s[i + 1] /\ i + 1 \in 1..Len(s)
      /\ \A i \in 1..Len(s) : s[i] \in Nat
  OBVIOUS
<1>2. Sorted(Tail(s))
  BY <1>1 DEF Sorted
<1>3. Below(Tail(s), n)
  BY <1>1 DEF Below
<1>4. Head(s) \in Nat /\ Head(s) <= n
  BY <1>1 DEF Below
<1>5. \A i \in 1..Len(Tail(s)) : Head(s) <= Tail(s)[i]
  BY <1>1 DEF Sorted
<1> QED
  BY <1>2, <1>3, <1>4, <1>5

LEMMA InitIInv == Init => IInv
<1> SUFFICES ASSUME Init PROVE IInv
  OBVIOUS
<1>1. TypeOK
  <2>1. <<>> \in Seq(1..MaxEvents)
    OBVIOUS
  <2>2. 0 \in 0..MaxOutages /\ 0 \in 0..MaxEvents /\ 0 \in 0..MaxRetries
    BY BridgeAssumption
  <2> QED
    BY <2>1, <2>2 DEF Init, TypeOK
<1>2. Ordered
  BY EmptySorted DEF Init, Ordered
<1>3. OnlySubscribed /\ Working /\ Counted /\ EndClosesSubscriber
  BY DEF Init, OnlySubscribed, Working, Counted, EndClosesSubscriber
<1> QED
  BY <1>1, <1>2, <1>3 DEF IInv

-----------------------------------------------------------------------------
\* A publish appends the event of add_event to the wire, or leaves it.
LEMMA PublishedWire ==
  ASSUME IInv, pub # "idle", Published
  PROVE  /\ wire' \in Seq(1..MaxEvents) /\ Sorted(wire') /\ Below(wire', event)
         /\ \A i \in 1..Len(received), j \in 1..Len(wire') : received[i] <= wire'[j]
         /\ sub # "subscribed" => wire' = wire
<1>1. /\ event \in Nat /\ event \in 1..MaxEvents /\ wire \in Seq(Nat) /\ wire \in Seq(1..MaxEvents)
      /\ received \in Seq(1..MaxEvents) /\ Sorted(wire) /\ Below(wire, event) /\ Below(received, event)
      /\ \A i \in 1..Len(received), j \in 1..Len(wire) : received[i] <= wire[j]
  BY BridgeAssumption DEF IInv, TypeOK, Ordered, Working
<1>2. CASE sub = "subscribed"
  <2>1. wire' = Append(wire, event)
    BY <1>2 DEF Published
  <2>2. wire' \in Seq(1..MaxEvents)
    BY <1>1, <2>1
  <2>3. Sorted(wire') /\ Below(wire', event)
    BY <1>1, <2>1, AppendSorted
  <2>4. \A i \in 1..Len(received), j \in 1..Len(wire') : received[i] <= wire'[j]
    <3>1. /\ Len(wire') = Len(wire) + 1 /\ Len(wire) \in Nat
          /\ \A j \in 1..Len(wire) : wire'[j] = wire[j]
          /\ wire'[Len(wire) + 1] = event
      BY <1>1, <2>1
    <3>2. \A j \in 1..Len(wire') : j \in 1..Len(wire) \/ j = Len(wire) + 1
      BY <3>1
    <3> QED
      BY <1>1, <3>1, <3>2 DEF Below
  <2> QED
    BY <1>2, <2>2, <2>3, <2>4
<1>3. CASE sub # "subscribed"
  <2>1. wire' = wire
    BY <1>3 DEF Published
  <2> QED
    BY <1>1, <2>1
<1> QED
  BY <1>2, <1>3

\* The steps of add_event, whose events are in order.
LEMMA ListenerStep ==
  ASSUME IInv, Listener
  PROVE  IInv'
<1> USE BridgeAssumption
<1>1. /\ UNCHANGED <<sub, loop, retries, received, shutdown, up>>
      /\ TypeOK /\ Ordered /\ OnlySubscribed /\ Working /\ Counted /\ EndClosesSubscriber
  BY DEF Listener, AddEvent, Publish, PublishFails, Reinit, IInv, redisVars, subVars
<1>2. CASE AddEvent
  <2>1. event' = event + 1 /\ event' \in 1..MaxEvents /\ event \in Nat /\ wire' = wire
        /\ wire \in Seq(1..MaxEvents) /\ received \in Seq(1..MaxEvents)
    BY <1>1, <1>2 DEF AddEvent, TypeOK, subVars
  <2>2. Below(received', event') /\ Below(wire', event')
    <3>1. /\ Len(received) \in Nat /\ \A i \in 1..Len(received) : received[i] \in Nat /\ received[i] <= event
          /\ Len(wire) \in Nat /\ \A i \in 1..Len(wire) : wire[i] \in Nat /\ wire[i] <= event
      BY <1>1, <2>1 DEF Below, Ordered
    <3> QED
      BY <1>1, <2>1, <3>1 DEF Below
  <2>3. local' \in Seq(1..MaxEvents) /\ pub' \in {"idle", "publish"} /\ client' = client /\ outages' = outages
    <3>1. local \in Seq(1..MaxEvents) /\ Append(local, event') \in Seq(1..MaxEvents)
      BY <1>1, <2>1 DEF TypeOK
    <3> QED
      BY <1>2, <3>1 DEF AddEvent, redisVars
  <2>4. TypeOK' /\ Working'
    BY <1>1, <2>1, <2>3 DEF TypeOK, Working
  <2> QED
    BY <1>1, <2>1, <2>2, <2>4 DEF IInv, Ordered, Sorted, OnlySubscribed, Counted, EndClosesSubscriber
<1>3. CASE Publish \/ PublishFails
  <2>1. pub # "idle" /\ event \in 1..MaxEvents /\ event' = event /\ client' = client
        /\ (Published \/ wire' = wire) /\ outages' \in 0..MaxOutages
    BY <1>1, <1>3 DEF Publish, PublishFails, TypeOK, Working, redisVars
  <2>2. /\ wire' \in Seq(1..MaxEvents) /\ Sorted(wire') /\ Below(wire', event)
        /\ \A i \in 1..Len(received), j \in 1..Len(wire') : received[i] <= wire'[j]
        /\ sub # "subscribed" => wire' = wire
    <3>1. CASE Published
      BY <2>1, <3>1, PublishedWire
    <3>2. CASE wire' = wire
      BY <1>1, <3>2 DEF TypeOK, Ordered
    <3> QED
      BY <2>1, <3>1, <3>2
  <2>3. local' \in Seq(1..MaxEvents) /\ pub' \in {"idle", "reinit"}
    <3>1. local \in Seq(1..MaxEvents) /\ Append(local, event) \in Seq(1..MaxEvents)
      BY <1>1, <2>1 DEF TypeOK
    <3> QED
      BY <1>3, <3>1 DEF Publish, PublishFails, Park
  <2>4. TypeOK' /\ Working'
    BY <1>1, <2>1, <2>2, <2>3 DEF TypeOK, Working
  <2>5. Ordered'
    BY <1>1, <2>1, <2>2 DEF Ordered
  <2> QED
    BY <1>1, <2>2, <2>4, <2>5 DEF IInv, OnlySubscribed, Counted, EndClosesSubscriber
<1>4. CASE Reinit
  <2>1. event \in 1..MaxEvents /\ event' = event /\ wire' = wire /\ outages' = outages
    BY <1>1, <1>4 DEF Reinit, Working, subVars, redisVars
  <2>2. local' \in Seq(1..MaxEvents) /\ pub' \in {"idle", "republish"} /\ client' \in BOOLEAN
    <3>1. local \in Seq(1..MaxEvents) /\ Append(local, event) \in Seq(1..MaxEvents)
      BY <1>1, <2>1 DEF TypeOK
    <3> QED
      BY <1>1, <1>4, <3>1 DEF Reinit, Park, TypeOK
  <2>3. TypeOK' /\ Working'
    BY <1>1, <2>1, <2>2 DEF TypeOK, Working
  <2> QED
    BY <1>1, <2>1, <2>3 DEF IInv, Ordered, OnlySubscribed, Counted, EndClosesSubscriber
<1> QED
  BY <1>2, <1>3, <1>4 DEF Listener

\* An empty wire is in order.
LEMMA EmptyWire ==
  ASSUME IInv, wire' = <<>>, UNCHANGED <<received, event>>, loop' = "backoff" => sub' = "none"
  PROVE  Ordered' /\ OnlySubscribed' /\ wire' \in Seq(1..MaxEvents)
BY EmptySorted DEF IInv, Ordered, OnlySubscribed

\* Redis goes away and comes back.
LEMMA RedisStep ==
  ASSUME IInv, Outage \/ Return
  PROVE  IInv'
<1> USE BridgeAssumption
<1>1. CASE Outage
  <2>1. Ordered' /\ OnlySubscribed' /\ wire' \in Seq(1..MaxEvents)
    <3>1. wire' = <<>> /\ UNCHANGED <<received, event>> /\ (loop' = "backoff" => sub' = "none")
      BY <1>1 DEF Outage, pubVars, IInv, OnlySubscribed
    <3> QED
      BY <3>1, EmptyWire
  <2>2. outages' \in 0..MaxOutages /\ sub' \in {"none", "new", "subscribed", "lost", "closed"}
        /\ (sub = "none" => sub' = "none")
    BY <1>1 DEF Outage, IInv, TypeOK
  <2>3. TypeOK'
    BY <1>1, <2>1, <2>2 DEF Outage, IInv, TypeOK, pubVars
  <2> QED
    BY <1>1, <2>1, <2>2, <2>3 DEF Outage, IInv, Working, Counted, EndClosesSubscriber, pubVars
<1>2. CASE Return
  BY <1>2 DEF Return, IInv, TypeOK, Ordered, OnlySubscribed, Working, Counted, EndClosesSubscriber,
     pubVars, subVars
<1> QED
  BY <1>1, <1>2

\* The subscriber's connection breaks or is closed, and the loop counts.
LEMMA FailedStep ==
  ASSUME IInv, loop \in {"subscribe", "get"}, Failed
  PROVE  IInv'
<1> USE BridgeAssumption
<1>1. wire' = <<>> /\ sub' = "none" /\ UNCHANGED <<redisVars, pubVars, received, shutdown>>
  BY DEF Failed, CloseSubscriber
<1>2. Ordered' /\ OnlySubscribed' /\ wire' \in Seq(1..MaxEvents)
  BY <1>1, EmptyWire DEF pubVars
<1>3. /\ retries' \in 1..MaxRetries /\ loop' \in {"backoff", "top"}
      /\ loop' = "backoff" => retries' \in 1..(MaxRetries - 1)
  BY DEF Failed, IInv, TypeOK, Counted
<1>4. TypeOK'
  BY <1>1, <1>2, <1>3 DEF IInv, TypeOK, redisVars, pubVars
<1> QED
  BY <1>1, <1>2, <1>3, <1>4 DEF IInv, Working, Counted, EndClosesSubscriber, pubVars

\* An event goes from the wire to the manager.
LEMMA ReceiveStep ==
  ASSUME IInv, Receive
  PROVE  IInv'
<1> USE BridgeAssumption
<1>1. /\ sub = "subscribed" /\ wire # <<>> /\ loop = "get"
      /\ received' = Append(received, Head(wire)) /\ wire' = Tail(wire)
      /\ UNCHANGED <<up, outages, client, pub, event, local, sub, loop, retries, shutdown>>
  BY DEF Receive, redisVars, pubVars
<1>2. /\ wire \in Seq(Nat) /\ received \in Seq(Nat) /\ event \in Nat
      /\ wire \in Seq(1..MaxEvents) /\ received \in Seq(1..MaxEvents)
      /\ Sorted(received) /\ Sorted(wire) /\ Below(received, event) /\ Below(wire, event)
      /\ \A i \in 1..Len(received), j \in 1..Len(wire) : received[i] <= wire[j]
  BY DEF IInv, TypeOK, Ordered
<1>3. /\ Sorted(Tail(wire)) /\ Below(Tail(wire), event)
      /\ Head(wire) \in Nat /\ Head(wire) <= event
      /\ \A i \in 1..Len(Tail(wire)) : Head(wire) <= Tail(wire)[i]
  BY <1>1, <1>2, TailSorted
<1>4. Head(wire) = wire[1] /\ 1 \in 1..Len(wire) /\ Head(wire) \in 1..MaxEvents
  BY <1>1, <1>2
<1>5. Below(received, Head(wire))
  BY <1>2, <1>4 DEF Below
<1>6. Sorted(received') /\ Below(received', Head(wire))
  BY <1>1, <1>2, <1>3, <1>5, AppendSorted
<1>7. /\ received' \in Seq(1..MaxEvents) /\ wire' \in Seq(1..MaxEvents)
      /\ \A i \in 1..Len(received') : received'[i] \in Nat
      /\ \A i \in 1..Len(wire') : wire'[i] \in Nat
  <2>1. received' \in Seq(1..MaxEvents)
    BY <1>1, <1>2, <1>4
  <2>2. wire' \in Seq(1..MaxEvents)
    BY <1>1, <1>2
  <2> QED
    BY <2>1, <2>2
<1>8. Below(received', event)
  BY <1>2, <1>3, <1>6, <1>7 DEF Below
<1>9. \A i \in 1..Len(received'), j \in 1..Len(wire') : received'[i] <= wire'[j]
  BY <1>1, <1>3, <1>6, <1>7 DEF Below
<1>10. TypeOK'
  BY <1>1, <1>7 DEF IInv, TypeOK
<1> QED
  BY <1>1, <1>3, <1>6, <1>8, <1>9, <1>10
  DEF IInv, Ordered, OnlySubscribed, Working, Counted, EndClosesSubscriber

\* The other steps of the subscriber thread touch no event.
LEMMA SubscriberStep ==
  ASSUME IInv, Subscriber
  PROVE  IInv'
<1> USE BridgeAssumption
<1>1. CASE Try \/ NoSubscriber \/ Leave
  BY <1>1 DEF Try, NoSubscriber, Leave, Continue, IInv, TypeOK, Ordered, OnlySubscribed, Working, Counted,
     EndClosesSubscriber, redisVars, pubVars
<1>2. CASE Subscribe \/ Resubscribe \/ Backoff
  <2>1. /\ UNCHANGED <<redisVars, pubVars, wire, received, shutdown>>
        /\ sub' \in {"subscribed", "new", "none"} /\ loop' \in {"get", "top"} /\ retries' \in {0, retries}
        /\ loop' = "get" => retries' = 0 \/ loop = "get"
        /\ sub' # "subscribed" => loop = "backoff"
    BY <1>2 DEF Subscribe, Resubscribe, Backoff, redisVars, pubVars
  <2>2. TypeOK'
    BY <2>1 DEF IInv, TypeOK, redisVars, pubVars
  <2>3. Ordered' /\ OnlySubscribed' /\ Working' /\ EndClosesSubscriber'
    BY <2>1 DEF IInv, Ordered, OnlySubscribed, Working, EndClosesSubscriber, redisVars, pubVars
  <2>4. Counted'
    BY <1>2 DEF Subscribe, Resubscribe, Backoff, IInv, Counted, TypeOK
  <2> QED
    BY <2>2, <2>3, <2>4 DEF IInv
<1>3. CASE SubscribeFails \/ GetFails
  BY <1>3, FailedStep DEF SubscribeFails, GetFails
<1>4. CASE Receive
  BY <1>4, ReceiveStep
<1>5. CASE EndLoop
  <2>1. wire' = <<>> /\ sub' = "none" /\ loop' = "ended"
        /\ UNCHANGED <<redisVars, pubVars, retries, received, shutdown>>
    BY <1>5 DEF EndLoop, CloseSubscriber
  <2>2. Ordered' /\ OnlySubscribed' /\ wire' \in Seq(1..MaxEvents)
    BY <2>1, EmptyWire DEF pubVars
  <2>3. TypeOK'
    BY <2>1, <2>2 DEF IInv, TypeOK, redisVars, pubVars
  <2> QED
    BY <2>1, <2>2, <2>3 DEF IInv, Working, Counted, EndClosesSubscriber, pubVars
<1> QED
  BY <1>1, <1>2, <1>3, <1>4, <1>5 DEF Subscriber

LEMMA ShutdownStep ==
  ASSUME IInv, Shutdown
  PROVE  IInv'
<1>1. UNCHANGED <<up, outages, client, pub, event, local, loop, retries, received>> /\ shutdown' = TRUE
  BY DEF Shutdown, redisVars, pubVars
<1>2. CASE UNCHANGED <<sub, wire>>
  BY <1>1, <1>2 DEF IInv, TypeOK, Ordered, OnlySubscribed, Working, Counted, EndClosesSubscriber
<1>3. CASE sub # "none" /\ sub' = "closed" /\ wire' = <<>>
  <2>1. Ordered' /\ OnlySubscribed' /\ wire' \in Seq(1..MaxEvents)
    <3>1. loop' # "backoff"
      BY <1>1, <1>3 DEF IInv, OnlySubscribed
    <3> QED
      BY <1>1, <1>3, <3>1, EmptyWire
  <2>2. TypeOK'
    BY <1>1, <1>3, <2>1 DEF IInv, TypeOK
  <2> QED
    BY <1>1, <1>3, <2>1, <2>2 DEF IInv, Working, Counted, EndClosesSubscriber
<1> QED
  BY <1>2, <1>3 DEF Shutdown

LEMMA Step == IInv /\ [Next]_vars => IInv'
<1> SUFFICES ASSUME IInv, [Next]_vars PROVE IInv'
  OBVIOUS
<1>1. CASE UNCHANGED vars
  BY <1>1 DEF IInv, TypeOK, Ordered, OnlySubscribed, Working, Counted, EndClosesSubscriber,
     vars, redisVars, pubVars, subVars
<1> QED
  BY <1>1, RedisStep, ListenerStep, SubscriberStep, ShutdownStep DEF Next

-----------------------------------------------------------------------------
\* Two sequences in order, one below the other, are in order one after the other.
LEMMA OrderedInOrder == IInv => InOrder
<1> SUFFICES ASSUME IInv PROVE InOrder
  OBVIOUS
<1> DEFINE seen == received \o wire
<1>1. /\ received \in Seq(1..MaxEvents) /\ wire \in Seq(1..MaxEvents)
      /\ Sorted(received) /\ Sorted(wire)
      /\ \A i \in 1..Len(received), j \in 1..Len(wire) : received[i] <= wire[j]
  BY DEF IInv, TypeOK, Ordered
<1>2. /\ Len(received) \in Nat /\ Len(wire) \in Nat /\ Len(seen) = Len(received) + Len(wire)
      /\ \A i \in 1..Len(received) : seen[i] = received[i]
      /\ \A i \in 1..Len(wire) : seen[Len(received) + i] = wire[i]
  BY <1>1
<1>3. \A i \in 1..Len(seen) :
        \/ i \in 1..Len(received) /\ seen[i] = received[i]
        \/ i - Len(received) \in 1..Len(wire) /\ seen[i] = wire[i - Len(received)]
  <2> HIDE DEF seen
  <2> SUFFICES ASSUME NEW i \in 1..Len(seen), i \notin 1..Len(received)
               PROVE  i - Len(received) \in 1..Len(wire) /\ seen[i] = wire[i - Len(received)]
    BY <1>2
  <2>1. i - Len(received) \in 1..Len(wire) /\ Len(received) + (i - Len(received)) = i
    BY <1>2
  <2> QED
    BY <1>2, <2>1
<1> HIDE DEF seen
<1>4. \A i, j \in 1..Len(seen) : i < j => seen[i] <= seen[j]
  <2> SUFFICES ASSUME NEW i \in 1..Len(seen), NEW j \in 1..Len(seen), i < j
               PROVE  seen[i] <= seen[j]
    OBVIOUS
  <2>1. CASE i \in 1..Len(received) /\ seen[i] = received[i]
    BY <1>1, <1>2, <1>3, <2>1 DEF Sorted
  <2>2. CASE i \notin 1..Len(received)
    <3> DEFINE k == i - Len(received)
               l == j - Len(received)
    <3>1. k \in 1..Len(wire) /\ seen[i] = wire[k]
      BY <1>3, <2>2
    <3>2. l \in 1..Len(wire) /\ seen[j] = wire[l] /\ k < l
      <4>1. j \notin 1..Len(received)
        BY <1>2, <2>2
      <4> QED
        BY <1>2, <1>3, <4>1
    <3> HIDE DEF k, l
    <3> QED
      BY <1>1, <3>1, <3>2 DEF Sorted
  <2> QED
    BY <1>3, <2>1, <2>2
<1> QED
  BY <1>4 DEF InOrder, seen

\* Every variable keeps its type, and the loop backs off between two tries only,
\* for any numbers of events, retries and outages.
THEOREM TypeCorrect == Spec => []TypeOK
<1>1. IInv => TypeOK
  BY DEF IInv
<1> QED
  BY <1>1, InitIInv, Step, PTL DEF Spec

\* Events reach the WebSocket manager in the order of the notifications: an event
\* that is published again after a reconnection may be there twice, never behind
\* a later one.
THEOREM Order == Spec => []InOrder
BY InitIInv, Step, OrderedInOrder, PTL DEF Spec

\* A subscriber thread that has ended leaves no subscriber behind, also when
\* shutdown() closes it from another thread.
THEOREM EndCloses == Spec => []EndClosesSubscriber
<1>1. IInv => EndClosesSubscriber
  BY DEF IInv
<1> QED
  BY <1>1, InitIInv, Step, PTL DEF Spec

-----------------------------------------------------------------------------
(* The gaps in what comes out.                                               *)

\* What the manager has been given or will be.
Seen == received \o wire

\* The places of a sequence after which a number is skipped.
Gaps(s) == {i \in 1..(Len(s) - 1) : s[i + 1] > s[i] + 1}

\* The next event that can be published.
Due == IF pub = "idle" THEN event + 1 ELSE event

\* Nothing more can come out: the listener has no client any more, or the
\* subscriber thread does not subscribe again.
Over ==
  \/ ~client
  \/ sub # "subscribed" /\ loop = "ended"
  \/ sub # "subscribed" /\ shutdown /\ loop # "subscribe"

\* The next event to come out may leave a gap behind the last.
Behind == Seen # <<>> /\ (sub # "subscribed" \/ Seen[Len(Seen)] + 1 < Due)

\* There was a failure of Redis for every gap, and one for the gap that the
\* next event may leave.
Charged ==
  /\ Cardinality(Gaps(Seen)) <= outages
  /\ Behind /\ ~Over => Cardinality(Gaps(Seen)) < outages

\* A connection is there while Redis is and while the loop reads from it, or
\* has just seen a shutdown.
Connected ==
  /\ sub = "subscribed" => up /\ loop \in {"get", "top"}
  /\ sub = "subscribed" /\ loop = "top" => shutdown
  /\ ~client => pub = "idle"

ChargedInv == IInv /\ Charged /\ Connected

LEMMA GapsFinite ==
  ASSUME NEW s \in Seq(Nat)
  PROVE  IsFiniteSet(Gaps(s)) /\ Cardinality(Gaps(s)) \in Nat
<1>1. Gaps(s) \subseteq 1..(Len(s) - 1) /\ Len(s) - 1 \in Int
  BY DEF Gaps
<1>2. IsFiniteSet(1..(Len(s) - 1))
  BY <1>1, FS_Interval
<1> QED
  BY <1>1, <1>2, FS_Subset, FS_CardinalityType

\* A number behind a sequence leaves one gap at most, and none if it follows
\* the last one.
LEMMA GapsAppend ==
  ASSUME NEW s \in Seq(Nat), NEW n \in Nat
  PROVE  /\ Cardinality(Gaps(Append(s, n))) <= Cardinality(Gaps(s)) + 1
         /\ s = <<>> => Cardinality(Gaps(Append(s, n))) = 0
         /\ s # <<>> /\ n <= s[Len(s)] + 1 =>
              Cardinality(Gaps(Append(s, n))) = Cardinality(Gaps(s))
<1> DEFINE r == Append(s, n)
<1>1. /\ Len(s) \in Nat /\ Len(r) = Len(s) + 1 /\ r[Len(s) + 1] = n
      /\ \A i \in 1..Len(s) : r[i] = s[i] /\ s[i] \in Nat
      /\ s = <<>> <=> Len(s) = 0
      /\ r \in Seq(Nat)
  OBVIOUS
<1> HIDE DEF r
<1>2. Gaps(r) \subseteq Gaps(s) \cup {Len(s)}
  <2> SUFFICES ASSUME NEW i \in 1..(Len(r) - 1), r[i + 1] > r[i] + 1, i # Len(s)
               PROVE  i \in 1..(Len(s) - 1) /\ s[i + 1] > s[i] + 1
    BY DEF Gaps
  <2>1. i \in 1..Len(s) /\ i + 1 \in 1..Len(s)
    BY <1>1
  <2> QED
    BY <1>1, <2>1
<1>3. IsFiniteSet(Gaps(s)) /\ Cardinality(Gaps(s)) \in Nat /\ Cardinality(Gaps(r)) \in Nat
  BY <1>1, GapsFinite
<1>4. /\ IsFiniteSet(Gaps(s) \cup {Len(s)})
      /\ Cardinality(Gaps(s) \cup {Len(s)}) <= Cardinality(Gaps(s)) + 1
  <2>1. Len(s) \notin Gaps(s)
    BY <1>1 DEF Gaps
  <2> QED
    BY <1>3, <2>1, FS_AddElement
<1>5. Cardinality(Gaps(r)) <= Cardinality(Gaps(s)) + 1
  <2>1. Cardinality(Gaps(r)) <= Cardinality(Gaps(s) \cup {Len(s)})
    BY <1>2, <1>4, FS_Subset
  <2>2. Cardinality(Gaps(s) \cup {Len(s)}) \in Nat
    BY <1>4, FS_CardinalityType
  <2> QED
    BY <1>3, <1>4, <2>1, <2>2
<1>6. s = <<>> => Cardinality(Gaps(r)) = 0
  <2> SUFFICES ASSUME s = <<>> PROVE Gaps(r) = {}
    BY FS_EmptySet
  <2> QED
    BY <1>1 DEF Gaps
<1>7. ASSUME s # <<>>, n <= s[Len(s)] + 1 PROVE Gaps(r) = Gaps(s)
  <2>1. Len(s) \in 1..Len(s) /\ r[Len(s)] = s[Len(s)] /\ ~(r[Len(s) + 1] > r[Len(s)] + 1)
    BY <1>1, <1>7
  <2>2. Len(s) \notin Gaps(r)
    BY <2>1 DEF Gaps
  <2>3. ASSUME NEW i \in Gaps(s) PROVE i \in Gaps(r)
    <3>1. i \in 1..(Len(s) - 1) /\ s[i + 1] > s[i] + 1
      BY <2>3 DEF Gaps
    <3>2. i \in 1..Len(s) /\ i + 1 \in 1..Len(s) /\ i \in 1..(Len(r) - 1)
      BY <3>1, <1>1
    <3>3. r[i] = s[i] /\ r[i + 1] = s[i + 1]
      BY <3>2, <1>1
    <3> QED
      BY <3>1, <3>2, <3>3 DEF Gaps
  <2> QED
    BY <1>2, <2>2, <2>3
<1> QED
  BY <1>5, <1>6, <1>7 DEF r

\* To lose the end of a sequence adds no gap.
LEMMA GapsPrefix ==
  ASSUME NEW s \in Seq(Nat), NEW w \in Seq(Nat)
  PROVE  Cardinality(Gaps(s)) <= Cardinality(Gaps(s \o w))
<1> DEFINE r == s \o w
<1>1. /\ r \in Seq(Nat) /\ Len(s) \in Nat /\ Len(w) \in Nat /\ Len(r) = Len(s) + Len(w)
      /\ \A i \in 1..Len(s) : r[i] = s[i]
  BY ConcatProperties
<1> HIDE DEF r
<1>2. ASSUME NEW i \in Gaps(s) PROVE i \in Gaps(r)
  <2>1. i \in 1..(Len(s) - 1) /\ s[i + 1] > s[i] + 1
    BY <1>2 DEF Gaps
  <2>2. i \in 1..Len(s) /\ i + 1 \in 1..Len(s) /\ i \in 1..(Len(r) - 1)
    BY <2>1, <1>1
  <2>3. r[i] = s[i] /\ r[i + 1] = s[i + 1]
    BY <2>2, <1>1
  <2> QED
    BY <2>1, <2>2, <2>3 DEF Gaps
<1>3. Gaps(s) \subseteq Gaps(r) /\ IsFiniteSet(Gaps(r))
  BY <1>1, <1>2, GapsFinite
<1> QED
  BY <1>3, FS_Subset DEF r

LEMMA SeenTypes ==
  ASSUME IInv
  PROVE  /\ received \in Seq(Nat) /\ wire \in Seq(Nat) /\ Seen \in Seq(Nat)
         /\ Cardinality(Gaps(Seen)) \in Nat /\ outages \in Nat /\ event \in Nat
         /\ Seen # <<>> => Seen[Len(Seen)] \in Nat
<1>1. received \in Seq(Nat) /\ wire \in Seq(Nat) /\ outages \in Nat /\ event \in Nat
  BY BridgeAssumption DEF IInv, TypeOK
<1>2. Seen \in Seq(Nat)
  BY <1>1, ConcatProperties DEF Seen
<1>3. Seen # <<>> => Seen[Len(Seen)] \in Nat
  BY <1>2
<1> QED
  BY <1>1, <1>2, <1>3, GapsFinite

\* A step that leaves alone what comes out, and after which the next event can
\* leave a gap only if it could before.
LEMMA SameSeen ==
  ASSUME IInv, Charged, UNCHANGED <<received, wire>>, outages' \in Nat, outages <= outages',
         Behind' /\ ~Over' => Behind /\ ~Over
  PROVE  Charged'
<1>1. Seen' = Seen
  BY DEF Seen
<1>2. Gaps(Seen)' = Gaps(Seen)
  BY <1>1 DEF Gaps
<1> QED
  BY <1>2, SeenTypes DEF Charged

\* A step that loses what is on the wire: an outage, or the end.
LEMMA LostWire ==
  ASSUME IInv, Charged, UNCHANGED received, wire' = <<>>, outages' \in Nat,
         outages' = outages + 1 \/ (outages' = outages /\ Over')
  PROVE  Charged'
<1>1. Seen' = received
  BY SeenTypes, ConcatEmptySeq DEF Seen
<1>2. Cardinality(Gaps(Seen)') <= Cardinality(Gaps(Seen))
  BY <1>1, SeenTypes, GapsPrefix DEF Seen, Gaps
<1>3. Cardinality(Gaps(Seen)') \in Nat
  BY <1>1, SeenTypes, GapsFinite DEF Gaps
<1> QED
  BY <1>2, <1>3, SeenTypes DEF Charged

\* A step that publishes the event add_event works on.
LEMMA PublishedCharged ==
  ASSUME ChargedInv, pub \in {"publish", "republish"}, up, Published,
         UNCHANGED <<client, event, sub, loop, received, shutdown>>,
         \/ pub' = "idle" /\ outages' \in {outages, outages + 1}
         \/ pub' = "reinit" /\ outages' = outages + 1
  PROVE  Charged'
<1>0. /\ IInv /\ Charged /\ Connected /\ client /\ ~(sub = "subscribed" /\ Over)
      /\ Cardinality(Gaps(Seen)) \in Nat /\ outages \in Nat /\ event \in Nat
      /\ Seen \in Seq(Nat) /\ Due = event /\ outages' \in Nat /\ outages <= outages'
  BY SeenTypes DEF ChargedInv, Connected, Over, Due
<1>1. CASE sub = "subscribed"
  <2>1. Seen' = Append(Seen, event)
    <3>1. wire' = Append(wire, event)
      BY <1>1 DEF Published
    <3>2. received \in Seq(Nat) /\ wire \in Seq(Nat) /\ <<event>> \in Seq(Nat)
      BY <1>0, SeenTypes
    <3>3. received \o (wire \o <<event>>) = (received \o wire) \o <<event>>
      BY <3>2, ConcatAssociative
    <3>4. Append(wire, event) = wire \o <<event>> /\ Append(Seen, event) = Seen \o <<event>>
      BY <3>2, <1>0, AppendIsConcat
    <3> QED
      BY <3>1, <3>3, <3>4 DEF Seen
  <2>2. Seen'[Len(Seen')] = event
    BY <1>0, <2>1
  <2>3. Gaps(Seen)' = Gaps(Append(Seen, event)) /\ Cardinality(Gaps(Append(Seen, event))) \in Nat
    <3>1. Append(Seen, event) \in Seq(Nat)
      BY <1>0
    <3> QED
      BY <2>1, <3>1, GapsFinite DEF Gaps
  <2>4. /\ Cardinality(Gaps(Seen)') <= Cardinality(Gaps(Seen)) + 1
        /\ Seen = <<>> => Cardinality(Gaps(Seen)') = 0
        /\ Seen # <<>> /\ event <= Seen[Len(Seen)] + 1 =>
             Cardinality(Gaps(Seen)') = Cardinality(Gaps(Seen))
    BY <1>0, <2>3, GapsAppend
  <2>5. Cardinality(Gaps(Seen)') <= outages
    <3>1. CASE Seen = <<>>
      BY <1>0, <2>4, <3>1
    <3>2. CASE Seen # <<>> /\ event <= Seen[Len(Seen)] + 1
      BY <1>0, <2>4, <3>2 DEF Charged
    <3>3. CASE Seen # <<>> /\ ~(event <= Seen[Len(Seen)] + 1)
      <4>1. Behind /\ ~Over
        BY <1>0, <1>1, <3>3, SeenTypes DEF Behind
      <4> QED
        BY <1>0, <2>3, <2>4, <4>1 DEF Charged
    <3> QED
      BY <3>1, <3>2, <3>3
  <2>6. pub' = "idle" => ~Behind'
    BY <1>0, <1>1, <2>2 DEF Behind, Due
  <2>7. pub' # "idle" => Cardinality(Gaps(Seen)') < outages'
    BY <1>0, <2>3, <2>5
  <2> QED
    BY <1>0, <2>3, <2>5, <2>6, <2>7 DEF Charged
<1>2. CASE sub # "subscribed"
  <2>1. wire' = wire
    BY <1>2 DEF Published
  <2>2. Behind' => Behind
    BY <1>2, <2>1 DEF Behind, Seen
  <2>3. Over' <=> Over
    BY DEF Over
  <2> QED
    BY <1>0, <2>1, <2>2, <2>3, SameSeen
<1> QED
  BY <1>1, <1>2


\* Redis is there at the start, and no failure is needed before the first event.
LEMMA InitChargedInv == Init => ChargedInv
<1> SUFFICES ASSUME Init PROVE ChargedInv
  OBVIOUS
<1>1. IInv
  BY InitIInv
<1>2. Seen = <<>>
  BY DEF Init, Seen
<1>3. Cardinality(Gaps(Seen)) = 0
  <2>1. Gaps(Seen) = {}
    BY <1>2 DEF Gaps
  <2> QED
    BY <2>1, FS_EmptySet
<1>4. Charged
  BY <1>2, <1>3 DEF Init, Charged, Behind
<1>5. Connected
  BY DEF Init, Connected
<1> QED
  BY <1>1, <1>4, <1>5 DEF ChargedInv

LEMMA ListenerCharged == ChargedInv /\ Listener => Charged'
<1> SUFFICES ASSUME ChargedInv, Listener PROVE Charged'
  OBVIOUS
<1>0. /\ IInv /\ Charged /\ Connected /\ outages \in Nat /\ event \in Nat /\ Seen \in Seq(Nat)
      /\ UNCHANGED <<received, sub, loop, shutdown>>
      /\ Seen # <<>> => Seen[Len(Seen)] \in Nat
  BY SeenTypes DEF ChargedInv, Listener, AddEvent, Publish, PublishFails, Reinit, subVars
<1>1. CASE AddEvent
  <2>1. UNCHANGED <<outages, wire, client>> /\ pub = "idle" /\ event' = event + 1
        /\ IF client THEN pub' = "publish" ELSE pub' = pub
    BY <1>1 DEF AddEvent, redisVars, subVars
  <2>2. client => Due' = Due
    BY <2>1 DEF Due
  <2>3. Behind' /\ ~Over' => Behind /\ ~Over
    BY <1>0, <2>1, <2>2 DEF Behind, Over, Seen
  <2> QED
    BY <1>0, <2>1, <2>3, SameSeen
<1>2. CASE Publish
  BY <1>0, <1>2, PublishedCharged DEF Publish, redisVars
<1>3. CASE PublishFails /\ up
  BY <1>0, <1>3, PublishedCharged DEF PublishFails
<1>4. CASE PublishFails /\ ~up
  <2>1. UNCHANGED <<outages, wire, client, event>> /\ sub # "subscribed"
    BY <1>0, <1>4 DEF PublishFails, Connected
  <2>2. Behind' /\ ~Over' => Behind /\ ~Over
    BY <1>0, <2>1 DEF Behind, Over, Seen
  <2> QED
    BY <1>0, <2>1, <2>2, SameSeen
<1>5. CASE Reinit
  <2>1. UNCHANGED <<outages, wire, event>> /\ pub = "reinit" /\ client' = up
        /\ (up => pub' = "republish")
    BY <1>5 DEF Reinit, redisVars, subVars
  <2>2. client /\ (client' => Due' = Due)
    BY <1>0, <2>1 DEF Due, Connected
  <2>3. Behind' /\ ~Over' => Behind /\ ~Over
    BY <1>0, <2>1, <2>2 DEF Behind, Over, Seen
  <2> QED
    BY <1>0, <2>1, <2>3, SameSeen
<1> QED
  BY <1>1, <1>2, <1>3, <1>4, <1>5 DEF Listener

LEMMA SubscriberCharged == ChargedInv /\ Subscriber => Charged'
<1> SUFFICES ASSUME ChargedInv, Subscriber PROVE Charged'
  OBVIOUS
<1>0. /\ IInv /\ Charged /\ Connected /\ outages \in Nat /\ OnlySubscribed
      /\ UNCHANGED <<outages, client, pub, event, up>> /\ Due' = Due
  <2>1. UNCHANGED <<outages, client, pub, event, up>>
    BY DEF Subscriber, Try, NoSubscriber, Subscribe, SubscribeFails, Receive, Resubscribe, GetFails,
       Leave, Backoff, EndLoop, Failed, redisVars, pubVars
  <2> QED
    BY <2>1, SeenTypes DEF ChargedInv, IInv, Due
<1>1. CASE Try \/ NoSubscriber \/ Subscribe \/ Resubscribe \/ Leave \/ Backoff
  <2>1. UNCHANGED <<received, wire>>
    BY <1>1 DEF Try, NoSubscriber, Subscribe, Resubscribe, Leave, Backoff
  <2>2. Behind' => Behind
    BY <1>0, <1>1, <2>1
    DEF Try, NoSubscriber, Subscribe, Resubscribe, Leave, Backoff, Behind, Seen, OnlySubscribed
  <2>3. Over => Over' \/ sub' = "subscribed"
    BY <1>0, <1>1
    DEF Try, NoSubscriber, Subscribe, Resubscribe, Leave, Backoff, Over, OnlySubscribed, Continue
  <2>4. sub' = "subscribed" /\ Over => Over'
    BY <1>0, <1>1
    DEF Try, NoSubscriber, Subscribe, Resubscribe, Leave, Backoff, Over, OnlySubscribed, Continue
  <2> QED
    BY <1>0, <2>1, <2>2, <2>3, <2>4, SameSeen
<1>2. CASE SubscribeFails \/ GetFails
  <2>1. sub # "subscribed" /\ sub' = "none" /\ wire' = <<>> /\ UNCHANGED <<received, shutdown>>
        /\ loop' \in {"backoff", "top"} /\ loop \in {"subscribe", "get"}
    BY <1>0, <1>2 DEF SubscribeFails, GetFails, Failed, CloseSubscriber, Connected
  <2>2. wire' = wire
    BY <1>0, <2>1 DEF OnlySubscribed
  <2>3. Behind' /\ ~Over' => Behind /\ ~Over
    BY <1>0, <2>1, <2>2 DEF Behind, Over, Seen
  <2> QED
    BY <1>0, <2>1, <2>2, <2>3, SameSeen
<1>3. CASE Receive
  <2>1. /\ sub = "subscribed" /\ sub' = sub /\ wire # <<>> /\ UNCHANGED <<loop, shutdown>>
        /\ received' = Append(received, Head(wire)) /\ wire' = Tail(wire)
    BY <1>3 DEF Receive
  <2>2. Seen' = Seen
    <3>1. received \in Seq(Nat) /\ wire \in Seq(Nat)
      BY <1>0, SeenTypes
    <3>2. Head(wire) \in Nat /\ Tail(wire) \in Seq(Nat) /\ <<Head(wire)>> \in Seq(Nat)
      BY <2>1, <3>1
    <3>3. Append(received, Head(wire)) = received \o <<Head(wire)>>
      BY <3>1, <3>2, AppendIsConcat
    <3>4. <<Head(wire)>> \o Tail(wire) = wire
      BY <2>1, <3>1
    <3>5. (received \o <<Head(wire)>>) \o Tail(wire) = received \o (<<Head(wire)>> \o Tail(wire))
      BY <3>1, <3>2, ConcatAssociative
    <3> QED
      BY <2>1, <3>3, <3>4, <3>5 DEF Seen
  <2>3. (Behind' <=> Behind) /\ (Over' <=> Over) /\ Gaps(Seen)' = Gaps(Seen)
    BY <1>0, <2>1, <2>2 DEF Behind, Over, Gaps
  <2> QED
    BY <1>0, <2>3 DEF Charged
<1>4. CASE EndLoop
  <2>1. sub' = "none" /\ wire' = <<>> /\ UNCHANGED received /\ loop' = "ended"
    BY <1>4 DEF EndLoop, CloseSubscriber
  <2> QED
    BY <1>0, <2>1, LostWire DEF Over
<1> QED
  BY <1>1, <1>2, <1>3, <1>4 DEF Subscriber

LEMMA StepCharged == ChargedInv /\ [Next]_vars => Charged'
<1> SUFFICES ASSUME ChargedInv, [Next]_vars PROVE Charged'
  OBVIOUS
<1>0. IInv /\ Charged /\ Connected /\ outages \in Nat
  BY SeenTypes DEF ChargedInv
<1>1. CASE Outage
  <2>1. outages' = outages + 1 /\ wire' = <<>> /\ UNCHANGED received
    BY <1>1 DEF Outage
  <2> QED
    BY <1>0, <2>1, LostWire
<1>2. CASE Return \/ UNCHANGED vars
  <2>1. UNCHANGED <<outages, client, pub, event, wire, sub, loop, received, shutdown>>
    BY <1>2 DEF Return, vars, redisVars, pubVars, subVars
  <2>2. Behind' /\ ~Over' => Behind /\ ~Over
    BY <2>1 DEF Behind, Over, Seen, Due
  <2> QED
    BY <1>0, <2>1, <2>2, SameSeen
<1>3. CASE Listener
  BY <1>3, ListenerCharged
<1>4. CASE Subscriber
  BY <1>4, SubscriberCharged
<1>5. CASE Shutdown
  <2>1. UNCHANGED <<outages, client, pub, event, loop, received>> /\ shutdown'
    BY <1>5 DEF Shutdown, redisVars, pubVars
  <2>2. CASE UNCHANGED <<sub, wire>>
    <3>1. Behind' /\ ~Over' => Behind /\ ~Over
      BY <2>1, <2>2 DEF Behind, Over, Seen, Due
    <3> QED
      BY <1>0, <2>1, <2>2, <3>1, SameSeen
  <2>3. CASE sub' = "closed" /\ wire' = <<>> /\ loop = "subscribe"
    <3>1. sub # "subscribed"
      BY <1>0, <2>3 DEF Connected
    <3>2. UNCHANGED wire
      BY <1>0, <2>3, <3>1 DEF IInv, OnlySubscribed
    <3>3. Behind' /\ ~Over' => Behind /\ ~Over
      BY <2>1, <2>3, <3>1, <3>2 DEF Behind, Over, Seen
    <3> QED
      BY <1>0, <2>1, <3>2, <3>3, SameSeen
  <2>4. CASE sub' = "closed" /\ wire' = <<>> /\ loop # "subscribe"
    BY <1>0, <2>1, <2>4, LostWire DEF Over
  <2> QED
    BY <1>5, <2>2, <2>3, <2>4 DEF Shutdown
<1> QED
  BY <1>1, <1>2, <1>3, <1>4, <1>5 DEF Next

LEMMA StepConnected == ChargedInv /\ [Next]_vars => Connected'
<1> SUFFICES ASSUME ChargedInv, [Next]_vars PROVE Connected'
  OBVIOUS
<1>0. Connected /\ OnlySubscribed
  BY DEF ChargedInv, IInv
<1>1. CASE Outage \/ Return \/ Shutdown \/ UNCHANGED vars
  BY <1>0, <1>1 DEF Outage, Return, Shutdown, Connected, vars, redisVars, pubVars, subVars
<1>2. CASE Listener
  BY <1>0, <1>2 DEF Listener, AddEvent, Publish, PublishFails, Reinit, Connected, redisVars, subVars
<1>3. CASE Subscriber
  BY <1>0, <1>3
  DEF Subscriber, Try, NoSubscriber, Subscribe, SubscribeFails, Receive, Resubscribe, GetFails, Leave,
      Backoff, EndLoop, Failed, CloseSubscriber, Continue, Connected, OnlySubscribed, redisVars, pubVars
<1> QED
  BY <1>1, <1>2, <1>3 DEF Next

\* The events that come to the manager have no more gaps than there were
\* failures of Redis, whatever was parked, published again or lost on a wire.
THEOREM Gaplessness == Spec => []GapsAreOutages
<1>1. ChargedInv => GapsAreOutages
  BY DEF ChargedInv, Charged, GapsAreOutages, Gaps, Seen
<1>2. ChargedInv /\ [Next]_vars => ChargedInv'
  BY Step, StepCharged, StepConnected DEF ChargedInv
<1> QED
  BY <1>1, <1>2, InitChargedInv, PTL DEF Spec

=============================================================================
