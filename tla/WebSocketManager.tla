-------------------------- MODULE WebSocketManager --------------------------
(***************************************************************************)
(* The WebSocket manager of the API process and the thread of the event    *)
(* bridge that feeds it.  On the event loop, the handler of each client    *)
(* registers a connection, changes its filters and removes it; one         *)
(* broadcaster task takes the events from an asyncio.Queue and sends each  *)
(* to a copy of the connections, one send after the other (in any order:   *)
(* it is that of a dict, and nothing depends on it).  The bridge's thread  *)
(* runs the enqueuing coroutine on that loop, or on a private loop while   *)
(* the manager has none.                                                   *)
(*                                                                         *)
(* What a coroutine does between two awaits is one step.  The manager's    *)
(* lock is only held over code without an await, so it is never waited     *)
(* for.  asyncio.Queue is not made for two threads, and the bridge's       *)
(* thread is one of its own while it runs a private loop: there, get() and *)
(* put() are taken apart.  get() looks whether the queue is empty and then *)
(* registers a waiter; put() appends the event and then resolves the       *)
(* waiter that it finds.  The server's timer wakes the loop of a waiter    *)
(* that a private loop has resolved.                                       *)
(***************************************************************************)
EXTENDS Integers, Sequences, Functions

CONSTANTS
  Clients,
  Events,      \* a sequence of records with the three Dimensions: what is filtered
  Updates      \* the filters that clients set, records with some of them

Dimensions == {"event", "node", "service"}

VARIABLES
  thread,       \* the bridge's thread: "idle", "private", "putting", "result"
  n,            \* the number of the event it works on
  posted,       \* coroutines scheduled on the loop, as event numbers
  queue,        \* event_queue
  loopKnown,    \* the manager's loop is set
  bc,           \* the broadcaster: "none", "get", "empty" (seen, no waiter yet),
                \* "waiting", "woken", "sending"
  current,      \* the event it broadcasts
  todo,         \* connections_copy that it has still to send to
  failed,       \* disconnected_connections
  connections,  \* the clients registered
  filters,      \* the three filter lists of each connection, as sets
  peer,         \* each client's end: "new", "open", "gone"
  handled,      \* the clients whose handler waits for a message
  got,          \* events each client got since it connected or set filters
  since         \* number of events that were broadcast before that

threadVars == <<thread, n, posted>>
sendVars == <<bc, current, todo, failed>>
clientVars == <<connections, filters, peer, handled, got, since>>
vars == <<threadVars, queue, loopKnown, sendVars, clientVars>>

-----------------------------------------------------------------------------
\* No client asks for a node of the name of no node.
ManagerAssumption ==
  /\ Events \in Seq([Dimensions -> STRING])
  /\ \A u \in Updates : DOMAIN u \subseteq Dimensions /\ ("node" \in DOMAIN u => "None" \notin u["node"])

NoFilter == [d \in Dimensions |-> {}]

Init ==
  /\ thread = "idle" /\ n = 0 /\ posted = <<>>
  /\ queue = <<>>
  /\ loopKnown = FALSE
  /\ bc = "none" /\ current = 0 /\ todo = {} /\ failed = {}
  /\ connections = {}
  /\ filters = [c \in Clients |-> NoFilter]
  /\ peer = [c \in Clients |-> "new"]
  /\ handled = {}
  /\ got = [c \in Clients |-> <<>>]
  /\ since = [c \in Clients |-> 0]

-----------------------------------------------------------------------------
\* The bridge's thread: an event has come; is there a loop to run on?
BridgeEvent ==
  /\ thread = "idle"
  /\ n < Len(Events)
  /\ n' = n + 1
  /\ IF loopKnown
     THEN thread' = "result" /\ posted' = Append(posted, n + 1)
     ELSE thread' = "private" /\ UNCHANGED posted
  /\ UNCHANGED <<queue, loopKnown, sendVars, clientVars>>

\* The private loop runs the coroutine, in the thread: put_nowait appends ...
PrivatePut ==
  /\ thread = "private"
  /\ queue' = Append(queue, n)
  /\ thread' = "putting"
  /\ UNCHANGED <<n, posted, loopKnown, sendVars, clientVars>>

\* put_nowait resolves the waiter, if there is one.
Wakes == bc' = IF bc = "waiting" THEN "woken" ELSE bc

\* ... and wakes.
PrivateWake ==
  /\ thread = "putting"
  /\ thread' = "idle"
  /\ Wakes
  /\ UNCHANGED <<n, posted, queue, loopKnown, current, todo, failed, clientVars>>

\* The loop does nothing else between the two halves of the broadcaster's get().
LoopFree == bc # "empty"

\* The loop runs the coroutine.
LoopPut ==
  /\ posted # <<>> /\ LoopFree
  /\ queue' = Append(queue, Head(posted))
  /\ posted' = Tail(posted)
  /\ Wakes
  /\ UNCHANGED <<thread, n, loopKnown, current, todo, failed, clientVars>>

\* future.result(timeout=10): the coroutine is done, or it takes too long and
\* stays scheduled.
Result ==
  /\ thread = "result"
  /\ thread' = "idle"
  /\ UNCHANGED <<n, posted, queue, loopKnown, sendVars, clientVars>>

-----------------------------------------------------------------------------
\* Accept, register; the first client starts the broadcaster.
Connect(c) ==
  /\ peer[c] = "new" /\ LoopFree
  /\ peer' = [peer EXCEPT ![c] = "open"]
  /\ handled' = handled \cup {c}
  /\ connections' = connections \cup {c}
  /\ since' = [since EXCEPT ![c] = current]
  /\ bc' = IF bc = "none" THEN "get" ELSE bc
  /\ loopKnown' = TRUE
  /\ UNCHANGED <<threadVars, queue, current, todo, failed, filters, got>>

\* update_filters; a filter that is not in the message stays.  The message may
\* be read after the client has gone and the broadcaster has removed it.
SetFilters(c, u) ==
  /\ c \in handled /\ LoopFree
  /\ IF c \in connections
     THEN filters' = [filters EXCEPT ![c] =
            [d \in Dimensions |-> IF d \in DOMAIN u THEN u[d] ELSE filters[c][d]]]
     ELSE UNCHANGED filters
  /\ got' = [got EXCEPT ![c] = <<>>]
  /\ since' = [since EXCEPT ![c] =
       IF c \in todo THEN current - 1 ELSE current]
  /\ UNCHANGED <<threadVars, queue, loopKnown, sendVars, connections, peer, handled>>

\* The client closes, or its connection breaks.
PeerGoes(c) ==
  /\ peer[c] = "open"
  /\ peer' = [peer EXCEPT ![c] = "gone"]
  /\ UNCHANGED <<threadVars, queue, loopKnown, sendVars, connections, filters,
                 handled, got, since>>

\* Mutant: the handler returns without a `finally`.
DisconnectNot(c) ==
  /\ c \in handled /\ LoopFree
  /\ peer[c] = "gone"
  /\ handled' = handled \ {c}
  /\ UNCHANGED <<threadVars, queue, loopKnown, sendVars, connections, filters,
                 peer, got, since>>

\* receive_text raises in the handler, which ends with disconnect.
Disconnect(c) ==
  /\ c \in handled /\ LoopFree
  /\ peer[c] = "gone"
  /\ handled' = handled \ {c}
  /\ connections' = connections \ {c}
  /\ UNCHANGED <<threadVars, queue, loopKnown, sendVars, filters, peer, got, since>>

-----------------------------------------------------------------------------
\* The queue is empty ...
LookIn ==
  /\ bc = "get"
  /\ queue = <<>>
  /\ bc' = "empty"
  /\ UNCHANGED <<threadVars, queue, loopKnown, current, todo, failed, clientVars>>

\* ... so the broadcaster registers a waiter, whatever the queue has by now.
Wait ==
  /\ bc = "empty"
  /\ bc' = "waiting"
  /\ UNCHANGED <<threadVars, queue, loopKnown, current, todo, failed, clientVars>>

\* Mutant: without a client the broadcaster ends; connect does not see it.
TakeOrEnd ==
  /\ bc \in {"get", "woken"}
  /\ queue # <<>>
  /\ current' = Head(queue)
  /\ queue' = Tail(queue)
  /\ todo' = connections
  /\ bc' = IF connections = {} THEN "ended" ELSE "sending"
  /\ UNCHANGED <<threadVars, loopKnown, failed, clientVars>>

\* An event is taken, and dropped when no client is there.
Take ==
  /\ bc \in {"get", "woken"}
  /\ queue # <<>>
  /\ current' = Head(queue)
  /\ queue' = Tail(queue)
  /\ todo' = connections
  /\ bc' = IF connections = {} THEN "get" ELSE "sending"
  /\ UNCHANGED <<threadVars, loopKnown, failed, clientVars>>

\* matches_filters.
Matches(c) ==
  LET e == Events[current]
      f == filters[c]
  IN \/ f = NoFilter
     \/ /\ f["event"] = {} \/ e["event"] \in f["event"]
        /\ f["node"] = {} \/ (e["node"] # "None" /\ e["node"] \in f["node"])
        /\ f["service"] = {} \/ e["service"] \in f["service"]

Sent(c) == /\ got' = [got EXCEPT ![c] = Append(@, current)]
           /\ UNCHANGED failed

\* Mutant: the first send that fails ends the broadcast.
SendOrStop(c) ==
  /\ bc = "sending" /\ c \in todo
  /\ \/ ~Matches(c) /\ todo' = todo \ {c} /\ UNCHANGED <<got, failed>>
     \/ Matches(c) /\ peer[c] = "open" /\ todo' = todo \ {c} /\ Sent(c)
     \/ Matches(c) /\ peer[c] # "open" /\ todo' = {} /\ failed' = failed \cup {c} /\ UNCHANGED got
  /\ UNCHANGED <<threadVars, queue, loopKnown, bc, current, connections, filters,
                 peer, handled, since>>

\* One connection of the copy: it does not match, gets the event, or fails.
Send(c) ==
  /\ bc = "sending" /\ c \in todo
  /\ todo' = todo \ {c}
  /\ \/ ~Matches(c) /\ UNCHANGED <<got, failed>>
     \/ Matches(c) /\ peer[c] = "open" /\ Sent(c)
     \/ Matches(c) /\ peer[c] # "open" /\ failed' = failed \cup {c} /\ UNCHANGED got
  /\ UNCHANGED <<threadVars, queue, loopKnown, bc, current, connections, filters,
                 peer, handled, since>>

\* All were sent to; those that failed are removed.
CleanUp ==
  /\ bc = "sending"
  /\ todo = {}
  /\ connections' = connections \ failed
  /\ failed' = {}
  /\ bc' = "get"
  /\ UNCHANGED <<threadVars, queue, loopKnown, current, todo, filters, peer,
                 handled, got, since>>

Thread == BridgeEvent \/ PrivatePut \/ PrivateWake \/ Result

Broadcaster == LookIn \/ Wait \/ Take \/ (\E c \in Clients : Send(c)) \/ CleanUp

Next ==
  \/ Thread \/ LoopPut \/ Broadcaster
  \/ \E c \in Clients :
       \/ Connect(c) \/ PeerGoes(c) \/ Disconnect(c)
       \/ \E u \in Updates : SetFilters(c, u)

Spec == Init /\ [][Next]_vars

\* The loop runs what is ready: scheduled coroutines, the broadcaster (a send
\* comes to an end) and the handlers of broken connections.
FairSpec ==
  /\ Spec
  /\ WF_vars(LoopPut) /\ WF_vars(Broadcaster)
  /\ \A c \in Clients : WF_vars(Disconnect(c))

-----------------------------------------------------------------------------
\* Every variable has its type.
TypeOK ==
  /\ thread \in {"idle", "private", "putting", "result"}
  /\ n \in 0..Len(Events) /\ current \in 0..Len(Events)
  /\ posted \in Seq(1..Len(Events)) /\ queue \in Seq(1..Len(Events))
  /\ loopKnown \in BOOLEAN
  /\ bc \in {"none", "get", "empty", "waiting", "woken", "sending"}
  /\ todo \subseteq Clients /\ connections \subseteq Clients
  /\ failed \subseteq Clients /\ handled \subseteq Clients
  /\ DOMAIN filters = Clients
  /\ peer \in [Clients -> {"new", "open", "gone"}]
  /\ got \in [Clients -> Seq(1..Len(Events))]
  /\ since \in [Clients -> 0..Len(Events)]

\* What client c asked for with its filters.
Wants(c, i) ==
  \A d \in Dimensions : filters[c][d] # {} => Events[i][d] \in filters[c][d]

\* How many events have entered the queue, and up to which c was passed.
Entered   == n - Len(posted) - (IF thread = "private" THEN 1 ELSE 0)
Passed(c) == IF c \in todo THEN current - 1 ELSE current

Increasing(s) == \A i, j \in DOMAIN s : i < j => s[i] < s[j]

\* A client that stays gets, in order and once, exactly the events it wants of
\* those broadcast since it connected or last set its filters - whatever other
\* clients do, break or are slow at, and also when it sets its filters in the
\* middle of a broadcast; and those still to be broadcast are in the queue.
ExactDelivery ==
  /\ Entered = current + Len(queue) /\ \A i \in DOMAIN queue : queue[i] = current + i
  /\ \A c \in Clients : peer[c] = "open" =>
       /\ Increasing(got[c])
       /\ Range(got[c]) = {i \in (since[c] + 1)..Passed(c) : Wants(c, i)}

\* A client that is gone does not stay registered.
GoneClientsAreDropped ==
  \A c \in Clients : peer[c] = "gone" ~> c \notin connections

\* An event lies in the queue of a broadcaster that waits: its put, by a private
\* loop, found no waiter yet.  It is the last event that has come.
Overlooked == bc = "waiting" /\ queue = <<n>> /\ posted = <<>>

\* With a client there, every event that entered the queue is broadcast - but for
\* one that a private loop put while the first client came, which may lie there
\* alone until the next event, whose put on the loop wakes the broadcaster.
EventsFlow ==
  \A c \in Clients :
    (c \in connections /\ queue # <<>>) ~> (queue = <<>> \/ c \notin connections \/ Overlooked)
=============================================================================
