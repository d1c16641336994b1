----------------------------- MODULE EventBridge -----------------------------
(***************************************************************************)
(* The two ends of the event bridge.  In the listener container add_event  *)
(* publishes each notification on a Redis channel, reconnects once when    *)
(* that fails and falls back to a local queue.  In the API container the   *)
(* thread _redis_subscriber_loop receives the events and hands them to the *)
(* WebSocket manager; when Redis fails it closes its subscriber, backs off *)
(* and makes a new one, up to max_retries times in a row.                  *)
(*                                                                         *)
(* Redis keeps nothing for a channel: what is published reaches the        *)
(* connections that are subscribed, and is gone for the others.            *)
(***************************************************************************)
EXTENDS Integers, Sequences, FiniteSets

CONSTANTS
  MaxEvents,   \* bound: notifications the listener forwards
  MaxRetries,  \* max_retries of the subscriber loop
  MaxOutages   \* bound: times Redis goes away or an answer is lost

ASSUME BridgeAssumption ==
  /\ MaxEvents \in Nat
  /\ MaxRetries \in Nat \ {0}
  /\ MaxOutages \in Nat

VARIABLES
  up,        \* Redis answers
  outages,   \* times it went away, or an answer of it was lost
  \* the listener container
  client,    \* _redis_client is set
  pub,       \* where add_event is: "idle", "publish", "reinit", "republish"
  event,     \* the number of the notification it works on
  local,     \* _event_queue, which nobody drains here
  \* the API container
  wire,      \* what the subscriber's connection has not delivered yet
  sub,       \* _redis_subscriber: "none", "new", "subscribed", or its
             \* connection was lost ("lost") or closed ("closed")
  loop,      \* where _redis_subscriber_loop is
  retries,   \* its retry_count
  received,  \* the events handed to the WebSocket manager
  shutdown   \* _shutdown_event

redisVars == <<up, outages>>
pubVars == <<client, pub, event, local>>
subVars == <<wire, sub, loop, retries, received, shutdown>>
vars == <<redisVars, pubVars, subVars>>

-----------------------------------------------------------------------------
\* Both processes were started with Redis there.
Init ==
  /\ up = TRUE
  /\ outages = 0
  /\ client = TRUE
  /\ pub = "idle"
  /\ event = 0
  /\ local = <<>>
  /\ wire = <<>>
  /\ sub = "new"
  /\ loop = "top"
  /\ retries = 0
  /\ received = <<>>
  /\ shutdown = FALSE

-----------------------------------------------------------------------------
\* Redis goes away, and its connections with what they hold.
Outage ==
  /\ up
  /\ outages < MaxOutages
  /\ up' = FALSE
  /\ outages' = outages + 1
  /\ wire' = <<>>
  /\ sub' = IF sub = "subscribed" THEN "lost" ELSE sub
  /\ UNCHANGED <<pubVars, loop, retries, received, shutdown>>

Return ==
  /\ ~up
  /\ up' = TRUE
  /\ UNCHANGED <<outages, pubVars, subVars>>

-----------------------------------------------------------------------------
\* PUBLISH reaches the subscriber if there is one at that moment.
Published == wire' = IF sub = "subscribed" THEN Append(wire, event) ELSE wire

Park == local' = Append(local, event)

\* on_message calls add_event; without a client it goes to the local queue.
AddEvent ==
  /\ event < MaxEvents
  /\ pub = "idle"
  /\ event' = event + 1
  /\ IF client
     THEN pub' = "publish" /\ UNCHANGED local
     ELSE pub' = pub /\ local' = Append(local, event')
  /\ UNCHANGED <<redisVars, client, subVars>>

\* Mutant: what was parked is sent once Redis works again.
PublishThenDrain ==
  /\ pub \in {"publish", "republish"}
  /\ up
  /\ wire' = IF sub = "subscribed" THEN wire \o <<event>> \o local ELSE wire
  /\ local' = <<>>
  /\ pub' = "idle"
  /\ UNCHANGED <<redisVars, client, event, sub, loop, retries, received, shutdown>>

\* The first publish, and the one after the reconnection.
Publish ==
  /\ pub \in {"publish", "republish"}
  /\ up
  /\ Published
  /\ pub' = "idle"
  /\ UNCHANGED <<redisVars, client, event, local, sub, loop, retries, received, shutdown>>

\* It fails; the answer to one that arrived may be lost.  The first time Redis
\* is reinitialised, the second time the event is parked.
PublishFails ==
  /\ pub \in {"publish", "republish"}
  /\ \/ ~up /\ UNCHANGED wire
     \/ up /\ Published /\ outages < MaxOutages
  /\ outages' = IF up THEN outages + 1 ELSE outages
  /\ IF pub = "publish"
     THEN pub' = "reinit" /\ UNCHANGED local
     ELSE pub' = "idle" /\ Park
  /\ UNCHANGED <<up, client, event, sub, loop, retries, received, shutdown>>

\* _init_redis in add_event: without Redis the client is gone for good.
Reinit ==
  /\ pub = "reinit"
  /\ client' = up
  /\ IF up
     THEN pub' = "republish" /\ UNCHANGED local
     ELSE pub' = "idle" /\ Park
  /\ UNCHANGED <<redisVars, event, subVars>>

-----------------------------------------------------------------------------
\* Mutant: the outer loop does not look at the shutdown.
DespiteShutdown == retries < MaxRetries

\* The condition of the outer loop.
Continue == ~shutdown /\ retries < MaxRetries

Try ==
  /\ loop = "top"
  /\ Continue
  /\ sub # "none"
  /\ loop' = "subscribe"
  /\ UNCHANGED <<redisVars, pubVars, wire, sub, retries, received, shutdown>>

\* "Redis subscriber not available": the thread returns.
NoSubscriber ==
  /\ loop = "top"
  /\ Continue
  /\ sub = "none"
  /\ loop' = "ended"
  /\ UNCHANGED <<redisVars, pubVars, wire, sub, retries, received, shutdown>>

\* subscribe() opens a connection, for a subscriber just closed as well.
Subscribe ==
  /\ loop = "subscribe"
  /\ up
  /\ sub' = "subscribed"
  /\ retries' = 0
  /\ loop' = "get"
  /\ UNCHANGED <<redisVars, pubVars, wire, received, shutdown>>

\* _close_subscriber.
CloseSubscriber == sub' = "none" /\ wire' = <<>>

\* The handler of the loop: count, close, back off unless it was the last try.
Failed ==
  /\ CloseSubscriber
  /\ retries' = retries + 1
  /\ loop' = IF retries + 1 < MaxRetries THEN "backoff" ELSE "top"
  /\ UNCHANGED <<redisVars, pubVars, received, shutdown>>

SubscribeFails ==
  /\ loop = "subscribe"
  /\ ~up
  /\ Failed

\* Mutant: only the newest event that has arrived is read.
ReceiveNewest ==
  /\ loop = "get" /\ ~shutdown
  /\ sub = "subscribed"
  /\ wire # <<>>
  /\ received' = Append(received, wire[Len(wire)])
  /\ wire' = <<>>
  /\ UNCHANGED <<redisVars, pubVars, sub, loop, retries, shutdown>>

\* get_message returns an event, which goes to the WebSocket manager.
Receive ==
  /\ loop = "get" /\ ~shutdown
  /\ sub = "subscribed"
  /\ wire # <<>>
  /\ received' = Append(received, Head(wire))
  /\ wire' = Tail(wire)
  /\ UNCHANGED <<redisVars, pubVars, sub, loop, retries, shutdown>>

\* The client library reconnects a lost connection and resubscribes.
Resubscribe ==
  /\ loop = "get" /\ ~shutdown
  /\ sub = "lost"
  /\ up
  /\ sub' = "subscribed"
  /\ UNCHANGED <<redisVars, pubVars, wire, loop, retries, received, shutdown>>

\* get_message raises: no reconnection is possible, or shutdown() has closed
\* the subscriber under it.
GetFails ==
  /\ loop = "get"
  /\ \/ sub = "lost" /\ ~up
     \/ sub = "closed"
  /\ Failed

\* The inner loop sees the shutdown.
Leave ==
  /\ loop = "get" /\ shutdown
  /\ loop' = "top"
  /\ UNCHANGED <<redisVars, pubVars, wire, sub, retries, received, shutdown>>

\* retry_delay, and _init_redis.
Backoff ==
  /\ loop = "backoff"
  /\ sub' = IF up THEN "new" ELSE "none"
  /\ loop' = "top"
  /\ UNCHANGED <<redisVars, pubVars, wire, retries, received, shutdown>>

\* The end of the loop.
EndLoop ==
  /\ loop = "top"
  /\ ~Continue
  /\ CloseSubscriber
  /\ loop' = "ended"
  /\ UNCHANGED <<redisVars, pubVars, retries, received, shutdown>>

\* EventBridge.shutdown, from another thread.
Shutdown ==
  /\ ~shutdown
  /\ shutdown' = TRUE
  /\ IF sub = "none"
     THEN UNCHANGED <<sub, wire>>
     ELSE sub' = "closed" /\ wire' = <<>>
  /\ UNCHANGED <<redisVars, pubVars, loop, retries, received>>

Listener == AddEvent \/ Publish \/ PublishFails \/ Reinit

Subscriber ==
  \/ Try \/ NoSubscriber \/ Subscribe \/ SubscribeFails \/ Receive \/ Resubscribe
  \/ GetFails \/ Leave \/ Backoff \/ EndLoop

Next == Outage \/ Return \/ Listener \/ Subscriber \/ Shutdown

Spec == Init /\ [][Next]_vars

\* The subscriber thread runs.
FairSpec == Spec /\ WF_vars(Subscriber)

-----------------------------------------------------------------------------
\* Every variable has its type; the loop backs off only between two tries.
TypeOK ==
  /\ up \in BOOLEAN /\ client \in BOOLEAN /\ shutdown \in BOOLEAN
  /\ outages \in 0..MaxOutages
  /\ pub \in {"idle", "publish", "reinit", "republish"}
  /\ event \in 0..MaxEvents
  /\ local \in Seq(1..MaxEvents)
  /\ wire \in Seq(1..MaxEvents)
  /\ received \in Seq(1..MaxEvents)
  /\ sub \in {"none", "new", "subscribed", "lost", "closed"}
  /\ loop \in {"top", "subscribe", "get", "backoff", "ended"}
  /\ retries \in 0..MaxRetries
  /\ loop = "backoff" => retries \in 1..(MaxRetries - 1)

\* Events come out in the order of the notifications, whatever was lost and
\* published again: a retry may repeat an event, never put it behind a later.
InOrder ==
  LET seen == received \o wire
  IN \A i, j \in 1..Len(seen) : i < j => seen[i] <= seen[j]

\* An event goes missing in the middle only because of a failure of Redis: the
\* manager's events have no more gaps than there were failures.
GapsAreOutages ==
  LET seen == received \o wire
      gaps == {i \in 1..(Len(seen) - 1) : seen[i + 1] > seen[i] + 1}
  IN Cardinality(gaps) <= outages

\* A subscriber loop that has ended leaves no subscriber behind, even when
\* shutdown() closes it while the loop makes a new one.
EndClosesSubscriber == loop = "ended" => sub = "none" /\ wire = <<>>

\* A shutdown ends the subscriber thread.
ShutdownEnds == shutdown ~> loop = "ended"

\* Test module of the bridge: "Failures of subscribe() and get_message() both
\* run through the same bounded back-off path: the failed subscriber is closed,
\* the retry waits, and _init_redis() provides a fresh subscriber."  So only a
\* shutdown or max_retries failures in a row end the thread.
GivesUpAfterMaxRetries ==
  loop = "ended" => shutdown \/ retries >= MaxRetries
=============================================================================
