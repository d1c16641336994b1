------------------------- MODULE NotificationListener -------------------------
(* How the states of a node get from Ironic into the NetBox: the listener     *)
(* (services/listener.py) consumes the notifications of the exchanges that    *)
(* exist and looks for more, the API or the listener itself queues a task for *)
(* each, several workers run these tasks, and sync_netbox_from_ironic (tasks/ *)
(* conductor/ironic.py) copies all states.  RabbitMQ, Ironic and the queue of *)
(* Celery are external.                                                       *)
EXTENDS Naturals, Sequences, FiniteSets, Functions

CONSTANTS
  Exchanges,    \* those of EXCHANGES_CONFIG; "ironic" is one
  Fields,       \* the states that are copied, in the order of the calls
  MaxChanges,   \* bound: changes of the node's states, with the API or without it
  MaxLosses     \* bound: connections to RabbitMQ lost, likewise

VARIABLES
  exists,      \* the exchanges RabbitMQ has
  available,   \* _available_exchanges, also over restarts
  consumer,    \* "connect", "consumers" (get_consumers), "run", "stop"
  bound,       \* the exchanges consumed
  threads,     \* discovery threads of this consumer
  late,        \* exchanges that threads of earlier consumers have seen declared
  shouldStop,
  losses,
  viaApi,      \* OSISM_API_URL is set: notifications go through the API
  changes,
  ironic,      \* field -> version of the node's state
  notes,       \* notifications in the listener's queue: field, version
  tries,       \* deliveries tried of the first one
  tasks,       \* queued and running set_* tasks: field, version
  netbox,      \* field -> version
  sync         \* the run of sync_netbox_from_ironic

discoveryVars == <<exists, available, consumer, bound, threads, late, shouldStop, losses>>
stateVars == <<viaApi, changes, ironic, notes, tries, tasks, netbox, sync>>

\* The states of a node are copied one after the other, each once or more.
ListenerAssumption == Fields \in Seq(STRING)

listenerInit ==
  /\ exists \in SUBSET Exchanges /\ available = {} /\ bound = {}
  /\ consumer = "connect" /\ threads = 0 /\ late = {} /\ losses = 0
  /\ shouldStop = FALSE
  /\ viaApi \in BOOLEAN
  /\ changes = 0 /\ ironic = [f \in Range(Fields) |-> 0] /\ netbox = ironic
  /\ notes = <<>> /\ tries = 0 /\ tasks = <<>>
  /\ sync = [pc |-> "idle", quiet |-> FALSE, failed |-> FALSE]

-----------------------------------------------------------------------------
(* Exchanges.                                                                *)

Appears(e) ==
  /\ e \notin exists /\ exists' = exists \cup {e}
  /\ UNCHANGED <<available, consumer, bound, threads, late, shouldStop, losses, stateVars>>

\* main: a new connection and a new consumer with flags of its own; the
\* dictionary of what was discovered is the old one.
main ==
  /\ consumer = "connect"
  /\ consumer' = "consumers" /\ shouldStop' = FALSE
  /\ UNCHANGED <<exists, available, bound, threads, late, losses, stateVars>>

\* The passive declarations of those not available yet; each may fail, and with
\* the connection all that are left, which looks like no exchange.
check_for_new_exchanges == \E found \in SUBSET exists : available' = available \cup found

\* A consumer for each available exchange, once there is one, and a thread that
\* looks for the rest - another one if the last one still runs.
get_consumers ==
  /\ consumer = "consumers"
  /\ IF available = {} THEN check_for_new_exchanges ELSE UNCHANGED available
  /\ IF available' = {} THEN UNCHANGED <<consumer, bound, threads>>
     ELSE /\ consumer' = "run" /\ bound' = available'
          /\ threads' = IF available' = Exchanges THEN threads ELSE threads + 1
  /\ UNCHANGED <<exists, late, shouldStop, losses, stateVars>>


\* A found exchange restarts the consumer.
Found == shouldStop' = (shouldStop \/ available' # available)

\* A thread, after each interval; it ends with nothing to look for.
exchange_discovery_loop ==
  /\ threads > 0
  /\ IF available = Exchanges
     THEN threads' = threads - 1 /\ UNCHANGED <<available, shouldStop>>
     ELSE check_for_new_exchanges /\ Found /\ UNCHANGED threads
  /\ UNCHANGED <<exists, consumer, bound, late, losses, stateVars>>

\* run() has returned.  main tells the threads to stop, joins the last one for
\* 5 seconds and closes the connection; what a thread has been answered before
\* that, it may still have to put into the dictionary.
stop_exchange_discovery ==
  /\ consumer' = "connect" /\ bound' = {} /\ threads' = 0
  /\ \E answered \in SUBSET (exists \ available) :
       Cardinality(answered) <= threads /\ late' = late \cup answered

\* The consumer sees should_stop.
Stops ==
  /\ consumer = "run" /\ shouldStop
  /\ stop_exchange_discovery
  /\ UNCHANGED <<exists, available, shouldStop, losses, stateVars>>

\* A thread of an earlier consumer enters what it has found.  The consumer that
\* it stops is its own, which has ended.
FoundLate(e) ==
  /\ e \in late \ available
  /\ available' = available \cup {e}
  /\ UNCHANGED <<exists, consumer, bound, threads, late, shouldStop, losses, stateVars>>

\* The connection is lost; the same consumer gets another one and another
\* thread, unless it has to stop anyway.
Loses ==
  /\ consumer = "run" /\ losses < MaxLosses[viaApi]
  /\ losses' = losses + 1
  /\ IF shouldStop THEN stop_exchange_discovery
     ELSE consumer' = "consumers" /\ bound' = {} /\ UNCHANGED <<threads, late>>
  /\ UNCHANGED <<exists, available, shouldStop, stateVars>>

-----------------------------------------------------------------------------
(* Notifications.                                                            *)

\* A state changes; the notification is queued for the listener once its queue
\* is declared, and lost (no_ack) if the connection it is sent to breaks.
Changes(f) ==
  /\ changes < MaxChanges[viaApi] /\ changes' = changes + 1
  /\ ironic' = [ironic EXCEPT ![f] = changes']
  /\ \/ "ironic" \in available /\ notes' = Append(notes, [field |-> f, version |-> ironic'[f]])
     \/ UNCHANGED notes
  /\ sync' = [sync EXCEPT !.quiet = FALSE]
  /\ UNCHANGED <<discoveryVars, viaApi, tries, tasks, netbox>>

\* The handler of the notification's event queues set_* for its field.
handler(n) == tasks' = Append(tasks, n)

\* Without the API the handler is called here; with it the notification is
\* posted, 3 times at most, also when it was handled and the answer was lost;
\* a client error ends this at once.
on_message ==
  /\ consumer = "run" /\ "ironic" \in bound /\ notes # <<>>
  /\ \/ handler(Head(notes)) /\ notes' = Tail(notes) /\ tries' = 0
     \/ /\ viaApi
        /\ handler(Head(notes)) \/ UNCHANGED tasks
        /\ IF tries < 2 THEN tries' = tries + 1 /\ UNCHANGED notes
                        ELSE tries' = 0 /\ notes' = Tail(notes)
     \/ viaApi /\ notes' = Tail(notes) /\ tries' = 0 /\ UNCHANGED tasks
  /\ sync' = [sync EXCEPT !.quiet = FALSE]
  /\ UNCHANGED <<discoveryVars, viaApi, changes, ironic, netbox>>

\* A worker runs any of the queued tasks: it sets its field, or does not get
\* the lock or the NetBox, and fails.
set_state(i) ==
  /\ i \in DOMAIN tasks
  /\ \/ netbox' = [netbox EXCEPT ![tasks[i].field] = tasks[i].version]
     \/ UNCHANGED netbox
  /\ tasks' = SubSeq(tasks, 1, i - 1) \o SubSeq(tasks, i + 1, Len(tasks))
  /\ sync' = [sync EXCEPT !.quiet = FALSE]
  /\ UNCHANGED <<discoveryVars, viaApi, changes, ironic, notes, tries>>

-----------------------------------------------------------------------------
(* The synchronisation of all nodes: here, of the one.                       *)

\* NetBox or Ironic cannot be reached: it ends with 1.  Else the states are read.
sync_netbox_from_ironic ==
  /\ sync.pc = "idle"
  /\ \/ sync' = [sync EXCEPT !.pc = "ended 1"]
     \/ sync' = [pc |-> "sync", at |-> 1, seen |-> ironic, failed |-> FALSE,
                 quiet |-> tasks = <<>> /\ notes = <<>>]
  /\ UNCHANGED <<discoveryVars, viaApi, changes, ironic, notes, tries, tasks, netbox>>

\* A bug: only the last of the three calls counts.
LastFails(failed) == failed

Fails(failed) == sync.failed \/ failed

\* Three calls one after the other, each under the node's lock for itself; a
\* failure is remembered.
SyncField ==
  LET f == Fields[sync.at] IN
  /\ sync.pc = "sync" /\ sync.at <= Len(Fields)
  /\ \E failed \in BOOLEAN :
       /\ netbox' = IF failed THEN netbox ELSE [netbox EXCEPT ![f] = sync.seen[f]]
       /\ sync' = [sync EXCEPT !.at = @ + 1, !.failed = Fails(failed)]
  /\ UNCHANGED <<discoveryVars, viaApi, changes, ironic, notes, tries, tasks>>

\* It ends with 0 in either case; the failed devices are in the output.
SyncEnds ==
  /\ sync.pc = "sync" /\ sync.at > Len(Fields)
  /\ sync' = [sync EXCEPT !.pc = "ended 0"]
  /\ UNCHANGED <<discoveryVars, viaApi, changes, ironic, notes, tries, tasks, netbox>>

listenerNext ==
  \/ \E e \in Exchanges : Appears(e)
  \/ main \/ get_consumers \/ exchange_discovery_loop \/ Stops \/ Loses
  \/ \E e \in Exchanges : FoundLate(e)
  \/ \E f \in Range(Fields) : Changes(f)
  \/ on_message
  \/ \E i \in DOMAIN tasks : set_state(i)
  \/ sync_netbox_from_ironic \/ SyncField \/ SyncEnds

Consumer == main \/ get_consumers \/ Stops

\* The consumer and its threads run, and RabbitMQ does not fail all checks for
\* ever: as long as there is something to find, some check finds something.
listenerFairness ==
  /\ WF_discoveryVars(Consumer)
  /\ WF_discoveryVars(exchange_discovery_loop)

-----------------------------------------------------------------------------

\* However notifications were lost, repeated and overtaken: a synchronisation
\* without failed devices repairs all states, when nothing was under way or
\* changed since it read them.
SyncSettles ==
  sync.pc = "ended 0" /\ sync.quiet /\ ~sync.failed => netbox = ironic
=============================================================================
