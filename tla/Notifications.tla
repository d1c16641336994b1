---------------------------- MODULE Notifications ----------------------------
(***************************************************************************)
(* The way of a notification, in three parts of which Init picks one:      *)
(* "listener" consumes it and turns it into states of the NetBox,          *)
(* "bridge" carries it to the API process, and "manager" hands it to the   *)
(* WebSocket clients.                                                      *)
(***************************************************************************)
EXTENDS EventBridge

CONSTANTS
  Clients, Events, Updates,                \* see WebSocketManager
  Exchanges, Fields, MaxChanges, MaxLosses \* see NotificationListener

VARIABLES
  component,
  thread, n, posted, queue, loopKnown, bc, current, todo, failed,
  connections, filters, peer, handled, got, since,
  exists, available, consumer, bound, threads, late, shouldStop, losses,
  viaApi, changes, ironic, notes, tries, tasks, netbox, sync

Manager   == INSTANCE WebSocketManager
Listening == INSTANCE NotificationListener

\* What the parts assume of their constants.
ASSUME EventsAreEvents == Manager!ManagerAssumption
ASSUME FieldsAreFields == Listening!ListenerAssumption

managerVars   == <<thread, n, posted, queue, loopKnown, bc, current, todo, failed,
                   connections, filters, peer, handled, got, since>>
discoveryVars == <<exists, available, consumer, bound, threads, late, shouldStop, losses>>
listenerVars  == <<discoveryVars, viaApi, changes, ironic, notes, tries, tasks, netbox, sync>>

-----------------------------------------------------------------------------
\* The parts that are not picked stay in one of their initial states.
NotificationsInit ==
  /\ component \in {"bridge", "manager", "listener"}
  /\ Init /\ Manager!Init /\ Listening!listenerInit
  /\ component # "listener" => exists = {} /\ ~viaApi

BridgeNext   == component = "bridge" /\ Next /\ UNCHANGED <<component, managerVars, listenerVars>>
ManagerNext  == component = "manager" /\ Manager!Next /\ UNCHANGED <<component, vars, listenerVars>>
ListenerNext == component = "listener" /\ Listening!listenerNext /\ UNCHANGED <<component, vars, managerVars>>

NotificationsNext == BridgeNext \/ ManagerNext \/ ListenerNext

NotificationsSpec ==
  NotificationsInit /\ [][NotificationsNext]_<<component, vars, managerVars, listenerVars>>

\* The fairness of each part: the bridge's thread runs; the event loop runs what
\* is ready; the consumer and its threads run.
FairNotificationsSpec ==
  /\ NotificationsSpec
  /\ WF_vars(component = "bridge" /\ Subscriber)
  /\ WF_managerVars(component = "manager" /\ Manager!LoopPut)
  /\ WF_managerVars(component = "manager" /\ Manager!Broadcaster)
  /\ \A c \in Clients : WF_managerVars(component = "manager" /\ Manager!Disconnect(c))
  /\ WF_discoveryVars(component = "listener" /\ Listening!Consumer)
  /\ WF_discoveryVars(component = "listener" /\ Listening!exchange_discovery_loop)

-----------------------------------------------------------------------------
\* See WebSocketManager: whatever other clients do, a client gets what it wants
\* of the broadcast events, in order and once ...
ExactDelivery == Manager!ExactDelivery

\* ... clients that are gone are removed ...
GoneClientsAreDropped == Manager!GoneClientsAreDropped

\* ... and with a client there, the queue flows.
EventsFlow == Manager!EventsFlow


\* ... and a synchronisation on which nothing intrudes repairs the states.
SyncSettles == Listening!SyncSettles
=============================================================================
