-------------------------- MODULE ComputeOperations --------------------------
(* The `osism compute` and `osism server` commands (commands/compute.py,      *)
(* commands/server.py) for the servers of one compute host.  A command lists  *)
(* the servers once and then acts on the statuses of this list; owners boot,  *)
(* stop and start servers meanwhile.  Nova is external: it takes a request by *)
(* Accepts and ends it some time later.                                       *)
EXTENDS Naturals, Sequences, FiniteSets

CONSTANTS
  Servers,    \* a sequence: the order Nova lists them in
  Admins,     \* each runs one command
  Requests,   \* do: the command, opts: its options; "yes" answers every prompt
  Statuses,   \* the statuses servers start with
  MaxOwner    \* the servers whose owners act, once each

ComputeAssumption == Servers \in Seq({Servers[i] : i \in DOMAIN Servers}) /\ "owner" \notin Admins

VARIABLES
  server,   \* status, on (host), up (hosts its guest runs on), work (Nova's)
  service,  \* nova-compute of the host: forced (down), disabled, stale (the
            \* records of an evacuation are not completed yet)
  admin,    \* the administrators' commands
  by        \* per server, who acted on it: commands, its owner

computeVars == <<server, service, admin, by>>

All == {Servers[i] : i \in DOMAIN Servers}

At(status) ==
  [status |-> status, on |-> "host", work |-> "none",
   up |-> IF status \in {"ACTIVE", "PAUSED"} THEN {"host"} ELSE {}]

computeInit ==
  /\ server \in [All -> {At(s) : s \in Statuses}]
  /\ service = [forced |-> FALSE, disabled |-> FALSE, stale |-> FALSE]
  /\ admin = [a \in Admins |-> [pc |-> "idle", rc |-> 0]]
  /\ by = [s \in All |-> {}]

-----------------------------------------------------------------------------
(* Nova.                                                                     *)

Sources ==
  [stop |-> {"ACTIVE"}, start |-> {"SHUTOFF"}, live |-> {"ACTIVE", "PAUSED"}, cold |-> {"SHUTOFF"},
   confirm |-> {"VERIFY_RESIZE"}, evacuate |-> {"ACTIVE", "SHUTOFF"}, delete |-> {"ERROR", "BUILD"}]

\* An evacuation is taken whatever Nova is doing with the server.
Accepts(s, verb) ==
  /\ server[s].work = "none" \/ verb = "evacuate"
  /\ server[s].status \in Sources[verb]
  /\ verb = "evacuate" => service.forced /\ server[s].on = "host"
  /\ verb \in {"stop", "live", "cold"} => ~(service.forced /\ server[s].on = "host")

\* The status get_server shows while Nova works.
Shown(s) ==
  CASE server[s].work = "live"     -> "MIGRATING"
    [] server[s].work = "cold"     -> "RESIZE"
    [] server[s].work = "evacuate" -> "REBUILD"
    [] OTHER                       -> server[s].status

\* Work ends: well, or (an evacuation, a migration, a start) in ERROR.
NovaEnds(s) ==
  LET w == server[s].work IN
  /\ w # "none"
  /\ \/ server' = [server EXCEPT
          ![s].work   = "none",
          ![s].status = CASE w \in {"stop", "confirm"} -> "SHUTOFF" [] w = "start" -> "ACTIVE"
                          [] w = "cold" -> "VERIFY_RESIZE" [] w = "delete" -> "gone" [] OTHER -> @,
          ![s].on     = IF w \in {"live", "cold", "evacuate"} THEN "other" ELSE @,
          ![s].up     = CASE w \in {"stop", "delete"} -> @ \ {server[s].on}
                          [] w = "start" -> @ \cup {server[s].on}
                          [] w = "live" -> {"other"}
                          [] w = "evacuate" /\ server[s].status = "ACTIVE" -> @ \cup {"other"}
                          [] OTHER -> @]
     \/ /\ w \in {"start", "cold", "evacuate"}
        /\ server' = [server EXCEPT ![s].work = "none", ![s].status = "ERROR"]
  /\ UNCHANGED <<service, admin, by>>

\* nova-compute is restarted: the records of the evacuation are completed.
Restarted ==
  /\ service.stale
  /\ service' = [service EXCEPT !.stale = FALSE]
  /\ UNCHANGED <<server, admin, by>>

\* An owner starts or stops a server, or boots one that is placed on this host.
OwnerActs(s) ==
  /\ Cardinality({t \in All : "owner" \in by[t]}) < MaxOwner /\ "owner" \notin by[s]
  /\ \/ \E verb \in {"stop", "start"} :
          Accepts(s, verb) /\ server' = [server EXCEPT ![s].work = verb]
     \/ /\ server[s].status = "gone" /\ ~service.forced /\ ~service.disabled
        /\ server' = [server EXCEPT ![s] = At("ACTIVE")]
  /\ by' = [by EXCEPT ![s] = @ \cup {"owner"}]
  /\ UNCHANGED <<service, admin>>

-----------------------------------------------------------------------------
(* Commands.                                                                 *)

Asks(a, names)   == admin[a].call.do \in names
Flag(a, opt)     == opt \in admin[a].call.opts
This(a)          == Head(admin[a].todo)
Listed(a)        == admin[a].seen[This(a)]
Goes(a, pc)      == admin' = [admin EXCEPT ![a].pc = pc]
Turns(a, pc)     == admin' = [admin EXCEPT ![a].pc = pc, ![a].todo = Tail(@)]
Stops(a, rc)     == admin' = [admin EXCEPT ![a].pc = "ended", ![a].rc = rc]

\* Nova takes the request, or answers with an exception that ends the command.
Asked(a, s, verb, then) ==
  /\ \/ Accepts(s, verb) /\ server' = [server EXCEPT ![s].work = verb] /\ then
     \/ ~Accepts(s, verb) /\ UNCHANGED server /\ Stops(a, 1)
  /\ by' = [by EXCEPT ![s] = @ \cup {a}]

\* The statuses a listing shows: of the servers of the host, or of all of them.
Listing(q) ==
  [s \in All |-> IF q.do \in {"one", "clean"} \/ (server[s].on = "host" /\ server[s].status # "gone")
                 THEN Shown(s) ELSE "not listed"]

\* What a command goes through, in Nova's order: one server, or those listed.
Queues(q) ==
  IF q.do = "one" THEN {<<s>> : s \in {t \in All : server[t].status # "gone"}} ELSE {Servers}

\* What the list's statuses must be for a command to touch a server; BUILD is
\* deleted only when it is older than the timeout.
Touches ==
  [evacuate |-> {"ACTIVE", "SHUTOFF"}, migrate |-> {"ACTIVE", "PAUSED", "SHUTOFF"},
   one |-> {"ACTIVE", "PAUSED"}, start |-> {"SHUTOFF"}, stop |-> {"ACTIVE", "PAUSED"},
   clean |-> {"ERROR", "BUILD"}]

\* The cloud is opened, the servers are listed; an evacuation asks here, once.
Lists(a, q) ==
  /\ admin[a].pc = "idle"
  /\ \/ Stops(a, 1)
     \/ q.do = "evacuate" /\ "yes" \notin q.opts /\ Stops(a, 0)
     \/ \E todo \in Queues(q) :
          admin' = [admin EXCEPT ![a] =
            [call |-> q, todo |-> todo, seen |-> Listing(q), started |-> <<>>, rc |-> 0,
             pc |-> IF q.do \in {"enable", "disable"} THEN "service" ELSE "next"]]
  /\ UNCHANGED <<server, service, by>>

\* Servers in another status are skipped, `one` (server migrate) returns 1 then;
\* a prompt is answered yes or no.
Chooses(a) ==
  /\ admin[a].pc = "next" /\ admin[a].todo # <<>>
  /\ \/ /\ Listed(a) \in Touches[admin[a].call.do]
        /\ ~(Listed(a) = "SHUTOFF" /\ Flag(a, "no_cold"))
        /\ Goes(a, "ask")
     \/ /\ ~(Flag(a, "yes") \/ Asks(a, {"evacuate"})) \/ Listed(a) \notin Touches[admin[a].call.do]
             \/ (Listed(a) = "SHUTOFF" /\ Flag(a, "no_cold"))
        /\ IF Asks(a, {"one"}) THEN Stops(a, IF Listed(a) \in Touches.one THEN 0 ELSE 1)
                               ELSE Turns(a, "next")
  /\ UNCHANGED <<server, service, by>>

Verb(a) ==
  CASE Asks(a, {"migrate", "one"}) -> IF Listed(a) = "SHUTOFF" THEN "cold" ELSE "live"
    [] Asks(a, {"stop", "evacuate"}) -> "stop"
    [] Asks(a, {"clean"}) -> "delete"
    [] OTHER -> "start"

\* Of an evacuation only servers listed as ACTIVE are stopped, and are to be
\* started again; the others ask Nova and go on, or wait.
Requested(a) ==
  LET s == This(a)
      waits == Asks(a, {"migrate", "one"}) /\ ~Flag(a, "no_wait") IN
  /\ admin[a].pc = "ask"
  /\ \/ /\ Asks(a, {"evacuate"}) /\ Listed(a) = "ACTIVE"
        /\ Asked(a, s, "stop", admin' = [admin EXCEPT ![a].pc = "stopping", ![a].started = Append(@, s)])
     \/ Asks(a, {"evacuate"}) /\ Listed(a) # "ACTIVE" /\ UNCHANGED <<server, by>> /\ Turns(a, "next")
     \/ /\ ~Asks(a, {"evacuate"})
        /\ Asked(a, s, Verb(a), IF waits THEN Goes(a, "moving") ELSE Turns(a, "next"))
  /\ UNCHANGED service

\* A bug: a stop that was asked for counts.
StoppingAtOnce(a) ==
  /\ admin[a].pc = "stopping"
  /\ Turns(a, "next")
  /\ UNCHANGED <<server, service, by>>

\* The loop ends only at SHUTOFF.
Stopping(a) ==
  /\ admin[a].pc = "stopping" /\ Shown(This(a)) = "SHUTOFF"
  /\ Turns(a, "next")
  /\ UNCHANGED <<server, service, by>>

\* A migration is waited for; a cold one is confirmed, and not waited for then.
Moving(a) ==
  LET s == This(a) IN
  /\ admin[a].pc = "moving"
  /\ Shown(s) \notin (IF Verb(a) = "live" THEN {"MIGRATING"} ELSE {"RESIZE"})
  /\ IF Verb(a) = "cold" /\ Shown(s) = "VERIFY_RESIZE"
     THEN Asked(a, s, "confirm", Turns(a, "next"))
     ELSE UNCHANGED <<server, by>> /\ Turns(a, "next")
  /\ UNCHANGED service

\* All servers are done with: an evacuation forces the service down.
Through(a) ==
  /\ admin[a].pc = "next" /\ admin[a].todo = <<>>
  /\ IF Asks(a, {"evacuate"})
     THEN /\ service' = [service EXCEPT !.forced = TRUE]
          /\ admin' = [admin EXCEPT ![a].pc = "evacuating", ![a].todo = Servers]
     ELSE UNCHANGED service /\ Stops(a, 0)
  /\ UNCHANGED <<server, by>>

\* A bug: servers that were found off are started, not those that were stopped.
EvacuatingOff(a) ==
  /\ admin[a].pc = "evacuating"
  /\ IF admin[a].todo = <<>>
     THEN /\ UNCHANGED <<server, service, by>>
          /\ admin' = [admin EXCEPT ![a].pc = "starting",
                                    ![a].todo = SelectSeq(Servers, LAMBDA s : admin[a].seen[s] = "SHUTOFF")]
     ELSE IF Listed(a) \in Touches.evacuate
     THEN /\ service' = [service EXCEPT !.stale = TRUE]
          /\ Asked(a, This(a), "evacuate", Turns(a, "evacuating"))
     ELSE UNCHANGED <<server, service, by>> /\ Turns(a, "evacuating")

\* Every server listed as ACTIVE or SHUTOFF is evacuated, without another look.
Evacuating(a) ==
  /\ admin[a].pc = "evacuating"
  /\ IF admin[a].todo = <<>>
     THEN /\ UNCHANGED <<server, service, by>>
          /\ admin' = [admin EXCEPT ![a].pc = "starting", ![a].todo = admin[a].started]
     ELSE IF Listed(a) \in Touches.evacuate
     THEN /\ service' = [service EXCEPT !.stale = TRUE]
          /\ Asked(a, This(a), "evacuate", Turns(a, "evacuating"))
     ELSE UNCHANGED <<server, service, by>> /\ Turns(a, "evacuating")

\* After 30 seconds - evacuated by then or not - the stopped ones are started
\* one after the other, and then the service is disabled.
Starting(a) ==
  /\ admin[a].pc = "starting"
  /\ IF admin[a].todo = <<>>
     THEN service' = [service EXCEPT !.disabled = TRUE] /\ UNCHANGED <<server, by>> /\ Goes(a, "evacuated")
     ELSE UNCHANGED service /\ Asked(a, This(a), "start", Goes(a, "awaiting"))

Awaiting(a) ==
  /\ admin[a].pc = "awaiting" /\ Shown(This(a)) = "ACTIVE"
  /\ Turns(a, "starting")
  /\ UNCHANGED <<server, service, by>>

\* "forced down" is lifted first, which Nova refuses while records of an
\* evacuation are open: then the service stays disabled.
ComputeEnable(a) ==
  /\ admin[a].pc = "service" /\ Asks(a, {"enable"})
  /\ IF service.forced /\ service.stale
     THEN UNCHANGED service /\ Stops(a, 1)
     ELSE service' = [service EXCEPT !.forced = FALSE, !.disabled = FALSE] /\ Stops(a, 0)
  /\ UNCHANGED <<server, by>>

ComputeDisable(a) ==
  /\ admin[a].pc = "service" /\ Asks(a, {"disable"})
  /\ service' = [service EXCEPT !.disabled = TRUE] /\ Stops(a, 0)
  /\ UNCHANGED <<server, by>>

AdminActs(a) ==
  \/ \E q \in Requests : Lists(a, q)
  \/ Chooses(a) \/ Requested(a) \/ Stopping(a) \/ Moving(a) \/ Through(a)
  \/ Evacuating(a) \/ Starting(a) \/ Awaiting(a) \/ ComputeEnable(a) \/ ComputeDisable(a)

computeNext ==
  \/ \E a \in Admins : AdminActs(a)
  \/ \E s \in All : NovaEnds(s) \/ OwnerActs(s)
  \/ Restarted

-----------------------------------------------------------------------------
\* No guest runs on two hosts: an evacuation comes only after its server is
\* off - however long stopping takes, and whatever it was listed as - unless
\* somebody else acts on the server.
NoSplitBrain ==
  \A s \in All : Cardinality(by[s]) <= 1 => Cardinality(server[s].up) <= 1

\* An evacuation that ends without an error has every server it stopped running
\* again, on another host, unless somebody else acts on it.
EvacueesRunAgain ==
  \A a \in Admins : admin[a].pc = "evacuated" =>
    \A i \in DOMAIN admin[a].started :
      LET s == admin[a].started[i] IN
      by[s] = {a} => server[s].status = "ACTIVE" /\ server[s].on = "other"
=============================================================================
