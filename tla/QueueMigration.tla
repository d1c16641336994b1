---------------------------- MODULE QueueMigration ----------------------------
(* `osism migrate rabbitmq3to4` (commands/migrate.py): operators list, delete *)
(* and prepare while the services of the cloud are deployed again, one after  *)
(* the other, to use quorum queues.  A command acts on the listing it got     *)
(* first.  RabbitMQ and the services are external: one queue of a service stands   *)
(* for all that its patterns match, and the order of their names is left open.*)
EXTENDS Naturals, FiniteSets

CONSTANTS
  Services,     \* the keys of SERVICE_QUEUE_PATTERNS, and their queues
  Migrators,
  Invocations,  \* do: the command, vhost, service: a set of them (all without
                \* one), opts: "dry-run", "no-close-connections"
  MaxDeploys    \* the services deployed with the new configuration

Vhosts == {"/", "openstack"}

MigrationAssumption ==
  \A q \in Invocations : q.vhost \in Vhosts /\ q.service \in SUBSET Services

VARIABLES
  queue,      \* vhost -> service -> "none", "classic" or "quorum"
  exchanges,  \* the services with exchanges in vhost "/"
  vhost,      \* "openstack": made, permitted
  settings,   \* kolla's configuration.yml has the settings `prepare` asks for
  declared,   \* service -> vhost, type: where and what it declares; consumes
  migrator,   \* the operators' commands
  dropped     \* the queues each of them deleted, since another one's listing

migrationVars == <<queue, exchanges, vhost, settings, declared, migrator, dropped>>

migrationInit ==
  /\ queue = [v \in Vhosts |-> [s \in Services |-> IF v = "/" THEN "classic" ELSE "none"]]
  /\ exchanges = Services
  /\ vhost = [made |-> FALSE, permitted |-> FALSE]
  /\ settings \in BOOLEAN
  /\ declared = [s \in Services |-> [vhost |-> "/", type |-> "classic", consumes |-> TRUE]]
  /\ migrator = [m \in Migrators |-> [pc |-> "idle", rc |-> 0, failed |-> FALSE]]
  /\ dropped = [m \in Migrators |-> {}]

-----------------------------------------------------------------------------
(* The services.                                                             *)

\* A service connects and declares its queue, if it may and none of another
\* type is there.
Declares(s) ==
  LET c == declared[s] IN
  /\ ~c.consumes
  /\ c.vhost = "openstack" => vhost.permitted
  /\ queue[c.vhost][s] \in {"none", c.type}
  /\ queue' = [queue EXCEPT ![c.vhost][s] = c.type]
  /\ exchanges' = IF c.vhost = "/" THEN exchanges \cup {s} ELSE exchanges
  /\ declared' = [declared EXCEPT ![s].consumes = TRUE]
  /\ UNCHANGED <<vhost, settings, migrator, dropped>>

\* It is deployed again: with quorum queues, in "openstack" or still in "/".
Deployed(s) ==
  /\ Cardinality({t \in Services : declared[t].type = "quorum"}) < MaxDeploys
  /\ declared[s].type = "classic"
  /\ \E v \in Vhosts :
       declared' = [declared EXCEPT ![s] = [vhost |-> v, type |-> "quorum", consumes |-> FALSE]]
  /\ UNCHANGED <<queue, exchanges, vhost, settings, migrator, dropped>>

-----------------------------------------------------------------------------
(* The commands.                                                             *)

Ends(m, rc) == migrator' = [migrator EXCEPT ![m].pc = "ended", ![m].rc = rc]
Dry(m)      == "dry-run" \in migrator[m].call.opts

get_all_queues(v)     == {s \in Services : queue[v][s] # "none"}
get_classic_queues(v) == {s \in Services : queue[v][s] = "classic"}
get_quorum_queues(v)  == {s \in Services : queue[v][s] = "quorum"}

\* What `check` says.  It looks for quorum queues in "/openstack", and there
\* are none: `prepare` makes "openstack".
Verdict ==
  LET classic == \E v \in Vhosts : get_classic_queues(v) # {}
      quorum  == \E v \in Vhosts : get_quorum_queues(v) # {}
  IN IF classic /\ quorum THEN "in progress" ELSE IF classic THEN "required" ELSE "not required"

\* The nodes, the password and the listing are needed; lists end here.
take_action(m, q) ==
  /\ migrator[m].pc = "idle"
  /\ \/ Ends(m, 1)
     \/ /\ q.do \in {"list", "list-exchanges", "check"}
        /\ migrator' = [migrator EXCEPT ![m] = [pc |-> "ended", rc |-> 0, failed |-> FALSE, call |-> q,
                                      says |-> IF q.do = "check" THEN Verdict ELSE "list"]]
     \/ /\ q.do = "prepare" /\ settings
        /\ migrator' = [migrator EXCEPT ![m] = [pc |-> "vhost", rc |-> 0, failed |-> FALSE, call |-> q]]
     \/ /\ q.do \in {"delete", "delete-exchanges"}
        /\ migrator' = [migrator EXCEPT ![m] =
             [pc |-> "next", call |-> q, rc |-> 0, failed |-> FALSE, at |-> "none",
              todo |-> IF q.do = "delete" THEN get_classic_queues(q.vhost) \cap q.service ELSE exchanges]]
  /\ dropped' = [dropped EXCEPT ![m] = {}]
  /\ UNCHANGED <<queue, exchanges, vhost, settings, declared>>

\* A vhost that is there already (409) ends `prepare` well, and before the
\* permissions are set.
prepare_vhost(m) ==
  /\ \/ /\ migrator[m].pc = "vhost" /\ Dry(m) /\ Ends(m, 0) /\ UNCHANGED vhost
     \/ /\ migrator[m].pc = "vhost" /\ ~Dry(m)
        /\ \/ vhost.made /\ Ends(m, 0) /\ UNCHANGED vhost
           \/ /\ vhost' = [vhost EXCEPT !.made = TRUE]
              /\ migrator' = [migrator EXCEPT ![m].pc = "permissions"]
     \/ migrator[m].pc = "permissions" /\ vhost' = [vhost EXCEPT !.permitted = TRUE] /\ Ends(m, 0)
     \/ migrator[m].pc \in {"vhost", "permissions"} /\ ~Dry(m) /\ Ends(m, 1) /\ UNCHANGED vhost
  /\ UNCHANGED <<queue, exchanges, settings, declared, dropped>>

\* The connections of the consumers are closed, each of which may fail and is
\* logged, or left alone.
close_queue_connections(m, s) ==
  /\ migrator[m].pc = "next" /\ s \in migrator[m].todo
  /\ \/ /\ ~Dry(m) /\ migrator[m].call.do = "delete" /\ "no-close-connections" \notin migrator[m].call.opts
        /\ declared[s].vhost = migrator[m].call.vhost
        /\ declared' = [declared EXCEPT ![s].consumes = FALSE]
     \/ UNCHANGED declared
  /\ migrator' = [migrator EXCEPT ![m].pc = "delete", ![m].at = s, ![m].todo = @ \ {s}]
  /\ UNCHANGED <<queue, exchanges, vhost, settings, dropped>>

Onwards(m, failed) == migrator' = [migrator EXCEPT ![m].pc = "next", ![m].failed = @ \/ failed]

\* What is gone already (404) counts as deleted; a failure is counted, and the
\* next one is tried.  RabbitMQ deletes whatever has the name now.
delete_queue(m) ==
  LET s == migrator[m].at v == migrator[m].call.vhost IN
  /\ migrator[m].pc = "delete" /\ migrator[m].call.do = "delete"
  /\ \/ /\ ~Dry(m)
        /\ queue' = [queue EXCEPT ![v][s] = "none"]
        /\ declared' = [declared EXCEPT ![s].consumes = @ /\ declared[s].vhost # v]
        /\ dropped' = [n \in Migrators |-> dropped[n] \cup IF n # m THEN {<<v, s>>} ELSE {}]
        /\ Onwards(m, FALSE)
     \/ Onwards(m, ~Dry(m)) /\ UNCHANGED <<queue, declared, dropped>>
  /\ UNCHANGED <<exchanges, vhost, settings>>

delete_exchange(m) ==
  /\ migrator[m].pc = "delete" /\ migrator[m].call.do = "delete-exchanges"
  /\ \/ ~Dry(m) /\ exchanges' = exchanges \ {migrator[m].at} /\ Onwards(m, FALSE)
     \/ Onwards(m, ~Dry(m)) /\ UNCHANGED exchanges
  /\ UNCHANGED <<queue, vhost, settings, declared, dropped>>

Finishes(m) ==
  /\ migrator[m].pc = "next" /\ migrator[m].todo = {}
  /\ Ends(m, IF migrator[m].failed THEN 1 ELSE 0)
  /\ UNCHANGED <<queue, exchanges, vhost, settings, declared, dropped>>

Migrator(m) ==
  \/ \E q \in Invocations : take_action(m, q)
  \/ prepare_vhost(m)
  \/ \E s \in Services : close_queue_connections(m, s)
  \/ delete_queue(m) \/ delete_exchange(m) \/ Finishes(m)

migrationNext ==
  \/ \E m \in Migrators : Migrator(m)
  \/ \E s \in Services : Declares(s) \/ Deployed(s)

-----------------------------------------------------------------------------
\* "removing classic queues": a quorum queue, and what is in it, survives the
\* migration, also of a service that got a quorum queue of this name after the
\* listing - unless another operator deleted the listed one under the command.
QuorumKept ==
  [][\A v \in Vhosts, s \in Services : queue[v][s] = "quorum" /\ queue'[v][s] = "none" =>
       \E m \in Migrators : migrator[m].pc = "delete" /\ <<v, s>> \in dropped[m]]_queue
=============================================================================
