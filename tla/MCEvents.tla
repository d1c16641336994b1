------------------------------ MODULE MCEvents ------------------------------
(***************************************************************************)
(* Notifications, for TLC: the values of its constants.                    *)
(***************************************************************************)
EXTENDS Notifications, TLC

\* A power and a provision notification of one node, and one without a node.
SomeEvents ==
  << [event |-> "power", node |-> "n1", service |-> "baremetal"],
     [event |-> "port", node |-> "None", service |-> "network"],
     [event |-> "provision", node |-> "n1", service |-> "baremetal"] >>

\* A filter of two kinds; the services are left as they are.
SomeFilters ==
  { "node" :> {"n1"} @@ "event" :> {"power", "port"} }

SomeFields == <<"provision_state", "maintenance">>

\* With the API, for fewer changes and no lost connection.
ChangesOf == (FALSE :> 2) @@ (TRUE :> 1)
LossesOf  == (FALSE :> 1) @@ (TRUE :> 0)
=============================================================================
