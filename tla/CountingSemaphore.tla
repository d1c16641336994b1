------------------------- MODULE CountingSemaphore -------------------------
(***************************************************************************)
(* What a distributed semaphore promises its users, without Redis, clocks  *)
(* or identifiers: never more than MaxSize clients are inside at a time.   *)
(* RedisSemaphore implements it (see there for the refinement mapping).    *)
(***************************************************************************)
EXTENDS Integers, FiniteSets

CONSTANTS
  Clients,   \* the processes that share the semaphore
  MaxSize    \* how many of them may be inside

VARIABLE active   \* the clients inside

Init == active = {}

\* A client enters while a place is free.
Enter(c) ==
  /\ c \notin active
  /\ Cardinality(active) < MaxSize
  /\ active' = active \cup {c}

\* Clients leave: one releases its place, or several lose theirs together
\* when their leases run out at the same instant.
Leave(S) ==
  /\ S # {}
  /\ active' = active \ S

Next ==
  \/ \E c \in Clients : Enter(c)
  \/ \E S \in SUBSET active : Leave(S)

Spec == Init /\ [][Next]_active
=============================================================================
