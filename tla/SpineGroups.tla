---------------------------- MODULE SpineGroups ----------------------------
(***************************************************************************)
(* The AS numbers of spines: those that are connected, over others of      *)
(* their role, form a group and share the least number in it               *)
(* (find_interconnected_devices of                                         *)
(* src/osism/tasks/conductor/sonic/connections.py,                         *)
(* calculate_minimum_as_for_group of bgp.py, and their use in sync.py).    *)
(***************************************************************************)
EXTENDS Integers, FiniteSets, FiniteSetsExt, SonicRoles

CONSTANTS Devices,   \* the devices of the query list
          Role,      \* device -> the slug of its role
          OwnAs      \* device -> AS number of its IPv4 address, 0 without one

VARIABLE wired       \* the cables, each a set of two devices

All    == "all"
Spines == {d \in Devices : Role[d] \in SPINE_ROLES}

\* A query list is finite; no device is called like the query for all.
SpinesAssumption ==
  /\ IsFiniteSet(Devices) /\ All \notin Devices
  /\ OwnAs \in [Devices -> Nat]

-----------------------------------------------------------------------------
\* A cable is found from either end, unless the interfaces of both are dark:
\* they could not be read.
Linked(d, among, dark) ==
  {e \in among \ {d} : Role[e] = Role[d] /\ {d, e} \in wired /\ ~({d, e} \subseteq dark)}

\* A bug: the search stops after the first step.
NeighborsOnly(d, among, dark) == {d} \cup Linked(d, among, dark)

\* Breadth-first search; all that is one step away is reached at once.
Component(d, among, dark) ==
  LET reached[n \in Nat] ==
        IF n = 0 THEN {d}
        ELSE reached[n - 1] \cup UNION {Linked(e, among, dark) : e \in reached[n - 1]}
  IN  reached[Cardinality(among)]

find_interconnected_devices(among, dark) ==
  {Component(d, among, dark) : d \in {e \in among : Linked(e, among, dark) # {}}}

calculate_minimum_as_for_group(group) ==
  LET numbers == {OwnAs[d] : d \in group} \ {0}
  IN  IF numbers = {} THEN 0 ELSE Min(numbers)

\* The spines among which groups are sought: those of the run, but every one
\* for a run for a single spine.
Considered(target) == IF target \in Devices \ Spines THEN {} ELSE Spines

AsNumber(d, target, dark) ==
  LET groups == {g \in find_interconnected_devices(Considered(target), dark) : d \in g}
      number == IF groups = {} THEN 0 ELSE calculate_minimum_as_for_group(UNION groups)
  IN  IF number # 0 THEN number ELSE OwnAs[d]

-----------------------------------------------------------------------------
\* Spines that are connected, over however many others of their role, have
\* one AS number, the least that one of them has; and a run for one spine
\* gives it the number that a run for all gives it.  Connected means that no
\* set of spines that is closed under cables separates the two.
Closed(s)       == \A d \in s, e \in Spines : {d, e} \in wired /\ Role[d] = Role[e] => e \in s
Connected(d, e) == \A s \in SUBSET Spines : d \in s /\ Closed(s) => e \in s

GroupsShareAS ==
  \A d \in Spines :
    LET group == {e \in Spines : Connected(d, e)}
    IN  /\ AsNumber(d, All, {}) = calculate_minimum_as_for_group(group)
        /\ AsNumber(d, d, {}) = AsNumber(d, All, {})
=============================================================================
