--------------------------- MODULE MCCloudRepair ---------------------------
(* One `osism volume repair` and two volumes.                                *)
EXTENDS CloudRepair

NoAmphora == [a \in {} |-> "lb"]
VolumeRepairs == {[do |-> "repair", lb |-> "lb", opts |-> o] : o \in {{}, {"yes"}}}
=============================================================================
