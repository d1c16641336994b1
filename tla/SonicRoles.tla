----------------------------- MODULE SonicRoles -----------------------------
(***************************************************************************)
(* The roles of devices in NetBox that make them SONiC switches, and those *)
(* of the switches whose AS numbers go by groups                           *)
(* (src/osism/tasks/conductor/sonic/constants.py and sync.py).             *)
(***************************************************************************)

DEFAULT_SONIC_ROLES ==
  {"accessleaf", "borderleaf", "computeleaf", "dataleaf", "leaf", "serviceleaf",
   "spine", "storageleaf", "superspine", "switch", "transferleaf"}

SPINE_ROLES == {"spine", "superspine"}
=============================================================================
