---------------------------- MODULE MCNetBoxSync ----------------------------
EXTENDS NetBoxSync, TLC

CONSTANTS t1, t2, t3, d1, d2

MCDeviceOf == t1 :> d1 @@ t2 :> d1 @@ t3 :> d2
MCFieldOf == t1 :> "power_state" @@ t2 :> "provision_state" @@ t3 :> "maintenance"
MCMatching == t1 :> {1, 2} @@ t2 :> {1, 2} @@ t3 :> {2}
=============================================================================
