---------------------------- MODULE MCIronicSync ----------------------------
EXTENDS IronicSync, TLC

CONSTANTS s1, s2, d1, d2

\* s1 synchronises everything, s2 has node_name d2.
MCOnly == s1 :> {d1, d2} @@ s2 :> {d2}

Old == [id |-> 0, state |-> "clean failed", power |-> "off", instance |-> FALSE,
        clean |-> TRUE, current |-> FALSE, ports |-> {"extra"}]

Ready == [Old EXCEPT !.state = "available", !.current = TRUE, !.ports = Wanted]

Half == [Old EXCEPT !.state = "enroll", !.power = "none", !.clean = FALSE, !.ports = {}]

\* d1 is left by an undeploy, or by a run that died after it created the node;
\* d2 is new, or has been synchronised.
MCInitNodes == d1 :> {Old, Half} @@ d2 :> {NoNode, Ready}

\* Two runs one after the other, and no node yet.
OneDevice == [s \in Syncs |-> {d1}]

NewNode == d1 :> {NoNode}
=============================================================================
