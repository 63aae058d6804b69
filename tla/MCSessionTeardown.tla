------------------------- MODULE MCSessionTeardown -------------------------
(***************************************************************************)
(* One device with two tunnels to one resource, which the controller       *)
(* allows, denies or moves to another tuple, and one shield stream.        *)
(***************************************************************************)
EXTENDS SessionTeardown, TLC

CONSTANTS s1, s2, c1, r1, t1, t2, f1

MCSessions == {s1, s2}
MCOneSession == {s1}
MCNone == {}
MCClients == {c1}
MCResources == {r1}
MCTuples == {t1, t2}
MCOneTuple == {t1}
MCStreams == {f1}


Rule(t, who) == [r \in MCResources |-> [tuple |-> t, allowed |-> who]]

MCSnapshots == {Rule(t1, {c1}), Rule(t1, {}), Rule(t2, {c1})}
MCOneTupleSnapshots == {Rule(t1, {c1}), Rule(t1, {})}
=============================================================================
