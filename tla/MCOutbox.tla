------------------------------ MODULE MCOutbox ------------------------------
(***************************************************************************)
(* Small instances of the outbox: two replicas that compete for one or for *)
(* two events.  With two events, e2 is of a type no handler is registered  *)
(* for, and a batch holds a second job whose lease ages while the first is *)
(* being handled.                                                          *)
(***************************************************************************)
EXTENDS Outbox, TLC

CONSTANTS e1, e2, p1, p2

MCOneEvent == {e1}
MCTwoEvents == {e1, e2}
MCNone == {}
MCUnhandled == {e2}
MCProcessors == {p1, p2}

\* Replicas are interchangeable.
Symmetry == Permutations(MCProcessors)
=============================================================================
