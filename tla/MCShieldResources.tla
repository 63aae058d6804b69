------------------------- MODULE MCShieldResources -------------------------
(* One resource, up to two shields and two ports; shields are interchangeable. *)
EXTENDS ShieldResources, TLC

CONSTANTS r1, s1, s2, p1, p2

OneResource == {r1}
OneShield == {s1}
TwoShields == {s1, s2}
OnePort == {p1}
TwoPorts == {p1, p2}

Symmetry == Permutations(TwoShields)
=============================================================================
