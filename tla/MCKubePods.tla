----------------------------- MODULE MCKubePods -----------------------------
(* Instances of KubePods for TLC. *)
EXTENDS KubePods, TLC

CONSTANTS r1, r2, p1, p2

OneReq == {r1}
TwoReqs == {r1, r2}
TwoPods == {p1, p2}
ThreePods == {p1, p2}

Symmetry == Permutations(TwoReqs) \cup Permutations(TwoPods)

=============================================================================
