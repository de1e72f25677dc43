--------------------------- MODULE MCPoolManager ----------------------------
(* The instance of PoolManager for TLC. *)
EXTENDS PoolManager, TLC

CONSTANTS u1, u2, u3, n1, n2, p1, p2, p3

ThreeUsers == {u1, u2, u3}
TwoNames == {n1, n2}
ThreePools == {p1, p2, p3}

Symmetry ==
    Permutations(ThreeUsers) \cup Permutations(TwoNames) \cup Permutations(ThreePools)

=============================================================================
