----------------------------- MODULE MCBackend ------------------------------
(* Instances of Backend for TLC: two requests, for one image or for two    *)
(* pods.  An image that no request asks for is there for the start-up.     *)
EXTENDS Backend

CONSTANTS r1, r2, i1, i2, p1, p2

TwoReqs == {r1, r2}
TwoImages == {i1, i2}
OneImage == [r \in {r1, r2} |-> i1]
TwoPods == {p1, p2}

=============================================================================
