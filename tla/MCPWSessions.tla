---------------------------- MODULE MCPWSessions ----------------------------
(* Instances of PWSessions for TLC. *)
EXTENDS PWSessions

CONSTANTS c1, c2, r1, h1, h2

TwoClients == {c1, c2}
OneClient == {c1}
OneResetter == {r1}
TwoHandles == {h1, h2}

=============================================================================
