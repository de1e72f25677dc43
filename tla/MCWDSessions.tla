---------------------------- MODULE MCWDSessions ----------------------------
(* The instance of WDSessions for TLC. *)
EXTENDS WDSessions

CONSTANTS c1, d1, h1, h2

OneCreator == {c1}
OneHandler == {d1}
TwoHandles == {h1, h2}

=============================================================================
