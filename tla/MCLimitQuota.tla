---------------------------- MODULE MCLimitQuota ----------------------------
(* The instance of LimitQuota for TLC. *)
EXTENDS LimitQuota

CONSTANTS r1, r2, r3, r4

FourReqs == {r1, r2, r3, r4}

=============================================================================
