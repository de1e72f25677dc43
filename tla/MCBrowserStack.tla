--------------------------- MODULE MCBrowserStack ---------------------------
(* Instances of BrowserStack for TLC. *)
EXTENDS BrowserStack

CONSTANTS u1, u2, b1, b2

TwoUsers == {u1, u2}
TwoBrowsers == {b1, b2}

=============================================================================
