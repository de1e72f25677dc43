--------------------------- MODULE MCBrowserPool ----------------------------
(* Instances of BrowserPool for TLC. *)
EXTENDS BrowserPool

CONSTANTS u1, u2, b1, b2

TwoUsers == {u1, u2}
TwoBrowsers == {b1, b2}

=============================================================================
