---------------------------- MODULE VncConnection ----------------------------
(***************************************************************************)
(* What the VNC viewer promises the page about its connection: it says     *)
(* connect at most once, and disconnect exactly once, after everything     *)
(* else, whether the page, the server, the network or an error ended it;   *)
(* and a page that disconnects is told so in the end.                      *)
(***************************************************************************)
EXTENDS Naturals

VARIABLES
    state,          \* the state of the connection
    connects,       \* connect events
    disconnects     \* disconnect events

vars == <<state, connects, disconnects>>

Init == state = "connecting" /\ connects = 0 /\ disconnects = 0

Connect ==
    /\ state = "connecting"
    /\ state' = "connected"
    /\ connects' = connects + 1
    /\ UNCHANGED disconnects

Leave ==
    /\ state \in {"connecting", "connected"}
    /\ state' = "disconnecting"
    /\ UNCHANGED <<connects, disconnects>>

(* At once when the connection breaks, or in the end *)
Finish ==
    /\ state # "disconnected"
    /\ state' = "disconnected"
    /\ disconnects' = disconnects + 1
    /\ UNCHANGED connects

Next == Connect \/ Leave \/ Finish

Spec == Init /\ [][Next]_vars /\ WF_vars(state = "disconnecting" /\ Finish)
=============================================================================
