---------------------------- MODULE RfbConnection ----------------------------
(***************************************************************************)
(* The connection of the VNC viewer to its server (core/rfb.js) and the    *)
(* queues below it (core/websock.js).                                      *)
(*                                                                         *)
(* A handler is an operator from the state of the viewer to its next       *)
(* state.  The state c is a record:                                        *)
(*   conn, timer    _rfbConnectionState, the disconnection timer           *)
(*   sock           readyState of the WebSocket                            *)
(*   hearing        its onmessage still leads to the Websock               *)
(*   onOpen, onMessage, onClose   handlers of the Websock not switched off *)
(*   attached, grabbed   listeners on the page, the keyboard               *)
(*   connects, disconnects   events dispatched to the page                 *)
(*   wire, at       parts of messages under way, the first maybe read up   *)
(*                  to at; a part has its length in bytes, len             *)
(*   avail          bytes of the wire that have arrived and are unread     *)
(*   lost           a part was read past its end, or from its middle       *)
(*   out            what the viewer said in the handshake                  *)
(* and the fields of RfbHandshake, RfbDisplay, RfbDecoders, RfbMessages.   *)
(***************************************************************************)
EXTENDS Integers, Sequences

Repeater == 0       \* the version a repeater announces, and one nobody knows
Unknown == 99

Transitions ==
    {<<"connecting", "connected">>, <<"connecting", "disconnecting">>,
     <<"connected", "disconnecting">>, <<"disconnecting", "disconnected">>}

(* Closing the Websock also cuts it off from the messages of the socket. *)
Disconnect(c) ==
    [c EXCEPT !.attached = FALSE, !.grabbed = FALSE, !.hearing = FALSE,
              !.sock = IF @ \in {"connecting", "open"} THEN "closing" ELSE @]

UpdateConnectionState_Timerless(c, state) ==
    IF <<c.conn, state>> \notin Transitions THEN c
    ELSE CASE state = "connected" -> [c EXCEPT !.conn = state, !.connects = @ + 1]
           [] state = "disconnecting" -> [Disconnect(c) EXCEPT !.conn = state]
           [] OTHER -> [c EXCEPT !.conn = state, !.disconnects = @ + 1]

(* The timer is cleared, and the close event with it, by any other state. *)
UpdateConnectionState(c, state) ==
    LET stopped == IF c.timer /\ state # "disconnecting"
                     THEN [c EXCEPT !.timer = FALSE, !.onClose = FALSE] ELSE c
    IN  IF <<c.conn, state>> \notin Transitions THEN c
        ELSE CASE state = "connected" -> [stopped EXCEPT !.conn = state, !.connects = @ + 1]
               [] state = "disconnecting" ->
                     [Disconnect(c) EXCEPT !.conn = state, !.timer = TRUE]
               [] OTHER -> [stopped EXCEPT !.conn = state, !.disconnects = @ + 1]

Leave(c) ==
    UpdateConnectionState(UpdateConnectionState(c, "disconnecting"), "disconnected")

Fail(c) == Leave(c)

(* disconnect(), called by the page *)
UserDisconnect(c) ==
    [UpdateConnectionState(c, "disconnecting") EXCEPT !.onMessage = FALSE, !.onOpen = FALSE]

(* A second open fails; a close in state disconnected changes nothing. *)
SocketOpen(c) ==
    IF c.conn = "connecting" /\ c.init = "" THEN [c EXCEPT !.init = "ProtocolVersion"]
    ELSE Fail(c)

SocketClose(c) ==
    LET d == IF c.conn \in {"connecting", "connected"} THEN Leave(c)
             ELSE UpdateConnectionState(c, "disconnected")
    IN  [d EXCEPT !.onClose = FALSE]

-----------------------------------------------------------------------------
(* The receive queue.  What has been read is never needed again, except by *)
(* a handler that takes back what it just read because the rest is missing.*)
Part(c) == Head(c.wire)

Short(c, n) == c.avail < n

Back(c, n) == [c EXCEPT !.at = @ - n, !.avail = @ + n, !.lost = @ \/ c.at < n]

Skip(c, n) ==
    LET left == IF c.wire = <<>> THEN 0 ELSE Part(c).len - c.at
    IN  IF n = left /\ n > 0
          THEN [c EXCEPT !.wire = Tail(@), !.at = 0, !.avail = @ - n]
          ELSE [c EXCEPT !.at = @ + n, !.avail = @ - n, !.lost = @ \/ n > left]

(* A handler that expects a part of some type reads garbage unless it is   *)
(* at the beginning of one.                                                *)
AtPart(c, types) == c.wire # <<>> /\ c.at = 0 /\ Part(c).type \in types
Lose(c) == [c EXCEPT !.lost = TRUE]

(* Nothing leaves a socket that is not open. *)
Say(c, message) == IF c.sock = "open" THEN [c EXCEPT !.out = Append(@, message)] ELSE c
=============================================================================
