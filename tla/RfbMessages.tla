----------------------------- MODULE RfbMessages -----------------------------
(***************************************************************************)
(* What the VNC viewer does with messages from its server (core/rfb.js).   *)
(* A message is handled as soon as all of it is there; a handler that      *)
(* finds it incomplete takes back what it read.  Rectangles are handled    *)
(* piece by piece.  Fields of the viewer:                                  *)
(*   flushing      waits for the display to draw the previous update       *)
(*   dropped       history: an update without rectangles met that wait     *)
(*   continuous, knowsContinuous   continuous updates                      *)
(*   region        size of the framebuffer the last request for updates or *)
(*                 for continuous updates was about                        *)
(*   stray         history: data was handled while disconnecting           *)
(***************************************************************************)
EXTENDS RfbHandshake, RfbDecoders

CONSTANT MaxTurns   \* of the loop over what arrived; none is left to do after so many

RequestUpdate(c) ==
    IF c.sock = "open" THEN [c EXCEPT !.asked = TRUE, !.region = c.size] ELSE c

EnableContinuousUpdates(c) == [c EXCEPT !.region = c.size]

UpdateContinuousUpdates(c) == IF c.continuous THEN EnableContinuousUpdates(c) ELSE c

Resize(c, size) == UpdateContinuousUpdates(ResizeDisplay(c, size))

(* What the viewer offers: encodings of rectangles, with full colour depth,*)
(* and pseudo-encodings that stand for messages.                           *)
Drawing == {"copyRect", "tight", "tightPNG", "hextile", "rre", "raw"}
SendEncodings ==
    Drawing
    \cup {"desktopSize", "lastRect", "qemuExtendedKeyEvent", "extendedDesktopSize",
          "desktopName", "vmwareCursor", "cursor"}
    \cup {"xvp", "fence", "continuousUpdates", "extendedClipboard"}

NegotiateServerInit(c) ==
    LET part == Part(c)
        d == Skip(c, 24)
        e == Skip(d, part.n)
        f == Skip(e, 8)
        ready(x) == UpdateConnectionState(
                      RequestUpdate([Resize(x, part.size) EXCEPT !.grabbed = TRUE]),
                      "connected")
        named == ~Short(c, 24) /\ ~Short(d, part.n)
        counted == named /\ c.tight /\ ~Short(e, 8)
    IN  CASE Short(c, 24) -> c
          [] ~Short(c, 24) /\ ~named -> Back(d, 24)
          [] named /\ ~c.tight -> ready(e)
          [] named /\ c.tight /\ ~counted -> Back(e, 24 + part.n)
          [] counted /\ Short(f, 16 * part.caps) -> Back(f, 32 + part.n)
          [] OTHER -> ready(Skip(f, 16 * part.caps))

Expected(c) ==
    CASE c.init = "ProtocolVersion" -> {"version"}
      [] c.init = "Security" -> {"types", "scheme"}
      [] c.init = "SecurityResult" -> {"result"}
      [] c.init = "SecurityReason" -> {"reason"}
      [] c.init = "ServerInitialisation" -> {"serverInit"}
      [] OTHER -> {"challenge", "tunnels", "subauths", "veVersion", "veAck", "veCount", "veTypes"}

InitMsg(c) ==
    CASE c.wire # <<>> /\ ~AtPart(c, Expected(c)) -> Lose(c)
      [] c.wire = <<>> /\ c.init # "Authentication" -> c
      [] OTHER ->
            CASE c.init = "ProtocolVersion" -> NegotiateProtocolVersion(c)
              [] c.init = "Security" -> NegotiateSecurity(c)
              [] c.init = "Authentication" -> NegotiateAuthentication(c)
              [] c.init = "SecurityResult" -> HandleSecurityResult(c)
              [] c.init = "SecurityReason" -> HandleSecurityReason(c)
              [] OTHER -> NegotiateServerInit(c)

-----------------------------------------------------------------------------
(* Messages.  The type has been read: c is the viewer before, and d after. *)
HandleExtendedClipboard(part, e) ==
    LET f == Skip(e, 4)
    IN  CASE part.form = "caps" -> Skip(f, 4 * part.formats)
          [] part.form \in {"request", "peek", "notify"} -> f
          [] part.form = "provide" -> IF part.text THEN Skip(f, part.n - 4) ELSE f
          [] OTHER -> Refuse(f)

HandleServerCutText(c, d) ==
    LET part == Part(c)
        e == Skip(d, 7)
    IN  CASE Short(d, 7) -> Back(d, 1)
          [] ~Short(d, 7) /\ Short(e, part.n) -> Back(e, 8)
          [] ~Short(d, 7) /\ ~Short(e, part.n) /\ part.form = "text" -> Skip(e, part.n)
          [] OTHER -> HandleExtendedClipboard(part, e)

ClientFence(c) == Say(c, <<"fence">>)

HandleServerFence_NoGoback(c, d) ==
    LET part == Part(c)
        e == Skip(d, 8)
    IN  CASE Short(d, 8) -> Back(d, 1)
          [] ~Short(d, 8) /\ Short(e, part.n) -> e
          [] OTHER -> IF part.request THEN ClientFence(Skip(e, Min({part.n, 64}))) ELSE Refuse(e)

(* A fence is answered when everything before it was handled. *)
HandleServerFence(c, d) ==
    LET part == Part(c)
        e == Skip(d, 8)
        f == Skip(e, Min({part.n, 64}))
    IN  CASE Short(d, 8) -> Back(d, 1)
          [] ~Short(d, 8) /\ Short(e, part.n) -> Back(e, 9)
          [] OTHER -> IF part.request THEN ClientFence(f) ELSE Refuse(f)

(* After an illegal message the loop goes on. *)
HandleXvp(c, d) ==
    CASE Short(d, 3) -> Back(d, 1)
      [] ~Short(d, 3) /\ Part(c).legal -> Skip(d, 3)
      [] OTHER -> Fail(Skip(d, 3))

(* The first says that the server can do it. *)
EndOfContinuousUpdates(d) ==
    UpdateContinuousUpdates(
        [d EXCEPT !.knowsContinuous = TRUE, !.continuous = ~d.knowsContinuous])

-----------------------------------------------------------------------------
(* Updates *)
FinishUpdate_Drawn(c) ==
    LET d == Perform(c, Flip)
    IN  IF c.continuous \/ d.renderQ # <<>> THEN d ELSE RequestUpdate(d)

FinishUpdate(c) ==
    LET d == Perform(c, Flip)
    IN  IF c.continuous THEN d ELSE RequestUpdate(d)

(* The previous update must have been drawn.  An update that has to wait   *)
(* resumes with its rectangles.                                            *)
BeginUpdate(c, d) ==
    LET n == Part(c).n
        e == [Skip(d, 3) EXCEPT !.rects = n]
    IN  CASE Short(d, 3) -> Back(d, 1)
          [] ~Short(d, 3) /\ c.renderQ # <<>> ->
                [e EXCEPT !.flushing = TRUE, !.dflush = TRUE, !.dropped = @ \/ n = 0]
          [] OTHER -> IF n = 0 THEN FinishUpdate(e) ELSE e

(* Its two first bytes are taken back when the rest is missing. *)
HandleVMwareCursor(c) ==
    LET r == c.rect
        bytes == (IF r.form = "classic" THEN 8 ELSE 4) * r.w * r.h
    IN  CASE Short(c, 1) \/ Short(c, 2 + bytes) -> c
          [] OTHER -> RectDone(Skip(c, 2 + bytes))

HandleCursor(c) ==
    LET bytes == 4 * c.rect.w * c.rect.h + ((c.rect.w + 7) \div 8) * c.rect.h
    IN  IF Short(c, bytes) THEN c ELSE RectDone(Skip(c, bytes))

HandleDesktopName(c) ==
    LET d == Skip(c, 4)
    IN  CASE Short(c, 4) -> c
          [] ~Short(c, 4) /\ Short(d, c.rect.n) -> Back(d, 4)
          [] OTHER -> RectDone(Skip(d, c.rect.n))

(* n screens; a refused request leaves the size as it is. *)
HandleExtendedDesktopSize(c) ==
    LET bytes == 4 + 16 * c.rect.n
        d == RectDone(Skip(c, bytes))
    IN  CASE Short(c, 4) \/ Short(c, bytes) -> c
          [] ~Short(c, bytes) /\ c.rect.refused -> d
          [] OTHER -> Resize(d, c.rect.size)

HandleRect(c) ==
    CASE c.rect.encoding = "lastRect" -> RectDone([c EXCEPT !.rects = 1])
      [] c.rect.encoding = "vmwareCursor" -> HandleVMwareCursor(c)
      [] c.rect.encoding = "cursor" -> HandleCursor(c)
      [] c.rect.encoding = "qemuExtendedKeyEvent" -> RectDone(c)
      [] c.rect.encoding = "desktopName" -> HandleDesktopName(c)
      [] c.rect.encoding = "desktopSize" -> Resize(RectDone(c), c.rect.size)
      [] c.rect.encoding = "extendedDesktopSize" -> HandleExtendedDesktopSize(c)
      [] c.rect.encoding = "raw" -> DecodeRaw(c)
      [] c.rect.encoding = "copyRect" -> DecodeCopyRect(c)
      [] c.rect.encoding = "rre" -> DecodeRRE(c)
      [] c.rect.encoding = "hextile" -> DecodeHextile(c)
      [] c.rect.encoding \in {"tight", "tightPNG"} -> DecodeTight(c)
      [] OTHER -> Refuse(c)

(* One step of the loop over the rectangles: a header, or some of a body   *)
ContinueUpdate(c) ==
    LET d == HandleRect(c)
    IN  CASE c.rect = NoRect /\ Short(c, 12) -> c
          [] c.rect = NoRect /\ ~Short(c, 12) ->
                IF AtPart(c, {"rect"}) THEN [Skip(c, 12) EXCEPT !.rect = Part(c)] ELSE Lose(c)
          [] c.rect # NoRect /\ d.rects > 0 -> d
          [] OTHER -> FinishUpdate(d)

-----------------------------------------------------------------------------
NormalTypes == {"update", "setColourMap", "bell", "cutText", "endOfContinuousUpdates",
                "fence", "xvp", "unknown"}

NormalMsg(c) ==
    LET type == Part(c).type
        d == Skip(c, 1)
    IN  CASE c.rects > 0 -> ContinueUpdate(c)
          [] c.rects = 0 /\ ~AtPart(c, NormalTypes) -> Lose(c)
          [] OTHER ->
                CASE type = "update" -> BeginUpdate(c, d)
                  [] type = "setColourMap" -> Refuse(d)
                  [] type = "bell" -> d
                  [] type = "cutText" -> HandleServerCutText(c, d)
                  [] type = "endOfContinuousUpdates" -> EndOfContinuousUpdates(d)
                  [] type = "fence" -> HandleServerFence(c, d)
                  [] type = "xvp" -> HandleXvp(c, d)
                  [] OTHER -> Fail(d)

(* The loop of _handleMessage: until a handler waits, or there is nothing  *)
(* left.  It does not look at the state of the connection again.           *)
NextTurn(c) ==
    IF c.flushing \/ c.halted \/ c.lost \/ (c.rects = 0 /\ c.avail = 0) THEN c
    ELSE NormalMsg(c)

NormalMsgs(c) ==
    LET after[n \in 0 .. MaxTurns] == IF n = 0 THEN c ELSE NextTurn(after[n - 1])
    IN  after[MaxTurns]

(* What arrived before the connection was left is taken for ServerInit. *)
HandleMessage(c) ==
    CASE c.avail = 0 \/ c.conn = "disconnected" -> c
      [] c.avail > 0 /\ c.conn = "connected" -> NormalMsgs(c)
      [] c.avail > 0 /\ c.conn = "connecting" -> InitMsg(c)
      [] OTHER -> IF c.init = "ServerInitialisation" /\ ~Short(c, 24)
                    THEN [c EXCEPT !.stray = TRUE] ELSE c

OnFlush(c) == HandleMessage([c EXCEPT !.flushing = FALSE])

ImageLoaded_StillFlushing(c, i) ==
    LET d == [c EXCEPT !.renderQ[i].loaded = TRUE]
        e == ScanRenderQ(d)
    IN  CASE i > 1 -> d
          [] i = 1 /\ e.renderQ = <<>> /\ e.dflush -> OnFlush(e)
          [] OTHER -> e

(* The load event of an image scans the queue if it is the first. *)
ImageLoaded(c, i) ==
    LET d == [c EXCEPT !.renderQ[i].loaded = TRUE]
        e == ScanRenderQ(d)
    IN  CASE i > 1 -> d
          [] i = 1 /\ e.renderQ = <<>> /\ e.dflush -> OnFlush([e EXCEPT !.dflush = FALSE])
          [] OTHER -> e
=============================================================================
