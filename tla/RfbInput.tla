------------------------------ MODULE RfbInput ------------------------------
(***************************************************************************)
(* What the viewer makes of mouse, wheel and gesture events, and what it   *)
(* tells the server (core/rfb.js, core/util/events.js, core/util/cursor.js)*)
(*                                                                         *)
(* A handler is an operator from the state of the viewer to its next state *)
(* because handlers call each other.  The state v is a record:             *)
(*   connected, viewOnly, dragViewport, platform   of the RFB object       *)
(*   mask        buttons the viewer takes for pressed                      *)
(*   dragging, dragPos, moved   dragging of the viewport                   *)
(*   pos, timer, recent   last move, a delayed move waits, one was just    *)
(*               sent (less than MOUSE_MOVE_DELAY ago)                     *)
(*   wheel       accumulated wheel delta                                   *)
(*   lastTap     first tap of a possible double tap                        *)
(*   magnitude   _gestureLastMagnitude                                     *)
(*   captured, shown, recheck   mouse capture, cursor, its delayed check   *)
(*   keys, armed, late   the keyboard, see Keyboard                        *)
(*   srvX, srvMask, srvKeys   pointer and keys as the server sees them:    *)
(*               messages arrive in the order they are sent                *)
(* Positions have one coordinate; a mask is the set of its bits.           *)
(***************************************************************************)
EXTENDS KeyEvents, FiniteSets

CONSTANTS
    DragThreshold,      \* dragThreshold of the browser module
    WheelStep,          \* WHEEL_STEP
    ScrollSens,         \* GESTURE_SCRLSENS
    ZoomSens,           \* GESTURE_ZOOMSENS
    DoubleTapThreshold  \* DOUBLE_TAP_THRESHOLD

ASSUME RfbInputAssumption ==
    {DragThreshold, WheelStep, ScrollSens, ZoomSens, DoubleTapThreshold} \subseteq Nat \ {0}

NoTap == [gesture |-> "none", x |-> 0]

Distance(a, b) == IF a < b THEN b - a ELSE a - b

(* The messages, as the server takes them *)
PointerEvent(v, x, mask) == [v EXCEPT !.srvX = x, !.srvMask = mask]
KeyEvent(v, keysym, down) ==
    [v EXCEPT !.srvKeys = IF down THEN @ \cup {keysym} ELSE @ \ {keysym}]

SendMouse(v, x, mask) == IF v.connected /\ ~v.viewOnly THEN PointerEvent(v, x, mask) ELSE v

SendKey(v, keysym, down) ==
    IF ~v.connected \/ v.viewOnly \/ keysym = NoSymbol THEN v ELSE KeyEvent(v, keysym, down)

(* Dragging the viewport takes the press and, if it moved, the release;    *)
(* otherwise the press is sent together with the release.  A delayed move  *)
(* is sent before the button.                                              *)
HandleMouseButton(v, x, down, button) ==
    LET grab == v.dragViewport /\ down /\ ~v.dragging
        drop == v.dragViewport /\ ~grab
        click == IF drop THEN SendMouse([v EXCEPT !.dragging = FALSE], x, {button}) ELSE v
        flushed == IF click.timer
                     THEN SendMouse([click EXCEPT !.timer = FALSE], x, click.mask)
                     ELSE click
        mask == IF down THEN v.mask \cup {button} ELSE v.mask \ {button}
    IN  CASE grab -> [v EXCEPT !.dragging = TRUE, !.dragPos = x, !.moved = FALSE]
          [] drop /\ v.moved -> [v EXCEPT !.dragging = FALSE]
          [] OTHER -> SendMouse([flushed EXCEPT !.mask = mask], x, mask)

Click(v, x, button) ==
    HandleMouseButton(HandleMouseButton(v, x, TRUE, button), x, FALSE, button)

HandleMouseMove(v, x) ==
    CASE v.dragging /\ (v.moved \/ Distance(v.dragPos, x) > DragThreshold) ->
            [v EXCEPT !.moved = TRUE, !.dragPos = x]
      [] v.dragging /\ ~v.moved /\ Distance(v.dragPos, x) <= DragThreshold -> v
      [] ~v.dragging /\ (v.timer \/ v.recent) -> [v EXCEPT !.pos = x, !.timer = TRUE]
      [] OTHER -> [SendMouse(v, x, v.mask) EXCEPT !.pos = x, !.recent = TRUE]

HandleDelayedMouseMove(v) ==
    [SendMouse(v, v.pos, v.mask) EXCEPT !.timer = FALSE, !.recent = TRUE]

(* Wheel buttons go down and up at once, when enough has accumulated. *)
HandleWheel(v, x, delta) ==
    LET total == v.wheel + delta
        button == IF total < 0 THEN 3 ELSE 4
    IN  IF ~v.connected \/ v.viewOnly THEN v
        ELSE IF Distance(total, 0) >= WheelStep
               THEN [Click(v, x, button) EXCEPT !.wheel = 0]
               ELSE [v EXCEPT !.wheel = total]

-----------------------------------------------------------------------------
(* The emulated cursor is shown over the canvas, and anywhere while the    *)
(* canvas has captured the mouse.                                          *)
UpdateVisibility(v, overCanvas) == [v EXCEPT !.shown = v.captured \/ overCanvas]

SetCapture_Missing(v) == v
SetCapture(v) == [v EXCEPT !.captured = TRUE]
ReleaseCapture(v) == [v EXCEPT !.captured = FALSE]

(* The cursor listens in the capturing phase, before the canvas' handler;  *)
(* the proxy releases the capture after both.                              *)
CursorMouseUp_Once(v, overCanvas) == UpdateVisibility(v, overCanvas)
CursorMouseUp(v, overCanvas) ==
    [UpdateVisibility(v, overCanvas) EXCEPT !.recheck = @ \/ v.captured]

-----------------------------------------------------------------------------
FakeMouseMove(v, x) == [HandleMouseMove(v, x) EXCEPT !.shown = TRUE]

(* A tap soon after one of the same kind and close to it hits its spot. *)
HandleTap(v, ev, button) ==
    LET again == v.lastTap.gesture = ev.gesture
                 /\ Distance(v.lastTap.x, ev.x) < DoubleTapThreshold
        tap == IF again THEN v.lastTap ELSE [gesture |-> ev.gesture, x |-> ev.x]
    IN  Click(FakeMouseMove([v EXCEPT !.lastTap = tap], tap.x), tap.x, button)

(* One click of the wheel per Sens the fingers moved since the last one.   *)
(* Further clicks of the same event leave the same state.                  *)
Scroll(v, ev, sens) ==
    LET moved == ev.magnitude - v.magnitude
        clicks == (Distance(moved, 0) - 1) \div sens
    IN  IF Distance(moved, 0) <= sens THEN v
        ELSE IF moved > 0
          THEN [Click(v, ev.x, 3) EXCEPT !.magnitude = @ + clicks * sens]
          ELSE [Click(v, ev.x, 4) EXCEPT !.magnitude = @ - clicks * sens]

(* A pinch is Ctrl and the wheel; Ctrl goes up even if it did not go down. *)
Zoom(v, ev) ==
    LET held == IF Distance(ev.magnitude, v.magnitude) > ZoomSens
                  THEN SendKey(v, "Control_L", TRUE) ELSE v
    IN  SendKey(Scroll(held, ev, ZoomSens), "Control_L", FALSE)

TapButton == [onetap |-> 0, twotap |-> 2, threetap |-> 1]
DragButton == [drag |-> 0, longpress |-> 2]

HandleGestureStart(v, ev) ==
    CASE ev.gesture \in DOMAIN TapButton -> HandleTap(v, ev, TapButton[ev.gesture])
      [] ev.gesture \in DOMAIN DragButton ->
            HandleMouseButton(FakeMouseMove(v, ev.x), ev.x, TRUE, DragButton[ev.gesture])
      [] OTHER -> FakeMouseMove([v EXCEPT !.magnitude = ev.magnitude], ev.x)

HandleGestureMove(v, ev) ==
    CASE ev.gesture \in DOMAIN TapButton -> v
      [] ev.gesture \in DOMAIN DragButton -> FakeMouseMove(v, ev.x)
      [] ev.gesture = "twodrag" -> Scroll(FakeMouseMove(v, ev.x), ev, ScrollSens)
      [] OTHER -> Zoom(FakeMouseMove(v, ev.x), ev)

HandleGestureEnd_DragOnly(v, ev) ==
    IF ev.gesture = "drag" THEN HandleMouseButton(v, ev.x, FALSE, 0) ELSE v

(* The magnitude is dead until the next start sets it. *)
HandleGestureEnd(v, ev) ==
    IF ev.gesture \in DOMAIN DragButton
      THEN HandleMouseButton(FakeMouseMove(v, ev.x), ev.x, FALSE, DragButton[ev.gesture])
      ELSE [v EXCEPT !.magnitude = 0]

HandleGesture(v, ev) ==
    CASE ev.type = "gesturestart" -> HandleGestureStart(v, ev)
      [] ev.type = "gesturemove" -> HandleGestureMove(v, ev)
      [] OTHER -> HandleGestureEnd(v, ev)

=============================================================================
