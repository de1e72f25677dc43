------------------------------ MODULE VncInput ------------------------------
(***************************************************************************)
(* Input of the VNC viewer, from the user's fingers, mouse and keys to     *)
(* what the server takes to be pressed: the gesture handler dispatches     *)
(* events that the RFB object turns into pointer and key messages, in the  *)
(* same step; timers of both and of the keyboard run in between.           *)
(*                                                                         *)
(* The user: fingers on the screen (down), mouse buttons and keys that are *)
(* really held (pressed, held), where the mouse is (at), and whether the   *)
(* window has the focus.  A behaviour uses one device (device); "window"   *)
(* stands for what resizes the window, the page and the desktop.           *)
(***************************************************************************)
EXTENDS GestureHandler, Keyboard, Viewport

CONSTANTS
    Devices,        \* subset of {"touch", "mouse", "keys", "window"}
    Buttons,        \* buttons of the mouse, bits of the mask
    MaxHeld,        \* keys the user holds at once, at most
    MaxTouches      \* touches of a behaviour, at most

Outside == -1

ASSUME OutsideAssumption == Outside \notin Coords

(* The canvas has a last column. *)
ASSUME CanvasAssumption == \E x \in Coords : \A y \in Coords : y <= x

(* What the browser tells of a key: its press and its release name one     *)
(* code, unless the press names none.  The Japanese keys that Windows      *)
(* never releases mean the same at each press, and are no modifiers.       *)
BadOnWindows(e) == GetKeysym(e, "windows") \in JpBadKeys

ASSUME TypingAssumption ==
    /\ \A p \in Platforms : Layouts[p] \subseteq DOMAIN Typing
    /\ \A k \in DOMAIN Typing, p \in Platforms : \A e \in Typing[k].downs :
          /\ KeyCode(e, p) \in {"Unidentified", KeyCode(Typing[k].up, p)}
          /\ GetKeysym(e, p) # Up
    /\ \A k \in DOMAIN Typing : \A d, e \in Typing[k].downs : BadOnWindows(d) =>
          /\ BadOnWindows(e)
          /\ KeyCode(Typing[k].up, "windows") \notin {"ShiftLeft", "ShiftRight", "AltRight"}

VARIABLES v, device, at, pressed, held, focused,
    touches,        \* number of touches so far
    chord,          \* two buttons were held at once since the buttons were at rest
    silenced        \* the viewer became view-only

vars == <<gestureVars, v, view, device, at, pressed, held, focused, touches, chord, silenced>>
userVars == <<device, at, pressed, held, focused, touches, chord, silenced>>

Viewer(platform, dragViewport) ==
    [connected |-> TRUE, viewOnly |-> FALSE, dragViewport |-> dragViewport,
     platform |-> platform, mask |-> {}, dragging |-> FALSE, dragPos |-> 0,
     moved |-> FALSE, pos |-> 0, timer |-> FALSE, recent |-> FALSE, wheel |-> 0,
     lastTap |-> NoTap, magnitude |-> 0, captured |-> FALSE, shown |-> FALSE,
     recheck |-> FALSE, keys |-> [c \in Codes |-> Up], armed |-> FALSE, late |-> FALSE,
     srvX |-> 0, srvMask |-> {}, srvKeys |-> {}]

InputInit ==
    /\ Init
    /\ device \in Devices
    /\ \E p \in Platforms, d \in BOOLEAN :
          /\ p # "other" => device = "keys"
          /\ d => device = "mouse"
          /\ v = Viewer(p, d)
    /\ ViewInit
    /\ device # "window" => view.fb = CHOOSE fb \in FbSizes : TRUE
    /\ device # "window" /\ ~v.dragViewport => view.screen = CHOOSE size \in ScreenSizes : TRUE
    /\ at = Outside
    /\ pressed = {}
    /\ held = {}
    /\ focused = TRUE
    /\ touches = 0
    /\ chord = FALSE
    /\ silenced = FALSE

-----------------------------------------------------------------------------
(* The RFB object listens to the gestures of the step. *)
Gesture(A) ==
    /\ v.connected
    /\ A
    /\ v' = FoldLeft(HandleGesture, v, events')
    /\ touches' = touches + Cardinality(down' \ down)
    /\ UNCHANGED <<view, device, at, pressed, held, focused, chord, silenced>>

FingerDown ==
    /\ device = "touch" /\ touches < MaxTouches
    /\ \E f \in Fingers, x \in Coords : Gesture(TouchStart(f, x))
FingerMove == \E f \in down, x \in Coords : Gesture(TouchMove(f, x))
FingerUp == \E f \in down : Gesture(TouchEnd(f))
LongpressTimer == Gesture(LongpressTimeout)
TwoTouchTimer == Gesture(TwoTouchTimeout)
TimePasses == Gesture(Elapse)

(* DOUBLE_TAP_TIMEOUT after the last tap *)
TapIsOld ==
    /\ v.lastTap # NoTap
    /\ v' = [v EXCEPT !.lastTap = NoTap]
    /\ UNCHANGED <<gestureVars, view, userVars>>

-----------------------------------------------------------------------------
Mouse(w) == v' = w /\ UNCHANGED <<gestureVars, device, held, focused, touches, silenced>>

InCanvas == at # Outside
ClipToCanvas(p) == IF p = Outside THEN CHOOSE x \in Coords : \A y \in Coords : y <= x ELSE p

(* mousedown: the proxy that captures the mouse lies over the canvas and   *)
(* does not pass it on.                                                    *)
MouseDown ==
    /\ device = "mouse" /\ v.connected
    /\ \E b \in Buttons \ pressed :
          /\ pressed' = pressed \cup {b}
          /\ chord' = (chord \/ pressed # {})
          /\ IF InCanvas /\ ~v.captured
               THEN Mouse(HandleMouseButton(SetCapture(v), at, TRUE, b))
               ELSE Mouse(v)
    /\ UNCHANGED <<view, at>>

(* mouseup, on the canvas or through the capture *)
MouseUp ==
    /\ v.connected
    /\ \E b \in pressed :
          /\ pressed' = pressed \ {b}
          /\ IF InCanvas \/ v.captured
               THEN Mouse(ReleaseCapture(
                            HandleMouseButton(CursorMouseUp(v, InCanvas),
                                              ClipToCanvas(at), FALSE, b)))
               ELSE Mouse(v)
          /\ chord' = (chord /\ ~(pressed' = {} /\ v'.mask = {}))
    /\ UNCHANGED <<view, at>>

(* mousemove, mouseover and mouseleave; a drag moves the viewport.  *)
MouseMove ==
    /\ device = "mouse" /\ v.connected
    /\ at' \in (Coords \cup {Outside}) \ {at}
    /\ LET w == UpdateVisibility(v, at' # Outside)
       IN  IF at' # Outside \/ v.captured
             THEN Mouse(HandleMouseMove(w, ClipToCanvas(at')))
             ELSE Mouse(w)
    /\ IF v.dragging /\ v'.moved
         THEN Drag([a \in Axes |-> IF a = "x" THEN v.dragPos - v'.dragPos ELSE 0])
         ELSE UNCHANGED view
    /\ UNCHANGED <<pressed, chord>>

Wheel ==
    /\ device = "mouse" /\ v.connected /\ InCanvas /\ ~v.captured
    /\ \E delta \in {-30, 30} : Mouse(HandleWheel(v, at, delta))
    /\ UNCHANGED <<view, at, pressed, chord>>

(* the setTimeout of the cursor's mouseup handler *)
CursorRecheck ==
    /\ v.recheck
    /\ v' = [IF v.connected THEN UpdateVisibility(v, InCanvas) ELSE v EXCEPT !.recheck = FALSE]
    /\ UNCHANGED <<gestureVars, view, userVars>>

MoveTimer ==
    /\ v.timer /\ v.connected
    /\ v' = HandleDelayedMouseMove(v)
    /\ UNCHANGED <<gestureVars, view, userVars>>

(* MOUSE_MOVE_DELAY after the last move that was sent; a delayed move is   *)
(* sent by then.                                                           *)
MoveIsOld ==
    /\ v.recent /\ ~v.timer
    /\ v' = [v EXCEPT !.recent = FALSE]
    /\ UNCHANGED <<gestureVars, view, userVars>>

-----------------------------------------------------------------------------
Keys(w) == v' = w /\ UNCHANGED <<gestureVars, device, at, pressed, touches, chord>>

KeyDown ==
    /\ device = "keys" /\ v.connected
    /\ \E k \in Layouts[v.platform] : \E e \in Typing[k].downs :
          /\ k \in held \/ Cardinality(held) < MaxHeld
          /\ held' = held \cup {k}
          /\ Keys(IF focused /\ ~v.viewOnly THEN HandleKeyDown(v, e) ELSE v)
    /\ UNCHANGED <<view, focused, silenced>>

(* Windows tells neither of the release of some keys, nor of that of a     *)
(* Shift while the other one is held.                                      *)
CodeOf(k) == KeyCode(Typing[k].up, v.platform)

Untold(k) ==
    /\ v.platform = "windows"
    /\ \/ \E e \in Typing[k].downs : BadOnWindows(e)
       \/ CodeOf(k) \in Shifts /\ \E j \in held \ {k} : CodeOf(j) \in Shifts

KeyUp ==
    /\ \E k \in held :
          /\ held' = held \ {k}
          /\ Keys(IF focused /\ v.connected /\ ~v.viewOnly /\ ~Untold(k)
                    THEN HandleKeyUp(v, Typing[k].up) ELSE v)
    /\ UNCHANGED <<view, focused, silenced>>

(* setTimeout of 100 ms, not stopped by anything but a key *)
AltGrTimer ==
    /\ v.armed
    /\ Keys(HandleAltGrTimeout(v))
    /\ UNCHANGED <<view, held, focused, silenced>>

(* 50 ms after the Ctrl *)
AltGrIsLate ==
    /\ v.armed /\ ~v.late
    /\ Keys([v EXCEPT !.late = TRUE])
    /\ UNCHANGED <<view, held, focused, silenced>>

(* blur of the window *)
Blur ==
    /\ device = "keys" /\ focused
    /\ focused' = FALSE
    /\ Keys(IF v.connected /\ ~v.viewOnly THEN AllKeysUp(v) ELSE v)
    /\ UNCHANGED <<view, held, silenced>>

Focus ==
    /\ ~focused
    /\ focused' = TRUE
    /\ Keys(v)
    /\ UNCHANGED <<view, held, silenced>>

(* set viewOnly: grab() or ungrab(), which releases all keys *)
SetViewOnly ==
    /\ device \in {"keys", "window"} /\ v.connected
    /\ SetReadOnly
    /\ LET w == [v EXCEPT !.viewOnly = ~@]
       IN  Keys(IF w.viewOnly THEN AllKeysUp(w) ELSE w)
    /\ silenced' = TRUE
    /\ UNCHANGED <<held, focused>>

-----------------------------------------------------------------------------
(* With the mouse the user drags what is clipped; otherwise the distances  *)
(* are those of Drags.                                                     *)
ViewChanges ==
    /\ v.connected
    /\ \/ device = "mouse" /\ v.dragViewport /\ SetClipViewport
       \/ /\ device = "window"
          /\ \/ ScreenResizes \/ AnimationFrame \/ ServerResizes \/ ExtendedDesktopSize
             \/ SetClipViewport \/ SetScaleViewport \/ SetResizeSession \/ ResizeTimeout
             \/ \E delta \in Drags : Drag(delta)
    /\ UNCHANGED <<gestureVars, v, userVars>>

-----------------------------------------------------------------------------
(* _disconnect: no event is listened to any more, the timers of gestures   *)
(* and moves are stopped; the connection is not connected by then.         *)
Disconnect ==
    /\ v.connected
    /\ v' = AllKeysUp([v EXCEPT !.connected = FALSE, !.timer = FALSE, !.shown = FALSE])
    /\ StopView
    /\ longpress' = FALSE
    /\ twoTouch' = "null"
    /\ events' = <<>>
    /\ UNCHANGED <<state, tracked, ignored, waitingRelease, releaseAge, down, thrown>>
    /\ UNCHANGED userVars

Next ==
    \/ FingerDown \/ FingerMove \/ FingerUp \/ LongpressTimer \/ TwoTouchTimer
    \/ TimePasses \/ TapIsOld
    \/ MouseDown \/ MouseUp \/ MouseMove \/ Wheel \/ CursorRecheck \/ MoveTimer \/ MoveIsOld
    \/ KeyDown \/ KeyUp \/ AltGrTimer \/ AltGrIsLate \/ Blur \/ Focus \/ SetViewOnly
    \/ ViewChanges \/ Disconnect

Spec == InputInit /\ [][Next]_vars

-----------------------------------------------------------------------------
CurrentGesture == IF Detected(state, tracked) /\ tracked # <<>> THEN state ELSE NoGesture

(* Every finger on the screen is tracked or ignored, never both, and when  *)
(* the last one leaves the handler is ready for any gesture: what is       *)
(* ignored in _touchStart or left over in _touchEnd is accounted for.  And *)
(* no timer of the gesture handler throws: _longpressTimeout never meets a *)
(* detected gesture, neither timer outlives the touches it was set for,    *)
(* not even when the connection ends meanwhile (detach).                   *)
FingersAccounted ==
    /\ ~thrown
    /\ v.connected =>
          /\ down = ActiveIds \cup ignored
          /\ ActiveIds \cap ignored = {}
          /\ down = {} => state = Gestures /\ tracked = <<>> /\ ~waitingRelease /\ ~longpress

(* The buttons the server holds for a touch are those of the gesture that  *)
(* goes on: each drag or longpress that was started is ended, also one     *)
(* that a timer started after the fingers had become no gesture.           *)
ButtonsFollowGesture ==
    device = "touch" /\ v.connected =>
        v.srvMask = {DragButton[g] : g \in CurrentGesture \cap DOMAIN DragButton}

(* With no move waiting for its timer the server's pointer is where the    *)
(* viewer's is, with the same buttons: _handleMouseButton and the delayed  *)
(* move never send an old position or an old mask.                         *)
PointerSynced ==
    v.connected /\ ~v.timer /\ ~v.dragViewport =>
        v.srvMask = v.mask /\ (device = "touch" => v.srvX = v.pos)

(* When the user has let go of everything, so has the server, wherever the *)
(* mouse was when its button went up; left out: buttons after two were     *)
(* held at once (see README).                                              *)
ButtonsReleased ==
    v.connected /\ pressed = {} /\ down = {} /\ ~chord => v.srvMask = {}

(* Both: the server's pointer is what the viewer takes it for, and holds   *)
(* no button that the user does not.                                       *)
PointerFaithful == PointerSynced /\ ButtonsReleased

(* The server holds the keys of _keyDownList, each under the keysym it     *)
(* went down with.                                                         *)
KeysMirrored ==
    v.connected /\ ~silenced => {v.keys[c] : c \in Codes} \subseteq v.srvKeys \cup {Up, NoSymbol}

(* It holds no others; and none when the user has let go of every key,     *)
(* whichever releases Windows keeps to itself, and after the window lost   *)
(* the focus.  Left out: the viewer became view-only, and the Ctrl of an   *)
(* AltGr that was never decided (see README).                              *)
KeysFaithful ==
    v.connected /\ ~silenced =>
        /\ v.srvKeys \subseteq {v.keys[c] : c \in Codes} \ {Up, NoSymbol}
        /\ held = {} =>
              v.srvKeys \subseteq (IF v.platform = "windows" THEN {"Control_L"} ELSE {})

(* The emulated cursor is visible over the canvas or during a capture,     *)
(* once the delayed check of _handleMouseUp has run.                       *)
CursorFollowsPointer ==
    device = "mouse" /\ v.connected /\ ~v.recheck => (v.shown <=> InCanvas \/ v.captured)

(* Whatever happened before, a single finger that did not move and is      *)
(* lifted within a second makes a tap; _touchEnd drops it only while it    *)
(* has the id of a two-finger timer (also of one that has fired).          *)
TapHonoured ==
    [][ /\ Len(tracked) = 1 /\ state = Gestures /\ tracked[1].age < 2
        /\ twoTouch = "null" /\ ActiveIds \ down' # {}
        => events' # <<>> ]_vars

=============================================================================
