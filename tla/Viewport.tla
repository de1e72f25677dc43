------------------------------ MODULE Viewport ------------------------------
(***************************************************************************)
(* Which part of the framebuffer the viewer shows, and how large           *)
(* (core/display.js, core/rfb.js).  The window, the server, the page and   *)
(* the user's drags change it independently; the viewer reads the size of  *)
(* its container when a frame is drawn, later than it changed.             *)
(*                                                                         *)
(* Sizes and places are functions of the axis.  The canvas on the page is  *)
(* scale * size large; the scale is a quotient.  Fields of view:           *)
(*   fb, size, loc    framebuffer; width and place of the part shown       *)
(*   screen           the container of the canvas, as it is now            *)
(*   clip             _clipViewport of the display                         *)
(*   wantClip, wantScale, wantResize, readOnly   properties set by the page*)
(*   scale            [num, den]                                           *)
(*   frame, timer     a callback of requestAnimationFrame, and             *)
(*                    _resizeTimeout, are pending                          *)
(*   supported        _supportsSetDesktopSize                              *)
(*   asked            the size in the last SetDesktopSize message          *)
(*   refused          history: view-only kept back a later one             *)
(*   attached         the canvas is part of the page                       *)
(***************************************************************************)
EXTENDS Integers

CONSTANTS
    FbSizes,        \* framebuffers of the server
    ScreenSizes,    \* sizes of the container
    Drags           \* distances of a drag of the viewport

Axes == {"x", "y"}

ASSUME SizesAssumption ==
    /\ FbSizes \subseteq [Axes -> Nat \ {0}]
    /\ ScreenSizes \subseteq [Axes -> Nat]
    /\ Drags \subseteq [Axes -> Int]

VARIABLE view

Origin == [a \in Axes |-> 0]
Whole == [num |-> 1, den |-> 1]
Smaller(a, b) == IF a < b THEN a ELSE b

-----------------------------------------------------------------------------
(* Display *)

ViewportChangePos(u, delta) ==
    LET start == [a \in Axes |-> u.loc[a] + (IF u.clip THEN delta[a] ELSE -u.size[a])]
        right == [a \in Axes |-> IF start[a] < 0 THEN 0 ELSE start[a]]
    IN  [u EXCEPT !.loc = [a \in Axes |-> Smaller(right[a], u.fb[a] - u.size[a])]]

(* If the part grows its place may have to change. *)
ViewportChangeSize(u, size) ==
    LET new == [a \in Axes |-> Smaller(IF u.clip THEN size[a] ELSE u.fb[a], u.fb[a])]
    IN  IF u.size = new THEN u ELSE ViewportChangePos([u EXCEPT !.size = new], Origin)

SetClip(u, clip) ==
    ViewportChangePos(ViewportChangeSize([u EXCEPT !.clip = clip], u.size), Origin)

ResizeDisplay(u, fb) ==
    ViewportChangePos(ViewportChangeSize([u EXCEPT !.fb = fb], u.size), Origin)

(* Aspect ratios are compared: with the wider one the width decides. *)
Autoscale(u) ==
    LET a == IF u.size["x"] * u.screen["y"] >= u.screen["x"] * u.size["y"] THEN "x" ELSE "y"
    IN  [u EXCEPT !.scale = IF \E b \in Axes : u.screen[b] = 0
                              THEN [num |-> 0, den |-> 1]
                              ELSE [num |-> u.screen[a], den |-> u.size[a]]]

(* The pixel of the framebuffer under a point of the canvas *)
AbsPos(u, a, p) == IF u.scale.num = 0 THEN 0 ELSE (p * u.scale.den) \div u.scale.num + u.loc[a]

-----------------------------------------------------------------------------
(* RFB *)

(* Scaling trumps clipping. *)
UpdateClip(u) ==
    LET new == u.wantClip /\ ~u.wantScale
        w == IF u.clip # new THEN SetClip(u, new) ELSE u
    IN  IF new THEN ViewportChangeSize(w, u.screen) ELSE w

UpdateScale(u) == IF u.wantScale THEN Autoscale(u) ELSE [u EXCEPT !.scale = Whole]

RequestRemoteResize(u) ==
    LET w == [u EXCEPT !.timer = FALSE]
    IN  CASE ~u.wantResize \/ ~u.supported -> w
          [] u.wantResize /\ u.supported /\ u.readOnly -> [w EXCEPT !.refused = TRUE]
          [] OTHER -> [w EXCEPT !.asked = u.screen, !.refused = FALSE]

-----------------------------------------------------------------------------
ViewInit ==
    \E fb \in FbSizes, screen \in ScreenSizes :
       view = [fb |-> fb, size |-> fb, loc |-> Origin, screen |-> screen, clip |-> FALSE,
               wantClip |-> FALSE, wantScale |-> FALSE, wantResize |-> FALSE,
               readOnly |-> FALSE, scale |-> Whole, frame |-> TRUE, timer |-> FALSE,
               supported |-> FALSE, asked |-> screen, refused |-> FALSE,
               attached |-> TRUE]

(* ResizeObserver calls _handleResize. *)
ScreenResizes ==
    \E screen \in ScreenSizes \ {view.screen} :
       view' = [view EXCEPT !.screen = screen, !.frame = TRUE, !.timer = @ \/ view.wantResize]

(* requestAnimationFrame *)
AnimationFrame ==
    /\ view.frame
    /\ view' = [UpdateScale(UpdateClip(view)) EXCEPT !.frame = FALSE]

(* DesktopSize, or an ExtendedDesktopSize the server did not refuse; the   *)
(* first ExtendedDesktopSize tells that it can resize.                     *)
ServerResizes ==
    \E fb \in FbSizes : view' = UpdateScale(UpdateClip(ResizeDisplay(view, fb)))

ExtendedDesktopSize ==
    /\ ~view.supported
    /\ view' = RequestRemoteResize([view EXCEPT !.supported = TRUE])

SetClipViewport == view' = UpdateClip([view EXCEPT !.wantClip = ~@])

SetScaleViewport_ScaleFirst ==
    view' = UpdateClip(UpdateScale([view EXCEPT !.wantScale = ~@]))

SetScaleViewport ==
    LET u == [view EXCEPT !.wantScale = ~@]
    IN  view' = CASE u.wantScale /\ u.wantClip -> UpdateScale(UpdateClip(u))
                  [] ~u.wantScale /\ u.wantClip -> UpdateClip(UpdateScale(u))
                  [] OTHER -> UpdateScale(u)

SetResizeSession ==
    LET u == [view EXCEPT !.wantResize = ~@]
    IN  view' = IF u.wantResize THEN RequestRemoteResize(u) ELSE u

SetReadOnly == view' = [view EXCEPT !.readOnly = ~@]

ResizeTimeout == view.timer /\ view' = RequestRemoteResize(view)

Drag(delta) == view' = ViewportChangePos(view, delta)

(* _disconnect *)
StopView == view' = [view EXCEPT !.timer = FALSE, !.attached = FALSE]

ViewNext ==
    \/ ScreenResizes \/ AnimationFrame \/ ServerResizes \/ ExtendedDesktopSize
    \/ SetClipViewport \/ SetScaleViewport \/ SetResizeSession \/ SetReadOnly
    \/ ResizeTimeout \/ StopView
    \/ \E delta \in Drags : Drag(delta)

ViewSpec == ViewInit /\ [][ViewNext]_view

-----------------------------------------------------------------------------
(* The viewport never leaves the framebuffer, whatever is resized, clipped *)
(* or dragged in which order: blitting from outside of the backbuffer would*)
(* draw nothing.  A display that does not clip shows all of it.            *)
Inside(u) ==
    \A a \in Axes : /\ 0 <= u.loc[a] /\ u.loc[a] + u.size[a] <= u.fb[a]
                    /\ ~u.clip => u.size[a] = u.fb[a]

(* Once a frame was drawn, the viewport is what the page asked for: scaled *)
(* to touch the container on one side without leaving it on the other, or  *)
(* clipped to it, or all of the framebuffer.                               *)
ShownAsAsked(u) ==
    IF u.wantScale
      THEN /\ \A a \in Axes : u.scale.num * u.size[a] <= u.screen[a] * u.scale.den
           /\ \E a \in Axes : u.scale.num * u.size[a] = u.screen[a] * u.scale.den
           /\ u.size = u.fb
      ELSE /\ u.scale = Whole
           /\ \A a \in Axes :
                 u.size[a] = IF u.wantClip THEN Smaller(u.screen[a], u.fb[a]) ELSE u.fb[a]

(* Each point of the canvas is a pixel of the framebuffer, also the one to *)
(* which clientToElement clips what lies beyond the right or lower edge,   *)
(* unless the canvas is less than one pixel large there.                   *)
PointsInside(u) ==
    \A a \in Axes :
       LET width == u.scale.num * u.size[a]
       IN  u.scale.num # 0 /\ width >= u.scale.den =>
              /\ \A p \in 0..(width \div u.scale.den - 1) : AbsPos(u, a, p) \in 0..(u.fb[a] - 1)
              /\ u.loc[a] + u.size[a] + (-u.scale.den) \div u.scale.num \in 0..(u.fb[a] - 1)

(* The server was asked for the size the container has, once the timer     *)
(* that collects changes has fired, unless the viewer was view-only then.  *)
ScreenAskedFor(u) ==
    u.wantResize /\ u.supported /\ ~u.timer /\ ~u.refused => u.asked = u.screen

ViewFits ==
    /\ Inside(view)
    /\ view.attached =>
          /\ ~view.frame => ShownAsAsked(view)
          /\ PointsInside(view)
          /\ ScreenAskedFor(view)

=============================================================================
