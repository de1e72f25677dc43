--------------------------- MODULE VncInputProofs ---------------------------
(***************************************************************************)
(* The viewer's input and its viewport, for any fingers, coordinates,      *)
(* thresholds, buttons, keys, sizes and drags.                             *)
(*                                                                         *)
(* The viewport.  The display's operations are not given a viewport that   *)
(* is inside: when the framebuffer or the clipping changes, size and place *)
(* are those of before.  Each restores the invariant from a viewport that  *)
(* only has the right types, except that one of full size needs no move    *)
(* only if it was in place, which is why Inside speaks of the clipping too.*)
(*                                                                         *)
(* The gestures.  GestureInv says which sets of gestures so many fingers   *)
(* leave possible, and what the timers may meet; from it follows what a    *)
(* step dispatches (EventsFit): nothing while the buttons stay, the start, *)
(* the move or the end of the gesture it begins, continues or ends.        *)
(*                                                                         *)
(* The pointer.  Each handler of the viewer is described by what it does   *)
(* to buttons and places, composed along the calls, and combined with the  *)
(* events of a step: the buttons of a touch are those of its gesture, and  *)
(* that of a mouse is held by a capture.                                   *)
(*                                                                         *)
(* The keys.  KeyInv says whose the entries of _keyDownList are: of a key  *)
(* that is held, whose release the browser will tell, or of another Shift; *)
(* and that the server holds nothing else.  Pointer handlers only take     *)
(* keys from the server.                                                   *)
(***************************************************************************)
EXTENDS VncInput, TLAPS, FiniteSetTheorems

Places == [Axes -> Int]
Sizes == [Axes -> Nat]

Views == [fb : Sizes, size : Sizes, loc : Places, screen : Sizes, clip : BOOLEAN,
          wantClip : BOOLEAN, wantScale : BOOLEAN, wantResize : BOOLEAN, readOnly : BOOLEAN,
          scale : [num : Nat, den : Nat], frame : BOOLEAN, timer : BOOLEAN,
          supported : BOOLEAN, asked : Sizes, refused : BOOLEAN, attached : BOOLEAN]

(* What a change of position needs: a part that fits, and is all of the    *)
(* framebuffer if the display does not clip.                               *)
Fitting(u) == \A a \in Axes : u.size[a] <= u.fb[a] /\ (~u.clip => u.size[a] = u.fb[a])

ViewInv == view \in Views /\ Inside(view)

-----------------------------------------------------------------------------
(* The smaller of two sizes is one, and exceeds neither. *)
LEMMA SmallerIsNat ==
  \A m, n \in Nat : Smaller(m, n) \in Nat /\ Smaller(m, n) <= m /\ Smaller(m, n) <= n
  BY DEF Smaller

(* viewportChangePos puts any part that fits inside, wherever it was. *)
LEMMA ChangePosInside ==
  ASSUME NEW u \in Views, NEW delta \in Places, Fitting(u)
  PROVE  /\ ViewportChangePos(u, delta) \in Views
         /\ Inside(ViewportChangePos(u, delta))
<1> DEFINE start == [a \in Axes |-> u.loc[a] + (IF u.clip THEN delta[a] ELSE -u.size[a])]
           right == [a \in Axes |-> IF start[a] < 0 THEN 0 ELSE start[a]]
           loc == [a \in Axes |-> Smaller(right[a], u.fb[a] - u.size[a])]
<1>1. ViewportChangePos(u, delta) = [u EXCEPT !.loc = loc]
  BY DEF ViewportChangePos
<1>2. u.fb \in Sizes /\ u.size \in Sizes /\ u.loc \in Places /\ u.clip \in BOOLEAN
  BY DEF Views
<1>3. \A a \in Axes : start[a] \in Int
  BY <1>2 DEF Sizes, Places
<1>4. \A a \in Axes : right[a] \in Nat
  BY <1>3
<1>5. \A a \in Axes : u.fb[a] \in Nat /\ u.size[a] \in Nat /\ u.fb[a] - u.size[a] \in Nat
  BY <1>2 DEF Fitting, Sizes
<1> HIDE DEF start, right
<1>6. \A a \in Axes : loc[a] \in Nat /\ loc[a] <= u.fb[a] - u.size[a]
  BY <1>4, <1>5, SmallerIsNat
<1>7. loc \in Places
  BY <1>6 DEF Places
<1> HIDE DEF loc
<1>8. [u EXCEPT !.loc = loc] \in Views
  BY <1>7 DEF Views
<1>9. Inside([u EXCEPT !.loc = loc])
  <2>1. /\ [u EXCEPT !.loc = loc].loc = loc /\ [u EXCEPT !.loc = loc].size = u.size
        /\ [u EXCEPT !.loc = loc].fb = u.fb /\ [u EXCEPT !.loc = loc].clip = u.clip
    BY DEF Views
  <2>2. \A a \in Axes : 0 <= loc[a] /\ loc[a] + u.size[a] <= u.fb[a]
    BY <1>5, <1>6
  <2> QED BY <2>1, <2>2 DEF Inside, Fitting
<1> QED BY <1>1, <1>8, <1>9

(* viewportChangeSize: what shrinks stays inside, what does not change was *)
(* inside, and all else is put in place.                                   *)
LEMMA ChangeSizeInside ==
  ASSUME NEW u \in Views, NEW size \in Sizes
  PROVE  /\ ViewportChangeSize(u, size) \in Views
         /\ Fitting(ViewportChangeSize(u, size))
         /\ Inside(u) => Inside(ViewportChangeSize(u, size))
<1> DEFINE new == [a \in Axes |-> Smaller(IF u.clip THEN size[a] ELSE u.fb[a], u.fb[a])]
           w == [u EXCEPT !.size = new]
<1>1. u.fb \in Sizes /\ u.clip \in BOOLEAN
  BY DEF Views
<1>2. \A a \in Axes : /\ new[a] \in Nat /\ new[a] <= u.fb[a]
                      /\ ~u.clip => new[a] = u.fb[a]
  BY <1>1 DEF Smaller, Sizes
<1>3. new \in Sizes
  BY <1>2 DEF Sizes
<1>4. ViewportChangeSize(u, size) = IF u.size = new THEN u ELSE ViewportChangePos(w, Origin)
  BY DEF ViewportChangeSize
<1> HIDE DEF new
<1>5. w \in Views /\ w.size = new /\ w.fb = u.fb /\ w.clip = u.clip
  BY <1>3 DEF Views
<1>6. Fitting(w)
  BY <1>2, <1>5 DEF Fitting
<1>7. Origin \in Places
  BY DEF Origin, Places
<1>8. CASE u.size = new
  BY <1>2, <1>4, <1>8 DEF Fitting
<1>9. CASE u.size # new
  <2>1. ViewportChangePos(w, Origin) \in Views /\ Inside(ViewportChangePos(w, Origin))
    BY <1>5, <1>6, <1>7, ChangePosInside
  <2>2. Fitting(ViewportChangePos(w, Origin))
    <3> DEFINE p == ViewportChangePos(w, Origin)
    <3>1. p.size = w.size /\ p.fb = w.fb /\ p.clip = w.clip
      BY <1>5 DEF ViewportChangePos, Views
    <3> QED BY <3>1, <1>6 DEF Fitting
  <2> QED BY <1>4, <1>9, <2>1, <2>2
<1> QED BY <1>8, <1>9

(* Switching the clipping keeps place and size legal. *)
LEMMA SetClipInside ==
  ASSUME NEW u \in Views, NEW clip \in BOOLEAN
  PROVE  SetClip(u, clip) \in Views /\ Inside(SetClip(u, clip))
<1> DEFINE w == [u EXCEPT !.clip = clip]
<1>1. w \in Views /\ u.size \in Sizes /\ Origin \in Places
  BY DEF Views, Origin, Places
<1> HIDE DEF w
<1>2. ViewportChangeSize(w, u.size) \in Views /\ Fitting(ViewportChangeSize(w, u.size))
  BY <1>1, ChangeSizeInside
<1>3. SetClip(u, clip) = ViewportChangePos(ViewportChangeSize(w, u.size), Origin)
  BY DEF SetClip, w
<1> QED BY <1>1, <1>2, <1>3, ChangePosInside

(* So does a new framebuffer, however small. *)
LEMMA ResizeDisplayInside ==
  ASSUME NEW u \in Views, NEW fb \in Sizes
  PROVE  ResizeDisplay(u, fb) \in Views /\ Inside(ResizeDisplay(u, fb))
<1> DEFINE w == [u EXCEPT !.fb = fb]
<1>1. w \in Views /\ u.size \in Sizes /\ Origin \in Places
  BY DEF Views, Origin, Places
<1> HIDE DEF w
<1>2. ViewportChangeSize(w, u.size) \in Views /\ Fitting(ViewportChangeSize(w, u.size))
  BY <1>1, ChangeSizeInside
<1>3. ResizeDisplay(u, fb) = ViewportChangePos(ViewportChangeSize(w, u.size), Origin)
  BY DEF ResizeDisplay, w
<1> QED BY <1>1, <1>2, <1>3, ChangePosInside

(* _updateClip keeps the viewport inside. *)
LEMMA UpdateClipInside ==
  ASSUME NEW u \in Views, Inside(u)
  PROVE  UpdateClip(u) \in Views /\ Inside(UpdateClip(u))
<1> DEFINE new == u.wantClip /\ ~u.wantScale
           w == IF u.clip # new THEN SetClip(u, new) ELSE u
<1>1. new \in BOOLEAN /\ u.screen \in Sizes
  BY DEF Views
<1>2. w \in Views /\ Inside(w)
  BY <1>1, SetClipInside
<1>3. UpdateClip(u) = IF new THEN ViewportChangeSize(w, u.screen) ELSE w
  BY DEF UpdateClip
<1> HIDE DEF w
<1> QED BY <1>1, <1>2, <1>3, ChangeSizeInside

(* Scaling does not move the viewport. *)
LEMMA UpdateScaleInside ==
  ASSUME NEW u \in Views, Inside(u)
  PROVE  UpdateScale(u) \in Views /\ Inside(UpdateScale(u))
<1>1. ASSUME NEW s \in [num : Nat, den : Nat]
      PROVE  [u EXCEPT !.scale = s] \in Views /\ Inside([u EXCEPT !.scale = s])
  BY DEF Views, Inside
<1>2. Whole \in [num : Nat, den : Nat]
  BY DEF Whole
<1>3. u.screen \in Sizes /\ u.size \in Sizes
  BY DEF Views
<1>4. \A a \in Axes : u.screen[a] \in Nat /\ u.size[a] \in Nat
  BY <1>3 DEF Sizes
<1>5. PICK s \in [num : Nat, den : Nat] : Autoscale(u) = [u EXCEPT !.scale = s]
  <2> DEFINE a == IF u.size["x"] * u.screen["y"] >= u.screen["x"] * u.size["y"] THEN "x" ELSE "y"
             s == IF \E b \in Axes : u.screen[b] = 0
                    THEN [num |-> 0, den |-> 1]
                    ELSE [num |-> u.screen[a], den |-> u.size[a]]
  <2>1. Autoscale(u) = [u EXCEPT !.scale = s]
    BY DEF Autoscale
  <2>2. a \in Axes
    BY DEF Axes
  <2> HIDE DEF a
  <2>3. s \in [num : Nat, den : Nat]
    BY <1>4, <2>2
  <2> QED BY <2>1, <2>3
<1> QED BY <1>1, <1>2, <1>5 DEF UpdateScale

(* Nor does a request for the server to resize. *)
LEMMA RemoteResizeInside ==
  ASSUME NEW u \in Views, Inside(u)
  PROVE  RequestRemoteResize(u) \in Views /\ Inside(RequestRemoteResize(u))
<1>1. u.screen \in Sizes
  BY DEF Views
<1> QED BY <1>1 DEF RequestRemoteResize, Views, Inside


-----------------------------------------------------------------------------
(* What the display's operations leave alone *)
Wishes(u) == <<u.screen, u.wantClip, u.wantScale, u.wantResize, u.readOnly, u.frame, u.timer,
               u.supported, u.asked, u.refused, u.attached>>

Clipped(u) == u.wantClip /\ ~u.wantScale
Positive(u) == \A a \in Axes : u.fb[a] > 0

(* viewportChangePos changes the place alone. *)
LEMMA ChangePosKeeps ==
  ASSUME NEW u \in Views, NEW delta
  PROVE  LET w == ViewportChangePos(u, delta)
         IN  /\ Wishes(w) = Wishes(u)
             /\ w.size = u.size /\ w.fb = u.fb /\ w.clip = u.clip /\ w.scale = u.scale
BY DEF ViewportChangePos, Views, Wishes

(* viewportChangeSize sets the size asked for, cut to the framebuffer. *)
LEMMA ChangeSizeKeeps ==
  ASSUME NEW u \in Views, NEW size \in Sizes
  PROVE  LET w == ViewportChangeSize(u, size)
         IN  /\ Wishes(w) = Wishes(u)
             /\ w.fb = u.fb /\ w.clip = u.clip /\ w.scale = u.scale
             /\ w.size = [a \in Axes |-> Smaller(IF u.clip THEN size[a] ELSE u.fb[a], u.fb[a])]
<1> DEFINE new == [a \in Axes |-> Smaller(IF u.clip THEN size[a] ELSE u.fb[a], u.fb[a])]
           w == [u EXCEPT !.size = new]
<1>1. ViewportChangeSize(u, size) = IF u.size = new THEN u ELSE ViewportChangePos(w, Origin)
  BY DEF ViewportChangeSize
<1>2. \A a \in Axes : u.fb[a] \in Nat /\ size[a] \in Nat
  BY DEF Views, Sizes
<1>3. new \in Sizes
  BY <1>2 DEF Sizes, Smaller
<1> HIDE DEF new
<1>4. /\ w \in Views /\ Wishes(w) = Wishes(u)
      /\ w.size = new /\ w.fb = u.fb /\ w.clip = u.clip /\ w.scale = u.scale
  BY <1>3 DEF Views, Wishes
<1> HIDE DEF w
<1>5. CASE u.size = new
  BY <1>1, <1>5 DEF new
<1>6. CASE u.size # new
  BY <1>1, <1>4, <1>6, ChangePosKeeps DEF new
<1> QED BY <1>5, <1>6

(* clipViewport sets the clipping, and keeps what the page asked for. *)
LEMMA SetClipKeeps ==
  ASSUME NEW u \in Views, NEW clip \in BOOLEAN
  PROVE  LET w == SetClip(u, clip)
         IN  /\ Wishes(w) = Wishes(u)
             /\ w.fb = u.fb /\ w.clip = clip /\ w.scale = u.scale
<1> DEFINE w == [u EXCEPT !.clip = clip]
<1>1. /\ w \in Views /\ u.size \in Sizes /\ Wishes(w) = Wishes(u)
      /\ w.fb = u.fb /\ w.clip = clip /\ w.scale = u.scale
  BY DEF Views, Wishes
<1>2. SetClip(u, clip) = ViewportChangePos(ViewportChangeSize(w, u.size), Origin)
  BY DEF SetClip, w
<1> HIDE DEF w
<1> DEFINE z == ViewportChangeSize(w, u.size)
<1>3. /\ z \in Views /\ Wishes(z) = Wishes(w)
      /\ z.fb = w.fb /\ z.clip = w.clip /\ z.scale = w.scale
  BY <1>1, ChangeSizeInside, ChangeSizeKeeps
<1> HIDE DEF z
<1> QED BY <1>1, <1>2, <1>3, ChangePosKeeps DEF z

(* resize sets the framebuffer, and keeps what the page asked for. *)
LEMMA ResizeDisplayKeeps ==
  ASSUME NEW u \in Views, NEW fb \in Sizes
  PROVE  LET w == ResizeDisplay(u, fb)
         IN  /\ Wishes(w) = Wishes(u)
             /\ w.fb = fb /\ w.clip = u.clip /\ w.scale = u.scale
<1> DEFINE w == [u EXCEPT !.fb = fb]
<1>1. /\ w \in Views /\ u.size \in Sizes /\ Wishes(w) = Wishes(u)
      /\ w.fb = fb /\ w.clip = u.clip /\ w.scale = u.scale
  BY DEF Views, Wishes
<1>2. ResizeDisplay(u, fb) = ViewportChangePos(ViewportChangeSize(w, u.size), Origin)
  BY DEF ResizeDisplay, w
<1> HIDE DEF w
<1> DEFINE z == ViewportChangeSize(w, u.size)
<1>3. /\ z \in Views /\ Wishes(z) = Wishes(w)
      /\ z.fb = w.fb /\ z.clip = w.clip /\ z.scale = w.scale
  BY <1>1, ChangeSizeInside, ChangeSizeKeeps
<1> HIDE DEF z
<1> QED BY <1>1, <1>2, <1>3, ChangePosKeeps DEF z

(* updateClip clips to the container what is to be clipped, and nothing    *)
(* else.                                                                   *)
LEMMA UpdateClipFits ==
  ASSUME NEW u \in Views, Inside(u)
  PROVE  LET w == UpdateClip(u)
         IN  /\ Wishes(w) = Wishes(u)
             /\ w.fb = u.fb /\ w.clip = Clipped(u) /\ w.scale = u.scale
             /\ \A a \in Axes :
                   w.size[a] = IF Clipped(u) THEN Smaller(u.screen[a], u.fb[a]) ELSE u.fb[a]
<1> DEFINE new == u.wantClip /\ ~u.wantScale
           w == IF u.clip # new THEN SetClip(u, new) ELSE u
<1>1. new \in BOOLEAN /\ u.screen \in Sizes /\ new = Clipped(u)
  BY DEF Views, Clipped
<1>2. w \in Views /\ Inside(w)
  BY <1>1, SetClipInside
<1>3. /\ Wishes(w) = Wishes(u)
      /\ w.fb = u.fb /\ w.clip = new /\ w.scale = u.scale
  BY <1>1, SetClipKeeps DEF Views
<1>4. UpdateClip(u) = IF new THEN ViewportChangeSize(w, u.screen) ELSE w
  BY DEF UpdateClip
<1> HIDE DEF w
<1>5. CASE new
  <2> DEFINE z == ViewportChangeSize(w, u.screen)
  <2>1. /\ Wishes(z) = Wishes(w) /\ z.fb = w.fb /\ z.clip = w.clip /\ z.scale = w.scale
        /\ z.size = [a \in Axes |-> Smaller(IF w.clip THEN u.screen[a] ELSE w.fb[a], w.fb[a])]
    BY <1>1, <1>2, ChangeSizeKeeps
  <2> HIDE DEF z
  <2>2. \A a \in Axes : z.size[a] = Smaller(u.screen[a], u.fb[a])
    BY <1>3, <1>5, <2>1
  <2> QED BY <1>1, <1>3, <1>4, <1>5, <2>1, <2>2 DEF z
<1>6. CASE ~new
  BY <1>1, <1>2, <1>3, <1>4, <1>6 DEF Inside
<1> HIDE DEF new
<1> QED BY <1>5, <1>6

(* autoscale touches the container on one side, and fits on the other. *)
LEMMA AutoscaleFits ==
  ASSUME NEW u \in Views, \A a \in Axes : u.size[a] > 0
  PROVE  LET w == Autoscale(u)
         IN  /\ \A a \in Axes : w.scale.num * u.size[a] <= u.screen[a] * w.scale.den
             /\ \E a \in Axes : w.scale.num * u.size[a] = u.screen[a] * w.scale.den
             /\ w.scale.den > 0
<1> DEFINE sx == u.size["x"]  sy == u.size["y"]  px == u.screen["x"]  py == u.screen["y"]
           w == Autoscale(u)
<1>1. sx \in Nat /\ sy \in Nat /\ px \in Nat /\ py \in Nat /\ sx > 0 /\ sy > 0
  BY DEF Views, Sizes, Axes
<1>2. w.scale = IF px = 0 \/ py = 0 THEN [num |-> 0, den |-> 1]
                ELSE IF sx * py >= px * sy THEN [num |-> px, den |-> sx]
                                           ELSE [num |-> py, den |-> sy]
  BY DEF Autoscale, Views, Axes
<1> HIDE DEF w
<1>3. ASSUME w.scale.num * sx <= px * w.scale.den, w.scale.num * sy <= py * w.scale.den,
             \/ w.scale.num * sx = px * w.scale.den
             \/ w.scale.num * sy = py * w.scale.den,
             w.scale.den > 0
      PROVE  /\ \A a \in Axes : w.scale.num * u.size[a] <= u.screen[a] * w.scale.den
             /\ \E a \in Axes : w.scale.num * u.size[a] = u.screen[a] * w.scale.den
             /\ w.scale.den > 0
  BY <1>3 DEF Axes
<1> HIDE DEF sx, sy, px, py
<1>4. \A m, n \in Nat : m * n = n * m
  OBVIOUS
<1>5. CASE px = 0 \/ py = 0
  <2>1. w.scale.num = 0 /\ w.scale.den = 1
    BY <1>2, <1>5
  <2>2. 0 * sx = 0 /\ 0 * sy = 0 /\ px * 1 = px /\ py * 1 = py
    BY <1>1
  <2> QED BY <1>1, <1>3, <1>5, <2>1, <2>2 DEF w
<1>6. CASE ~(px = 0 \/ py = 0) /\ sx * py >= px * sy
  <2>1. w.scale.num = px /\ w.scale.den = sx
    BY <1>2, <1>6
  <2>2. py * sx = sx * py
    BY <1>1, <1>4
  <2>3. px * sy <= py * sx
    BY <1>1, <1>6, <2>2
  <2>4. px * sx <= px * sx
    BY <1>1
  <2> QED BY <1>1, <1>3, <2>1, <2>3, <2>4 DEF w
<1>7. CASE ~(px = 0 \/ py = 0) /\ ~(sx * py >= px * sy)
  <2>1. w.scale.num = py /\ w.scale.den = sy
    BY <1>2, <1>7
  <2>2. py * sx = sx * py
    BY <1>1, <1>4
  <2>3. py * sx <= px * sy
    BY <1>1, <1>7, <2>2
  <2>4. py * sy <= py * sy
    BY <1>1
  <2> QED BY <1>1, <1>3, <2>1, <2>3, <2>4 DEF w
<1> QED BY <1>5, <1>6, <1>7

(* A display that is clipped as asked is shown as asked once it is scaled. *)
LEMMA UpdateScaleFits ==
  ASSUME NEW u \in Views, Positive(u),
         \A a \in Axes : u.wantScale => u.size[a] = u.fb[a],
         \A a \in Axes : ~u.wantScale =>
            u.size[a] = IF u.wantClip THEN Smaller(u.screen[a], u.fb[a]) ELSE u.fb[a]
  PROVE  LET w == UpdateScale(u)
         IN  /\ Wishes(w) = Wishes(u)
             /\ w.fb = u.fb /\ w.clip = u.clip /\ w.size = u.size
             /\ w.scale.den > 0 /\ (~w.wantScale => w.scale = Whole)
             /\ ShownAsAsked(w)
<1> DEFINE w == UpdateScale(u)
<1>1. Wishes(w) = Wishes(u) /\ w.fb = u.fb /\ w.clip = u.clip /\ w.size = u.size
  BY DEF UpdateScale, Autoscale, Views, Wishes
<1>2. w.screen = u.screen /\ w.wantScale = u.wantScale /\ w.wantClip = u.wantClip
  BY <1>1 DEF Wishes
<1>3. CASE u.wantScale
  <2>1. w = Autoscale(u)
    BY <1>3 DEF UpdateScale
  <2>2. \A a \in Axes : u.size[a] > 0
    BY <1>3 DEF Positive
  <2>3. u.size = u.fb
    BY <1>3 DEF Views, Sizes
  <2> HIDE DEF w
  <2> QED BY <1>1, <1>2, <1>3, <2>1, <2>2, <2>3, AutoscaleFits DEF ShownAsAsked, w
<1>4. CASE ~u.wantScale
  <2>1. w.scale = Whole /\ Whole.den > 0
    BY <1>4 DEF UpdateScale, Whole, Views
  <2> HIDE DEF w
  <2> QED BY <1>1, <1>2, <1>4, <2>1 DEF ShownAsAsked, w
<1> QED BY <1>3, <1>4

-----------------------------------------------------------------------------
(* Division rounds down, also below 0. *)
LEMMA Floor ==
  ASSUME NEW x \in Int, NEW n \in Nat, n > 0
  PROVE  x \div n \in Int /\ n * (x \div n) <= x /\ x < n * (x \div n) + n
OBVIOUS

(* A part shown whole or in its own size: each point of the canvas is one  *)
(* of its pixels.                                                          *)
LEMMA ShownPointsInside ==
  ASSUME NEW u \in Views, Inside(u), u.scale.den > 0,
         u.wantScale => u.size = u.fb,
         ~u.wantScale => u.scale = Whole
  PROVE  PointsInside(u)
<1> SUFFICES ASSUME NEW a \in Axes, u.scale.num # 0, u.scale.num * u.size[a] >= u.scale.den
             PROVE  /\ \A p \in 0..((u.scale.num * u.size[a]) \div u.scale.den - 1) :
                          AbsPos(u, a, p) \in 0..(u.fb[a] - 1)
                    /\ u.loc[a] + u.size[a] + (-u.scale.den) \div u.scale.num \in 0..(u.fb[a] - 1)
  BY DEF PointsInside
<1> DEFINE num == u.scale.num  den == u.scale.den  size == u.size[a]  loc == u.loc[a]  fb == u.fb[a]
<1>1. /\ num \in Nat /\ num > 0 /\ den \in Nat /\ den > 0
      /\ size \in Nat /\ loc \in Int /\ fb \in Nat
      /\ 0 <= loc /\ loc + size <= fb
      /\ num * size >= den
  BY DEF Views, Sizes, Places, Inside
<1> HIDE DEF num, den, size, loc, fb
<1> DEFINE width == num * size
<1>2. width \in Nat /\ width >= den
  BY <1>1
<1>3. ASSUME NEW p \in 0..(width \div den - 1)
      PROVE  (p * den) \div num \in 0..(size - 1)
  <2>1. den * (width \div den) <= width /\ width \div den \in Int
    BY <1>1, <1>2, Floor
  <2>2. p \in Nat /\ p + 1 <= width \div den
    BY <2>1
  <2> DEFINE q == width \div den
  <2> HIDE DEF q
  <2>3. den * (p + 1) <= den * q
    BY <1>1, <2>1, <2>2 DEF q
  <2>4. p * den + den = den * (p + 1)
    BY <1>1, <2>2
  <2>5. p * den \in Nat /\ p * den < width
    BY <1>1, <1>2, <2>1, <2>2, <2>3, <2>4 DEF q
  <2> DEFINE m == p * den  d == m \div num
  <2> HIDE DEF m, width
  <2>6. d \in Int /\ num * d <= m /\ m < num * d + num
    BY <1>1, <2>5, Floor DEF m
  <2> HIDE DEF d
  <2>7. num * d < num * size
    BY <2>5, <2>6, <1>1, <1>2 DEF m, width
  <2>8. d < size
    BY <1>1, <2>6, <2>7
  <2>9. 0 <= d
    BY <1>1, <2>5, <2>6 DEF m
  <2> QED BY <1>1, <2>6, <2>8, <2>9 DEF d, m
<1>4. (-den) \div num \in (-size)..(-1)
  <2> DEFINE d == (-den) \div num
  <2>1. d \in Int /\ num * d <= -den /\ -den < num * d + num
    BY <1>1, Floor
  <2> HIDE DEF d
  <2>2. d < 0
    BY <1>1, <2>1
  <2>3. num * (-size) <= -den /\ num * (-size) = -(num * size)
    BY <1>1
  <2>4. num * (-size) < num * (d + 1)
    BY <1>1, <2>1, <2>3
  <2>5. -size < d + 1
    BY <1>1, <2>1, <2>4
  <2> QED BY <1>1, <2>1, <2>2, <2>5 DEF d
<1>5. ASSUME NEW p \in 0..(width \div den - 1)
      PROVE  AbsPos(u, a, p) \in 0..(fb - 1)
  <2>1. AbsPos(u, a, p) = (p * den) \div num + loc
    BY <1>1 DEF AbsPos, num, den, loc
  <2> DEFINE d == (p * den) \div num
  <2>2. d \in 0..(size - 1)
    BY <1>3
  <2> HIDE DEF d
  <2> QED BY <1>1, <2>1, <2>2 DEF d
<1>6. loc + size + (-den) \div num \in 0..(fb - 1)
  <2> DEFINE d == (-den) \div num
  <2>1. d \in (-size)..(-1)
    BY <1>4
  <2> HIDE DEF d
  <2> QED BY <1>1, <2>1 DEF d
<1> QED BY <1>5, <1>6 DEF num, den, size, loc, fb

-----------------------------------------------------------------------------
(* The display starts with all of the framebuffer. *)
THEOREM ViewInitHolds == ViewInit => ViewInv
BY SizesAssumption DEF ViewInit, ViewInv, Views, Sizes, Places, Inside, Origin, Whole, Axes

(* The mouse drags the viewport by any distance, not only those of Drags. *)
ViewStep ==
    \/ ScreenResizes \/ AnimationFrame \/ ServerResizes \/ ExtendedDesktopSize
    \/ SetClipViewport \/ SetScaleViewport \/ SetResizeSession \/ SetReadOnly
    \/ ResizeTimeout \/ StopView
    \/ \E delta \in Places : Drag(delta)

(* The steps of the display alone drag by the distances of Drags. *)
LEMMA ViewNextIsStep == ViewNext => ViewStep
  BY SizesAssumption DEF ViewNext, ViewStep, Places

(* Each event, whoever causes it, keeps the viewport inside. *)
THEOREM ViewInvInductive == ViewInv /\ [ViewStep]_view => ViewInv'
<1> SUFFICES ASSUME ViewInv, [ViewStep]_view
             PROVE  ViewInv'
  OBVIOUS
<1> USE DEF ViewInv
<1>1. CASE ScreenResizes
  <2>1. PICK screen \in ScreenSizes :
           view' = [view EXCEPT !.screen = screen, !.frame = TRUE, !.timer = @ \/ view.wantResize]
    BY <1>1 DEF ScreenResizes
  <2>2. screen \in Sizes
    BY SizesAssumption DEF Sizes
  <2>3. view' \in Views
    BY <2>1, <2>2 DEF Views
  <2>4. view'.loc = view.loc /\ view'.size = view.size /\ view'.fb = view.fb /\ view'.clip = view.clip
    BY <2>1 DEF Views
  <2> QED BY <2>3, <2>4 DEF Inside
<1>2. CASE AnimationFrame
  <2> DEFINE w == UpdateScale(UpdateClip(view))
  <2>1. w \in Views /\ Inside(w)
    BY UpdateClipInside, UpdateScaleInside
  <2>2. view' = [w EXCEPT !.frame = FALSE]
    BY <1>2 DEF AnimationFrame
  <2> HIDE DEF w
  <2> QED BY <2>1, <2>2 DEF Views, Inside
<1>3. CASE ServerResizes
  <2>1. PICK fb \in FbSizes : view' = UpdateScale(UpdateClip(ResizeDisplay(view, fb)))
    BY <1>3 DEF ServerResizes
  <2>2. fb \in Sizes
    BY SizesAssumption DEF Sizes
  <2> QED BY <2>1, <2>2, ResizeDisplayInside, UpdateClipInside, UpdateScaleInside
<1>4. CASE ExtendedDesktopSize
  <2> DEFINE w == [view EXCEPT !.supported = TRUE]
  <2>1. w \in Views /\ Inside(w)
    BY DEF Views, Inside
  <2> QED BY <1>4, <2>1, RemoteResizeInside DEF ExtendedDesktopSize
<1>5. CASE SetClipViewport
  <2> DEFINE w == [view EXCEPT !.wantClip = ~@]
  <2>1. w \in Views /\ Inside(w)
    BY DEF Views, Inside
  <2> QED BY <1>5, <2>1, UpdateClipInside DEF SetClipViewport
<1>6. CASE SetScaleViewport
  <2> DEFINE w == [view EXCEPT !.wantScale = ~@]
  <2>1. w \in Views /\ Inside(w)
    BY DEF Views, Inside
  <2>2. view' \in {UpdateScale(UpdateClip(w)), UpdateClip(UpdateScale(w)), UpdateScale(w)}
    BY <1>6 DEF SetScaleViewport
  <2> HIDE DEF w
  <2> QED BY <2>1, <2>2, UpdateClipInside, UpdateScaleInside
<1>7. CASE SetResizeSession
  <2> DEFINE w == [view EXCEPT !.wantResize = ~@]
  <2>1. w \in Views /\ Inside(w)
    BY DEF Views, Inside
  <2>2. view' \in {RequestRemoteResize(w), w}
    BY <1>7 DEF SetResizeSession
  <2> HIDE DEF w
  <2> QED BY <2>1, <2>2, RemoteResizeInside
<1>8. CASE SetReadOnly
  BY <1>8 DEF SetReadOnly, Views, Inside
<1>9. CASE ResizeTimeout
  BY <1>9, RemoteResizeInside DEF ResizeTimeout
<1>10. CASE StopView
  BY <1>10 DEF StopView, Views, Inside
<1>11. ASSUME NEW delta \in Places, Drag(delta)
       PROVE  ViewInv'
  <2>2. Fitting(view)
    <3>1. view.fb \in Sizes /\ view.size \in Sizes /\ view.loc \in Places
      BY DEF Views
    <3> QED BY <3>1 DEF Inside, Fitting, Sizes, Places
  <2> QED BY <1>11, <2>2, ChangePosInside DEF Drag
<1>12. CASE UNCHANGED view
  BY <1>12
<1> QED BY <1>1, <1>2, <1>3, <1>4, <1>5, <1>6, <1>7, <1>8, <1>9, <1>10, <1>11, <1>12 DEF ViewStep

(* As the page asked: the clipping always, the size once a frame was drawn.*)
Fit(u) ==
    /\ Positive(u)
    /\ u.clip = Clipped(u)
    /\ u.scale.den > 0 /\ (~u.wantScale => u.scale = Whole)
    /\ ~u.frame => ShownAsAsked(u)
    /\ u.attached => ScreenAskedFor(u)

FitInv == ViewInv /\ Fit(view)

(* What the invariant says of the view is what the page asked for. *)
LEMMA FitMeansFits == FitInv => ViewFits
<1> SUFFICES ASSUME FitInv PROVE PointsInside(view)
  BY DEF FitInv, ViewInv, Fit, ViewFits
<1>1. view \in Views /\ Inside(view) /\ Fit(view)
  BY DEF FitInv, ViewInv
<1>2. ASSUME view.wantScale PROVE view.size = view.fb
  <2>1. ~view.clip
    BY <1>1, <1>2 DEF Fit, Clipped
  <2> QED BY <1>1, <2>1 DEF Inside, Views, Sizes
<1> QED BY <1>1, <1>2, ShownPointsInside DEF Fit

(* What is clipped and then scaled anew is as asked. *)
LEMMA Redrawn ==
  ASSUME NEW u \in Views, Inside(u), Positive(u)
  PROVE  LET w == UpdateScale(UpdateClip(u))
         IN  /\ Wishes(w) = Wishes(u) /\ w.fb = u.fb
             /\ w.clip = Clipped(w)
             /\ w.scale.den > 0 /\ (~w.wantScale => w.scale = Whole)
             /\ ShownAsAsked(w)
<1> DEFINE z == UpdateClip(u)
<1>1. z \in Views
  BY UpdateClipInside
<1>2. /\ Wishes(z) = Wishes(u) /\ z.fb = u.fb /\ z.clip = Clipped(u)
      /\ \A a \in Axes :
            z.size[a] = IF Clipped(u) THEN Smaller(u.screen[a], u.fb[a]) ELSE u.fb[a]
  BY UpdateClipFits
<1> HIDE DEF z
<1>3. Clipped(z) = Clipped(u) /\ Positive(z)
  BY <1>2 DEF Clipped, Positive, Wishes
<1>4. /\ \A a \in Axes : z.wantScale => z.size[a] = z.fb[a]
      /\ \A a \in Axes : ~z.wantScale =>
            z.size[a] = IF z.wantClip THEN Smaller(z.screen[a], z.fb[a]) ELSE z.fb[a]
  BY <1>2 DEF Clipped, Wishes
<1> DEFINE w == UpdateScale(z)
<1>5. /\ Wishes(w) = Wishes(z) /\ w.fb = z.fb /\ w.clip = z.clip
      /\ w.scale.den > 0 /\ (~w.wantScale => w.scale = Whole)
      /\ ShownAsAsked(w)
  BY <1>1, <1>3, <1>4, UpdateScaleFits
<1> HIDE DEF w
<1>6. Clipped(w) = Clipped(z)
  BY <1>5 DEF Clipped, Wishes
<1> QED BY <1>2, <1>3, <1>5, <1>6 DEF w, z

(* A request for the server to resize leaves the shown part alone, and     *)
(* asks for the size of now unless the viewer is view-only.                *)
LEMMA RemoteResizeFits ==
  ASSUME NEW u \in Views
  PROVE  LET w == RequestRemoteResize(u)
         IN  /\ w.fb = u.fb /\ w.size = u.size /\ w.clip = u.clip /\ w.scale = u.scale
             /\ w.screen = u.screen /\ w.frame = u.frame
             /\ w.wantClip = u.wantClip /\ w.wantScale = u.wantScale
             /\ ScreenAskedFor(w)
BY DEF RequestRemoteResize, Views, ScreenAskedFor

(* Fit depends on some of the view only. *)
LEMMA SameFit ==
  ASSUME NEW u, NEW w, Fit(u),
         w.fb = u.fb, w.size = u.size, w.clip = u.clip, w.scale = u.scale,
         w.wantClip = u.wantClip, w.wantScale = u.wantScale,
         w.frame \/ (w.screen = u.screen /\ w.frame = u.frame),
         w.attached => ScreenAskedFor(w)
  PROVE  Fit(w)
BY DEF Fit, Positive, Clipped, ShownAsAsked

(* A viewer that has just started waits for its first frame. *)
LEMMA FitInit == ViewInit => FitInv
<1> SUFFICES ASSUME ViewInit PROVE FitInv
  OBVIOUS
<1>1. ViewInv
  BY ViewInitHolds
<1>2. PICK fb \in FbSizes : /\ view.fb = fb
                            /\ view.clip = FALSE /\ view.wantClip = FALSE /\ ~view.wantScale
                            /\ view.frame
                            /\ view.scale = Whole /\ ~view.wantResize
  BY DEF ViewInit
<1>3. Positive(view)
  BY <1>2, SizesAssumption DEF Positive
<1>4. view.clip = Clipped(view)
  BY <1>2 DEF Clipped
<1>5. view.scale.den > 0 /\ ScreenAskedFor(view)
  BY <1>2 DEF ScreenAskedFor, Whole
<1> QED BY <1>1, <1>2, <1>3, <1>4, <1>5 DEF FitInv, Fit

(* Each event keeps the view as the page asked, or has a frame pending. *)
THEOREM FitInvInductive == FitInv /\ [ViewStep]_view => FitInv'
<1> SUFFICES ASSUME FitInv, [ViewStep]_view
             PROVE  Fit(view)'
  BY ViewInvInductive DEF FitInv
<1>0. view \in Views /\ Inside(view) /\ Fit(view) /\ Positive(view)
  BY DEF FitInv, ViewInv, Fit
<1>1. CASE ScreenResizes
  <2>1. PICK screen \in ScreenSizes :
           view' = [view EXCEPT !.screen = screen, !.frame = TRUE, !.timer = @ \/ view.wantResize]
    BY <1>1 DEF ScreenResizes
  <2> DEFINE w == view'
  <2>2. /\ w.fb = view.fb /\ w.size = view.size /\ w.clip = view.clip /\ w.scale = view.scale
        /\ w.wantClip = view.wantClip /\ w.wantScale = view.wantScale /\ w.frame
        /\ w.wantResize = view.wantResize /\ (w.timer <=> (view.timer \/ view.wantResize))
    BY <1>0, <2>1 DEF Views
  <2>3. ScreenAskedFor(w)
    BY <2>2 DEF ScreenAskedFor
  <2> HIDE DEF w
  <2>4. Fit(w)
    BY <1>0, <2>2, <2>3, SameFit
  <2> QED BY <2>4 DEF w
<1>2. CASE AnimationFrame
  <2> DEFINE w == UpdateScale(UpdateClip(view))
  <2>1. /\ Wishes(w) = Wishes(view) /\ w.fb = view.fb
        /\ w.clip = Clipped(w)
        /\ w.scale.den > 0 /\ (~w.wantScale => w.scale = Whole)
        /\ ShownAsAsked(w)
        /\ w \in Views
    BY <1>0, Redrawn, UpdateClipInside, UpdateScaleInside
  <2>2. view' = [w EXCEPT !.frame = FALSE]
    BY <1>2 DEF AnimationFrame
  <2> HIDE DEF w
  <2>3. Fit([w EXCEPT !.frame = FALSE])
    BY <1>0, <2>1
       DEF Fit, Wishes, Views, Positive, Clipped, ShownAsAsked, ScreenAskedFor
  <2> QED BY <2>2, <2>3
<1>3. CASE ServerResizes
  <2>1. PICK fb \in FbSizes : view' = UpdateScale(UpdateClip(ResizeDisplay(view, fb)))
    BY <1>3 DEF ServerResizes
  <2>2. fb \in Sizes /\ \A a \in Axes : fb[a] > 0
    BY SizesAssumption DEF Sizes
  <2> DEFINE z == ResizeDisplay(view, fb)
  <2>3. z \in Views /\ Inside(z) /\ Wishes(z) = Wishes(view) /\ z.fb = fb
    BY <1>0, <2>2, ResizeDisplayInside, ResizeDisplayKeeps
  <2> HIDE DEF z
  <2> DEFINE w == UpdateScale(UpdateClip(z))
  <2>4. /\ Wishes(w) = Wishes(z) /\ w.fb = z.fb
        /\ w.clip = Clipped(w)
        /\ w.scale.den > 0 /\ (~w.wantScale => w.scale = Whole)
        /\ ShownAsAsked(w)
    BY <2>2, <2>3, Redrawn DEF Positive
  <2> HIDE DEF w
  <2>5. Fit(w)
    BY <1>0, <2>2, <2>3, <2>4 DEF Fit, Wishes, Positive, ScreenAskedFor
  <2> QED BY <2>1, <2>5 DEF w, z
<1>4. CASE ExtendedDesktopSize
  <2> DEFINE z == [view EXCEPT !.supported = TRUE]
             w == RequestRemoteResize(z)
  <2>1. /\ z \in Views
        /\ z.fb = view.fb /\ z.size = view.size /\ z.clip = view.clip /\ z.scale = view.scale
        /\ z.screen = view.screen /\ z.frame = view.frame
        /\ z.wantClip = view.wantClip /\ z.wantScale = view.wantScale
    BY <1>0 DEF Views
  <2> HIDE DEF z
  <2>2. /\ w.fb = z.fb /\ w.size = z.size /\ w.clip = z.clip /\ w.scale = z.scale
        /\ w.screen = z.screen /\ w.frame = z.frame
        /\ w.wantClip = z.wantClip /\ w.wantScale = z.wantScale
        /\ ScreenAskedFor(w)
    BY <2>1, RemoteResizeFits
  <2>3. view' = w
    BY <1>4 DEF ExtendedDesktopSize, z
  <2> HIDE DEF w
  <2>4. Fit(w)
    BY <1>0, <2>1, <2>2, SameFit
  <2> QED BY <2>3, <2>4
<1>5. CASE SetClipViewport
  <2> DEFINE u == [view EXCEPT !.wantClip = ~@]
             w == UpdateClip(u)
  <2>1. u \in Views /\ Inside(u)
    BY <1>0 DEF Views, Inside
  <2>2. /\ u.fb = view.fb /\ u.screen = view.screen /\ u.scale = view.scale
        /\ u.frame = view.frame /\ u.wantScale = view.wantScale /\ u.size = view.size
        /\ u.clip = view.clip /\ u.attached = view.attached
        /\ (ScreenAskedFor(view) => ScreenAskedFor(u))
    BY <1>0 DEF Views, ScreenAskedFor
  <2> HIDE DEF u
  <2>3. /\ Wishes(w) = Wishes(u)
        /\ w.fb = u.fb /\ w.clip = Clipped(u) /\ w.scale = u.scale
        /\ \A a \in Axes :
              w.size[a] = IF Clipped(u) THEN Smaller(u.screen[a], u.fb[a]) ELSE u.fb[a]
    BY <2>1, UpdateClipFits
  <2>4. w \in Views
    BY <2>1, UpdateClipInside
  <2>5. view' = w
    BY <1>5 DEF SetClipViewport, u
  <2> HIDE DEF w
  <2>6. /\ w.screen = u.screen /\ w.wantScale = u.wantScale /\ w.wantClip = u.wantClip
        /\ w.frame = u.frame /\ w.attached = u.attached
        /\ Clipped(w) = Clipped(u) /\ (ScreenAskedFor(u) => ScreenAskedFor(w))
    BY <2>3 DEF Wishes, Clipped, ScreenAskedFor
  <2>7. ASSUME ~w.frame PROVE ShownAsAsked(w)
    <3>1. ShownAsAsked(view)
      BY <1>0, <2>2, <2>6, <2>7 DEF Fit
    <3>2. CASE w.wantScale
      <4>1. ~Clipped(u) /\ ~view.clip
        BY <1>0, <2>2, <2>6, <3>2 DEF Clipped, Fit
      <4>2. \A a \in Axes : w.size[a] = view.size[a]
        BY <1>0, <2>2, <2>3, <4>1 DEF Inside
      <4>3. w.size = view.size
        BY <1>0, <2>4, <4>2 DEF Views, Sizes
      <4> QED BY <2>2, <2>3, <2>6, <3>1, <3>2, <4>3 DEF ShownAsAsked
    <3>3. CASE ~w.wantScale
      <4>1. w.scale = Whole
        BY <1>0, <2>2, <2>3, <2>6, <3>3 DEF Fit
      <4> QED BY <2>3, <2>6, <3>3, <4>1 DEF ShownAsAsked, Clipped
    <3> QED BY <3>2, <3>3
  <2>8. Fit(w)
    BY <1>0, <2>2, <2>3, <2>6, <2>7 DEF Fit, Positive
  <2> QED BY <2>5, <2>8
<1>6. CASE SetScaleViewport
  <2> DEFINE u == [view EXCEPT !.wantScale = ~@]
  <2>1. u \in Views /\ Inside(u)
    BY <1>0 DEF Views, Inside
  <2>2. /\ u.fb = view.fb /\ u.size = view.size /\ u.clip = view.clip
        /\ u.wantClip = view.wantClip /\ u.attached = view.attached
        /\ (ScreenAskedFor(view) => ScreenAskedFor(u))
        /\ (u.wantScale <=> ~view.wantScale)
    BY <1>0 DEF Views, ScreenAskedFor
  <2>3. view' = CASE u.wantScale /\ u.wantClip -> UpdateScale(UpdateClip(u))
                  [] ~u.wantScale /\ u.wantClip -> UpdateClip(UpdateScale(u))
                  [] OTHER -> UpdateScale(u)
    BY <1>6 DEF SetScaleViewport
  <2>4. Positive(u)
    BY <1>0, <2>2 DEF Positive
  <2> HIDE DEF u
  <2>5. ASSUME NEW w, Wishes(w) = Wishes(u), w.fb = u.fb, w.clip = Clipped(w),
               w.scale.den > 0, ~w.wantScale => w.scale = Whole, ShownAsAsked(w)
        PROVE  Fit(w)
    BY <1>0, <2>2, <2>4, <2>5 DEF Fit, Wishes, Positive, ScreenAskedFor
  <2>6. CASE u.wantScale /\ u.wantClip
    <3> DEFINE w == UpdateScale(UpdateClip(u))
    <3>1. /\ Wishes(w) = Wishes(u) /\ w.fb = u.fb
          /\ w.clip = Clipped(w)
          /\ w.scale.den > 0 /\ (~w.wantScale => w.scale = Whole)
          /\ ShownAsAsked(w)
      BY <2>1, <2>4, Redrawn
    <3> HIDE DEF w
    <3>2. Fit(w)
      BY <2>5, <3>1
    <3> QED BY <2>3, <2>6, <3>2 DEF w
  <2>7. CASE ~u.wantScale /\ u.wantClip
    <3> DEFINE z == UpdateScale(u)
               w == UpdateClip(z)
    <3>1. z \in Views /\ Inside(z)
      BY <2>1, UpdateScaleInside
    <3>2. z = [u EXCEPT !.scale = Whole]
      BY <2>7 DEF UpdateScale
    <3>3. Wishes(z) = Wishes(u) /\ z.fb = u.fb /\ z.scale = Whole
      BY <2>1, <3>2 DEF Wishes, Views
    <3> HIDE DEF z
    <3>4. /\ Wishes(w) = Wishes(z)
          /\ w.fb = z.fb /\ w.clip = Clipped(z) /\ w.scale = z.scale
          /\ \A a \in Axes :
                w.size[a] = IF Clipped(z) THEN Smaller(z.screen[a], z.fb[a]) ELSE z.fb[a]
      BY <3>1, UpdateClipFits
    <3> HIDE DEF w
    <3>5. Clipped(w) = Clipped(z) /\ ~w.wantScale /\ w.wantClip /\ Clipped(z) /\ w.screen = z.screen
      BY <2>7, <3>3, <3>4 DEF Clipped, Wishes
    <3>6. ShownAsAsked(w) /\ w.scale.den > 0
      BY <3>3, <3>4, <3>5 DEF ShownAsAsked, Whole
    <3>7. Fit(w)
      BY <2>5, <3>3, <3>4, <3>5, <3>6
    <3> QED BY <2>3, <2>7, <3>7 DEF w, z
  <2>8. CASE ~u.wantClip
    <3> DEFINE w == UpdateScale(u)
    <3>1. ~u.clip /\ ~Clipped(u)
      BY <1>0, <2>2, <2>8 DEF Fit, Clipped
    <3>2. \A a \in Axes : u.size[a] = u.fb[a]
      BY <2>1, <3>1 DEF Inside
    <3>3. /\ Wishes(w) = Wishes(u)
          /\ w.fb = u.fb /\ w.clip = u.clip
          /\ w.scale.den > 0 /\ (~w.wantScale => w.scale = Whole)
          /\ ShownAsAsked(w)
      BY <2>1, <2>4, <2>8, <3>2, UpdateScaleFits
    <3> HIDE DEF w
    <3>4. w.clip = Clipped(w)
      BY <2>8, <3>1, <3>3, <2>1 DEF Clipped, Wishes, Views
    <3>5. Fit(w)
      BY <2>5, <3>3, <3>4
    <3> QED BY <2>3, <2>8, <3>5 DEF w
  <2> QED BY <2>6, <2>7, <2>8
<1>7. CASE SetResizeSession
  <2> DEFINE u == [view EXCEPT !.wantResize = ~@]
  <2>1. /\ u \in Views
        /\ u.fb = view.fb /\ u.size = view.size /\ u.clip = view.clip /\ u.scale = view.scale
        /\ u.screen = view.screen /\ u.frame = view.frame
        /\ u.wantClip = view.wantClip /\ u.wantScale = view.wantScale
    BY <1>0 DEF Views
  <2>2. view' = IF u.wantResize THEN RequestRemoteResize(u) ELSE u
    BY <1>7 DEF SetResizeSession
  <2> HIDE DEF u
  <2>3. CASE u.wantResize
    <3> DEFINE w == RequestRemoteResize(u)
    <3>1. /\ w.fb = u.fb /\ w.size = u.size /\ w.clip = u.clip /\ w.scale = u.scale
          /\ w.screen = u.screen /\ w.frame = u.frame
          /\ w.wantClip = u.wantClip /\ w.wantScale = u.wantScale
          /\ ScreenAskedFor(w)
      BY <2>1, RemoteResizeFits
    <3> HIDE DEF w
    <3>2. Fit(w)
      BY <1>0, <2>1, <3>1, SameFit
    <3> QED BY <2>2, <2>3, <3>2 DEF w
  <2>4. CASE ~u.wantResize
    <3>1. ScreenAskedFor(u)
      BY <2>4 DEF ScreenAskedFor
    <3>2. Fit(u)
      BY <1>0, <2>1, <3>1, SameFit
    <3> QED BY <2>2, <2>4, <3>2
  <2> QED BY <2>3, <2>4
<1>8. CASE SetReadOnly
  <2> DEFINE w == [view EXCEPT !.readOnly = ~@]
  <2>1. /\ w.fb = view.fb /\ w.size = view.size /\ w.clip = view.clip /\ w.scale = view.scale
        /\ w.screen = view.screen /\ w.frame = view.frame /\ w.attached = view.attached
        /\ w.wantClip = view.wantClip /\ w.wantScale = view.wantScale
        /\ (ScreenAskedFor(view) => ScreenAskedFor(w))
    BY <1>0 DEF Views, ScreenAskedFor
  <2>2. view' = w
    BY <1>8 DEF SetReadOnly
  <2> HIDE DEF w
  <2>3. w.attached => ScreenAskedFor(w)
    BY <1>0, <2>1 DEF Fit
  <2>4. Fit(w)
    BY <1>0, <2>1, <2>3, SameFit
  <2> QED BY <2>2, <2>4
<1>9. CASE ResizeTimeout
  <2> DEFINE w == RequestRemoteResize(view)
  <2>1. /\ w.fb = view.fb /\ w.size = view.size /\ w.clip = view.clip /\ w.scale = view.scale
        /\ w.screen = view.screen /\ w.frame = view.frame
        /\ w.wantClip = view.wantClip /\ w.wantScale = view.wantScale
        /\ ScreenAskedFor(w)
    BY <1>0, RemoteResizeFits
  <2>2. view' = w
    BY <1>9 DEF ResizeTimeout
  <2> HIDE DEF w
  <2>3. Fit(w)
    BY <1>0, <2>1, SameFit
  <2> QED BY <2>2, <2>3
<1>10. CASE StopView
  <2> DEFINE w == [view EXCEPT !.timer = FALSE, !.attached = FALSE]
  <2>1. /\ w.fb = view.fb /\ w.size = view.size /\ w.clip = view.clip /\ w.scale = view.scale
        /\ w.screen = view.screen /\ w.frame = view.frame /\ ~w.attached
        /\ w.wantClip = view.wantClip /\ w.wantScale = view.wantScale
    BY <1>0 DEF Views
  <2>2. view' = w
    BY <1>10 DEF StopView
  <2> HIDE DEF w
  <2>3. Fit(w)
    BY <1>0, <2>1, SameFit
  <2> QED BY <2>2, <2>3
<1>11. ASSUME NEW delta \in Places, Drag(delta)
       PROVE  Fit(view)'
  <2> DEFINE w == ViewportChangePos(view, delta)
  <2>1. /\ Wishes(w) = Wishes(view)
        /\ w.size = view.size /\ w.fb = view.fb /\ w.clip = view.clip /\ w.scale = view.scale
    BY <1>0, ChangePosKeeps
  <2>2. view' = w
    BY <1>11 DEF Drag
  <2> HIDE DEF w
  <2>3. /\ w.screen = view.screen /\ w.frame = view.frame /\ w.attached = view.attached
        /\ w.wantClip = view.wantClip /\ w.wantScale = view.wantScale
        /\ (ScreenAskedFor(view) => ScreenAskedFor(w))
    BY <2>1 DEF Wishes, ScreenAskedFor
  <2>4. w.attached => ScreenAskedFor(w)
    BY <1>0, <2>3 DEF Fit
  <2>5. Fit(w)
    BY <1>0, <2>1, <2>3, <2>4, SameFit
  <2> QED BY <2>2, <2>5
<1>12. CASE UNCHANGED view
  BY <1>0, <1>12
<1> QED BY <1>1, <1>2, <1>3, <1>4, <1>5, <1>6, <1>7, <1>8, <1>9, <1>10, <1>11, <1>12 DEF ViewStep

-----------------------------------------------------------------------------
(* The gestures whose detection needs no release *)
Sure == {{"drag"}, {"longpress"}, {"twodrag"}, {"pinch"}}

(* Identifiers of the touches of ts, and of those that have not ended *)
Ids(ts) == {ts[i].id : i \in DOMAIN ts}
Active(ts) == {ts[i].id : i \in {j \in DOMAIN ts : ts[j].active}}
Distinct(ts) == \A i, j \in DOMAIN ts : ts[i].id = ts[j].id => i = j

GestureTypes ==
    /\ state \in SUBSET Gestures
    /\ tracked \in Seq(Touch)
    /\ ignored \in SUBSET Fingers
    /\ down \in SUBSET Fingers
    /\ waitingRelease \in BOOLEAN
    /\ longpress \in BOOLEAN
    /\ twoTouch \in {"null", "pending", "fired"}

AllAccounted ==
    /\ down = Active(tracked) \cup ignored
    /\ Active(tracked) \cap ignored = {}
    /\ Distinct(tracked)

(* Nothing is tracked: the handler is ready, or ignores until all are up. *)
AtRest ==
    tracked = <<>> =>
        /\ state = IF ignored = {} THEN Gestures ELSE NoGesture
        /\ waitingRelease => ignored # {}

(* The handler waits for releases since the first one. *)
Releasing ==
    tracked # <<>> =>
        /\ Active(tracked) # {}
        /\ waitingRelease <=> \E i \in DOMAIN tracked : ~tracked[i].active

(* What n fingers may still become, none of them lifted or some (w). *)
Possible(s, n, w) ==
    \/ s = NoGesture /\ (w => n >= 2)
    \/ s = Gestures /\ n = 1 /\ ~w
    \/ s \in {{"drag"}, {"longpress"}} /\ n = 1 /\ ~w
    \/ s \in {{"twotap", "threetap", "twodrag", "pinch"}, {"twodrag", "pinch"}} /\ n = 2 /\ ~w
    \/ s \in {{"twotap"}, {"threetap"}, {"twodrag"}, {"pinch"}} /\ n >= 2

StatePossible == tracked # <<>> => Possible(state, Len(tracked), waitingRelease)

(* A timer runs only while its gesture is undecided. *)
TimersFit ==
    /\ longpress => Len(tracked) = 1 /\ state \in {Gestures, NoGesture}
    /\ twoTouch = "pending" => Len(tracked) >= 2 /\ state \in {NoGesture, {"twodrag", "pinch"}}

GestureInv ==
    /\ GestureTypes /\ AllAccounted /\ AtRest /\ Releasing /\ StatePossible /\ TimersFit
    /\ ~thrown

-----------------------------------------------------------------------------
(* The model's sets of identifiers, as operators of the touches. *)
LEMMA ActiveIdsAre == ActiveIds = Active(tracked) /\ TrackedIds = Ids(tracked)
  BY DEF ActiveIds, TrackedIds, Active, Ids

(* Sets of gestures *)
LEMMA Bits ==
  /\ IsFiniteSet(Gestures)
  /\ \A g : Cardinality({g}) = 1
  /\ Cardinality(NoGesture) # 1 /\ Cardinality(Gestures) # 1
  /\ Cardinality({"twotap", "threetap", "twodrag", "pinch"}) # 1
  /\ Cardinality({"twodrag", "pinch"}) # 1
<1>1. IsFiniteSet(Gestures)
  <2>1. \A g : IsFiniteSet({g})
    BY FS_Singleton
  <2>2. \A S, T : IsFiniteSet(S) /\ IsFiniteSet(T) => IsFiniteSet(S \cup T)
    BY FS_Union
  <2>3. IsFiniteSet(({"onetap"} \cup {"twotap"}) \cup {"threetap"})
    BY <2>1, <2>2
  <2>4. IsFiniteSet(({"drag"} \cup {"longpress"}) \cup ({"twodrag"} \cup {"pinch"}))
    BY <2>1, <2>2
  <2>5. Gestures = (({"onetap"} \cup {"twotap"}) \cup {"threetap"})
                   \cup (({"drag"} \cup {"longpress"}) \cup ({"twodrag"} \cup {"pinch"}))
    BY DEF Gestures, Taps
  <2> QED BY <2>2, <2>3, <2>4, <2>5
<1>2. \A S : S \subseteq Gestures => IsFiniteSet(S)
  BY <1>1, FS_Subset
<1>3. \A S : S \subseteq Gestures /\ Cardinality(S) = 1 => \E g : S = {g}
  BY <1>2, FS_Singleton
<1>4. \A g : Cardinality({g}) = 1
  BY FS_Singleton
<1>5. /\ ~\E g : NoGesture = {g}
      /\ ~\E g : Gestures = {g}
      /\ ~\E g : {"twotap", "threetap", "twodrag", "pinch"} = {g}
      /\ ~\E g : {"twodrag", "pinch"} = {g}
  BY DEF NoGesture, Gestures, Taps
<1>6. /\ NoGesture \subseteq Gestures
      /\ {"twotap", "threetap", "twodrag", "pinch"} \subseteq Gestures
      /\ {"twodrag", "pinch"} \subseteq Gestures
  BY DEF NoGesture, Gestures, Taps
<1> QED BY <1>1, <1>3, <1>4, <1>5, <1>6

(* Which sets of gestures are a detection, whatever the touches. *)
LEMMA DetectedAre ==
  ASSUME NEW ts
  PROVE  /\ \A s \in Sure : Detected(s, ts)
         /\ \A g \in Taps : Detected({g}, ts) <=> \A i \in DOMAIN ts : ~ts[i].active
         /\ ~Detected(NoGesture, ts) /\ ~Detected(Gestures, ts)
         /\ ~Detected({"twotap", "threetap", "twodrag", "pinch"}, ts)
         /\ ~Detected({"twodrag", "pinch"}, ts)
<1>1. \A s \in Sure : Detected(s, ts)
  BY Bits DEF Sure, Detected, Taps
<1>2. \A g \in Taps : Detected({g}, ts) <=> \A i \in DOMAIN ts : ~ts[i].active
  BY Bits DEF Detected
<1> QED BY <1>1, <1>2, Bits DEF Detected

(* Appending, and a change that is neither of ids nor of activity *)
LEMMA AppendTouch ==
  ASSUME NEW ts \in Seq(Touch), NEW t \in Touch, t.active, t.id \notin Ids(ts), Distinct(ts)
  PROVE  LET us == Append(ts, t)
         IN  /\ us \in Seq(Touch) /\ Len(us) = Len(ts) + 1 /\ us # <<>>
             /\ Active(us) = Active(ts) \cup {t.id} /\ Distinct(us)
             /\ (\E i \in DOMAIN us : ~us[i].active) <=> (\E i \in DOMAIN ts : ~ts[i].active)
<1> DEFINE us == Append(ts, t)
           n == Len(ts)
<1>1. /\ us \in Seq(Touch) /\ Len(us) = n + 1 /\ us # <<>> /\ n \in Nat
      /\ DOMAIN us = 1..(n + 1) /\ DOMAIN ts = 1..n
      /\ us[n + 1] = t /\ \A i \in 1..n : us[i] = ts[i]
  OBVIOUS
<1> HIDE DEF us, n
<1>2. DOMAIN us = DOMAIN ts \cup {n + 1} /\ n + 1 \notin DOMAIN ts
  BY <1>1
<1>3. Active(us) = Active(ts) \cup {t.id}
  BY <1>1, <1>2 DEF Active
<1>4. Distinct(us)
  BY <1>1, <1>2 DEF Distinct, Ids
<1>5. (\E i \in DOMAIN us : ~us[i].active) <=> (\E i \in DOMAIN ts : ~ts[i].active)
  BY <1>1, <1>2
<1> QED BY <1>1, <1>3, <1>4, <1>5 DEF us, n

(* A change that is neither of identifiers nor of activity. *)
LEMMA SameTouches ==
  ASSUME NEW ts \in Seq(Touch), NEW us \in Seq(Touch), DOMAIN us = DOMAIN ts,
         \A i \in DOMAIN ts : us[i].id = ts[i].id /\ us[i].active = ts[i].active
  PROVE  /\ Len(us) = Len(ts) /\ (us = <<>> <=> ts = <<>>)
         /\ Active(us) = Active(ts) /\ (Distinct(ts) => Distinct(us))
         /\ (\E i \in DOMAIN us : ~us[i].active) <=> (\E i \in DOMAIN ts : ~ts[i].active)
<1>1. Len(us) = Len(ts) /\ (us = <<>> <=> ts = <<>>)
  <2>1. /\ DOMAIN us = 1..Len(us) /\ Len(us) \in Nat
        /\ DOMAIN ts = 1..Len(ts) /\ Len(ts) \in Nat
    OBVIOUS
  <2>2. Len(us) = Len(ts)
    <3>1. \A m, n \in Nat : 1..m = 1..n => m <= n
      <4> SUFFICES ASSUME NEW m \in Nat, NEW n \in Nat, 1..m = 1..n, m > n PROVE FALSE
        OBVIOUS
      <4>1. m \in 1..m /\ m \notin 1..n
        OBVIOUS
      <4> QED BY <4>1
    <3> DEFINE m == Len(us)
               n == Len(ts)
    <3>2. m \in Nat /\ n \in Nat /\ 1..m = 1..n
      BY <2>1
    <3> HIDE DEF m, n
    <3>3. m <= n /\ n <= m
      BY <3>1, <3>2
    <3> QED BY <3>2, <3>3 DEF m, n
  <2>3. \A s \in Seq(Touch) : s = <<>> <=> Len(s) = 0
    OBVIOUS
  <2> QED BY <2>2, <2>3
<1>2. Active(us) = Active(ts)
  BY DEF Active
<1> QED BY <1>1, <1>2 DEF Distinct

(* A finger is lifted. *)
Lifted(ts, f) ==
    [i \in DOMAIN ts |-> IF ts[i].id = f THEN [ts[i] EXCEPT !.active = FALSE] ELSE ts[i]]

(* Lifting takes one finger from those that are active. *)
LEMMA LiftedIs ==
  ASSUME NEW ts \in Seq(Touch), NEW f \in Active(ts), Distinct(ts)
  PROVE  LET us == Lifted(ts, f)
         IN  /\ us \in Seq(Touch) /\ Len(us) = Len(ts) /\ us # <<>>
             /\ Active(us) = Active(ts) \ {f} /\ Distinct(us)
             /\ \E i \in DOMAIN us : ~us[i].active
<1> DEFINE us == Lifted(ts, f)
<1>1. DOMAIN ts = 1..Len(ts) /\ Len(ts) \in Nat /\ \A i \in DOMAIN ts : ts[i] \in Touch
  OBVIOUS
<1>2. \A i \in DOMAIN ts : /\ us[i] \in Touch /\ us[i].id = ts[i].id
                           /\ us[i].active <=> ts[i].active /\ ts[i].id # f
  <2> TAKE i \in DOMAIN ts
  <2>1. ts[i] \in Touch
    BY <1>1
  <2>2. us[i] = IF ts[i].id = f THEN [ts[i] EXCEPT !.active = FALSE] ELSE ts[i]
    BY DEF Lifted
  <2>3. ASSUME NEW t \in Touch, NEW u, u = [t EXCEPT !.active = FALSE]
        PROVE  u \in Touch /\ u.id = t.id /\ ~u.active
    BY <2>3 DEF Touch
  <2> HIDE DEF us
  <2>4. CASE ts[i].id = f
    BY <2>1, <2>2, <2>3, <2>4
  <2>5. CASE ts[i].id # f
    BY <2>1, <2>2, <2>5
  <2> QED BY <2>4, <2>5
<1>3. DOMAIN us = 1..Len(ts)
  BY <1>1 DEF Lifted
<1>4. PICK k \in DOMAIN ts : ts[k].id = f /\ ts[k].active
  BY DEF Active
<1>5. us \in Seq(Touch) /\ Len(us) = Len(ts)
  <2>1. us = [i \in 1..Len(ts) |-> us[i]]
    BY <1>1 DEF Lifted
  <2> HIDE DEF us
  <2> QED BY <1>1, <1>2, <1>3, <2>1
<1> HIDE DEF us
<1>6. us # <<>>
  BY <1>1, <1>4, <1>5
<1>7. Active(us) = Active(ts) \ {f}
  <2>1. DOMAIN us = DOMAIN ts
    BY <1>1, <1>3
  <2>2. \A x : x \in Active(us) <=> \E i \in DOMAIN ts : us[i].active /\ us[i].id = x
    BY <2>1 DEF Active
  <2>3. \A x : x \in Active(ts) <=> \E i \in DOMAIN ts : ts[i].active /\ ts[i].id = x
    BY DEF Active
  <2> QED BY <1>2, <2>2, <2>3
<1>8. Distinct(us)
  BY <1>1, <1>2, <1>3 DEF Distinct
<1>9. ~us[k].active /\ k \in DOMAIN us
  BY <1>1, <1>2, <1>3, <1>4
<1> QED BY <1>5, <1>6, <1>7, <1>8, <1>9 DEF us

-----------------------------------------------------------------------------
Is(ev, type, gesture) == ev.type = type /\ ev.gesture = gesture
(* Whatever the gesture handler does, detection is by the bit that is left.*)
LEMMA KnownAre ==
  ASSUME GestureInv
  PROVE  Detected(state, tracked) <=> state \in Sure
<1>1. CASE tracked = <<>>
  <2>1. state \in {Gestures, NoGesture}
    BY <1>1 DEF GestureInv, AtRest
  <2>2. Gestures \notin Sure /\ NoGesture \notin Sure
    BY DEF Gestures, Taps, NoGesture, Sure
  <2> QED BY <2>1, <2>2, DetectedAre
<1>2. CASE tracked # <<>>
  <2>1. ~\A i \in DOMAIN tracked : ~tracked[i].active
    BY <1>2 DEF GestureInv, Releasing, Active
  <2>2. Possible(state, Len(tracked), waitingRelease)
    BY <1>2 DEF GestureInv, StatePossible
  <2>3. /\ Gestures \notin Sure /\ NoGesture \notin Sure
        /\ {"twotap", "threetap", "twodrag", "pinch"} \notin Sure /\ {"twodrag", "pinch"} \notin Sure
        /\ {"twotap"} \notin Sure /\ {"threetap"} \notin Sure
    BY DEF Gestures, Taps, NoGesture, Sure
  <2>4. \/ state \in Sure
        \/ state \in {NoGesture, Gestures, {"twotap", "threetap", "twodrag", "pinch"},
                      {"twodrag", "pinch"}, {"twotap"}, {"threetap"}}
    BY <2>2 DEF Possible, Sure
  <2>5. "twotap" \in Taps /\ "threetap" \in Taps
    BY DEF Taps
  <2>6. CASE state \in Sure
    BY <2>6, DetectedAre
  <2>7. CASE state \in {NoGesture, Gestures, {"twotap", "threetap", "twodrag", "pinch"},
                        {"twodrag", "pinch"}, {"twotap"}, {"threetap"}}
    BY <2>1, <2>3, <2>5, <2>7, DetectedAre
  <2> QED BY <2>4, <2>6, <2>7
<1> QED BY <1>1, <1>2

(* The buttons that the gesture of a state holds down *)
ButtonsOf(s) == CASE s = {"drag"} -> {0} [] s = {"longpress"} -> {2} [] OTHER -> {}

(* What a step may dispatch: nothing while buttons stay, *)
Quiet == events' = <<>> /\ ButtonsOf(state') = ButtonsOf(state)
(* the move or the end of the gesture that goes on, *)
Goes == \E e, g : events' = <<e>> /\ g \in Gestures \ Taps /\ Is(e, "gesturemove", g)
                  /\ state = {g} /\ state' = {g}
Ends == \E e, g : events' = <<e>> /\ g \in Gestures /\ Is(e, "gestureend", g)
                  /\ state = {g} /\ ButtonsOf(state') = {}
(* the start of a longpress or, at once with its first move, of a drag,    *)
Presses == \E e : events' = <<e>> /\ Is(e, "gesturestart", "longpress")
                  /\ ButtonsOf(state) = {} /\ state' = {"longpress"}
Begins == \E d, e, g : events' = <<d, e>> /\ g \in Gestures \ Taps
                       /\ Is(d, "gesturestart", g) /\ Is(e, "gesturemove", g)
                       /\ ButtonsOf(state) = {} /\ state' = {g}
(* or both start and end of a gesture that holds no button. *)
Clicks == \E d, e, g : events' = <<d, e>> /\ g \in Gestures \ {"drag", "longpress"}
                       /\ Is(d, "gesturestart", g) /\ Is(e, "gestureend", g)
                       /\ ButtonsOf(state) = {} /\ ButtonsOf(state') = {}
EventsFit == Quiet \/ Goes \/ Ends \/ Presses \/ Begins \/ Clicks

(* An event has the type and the gesture it is dispatched for. *)
LEMMA EventIs == \A type, g, ts : Is(Event(type, {g}, ts), type, g)
<1> TAKE type, g, ts
<1>1. (CHOOSE h \in {g} : TRUE) = g
  OBVIOUS
<1> DEFINE e == Event(type, {g}, ts)
<1>2. e.type = type /\ e.gesture = (CHOOSE h \in {g} : TRUE)
  BY DEF Event
<1> QED BY <1>1, <1>2 DEF Is

(* What Dispatch leaves in events, for none, one and two types. *)
LEMMA DispatchIs ==
  ASSUME NEW ts
  PROVE  /\ \A s : Dispatch(<<>>, s, ts) => events' = <<>>
         /\ \A g, t : Dispatch(<<t>>, {g}, ts) => \E e : events' = <<e>> /\ Is(e, t, g)
         /\ \A g, t, u : Dispatch(<<t, u>>, {g}, ts) =>
               \E d, e : events' = <<d, e>> /\ Is(d, t, g) /\ Is(e, u, g)
<1>1. ASSUME NEW s, Dispatch(<<>>, s, ts) PROVE events' = <<>>
  <2>1. events' = [i \in DOMAIN <<>> |-> Event(<<>>[i], s, ts)]
    BY <1>1 DEF Dispatch
  <2>2. DOMAIN events' = {}
    BY <2>1
  <2> QED BY <2>1, <2>2
<1>2. ASSUME NEW g, NEW t, Dispatch(<<t>>, {g}, ts)
      PROVE  \E e : events' = <<e>> /\ Is(e, t, g)
  <2>1. events' = [i \in DOMAIN <<t>> |-> Event(<<t>>[i], {g}, ts)]
    BY <1>2 DEF Dispatch
  <2>2. DOMAIN <<t>> = 1..1 /\ <<t>>[1] = t
    OBVIOUS
  <2>3. events' = <<Event(t, {g}, ts)>>
    BY <2>1, <2>2
  <2> QED BY <2>3, EventIs
<1>3. ASSUME NEW g, NEW t, NEW u, Dispatch(<<t, u>>, {g}, ts)
      PROVE  \E d, e : events' = <<d, e>> /\ Is(d, t, g) /\ Is(e, u, g)
  <2>1. events' = [i \in DOMAIN <<t, u>> |-> Event(<<t, u>>[i], {g}, ts)]
    BY <1>3 DEF Dispatch
  <2>2. DOMAIN <<t, u>> = 1..2 /\ <<t, u>>[1] = t /\ <<t, u>>[2] = u
    OBVIOUS
  <2>3. events' = <<Event(t, {g}, ts), Event(u, {g}, ts)>>
    BY <2>1, <2>2
  <2> QED BY <2>3, EventIs
<1> QED BY <1>1, <1>2, <1>3

(* The buttons of every set of gestures that occurs. *)
LEMMA ButtonsOfAre ==
  /\ ButtonsOf(NoGesture) = {} /\ ButtonsOf(Gestures) = {}
  /\ ButtonsOf({"twodrag"}) = {} /\ ButtonsOf({"pinch"}) = {}
  /\ ButtonsOf({"onetap"}) = {} /\ ButtonsOf({"twotap"}) = {} /\ ButtonsOf({"threetap"}) = {}
  /\ ButtonsOf({"twodrag", "pinch"}) = {}
  /\ ButtonsOf({"twotap", "threetap", "twodrag", "pinch"}) = {}
  /\ ButtonsOf({"drag"}) = {0} /\ ButtonsOf({"longpress"}) = {2}
<1>1. /\ \A s \in {NoGesture, Gestures, {"twodrag", "pinch"},
                   {"twotap", "threetap", "twodrag", "pinch"}} :
            s # {"drag"} /\ s # {"longpress"}
      /\ \A g : g \notin {"drag", "longpress"} => {g} # {"drag"} /\ {g} # {"longpress"}
      /\ {"drag"} # {"longpress"}
  BY DEF Gestures, Taps, NoGesture
<1> QED BY <1>1 DEF ButtonsOf

-----------------------------------------------------------------------------
(* What one finger more than n leaves of the gestures s *)
Narrowed(n, s, t) ==
    \/ n = 0 /\ s = Gestures /\ t = Gestures
    \/ n = 1 /\ s = Gestures /\ t = {"twotap", "threetap", "twodrag", "pinch"}
    \/ n = 2 /\ s = {"twotap", "threetap", "twodrag", "pinch"} /\ t = {"threetap"}
    \/ n = 2 /\ s = {"twodrag", "pinch"} /\ t = NoGesture
    \/ n = 2 /\ s = {"threetap"} /\ t = {"threetap"}
    \/ n >= 2 /\ s \in {{"twotap"}, {"threetap"}} /\ t = NoGesture

(* A touch that begins is tracked or ignored, and dispatches nothing. *)
LEMMA TouchStartFits ==
  ASSUME GestureInv, NEW f \in Fingers, NEW x \in Coords, TouchStart(f, x)
  PROVE  GestureInv' /\ Quiet
<1> USE DEF GestureInv
<1>1. /\ f \notin down /\ down' = down \cup {f} /\ events' = <<>>
      /\ waitingRelease' = waitingRelease /\ twoTouch' = twoTouch /\ thrown' = thrown
      /\ IgnoreTouch(f) \/ TrackTouch(f, x)
  BY DEF TouchStart
<1>2. CASE IgnoreTouch(f)
  <2>1. /\ tracked' = tracked /\ longpress' = longpress /\ ignored' = ignored \cup {f}
        /\ state' \in {state, NoGesture}
        /\ (Detected(state, tracked) \/ state = NoGesture) => state' = state
        /\ ~(Detected(state, tracked) \/ state = NoGesture) =>
              (tracked # <<>> \/ waitingRelease) /\ state' = NoGesture
    BY <1>2 DEF IgnoreTouch
  <2>2. GestureTypes'
    BY <1>1, <2>1 DEF GestureTypes, NoGesture
  <2>3. AllAccounted'
    BY <1>1, <2>1 DEF AllAccounted
  <2>4. AtRest'
    <3> SUFFICES ASSUME tracked = <<>> PROVE state' = NoGesture
      BY <1>1, <2>1 DEF AtRest
    <3>1. ~Detected(Gestures, tracked)
      BY DetectedAre
    <3> QED BY <2>1, <3>1 DEF AtRest
  <2>5. Releasing' /\ StatePossible' /\ TimersFit'
    BY <1>1, <2>1 DEF Releasing, StatePossible, Possible, TimersFit
  <2>6. ButtonsOf(state') = ButtonsOf(state)
    <3>1. CASE state' = state
      BY <3>1
    <3>2. CASE state' # state
      <4>1. ~Detected(state, tracked) /\ state' = NoGesture
        BY <2>1, <3>2
      <4>2. state \notin Sure
        BY <4>1, KnownAre
      <4>3. state # {"drag"} /\ state # {"longpress"}
        BY <4>2 DEF Sure
      <4> QED BY <4>1, <4>3, ButtonsOfAre DEF ButtonsOf
    <3> QED BY <3>1, <3>2
  <2> QED BY <1>1, <2>2, <2>3, <2>4, <2>5, <2>6 DEF Quiet
<1>3. CASE TrackTouch(f, x)
  <2> DEFINE n == Len(tracked)
             t == [id |-> f, age |-> 0, active |-> TRUE, first |-> x, last |-> x, angle |-> 0]
  <2>1. /\ ~Detected(state, tracked) /\ state # NoGesture /\ ~waitingRelease
        /\ tracked' = Append(tracked, t)
        /\ state' = state \ Excluded(n + 1)
        /\ longpress' = (n + 1 = 1 \/ (longpress /\ n + 1 # 2))
        /\ ignored' = ignored
    BY <1>3 DEF TrackTouch
  <2>2. t \in Touch /\ t.active /\ t.id = f
    BY DEF Touch, Ages
  <2>3. f \notin Ids(tracked)
    <3>1. \A i \in DOMAIN tracked : tracked[i].active
      BY <2>1 DEF Releasing, GestureTypes
    <3>2. Ids(tracked) = Active(tracked)
      BY <3>1 DEF Ids, Active
    <3> QED BY <1>1, <3>2 DEF AllAccounted
  <2>4. n \in Nat /\ (n = 0 <=> tracked = <<>>)
    BY DEF GestureTypes
  <2>5. /\ tracked' \in Seq(Touch) /\ Len(tracked') = n + 1 /\ tracked' # <<>>
        /\ Active(tracked') = Active(tracked) \cup {f} /\ Distinct(tracked')
        /\ (\E i \in DOMAIN tracked' : ~tracked'[i].active)
              <=> (\E i \in DOMAIN tracked : ~tracked[i].active)
    BY <2>1, <2>2, <2>3, AppendTouch DEF GestureTypes, AllAccounted
  <2>6. AllAccounted' /\ AtRest'
    BY <1>1, <2>1, <2>5 DEF AllAccounted, AtRest
  <2>7. \A i \in DOMAIN tracked : tracked[i].active
    BY <2>1 DEF Releasing, GestureTypes
  <2>8. Releasing'
    BY <1>1, <2>1, <2>5, <2>7 DEF Releasing
  <2> HIDE DEF t, n
  <2>9. state \notin Sure
    BY <2>1, KnownAre
  <2>10. Narrowed(n, state, state')
    <3>1. CASE n = 0
      <4>1. state = Gestures
        BY <2>1, <2>4, <3>1 DEF AtRest
      <4>2. Excluded(n + 1) = {}
        BY <3>1 DEF Excluded
      <4>3. state' = Gestures
        BY <2>1, <4>1, <4>2
      <4> QED BY <3>1, <4>1, <4>3 DEF Narrowed
    <3>2. CASE n # 0
      <4>1. Possible(state, n, waitingRelease) /\ ~waitingRelease
        BY <2>1, <2>4, <3>2 DEF StatePossible, n
      <4>2. CASE n = 1
        <5>1. Excluded(n + 1) = {"onetap", "drag", "longpress"}
          BY <4>2 DEF Excluded
        <5>2. state = Gestures
          BY <2>1, <2>9, <4>1, <4>2 DEF Possible, Sure
        <5>3. Gestures \ {"onetap", "drag", "longpress"} = {"twotap", "threetap", "twodrag", "pinch"}
          BY DEF Gestures, Taps
        <5> QED BY <2>1, <4>2, <5>1, <5>2, <5>3 DEF Narrowed
      <4>3. CASE n = 2
        <5>1. Excluded(n + 1) = {"twotap", "twodrag", "pinch"}
          BY <4>3 DEF Excluded
        <5>2. \/ state = {"twotap", "threetap", "twodrag", "pinch"}
              \/ state = {"twodrag", "pinch"}
              \/ state = {"threetap"} \/ state = {"twotap"}
          BY <2>1, <2>9, <4>1, <4>3 DEF Possible, Sure
        <5>3. {"twotap", "threetap", "twodrag", "pinch"} \ {"twotap", "twodrag", "pinch"} = {"threetap"}
          OBVIOUS
        <5>4. /\ {"twodrag", "pinch"} \ {"twotap", "twodrag", "pinch"} = NoGesture
              /\ {"twotap"} \ {"twotap", "twodrag", "pinch"} = NoGesture
          BY DEF NoGesture
        <5>5. {"threetap"} \ {"twotap", "twodrag", "pinch"} = {"threetap"}
          OBVIOUS
        <5> QED BY <2>1, <4>3, <5>1, <5>2, <5>3, <5>4, <5>5 DEF Narrowed
      <4>4. CASE n > 2
        <5>1. Excluded(n + 1) = Gestures
          BY <2>4, <4>4 DEF Excluded
        <5>2. state \in {{"twotap"}, {"threetap"}}
          BY <2>1, <2>4, <2>9, <4>1, <4>4 DEF Possible, Sure
        <5>3. state \ Gestures = NoGesture
          BY DEF GestureTypes, NoGesture
        <5> QED BY <2>1, <2>4, <4>4, <5>1, <5>2, <5>3 DEF Narrowed
      <4> QED BY <2>4, <3>2, <4>2, <4>3, <4>4
    <3> QED BY <3>1, <3>2
  <2>11. n >= 2 => ~longpress
    <3>1. longpress => n = 1
      BY DEF TimersFit, n
    <3> QED BY <2>4, <3>1
  <2>12. StatePossible'
    BY <1>1, <2>1, <2>4, <2>5, <2>10 DEF Narrowed, StatePossible, Possible, NoGesture
  <2>13. TimersFit'
    <3>1. longpress' => n = 0
      BY <2>1, <2>4, <2>11 DEF GestureTypes, TimersFit, n
    <3>2. twoTouch = "pending" => n >= 2 /\ state \in {NoGesture, {"twodrag", "pinch"}}
      BY DEF TimersFit, n
    <3>3. /\ {"twodrag", "pinch"} \notin {{"twotap"}, {"threetap"}}
          /\ {"twodrag", "pinch"} # {"twotap", "threetap", "twodrag", "pinch"}
      OBVIOUS
    <3>4. twoTouch = "pending" => state' = NoGesture
      BY <2>1, <2>4, <2>10, <3>2, <3>3 DEF Narrowed
    <3> QED BY <1>1, <2>4, <2>5, <2>10, <3>1, <3>2, <3>4 DEF Narrowed, TimersFit
  <2>14. GestureTypes'
    BY <1>1, <2>1, <2>5 DEF GestureTypes
  <2>15. ButtonsOf(state') = ButtonsOf(state)
    BY <2>10, ButtonsOfAre DEF Narrowed
  <2> QED BY <1>1, <2>6, <2>8, <2>12, <2>13, <2>14, <2>15 DEF Quiet
<1> QED BY <1>1, <1>2, <1>3

(* A step that leaves the fingers as they are *)
LEMMA SameFingers ==
  ASSUME GestureInv, tracked' \in Seq(Touch), DOMAIN tracked' = DOMAIN tracked,
         \A i \in DOMAIN tracked : /\ tracked'[i].id = tracked[i].id
                                   /\ tracked'[i].active = tracked[i].active,
         UNCHANGED <<ignored, waitingRelease, down>>
  PROVE  /\ AllAccounted' /\ Releasing'
         /\ Len(tracked') = Len(tracked) /\ (tracked' = <<>> <=> tracked = <<>>)
<1>1. /\ Len(tracked') = Len(tracked) /\ (tracked' = <<>> <=> tracked = <<>>)
      /\ Active(tracked') = Active(tracked) /\ (Distinct(tracked) => Distinct(tracked'))
      /\ (\E i \in DOMAIN tracked' : ~tracked'[i].active)
            <=> (\E i \in DOMAIN tracked : ~tracked[i].active)
  BY SameTouches DEF GestureInv, GestureTypes
<1>2. AllAccounted'
  BY <1>1 DEF AllAccounted, GestureInv
<1>3. Releasing'
  BY <1>1 DEF Releasing, GestureInv
<1> QED BY <1>1, <1>2, <1>3

(* Time changes ages only. *)
LEMMA ElapseFits ==
  ASSUME GestureInv, Elapse
  PROVE  GestureInv' /\ Quiet
<1> USE DEF GestureInv
<1>1. PICK ages \in [DOMAIN tracked -> Ages] :
        /\ tracked' = [i \in DOMAIN tracked |-> [tracked[i] EXCEPT !.age = ages[i]]]
        /\ events' = <<>>
        /\ UNCHANGED <<state, ignored, waitingRelease, longpress, twoTouch, down, thrown>>
  BY DEF Elapse
<1>2. DOMAIN tracked = 1..Len(tracked) /\ Len(tracked) \in Nat
      /\ \A i \in DOMAIN tracked : tracked[i] \in Touch
  BY DEF GestureTypes
<1>3. ASSUME NEW t \in Touch, NEW a \in Ages
      PROVE  LET u == [t EXCEPT !.age = a]
             IN  u \in Touch /\ u.id = t.id /\ u.active = t.active
  BY DEF Touch
<1>4. \A i \in DOMAIN tracked : /\ tracked'[i] \in Touch
                                /\ tracked'[i].id = tracked[i].id
                                /\ tracked'[i].active = tracked[i].active
  BY <1>1, <1>2, <1>3
<1>5. tracked' \in Seq(Touch) /\ DOMAIN tracked' = DOMAIN tracked
  <2>1. tracked' = [i \in 1..Len(tracked) |-> tracked'[i]]
    BY <1>1, <1>2
  <2>2. DOMAIN tracked' = DOMAIN tracked
    BY <1>1
  <2> QED BY <1>2, <1>4, <2>1, <2>2
<1>6. /\ AllAccounted' /\ Releasing'
      /\ Len(tracked') = Len(tracked) /\ (tracked' = <<>> <=> tracked = <<>>)
  BY <1>1, <1>4, <1>5, SameFingers
<1>7. GestureTypes' /\ AtRest' /\ StatePossible' /\ TimersFit'
  BY <1>1, <1>5, <1>6 DEF GestureTypes, AtRest, StatePossible, TimersFit
<1> QED BY <1>1, <1>6, <1>7 DEF Quiet

(* The longpress timer meets one undecided finger, and presses a button. *)
LEMMA LongpressFits ==
  ASSUME GestureInv, LongpressTimeout
  PROVE  GestureInv' /\ Presses
<1> USE DEF GestureInv
<1>1. Len(tracked) = 1 /\ state \in {Gestures, NoGesture} /\ longpress
  BY DEF LongpressTimeout, TimersFit
<1>2. ~Detected(state, tracked) /\ tracked # <<>>
  BY <1>1, DetectedAre DEF GestureTypes
<1>3. /\ state' = {"longpress"} /\ longpress' = FALSE
      /\ Dispatch(<<"gesturestart">>, {"longpress"}, tracked)
      /\ UNCHANGED <<tracked, ignored, waitingRelease, twoTouch, down, thrown>>
  BY <1>2 DEF LongpressTimeout
<1>4. ~waitingRelease
  <2>1. Gestures # NoGesture /\ Gestures # {"drag"} /\ Gestures # {"longpress"}
    BY DEF Gestures, Taps, NoGesture
  <2>2. Possible(state, 1, waitingRelease)
    BY <1>1, <1>2 DEF StatePossible
  <2> QED BY <1>1, <2>1, <2>2 DEF Possible
<1>5. GestureTypes'
  BY <1>3 DEF GestureTypes, Gestures
<1>6. AllAccounted' /\ AtRest' /\ Releasing'
  BY <1>2, <1>3 DEF AllAccounted, AtRest, Releasing
<1>7. StatePossible'
  BY <1>1, <1>3, <1>4 DEF StatePossible, Possible
<1>8. TimersFit'
  BY <1>1, <1>3 DEF TimersFit
<1>9. ButtonsOf(state) = {}
  BY <1>1, ButtonsOfAre
<1>10. \E e : events' = <<e>> /\ Is(e, "gesturestart", "longpress")
  BY <1>3, DispatchIs
<1> QED BY <1>3, <1>5, <1>6, <1>7, <1>8, <1>9, <1>10 DEF Presses

(* The two-finger timer meets undecided fingers, and begins a gesture. *)
LEMMA TwoTouchFits ==
  ASSUME GestureInv, TwoTouchTimeout
  PROVE  GestureInv' /\ Begins
<1> USE DEF GestureInv
<1>1. twoTouch = "pending" /\ Len(tracked) >= 2 /\ state \in {NoGesture, {"twodrag", "pinch"}}
  BY DEF TwoTouchTimeout, TimersFit
<1>2. tracked # <<>>
  BY <1>1 DEF GestureTypes
<1>3. PICK g \in {"pinch", "twodrag"} :
        /\ state' = {g} /\ twoTouch' = "fired"
        /\ Dispatch(<<"gesturestart", "gesturemove">>, {g}, tracked)
        /\ UNCHANGED <<tracked, ignored, waitingRelease, longpress, down, thrown>>
  <2> DEFINE wide == /\ 0 < Abs(FirstDistance(tracked) - LastDistance(tracked))
                     /\ Abs(AverageMovement(tracked)) < Abs(FirstDistance(tracked) - LastDistance(tracked))
             gesture == IF wide THEN {"pinch"} ELSE {"twodrag"}
  <2>1. /\ state' = gesture /\ twoTouch' = "fired"
        /\ Dispatch(<<"gesturestart", "gesturemove">>, gesture, tracked)
        /\ UNCHANGED <<tracked, ignored, waitingRelease, longpress, down, thrown>>
    BY <1>2 DEF TwoTouchTimeout
  <2>2. gesture = {"pinch"} \/ gesture = {"twodrag"}
    OBVIOUS
  <2> HIDE DEF gesture
  <2> QED BY <2>1, <2>2, Zenon
<1>4. GestureTypes'
  BY <1>3 DEF GestureTypes, Gestures
<1>5. AllAccounted' /\ AtRest' /\ Releasing'
  BY <1>2, <1>3 DEF AllAccounted, AtRest, Releasing
<1>6. StatePossible'
  BY <1>1, <1>3 DEF StatePossible, Possible
<1>7. TimersFit'
  <2>1. ~longpress
    BY <1>1 DEF TimersFit, GestureTypes
  <2> QED BY <1>3, <2>1 DEF TimersFit
<1>8. ButtonsOf(state) = {}
  BY <1>1, ButtonsOfAre
<1>9. \E d, e : events' = <<d, e>> /\ Is(d, "gesturestart", g) /\ Is(e, "gesturemove", g)
  BY <1>3, DispatchIs
<1>10. g \in Gestures \ Taps
  BY DEF Gestures, Taps
<1> QED BY <1>3, <1>4, <1>5, <1>6, <1>7, <1>8, <1>9, <1>10 DEF Begins

(* What n fingers may become once one of them moved far, or both did *)
Moved(n, s, t) ==
    \/ n = 1 /\ s = Gestures /\ t = {"drag"}
    \/ /\ n = 2 /\ s \in {{"twotap", "threetap", "twodrag", "pinch"}, {"twodrag", "pinch"}}
       /\ t \in {{"twodrag", "pinch"}, {"twodrag"}, {"pinch"}}
    \/ t = NoGesture

(* What a far move leaves of the gestures that are possible. *)
LEMMA AfterMoveIs ==
  ASSUME NEW ts, Len(ts) \in Nat, Len(ts) >= 1, NEW w, Possible(state, Len(ts), w), state \notin Sure,
         NEW t \in {AfterMove(ts)} \cup (IF Len(ts) = 2 THEN {AfterBothMoved(ts)} ELSE {})
  PROVE  Moved(Len(ts), state, t)
<1> DEFINE n == Len(ts)
           a == Taps \cup {"longpress"} \cup (IF n # 1 THEN {"drag"} ELSE {})
                     \cup (IF n # 2 THEN {"twodrag", "pinch"} ELSE {})
<1>1. AfterMove(ts) = state \ a
  BY DEF AfterMove
<1>2. CASE n = 1
  <2>1. a = Taps \cup {"longpress", "twodrag", "pinch"}
    BY <1>2
  <2>2. state = Gestures \/ state = NoGesture
    BY <1>2 DEF Possible, Sure
  <2>3. /\ Gestures \ (Taps \cup {"longpress", "twodrag", "pinch"}) = {"drag"}
        /\ NoGesture \ (Taps \cup {"longpress", "twodrag", "pinch"}) = NoGesture
    BY DEF Gestures, Taps, NoGesture
  <2>4. t = AfterMove(ts)
    BY <1>2
  <2> QED BY <1>1, <1>2, <2>1, <2>2, <2>3, <2>4 DEF Moved
<1>3. CASE n = 2
  <2> DEFINE b == Taps \cup {"longpress", "drag"}
  <2>1. a = b
    BY <1>3
  <2>2. state \in {NoGesture, {"twotap", "threetap", "twodrag", "pinch"}, {"twodrag", "pinch"},
                   {"twotap"}, {"threetap"}}
    BY <1>3 DEF Possible, Sure
  <2>3. /\ {"twotap", "threetap", "twodrag", "pinch"} \ b = {"twodrag", "pinch"}
        /\ {"twodrag", "pinch"} \ b = {"twodrag", "pinch"}
        /\ {"twotap"} \ b = NoGesture /\ {"threetap"} \ b = NoGesture
        /\ NoGesture \ b = NoGesture
    BY DEF Taps, NoGesture
  <2> HIDE DEF a, b
  <2>4. \/ /\ state \in {{"twotap", "threetap", "twodrag", "pinch"}, {"twodrag", "pinch"}}
           /\ AfterMove(ts) = {"twodrag", "pinch"}
        \/ AfterMove(ts) = NoGesture
    BY <1>1, <2>1, <2>2, <2>3
  <2>5. \/ AfterBothMoved(ts) = AfterMove(ts) \ {"pinch"}
        \/ AfterBothMoved(ts) = AfterMove(ts) \ {"twodrag"}
    BY DEF AfterBothMoved
  <2>6. /\ {"twodrag", "pinch"} \ {"pinch"} = {"twodrag"}
        /\ {"twodrag", "pinch"} \ {"twodrag"} = {"pinch"}
        /\ NoGesture \ {"pinch"} = NoGesture /\ NoGesture \ {"twodrag"} = NoGesture
    BY DEF NoGesture
  <2>7. t = AfterMove(ts) \/ t = AfterBothMoved(ts)
    BY <1>3
  <2>8. CASE AfterMove(ts) = NoGesture
    <3>1. t = NoGesture
      BY <2>5, <2>6, <2>7, <2>8
    <3> QED BY <3>1 DEF Moved
  <2>9. CASE AfterMove(ts) # NoGesture
    <3>1. AfterMove(ts) = {"twodrag", "pinch"}
          /\ state \in {{"twotap", "threetap", "twodrag", "pinch"}, {"twodrag", "pinch"}}
      BY <2>4, <2>9
    <3>2. t \in {{"twodrag", "pinch"}, {"twodrag"}, {"pinch"}}
      BY <2>5, <2>6, <2>7, <3>1
    <3> QED BY <1>3, <3>1, <3>2 DEF Moved
  <2> QED BY <2>8, <2>9
<1>4. CASE n # 1 /\ n # 2
  <2>1. a = Taps \cup {"longpress", "drag", "twodrag", "pinch"}
    BY <1>4
  <2>2. state \in {NoGesture, {"twotap"}, {"threetap"}}
    BY <1>4 DEF Possible, Sure
  <2>3. state \ a = NoGesture
    BY <2>1, <2>2 DEF Taps, NoGesture
  <2>4. t = AfterMove(ts)
    BY <1>4
  <2> QED BY <1>1, <2>3, <2>4 DEF Moved
<1> QED BY <1>2, <1>3, <1>4

(* A move continues the gesture, begins one, or rules some out. *)
LEMMA TouchMoveFits ==
  ASSUME GestureInv, NEW f \in Fingers, NEW x \in Coords, TouchMove(f, x)
  PROVE  GestureInv' /\ EventsFit
<1> USE DEF GestureInv
<1> DEFINE i == CHOOSE j \in DOMAIN tracked : tracked[j].id = f
           ts == [tracked EXCEPT ![i] = MovedTo(@, x)]
           near == Abs(x - ts[i].first) < MoveThreshold
           bothMoved == /\ Len(ts) = 2
                        /\ Abs(ts[3 - i].last - ts[3 - i].first) > MoveThreshold
           s == IF bothMoved THEN AfterBothMoved(ts) ELSE AfterMove(ts)
<1>1. /\ f \in TrackedIds
      /\ tracked' = ts
      /\ \/ /\ Detected(state, tracked)
            /\ Dispatch(<<"gesturemove">>, state, ts)
            /\ UNCHANGED <<state, longpress, twoTouch>>
         \/ /\ ~Detected(state, tracked) /\ near
            /\ events' = <<>>
            /\ UNCHANGED <<state, longpress, twoTouch>>
         \/ /\ ~Detected(state, tracked) /\ ~near
            /\ state' = s
            /\ longpress' = FALSE
            /\ twoTouch' = CASE bothMoved -> "null"
                             [] Len(ts) = 2 /\ ~bothMoved /\ twoTouch = "null" -> "pending"
                             [] OTHER -> twoTouch
            /\ IF Detected(s, ts)
                 THEN Dispatch(<<"gesturestart", "gesturemove">>, s, ts)
                 ELSE events' = <<>>
      /\ UNCHANGED <<ignored, waitingRelease, releaseAge, down, thrown>>
  BY DEF TouchMove
<1>2. i \in DOMAIN tracked
  BY <1>1, ActiveIdsAre DEF Ids
<1> HIDE DEF i, near
<1>3. tracked # <<>> /\ \A j \in DOMAIN tracked : tracked[j] \in Touch
  BY <1>2 DEF GestureTypes
<1>4. ASSUME NEW t \in Touch PROVE MovedTo(t, x) \in Touch /\ MovedTo(t, x).id = t.id
                                  /\ MovedTo(t, x).active = t.active
  BY DEF MovedTo, Touch
<1>5. ts \in Seq(Touch) /\ DOMAIN ts = DOMAIN tracked
      /\ \A j \in DOMAIN tracked : ts[j].id = tracked[j].id /\ ts[j].active = tracked[j].active
  BY <1>2, <1>3, <1>4 DEF GestureTypes
<1> HIDE DEF ts
<1>6. /\ AllAccounted' /\ Releasing' /\ tracked' # <<>> /\ Len(ts) = Len(tracked)
  BY <1>1, <1>3, <1>5, SameFingers
<1>7. Len(ts) \in Nat /\ Len(ts) >= 1
  BY <1>3, <1>6 DEF GestureTypes
<1>8. AtRest'
  BY <1>6 DEF AtRest
<1>9. ASSUME UNCHANGED <<state, longpress, twoTouch>> PROVE GestureInv'
  <2>1. GestureTypes'
    BY <1>1, <1>5, <1>9 DEF GestureTypes
  <2>2. Len(tracked') = Len(tracked)
    BY <1>1, <1>6
  <2>3. StatePossible'
    BY <1>1, <1>3, <1>9, <2>2 DEF StatePossible, Possible
  <2>4. TimersFit'
    <3> DEFINE k == Len(tracked)
    <3>1. /\ longpress => k = 1 /\ state \in {Gestures, NoGesture}
          /\ twoTouch = "pending" => k >= 2 /\ state \in {NoGesture, {"twodrag", "pinch"}}
      BY DEF TimersFit
    <3>2. Len(tracked') = k /\ longpress' = longpress /\ twoTouch' = twoTouch /\ state' = state
      BY <1>9, <2>2
    <3> HIDE DEF k
    <3>3. /\ longpress' => Len(tracked') = 1 /\ state' \in {Gestures, NoGesture}
          /\ twoTouch' = "pending" =>
                Len(tracked') >= 2 /\ state' \in {NoGesture, {"twodrag", "pinch"}}
      BY <3>1, <3>2
    <3> QED BY <3>3 DEF TimersFit
  <2> QED BY <1>1, <1>6, <1>8, <2>1, <2>3, <2>4
<1>10. CASE Detected(state, tracked)
  <2>1. state \in Sure /\ UNCHANGED <<state, longpress, twoTouch>>
        /\ Dispatch(<<"gesturemove">>, state, ts)
    BY <1>1, <1>10, KnownAre
  <2>2. PICK g \in Gestures \ Taps : state = {g}
    BY <2>1 DEF Sure, Gestures, Taps
  <2>3. \E e : events' = <<e>> /\ Is(e, "gesturemove", g)
    BY <2>1, <2>2, DispatchIs
  <2>4. Goes
    BY <2>1, <2>2, <2>3 DEF Goes
  <2> QED BY <1>9, <2>1, <2>4 DEF EventsFit
<1>11. CASE ~Detected(state, tracked) /\ near
  <2>1. UNCHANGED <<state, longpress, twoTouch>> /\ events' = <<>>
    BY <1>1, <1>11
  <2> QED BY <1>9, <2>1 DEF EventsFit, Quiet
<1>12. CASE ~Detected(state, tracked) /\ ~near
  <2>3. s \in {AfterMove(ts)} \cup (IF Len(ts) = 2 THEN {AfterBothMoved(ts)} ELSE {})
    OBVIOUS
  <2>4. (~bothMoved => s = AfterMove(ts)) /\ (bothMoved => Len(ts) = 2)
    OBVIOUS
  <2> HIDE DEF s, bothMoved
  <2>10. /\ state' = s /\ longpress' = FALSE
         /\ twoTouch' = CASE bothMoved -> "null"
                          [] Len(ts) = 2 /\ ~bothMoved /\ twoTouch = "null" -> "pending"
                          [] OTHER -> twoTouch
         /\ IF Detected(s, ts)
              THEN Dispatch(<<"gesturestart", "gesturemove">>, s, ts)
              ELSE events' = <<>>
    BY <1>1, <1>12, Zenon
  <2>1. /\ state \notin Sure /\ state' = s /\ longpress' = FALSE
        /\ \/ bothMoved /\ twoTouch' = "null"
           \/ Len(ts) = 2 /\ ~bothMoved /\ twoTouch' = "pending"
           \/ ~(Len(ts) = 2 /\ twoTouch = "null") /\ ~bothMoved /\ twoTouch' = twoTouch
        /\ Detected(s, ts) => Dispatch(<<"gesturestart", "gesturemove">>, s, ts)
        /\ ~Detected(s, ts) => events' = <<>>
    BY <2>10, <1>12, KnownAre, Zenon
  <2>2. Possible(state, Len(ts), waitingRelease)
    BY <1>3, <1>6 DEF StatePossible
  <2>5. Moved(Len(ts), state, s)
    BY <1>7, <2>1, <2>2, <2>3, AfterMoveIs
  <2>6. GestureTypes'
    <3>1. s \in SUBSET Gestures
      BY <2>5 DEF Moved, Gestures, Taps, NoGesture
    <3>2. twoTouch' \in {"null", "pending", "fired"}
      BY <2>1 DEF GestureTypes
    <3> QED BY <1>1, <1>5, <2>1, <3>1, <3>2 DEF GestureTypes
  <2>7. StatePossible'
    <3>1. waitingRelease => Len(ts) >= 2
      BY <1>7, <2>1, <2>2 DEF Possible, Sure
    <3>2. Possible(s, Len(ts), waitingRelease)
      <4>1. CASE s = NoGesture
        BY <3>1, <4>1 DEF Possible
      <4>2. CASE Len(ts) = 1 /\ s = {"drag"}
        BY <3>1, <4>2 DEF Possible
      <4>3. CASE Len(ts) = 2 /\ s \in {{"twodrag"}, {"pinch"}}
        BY <4>3 DEF Possible
      <4>4. CASE /\ Len(ts) = 2 /\ s = {"twodrag", "pinch"}
                 /\ state \in {{"twotap", "threetap", "twodrag", "pinch"}, {"twodrag", "pinch"}}
        <5>1. ~waitingRelease
          <6>1. \A q \in {{"twotap", "threetap", "twodrag", "pinch"}, {"twodrag", "pinch"}} :
                   q \notin {NoGesture, Gestures, {"drag"}, {"longpress"}, {"twotap"}, {"threetap"},
                             {"twodrag"}, {"pinch"}}
            BY DEF Gestures, Taps, NoGesture
          <6> QED BY <2>2, <4>4, <6>1 DEF Possible
        <5> QED BY <4>4, <5>1 DEF Possible
      <4> QED BY <2>5, <4>1, <4>2, <4>3, <4>4 DEF Moved
    <3> QED BY <1>1, <1>6, <2>1, <3>2 DEF StatePossible
  <2>8. TimersFit'
    <3> SUFFICES ASSUME twoTouch' = "pending"
                 PROVE  Len(ts) >= 2 /\ s \in {NoGesture, {"twodrag", "pinch"}}
      BY <1>1, <2>1 DEF TimersFit
    <3>9. \A k \in Nat : k >= 2 => k # 1
      OBVIOUS
    <3>1. ~bothMoved
      BY <2>1
    <3>2. Len(ts) >= 2
      BY <1>6, <1>7, <2>1, <3>1 DEF TimersFit
    <3>3. s = AfterMove(ts)
      BY <2>4, <3>1
    <3>4. {"twodrag"} # AfterMove(ts) /\ {"pinch"} # AfterMove(ts)
      <4>1. CASE Len(ts) # 2
        <5>1. Len(ts) # 1
          BY <1>7, <3>2, <3>9
        <5>2. AfterMove(ts) = NoGesture
          BY <2>5, <3>3, <4>1, <5>1 DEF Moved
        <5> QED BY <5>2 DEF NoGesture
      <4>2. CASE Len(ts) = 2
        <5>1. AfterMove(ts) = state \ (Taps \cup {"longpress", "drag"})
          BY <4>2 DEF AfterMove
        <5>2. "twodrag" \in state <=> "pinch" \in state
          BY <2>1, <2>2, <4>2 DEF Possible, Sure, NoGesture
        <5>3. "twodrag" \in AfterMove(ts) <=> "pinch" \in AfterMove(ts)
          BY <5>1, <5>2 DEF Taps
        <5> DEFINE A == AfterMove(ts)
        <5> HIDE DEF A
        <5>4. ("twodrag" \in A <=> "pinch" \in A) => {"twodrag"} # A /\ {"pinch"} # A
          OBVIOUS
        <5> QED BY <5>3, <5>4 DEF A
      <4> QED BY <4>1, <4>2
    <3>5. s # {"twodrag"} /\ s # {"pinch"}
      BY <3>3, <3>4
    <3>6. Len(ts) # 1
      BY <1>7, <3>2, <3>9
    <3> QED BY <2>5, <3>2, <3>5, <3>6 DEF Moved
  <2>9. ButtonsOf(state) = {}
    BY <2>1 DEF ButtonsOf, Sure
  <2>11. EventsFit
    <3>1. CASE s \in {{"drag"}, {"twodrag"}, {"pinch"}}
      <4>1. Detected(s, ts)
        BY <3>1, DetectedAre DEF Sure
      <4>2. PICK g \in Gestures \ Taps : s = {g}
        BY <3>1 DEF Gestures, Taps
      <4>3. \E d, e : events' = <<d, e>> /\ Is(d, "gesturestart", g) /\ Is(e, "gesturemove", g)
        <5>1. Dispatch(<<"gesturestart", "gesturemove">>, {g}, ts)
          BY <2>1, <4>1, <4>2
        <5> QED BY <5>1, DispatchIs
      <4> QED BY <2>1, <2>9, <4>2, <4>3 DEF EventsFit, Begins
    <3>2. CASE s \in {NoGesture, {"twodrag", "pinch"}}
      <4>1. ~Detected(s, ts)
        BY <3>2, DetectedAre
      <4>2. events' = <<>> /\ state' = s
        BY <2>1, <4>1
      <4>3. ButtonsOf(s) = {}
        BY <3>2, ButtonsOfAre
      <4> QED BY <2>9, <4>2, <4>3 DEF EventsFit, Quiet
    <3> QED BY <2>5, <3>1, <3>2 DEF Moved
  <2> QED BY <1>1, <1>6, <1>8, <2>6, <2>7, <2>8, <2>11
<1> QED BY <1>1, <1>10, <1>11, <1>12

(* What n fingers may still become once one of them is lifted *)
LEMMA RemainingIs ==
  ASSUME NEW n \in Nat, n = Len(tracked), n >= 1, state \notin Sure,
         Possible(state, n, waitingRelease)
  PROVE  \/ Remaining(state) = NoGesture
         \/ n = 1 /\ Remaining(state) = {"onetap"}
         \/ n >= 2 /\ Remaining(state) \in {{"twotap"}, {"threetap"}}
<1> DEFINE sure == {"drag", "twodrag", "pinch", "longpress"}
           few == IF waitingRelease THEN {}
                  ELSE CASE n = 1 -> {"twotap", "threetap"}
                         [] n = 2 -> {"onetap", "threetap"}
                         [] OTHER -> {}
<1>1. Remaining(state) = state \ (sure \cup few)
  BY DEF Remaining
<1>2. /\ few \in {{}, {"twotap", "threetap"}, {"onetap", "threetap"}}
      /\ waitingRelease => few = {}
      /\ n = 1 /\ ~waitingRelease => few = {"twotap", "threetap"}
      /\ n = 2 /\ ~waitingRelease => few = {"onetap", "threetap"}
      /\ n > 2 => few = {}
  OBVIOUS
<1> HIDE DEF few
<1>3. \/ state = NoGesture
      \/ state = Gestures /\ n = 1 /\ ~waitingRelease
      \/ state = {"twotap", "threetap", "twodrag", "pinch"} /\ n = 2 /\ ~waitingRelease
      \/ state = {"twodrag", "pinch"} /\ n = 2
      \/ state = {"twotap"} /\ n >= 2
      \/ state = {"threetap"} /\ n >= 2
  BY DEF Possible, Sure
<1>4. CASE state = NoGesture
  BY <1>1, <1>4 DEF NoGesture
<1>5. CASE state = Gestures /\ n = 1 /\ ~waitingRelease
  <2>1. Remaining(state) = Gestures \ (sure \cup {"twotap", "threetap"})
    BY <1>1, <1>2, <1>5
  <2>2. Gestures \ (sure \cup {"twotap", "threetap"}) = {"onetap"}
    BY DEF Gestures, Taps
  <2> QED BY <1>5, <2>1, <2>2
<1>6. CASE state = {"twotap", "threetap", "twodrag", "pinch"} /\ n = 2 /\ ~waitingRelease
  <2>1. Remaining(state) = {"twotap", "threetap", "twodrag", "pinch"} \ (sure \cup {"onetap", "threetap"})
    BY <1>1, <1>2, <1>6
  <2>2. {"twotap", "threetap", "twodrag", "pinch"} \ (sure \cup {"onetap", "threetap"}) = {"twotap"}
    OBVIOUS
  <2> QED BY <1>6, <2>1, <2>2
<1>7. CASE state = {"twodrag", "pinch"}
  BY <1>1, <1>7 DEF NoGesture
<1>8. CASE state = {"twotap"} /\ n >= 2
  <2>1. "twotap" \notin few
    BY <1>2, <1>8
  <2> QED BY <1>1, <1>8, <2>1
<1>9. CASE state = {"threetap"} /\ n >= 2
  <2>1. Remaining(state) = {"threetap"} \/ Remaining(state) = {}
    BY <1>1, <1>9
  <2> QED BY <1>9, <2>1 DEF NoGesture
<1> QED BY <1>3, <1>4, <1>5, <1>6, <1>7, <1>8, <1>9

(* The end of an ignored touch; the last one makes the handler ready. *)
LEMMA EndIgnoredFits ==
  ASSUME GestureInv, NEW f \in Fingers, EndIgnored(f), down' = down \ {f}, UNCHANGED thrown
  PROVE  GestureInv' /\ Quiet
<1> USE DEF GestureInv
<1>1. /\ f \in ignored /\ ignored' = ignored \ {f} /\ events' = <<>>
      /\ tracked' = tracked /\ longpress' = longpress /\ twoTouch' = twoTouch
      /\ IF ignored' = {} /\ tracked = <<>>
           THEN state' = Gestures /\ waitingRelease' = FALSE
           ELSE state' = state /\ waitingRelease' = waitingRelease
  BY DEF EndIgnored
<1>2. GestureTypes'
  BY <1>1 DEF GestureTypes
<1>3. AllAccounted'
  BY <1>1 DEF AllAccounted
<1>4. AtRest'
  BY <1>1 DEF AtRest
<1>5. CASE tracked = <<>>
  <2>1. ~longpress' /\ twoTouch' # "pending"
    <3>1. Len(tracked) = 0
      BY <1>5
    <3> QED BY <1>1, <3>1 DEF TimersFit
  <2>2. Releasing' /\ StatePossible' /\ TimersFit'
    BY <1>1, <1>5, <2>1 DEF Releasing, StatePossible, TimersFit
  <2>3. state \in {Gestures, NoGesture} /\ state' \in {Gestures, NoGesture}
    BY <1>1, <1>5 DEF AtRest
  <2>4. ButtonsOf(state') = ButtonsOf(state)
    BY <2>3, ButtonsOfAre
  <2> QED BY <1>1, <1>2, <1>3, <1>4, <2>2, <2>4 DEF Quiet
<1>6. CASE tracked # <<>>
  <2>1. state' = state /\ (waitingRelease' <=> waitingRelease)
    BY <1>1, <1>6
  <2>2. Releasing'
    BY <1>1, <2>1 DEF Releasing
  <2>3. StatePossible'
    BY <1>1, <2>1 DEF StatePossible, Possible
  <2>4. TimersFit'
    BY <1>1, <2>1 DEF TimersFit
  <2> QED BY <1>1, <1>2, <1>3, <1>4, <2>1, <2>2, <2>3, <2>4 DEF Quiet
<1> QED BY <1>5, <1>6

(* A lone finger is the only one to lift. *)
LEMMA LoneFinger ==
  ASSUME NEW ts \in Seq(Touch), NEW f \in Active(ts), Len(ts) = 1
  PROVE  \A i \in DOMAIN Lifted(ts, f) : ~Lifted(ts, f)[i].active
<1>1. DOMAIN ts = {1}
  OBVIOUS
<1>2. ts[1].id = f /\ ts[1] \in Touch
  <2>1. \E i \in DOMAIN ts : ts[i].id = f
    BY DEF Active
  <2>2. ts[1].id = f
    BY <1>1, <2>1
  <2>3. \A i \in DOMAIN ts : ts[i] \in Touch
    OBVIOUS
  <2> QED BY <1>1, <2>2, <2>3
<1>3. Lifted(ts, f)[1] = [ts[1] EXCEPT !.active = FALSE] /\ DOMAIN Lifted(ts, f) = {1}
  BY <1>1, <1>2 DEF Lifted
<1>4. ASSUME NEW t \in Touch PROVE ~[t EXCEPT !.active = FALSE].active
  BY DEF Touch
<1> QED BY <1>2, <1>3, <1>4

(* The end of a tracked touch ends the gesture, makes it a tap, leaves     *)
(* fewer gestures possible, or gives up.                                   *)
LEMMA EndTrackedFits ==
  ASSUME GestureInv, NEW f \in Fingers, EndTracked(f), down' = down \ {f}, UNCHANGED thrown
  PROVE  GestureInv' /\ EventsFit
<1> USE DEF GestureInv
<1> DEFINE known == Detected(state, tracked)
           cut == ~known /\ twoTouch # "null"
           s0 == IF cut THEN NoGesture ELSE state
           waiting == waitingRelease \/ ~known
           slow == \/ waitingRelease /\ releaseAge > 0
                   \/ \E i \in DOMAIN tracked : tracked[i].age > 1
           s == IF known THEN (IF waiting /\ slow THEN NoGesture ELSE s0)
                ELSE IF slow THEN NoGesture ELSE Remaining(s0)
           ts == [i \in DOMAIN tracked |->
                   IF waiting /\ tracked[i].id = f THEN [tracked[i] EXCEPT !.active = FALSE]
                   ELSE tracked[i]]
           types == CASE waiting /\ Detected(s, ts) -> <<"gesturestart", "gestureend">>
                      [] ~waiting /\ Detected(s, ts) -> <<"gestureend">>
                      [] OTHER -> <<>>
<1>1. /\ f \in ActiveIds \ ignored
      /\ longpress' = (longpress /\ known)
      /\ twoTouch' = IF cut THEN "null" ELSE twoTouch
      /\ \/ /\ waiting /\ ~Detected(s, ts) /\ s # NoGesture
            /\ state' = s
            /\ tracked' = ts
            /\ waitingRelease' = TRUE
            /\ events' = <<>>
            /\ ignored' = ignored
         \/ /\ ~waiting \/ Detected(s, ts) \/ s = NoGesture
            /\ Finish(f, types, s, ts)
            /\ waitingRelease' = (waiting /\ ignored' # {})
  BY DEF EndTracked, LongpressAfterEnd
<1>2. f \in Active(tracked) /\ f \notin ignored /\ tracked # <<>>
  BY <1>1, ActiveIdsAre DEF Active
<1>3. waiting => ts = Lifted(tracked, f)
  BY DEF Lifted
<1>4. /\ known => (s = NoGesture \/ s = state) /\ (~waiting => s = state)
      /\ ~known => (s = NoGesture \/ (~cut /\ s = Remaining(state)))
  <2>1. Remaining(NoGesture) = NoGesture
    BY DEF Remaining, NoGesture
  <2> QED BY <2>1
<1>5. /\ waiting /\ Detected(s, ts) => types = <<"gesturestart", "gestureend">>
      /\ ~waiting /\ Detected(s, ts) => types = <<"gestureend">>
      /\ ~Detected(s, ts) => types = <<>>
  OBVIOUS
<1>6. (known <=> state \in Sure) /\ (waiting <=> waitingRelease \/ ~known)
  BY KnownAre
<1>7. cut <=> ~known /\ twoTouch # "null"
  OBVIOUS
<1> HIDE DEF s, ts, types, waiting, known, cut
<1>8. Possible(state, Len(tracked), waitingRelease) /\ Len(tracked) \in Nat /\ Len(tracked) >= 1
  BY <1>2 DEF StatePossible, GestureTypes
<1>9. ~longpress' /\ twoTouch' # "pending" /\ twoTouch' \in {"null", "pending", "fired"}
      /\ longpress' \in BOOLEAN
  <2>1. /\ Gestures \notin Sure /\ NoGesture \notin Sure /\ {"twodrag", "pinch"} \notin Sure
    BY DEF Gestures, Taps, NoGesture, Sure
  <2>2. longpress => ~known
    BY <1>6, <2>1 DEF TimersFit
  <2>3. twoTouch = "pending" => cut
    BY <1>6, <1>7, <2>1 DEF TimersFit
  <2> QED BY <1>1, <2>2, <2>3 DEF GestureTypes
<1>10. TimersFit'
  BY <1>9 DEF TimersFit
<1>11. ~known => \/ s = NoGesture
                 \/ Len(tracked) = 1 /\ s = {"onetap"}
                 \/ Len(tracked) >= 2 /\ s \in {{"twotap"}, {"threetap"}}
  BY <1>4, <1>6, <1>8, RemainingIs
<1>12. ~known => ButtonsOf(state) = {}
  <2> SUFFICES ASSUME ~known PROVE ButtonsOf(state) = {}
    OBVIOUS
  <2>1. state \notin Sure
    BY <1>6
  <2> QED BY <2>1 DEF ButtonsOf, Sure
<1>13. waiting /\ known => state \in {{"twodrag"}, {"pinch"}}
  <2> SUFFICES ASSUME waiting, known PROVE state \in {{"twodrag"}, {"pinch"}}
    OBVIOUS
  <2>1. waitingRelease /\ state \in Sure
    BY <1>6
  <2>2. Gestures \notin Sure /\ NoGesture \notin Sure
    BY DEF Gestures, Taps, NoGesture, Sure
  <2> QED BY <1>8, <2>1, <2>2 DEF Possible, Sure
<1>14. CASE /\ waiting /\ ~Detected(s, ts) /\ s # NoGesture
            /\ state' = s /\ tracked' = ts /\ waitingRelease' = TRUE
            /\ events' = <<>> /\ ignored' = ignored
  <2>1. ~known
    BY <1>4, <1>6, <1>14, DetectedAre
  <2>2. ts = Lifted(tracked, f)
    BY <1>3, <1>14
  <2>3. Len(tracked) >= 2 /\ s \in {{"twotap"}, {"threetap"}}
    <3>1. ~(Len(tracked) = 1 /\ s = {"onetap"})
      BY <1>2, <1>14, <2>2, LoneFinger, DetectedAre DEF GestureTypes, Taps
    <3> QED BY <1>11, <1>14, <2>1, <3>1
  <2>4. /\ ts \in Seq(Touch) /\ Len(ts) = Len(tracked) /\ ts # <<>>
        /\ Active(ts) = Active(tracked) \ {f} /\ Distinct(ts)
        /\ \E i \in DOMAIN ts : ~ts[i].active
    BY <1>2, <2>2, LiftedIs DEF GestureTypes, AllAccounted
  <2>5. Active(ts) # {}
    <3> SUFFICES ASSUME Active(ts) = {} PROVE FALSE
      OBVIOUS
    <3>1. \A i \in DOMAIN ts : ~ts[i].active
      BY DEF Active
    <3>2. Detected(s, ts)
      BY <2>3, <3>1, DetectedAre DEF Taps
    <3> QED BY <1>14, <3>2
  <2>6. GestureTypes'
    <3>1. s \in SUBSET Gestures
      BY <2>3 DEF Gestures, Taps
    <3> QED BY <1>9, <1>14, <2>4, <3>1 DEF GestureTypes
  <2>7. AllAccounted' /\ AtRest' /\ Releasing'
    BY <1>2, <1>14, <2>4, <2>5 DEF AllAccounted, AtRest, Releasing
  <2>8. StatePossible'
    BY <1>14, <2>3, <2>4 DEF StatePossible, Possible
  <2>9. Quiet
    BY <1>12, <1>14, <2>1, <2>3, ButtonsOfAre DEF Quiet
  <2> QED BY <1>10, <2>6, <2>7, <2>8, <2>9 DEF EventsFit
<1>15. CASE /\ ~waiting \/ Detected(s, ts) \/ s = NoGesture
            /\ Finish(f, types, s, ts)
            /\ waitingRelease' = (waiting /\ ignored' # {})
  <2>1. /\ Dispatch(types, s, ts) /\ tracked' = <<>> /\ ignored' = down'
        /\ state' = IF ignored' = {} THEN Gestures ELSE NoGesture
    BY <1>15, ActiveIdsAre DEF Finish, LeftDown, AllAccounted
  <2>2. GestureTypes'
    <3>1. <<>> \in Seq(Touch)
      OBVIOUS
    <3>2. waitingRelease' \in BOOLEAN
      BY <1>15
    <3>3. state' \in SUBSET Gestures
      BY <2>1 DEF NoGesture
    <3> QED BY <1>9, <2>1, <3>1, <3>2, <3>3 DEF GestureTypes
  <2>3. Active(<<>>) = {} /\ Distinct(<<>>)
    BY DEF Active, Distinct
  <2>4. AllAccounted' /\ AtRest' /\ Releasing' /\ StatePossible'
    BY <1>15, <2>1, <2>3 DEF AllAccounted, AtRest, Releasing, StatePossible
  <2>5. ButtonsOf(state') = {}
    BY <2>1, ButtonsOfAre
  <2>6. ASSUME ~Detected(s, ts)
        PROVE  EventsFit
    <3>1. events' = <<>>
      BY <1>5, <2>1, <2>6, DispatchIs
    <3>2. ~known \/ waiting
      <4>2. known /\ ~waiting => Detected(s, ts)
        BY <1>4, <1>6, DetectedAre
      <4> QED BY <2>6, <4>2
    <3>3. ButtonsOf(state) = {}
      <4>1. CASE ~known
        BY <1>12, <4>1
      <4>2. CASE known
        <5>1. state \in {{"twodrag"}, {"pinch"}}
          BY <1>13, <3>2, <4>2
        <5> QED BY <5>1, ButtonsOfAre
      <4> QED BY <4>1, <4>2
    <3>4. Quiet
      BY <2>5, <3>1, <3>3 DEF Quiet
    <3> QED BY <3>4 DEF EventsFit
  <2>7. ASSUME Detected(s, ts) /\ waiting
        PROVE  EventsFit
    <3>1. s # NoGesture
      BY <2>7, DetectedAre
    <3>2. s \in {{"onetap"}, {"twotap"}, {"threetap"}, {"twodrag"}, {"pinch"}}
      BY <1>4, <1>11, <1>13, <2>7, <3>1
    <3>3. PICK g \in Gestures \ {"drag", "longpress"} : s = {g}
      BY <3>2 DEF Gestures, Taps
    <3>4. Dispatch(<<"gesturestart", "gestureend">>, {g}, ts)
      BY <1>5, <2>1, <2>7, <3>3
    <3>5. \E d, e : events' = <<d, e>> /\ Is(d, "gesturestart", g) /\ Is(e, "gestureend", g)
      BY <3>4, DispatchIs
    <3>6. ButtonsOf(state) = {}
      <4>1. CASE ~known
        BY <1>12, <4>1
      <4>2. CASE known
        <5>1. state \in {{"twodrag"}, {"pinch"}}
          BY <1>13, <2>7, <4>2
        <5> QED BY <5>1, ButtonsOfAre
      <4> QED BY <4>1, <4>2
    <3>7. Clicks
      BY <2>5, <3>5, <3>6 DEF Clicks
    <3> QED BY <3>7 DEF EventsFit
  <2>8. ASSUME Detected(s, ts) /\ ~waiting
        PROVE  EventsFit
    <3>1. state \in Sure /\ s = state
      BY <1>4, <1>6, <2>8
    <3>2. PICK g \in Gestures : state = {g}
      BY <3>1 DEF Sure, Gestures, Taps
    <3>3. Dispatch(<<"gestureend">>, {g}, ts)
      BY <1>5, <2>1, <2>8, <3>1, <3>2
    <3>4. \E e : events' = <<e>> /\ Is(e, "gestureend", g)
      BY <3>3, DispatchIs
    <3>5. Ends
      BY <2>5, <3>2, <3>4 DEF Ends
    <3> QED BY <3>5 DEF EventsFit
  <2>9. EventsFit
    BY <2>6, <2>7, <2>8
  <2> QED BY <1>10, <2>2, <2>4, <2>9
<1> QED BY <1>1, <1>14, <1>15, Zenon

(* Either way what begins with the end of a touch ends with it. *)
LEMMA TouchEndFits ==
  ASSUME GestureInv, NEW f \in Fingers, TouchEnd(f)
  PROVE  GestureInv' /\ EventsFit
BY EndIgnoredFits, EndTrackedFits DEF TouchEnd, EventsFit

-----------------------------------------------------------------------------
(* The events of a step are handled in order; there are at most two. *)
Handled(w, es) == FoldLeft(HandleGesture, w, es)

(* No event leaves the viewer as it is. *)
LEMMA FoldNone ==
  ASSUME NEW w
  PROVE  Handled(w, <<>>) = w
<1> DEFINE D == DOMAIN <<>>
           Def(g) == [S \in SUBSET D |-> IF S = {} THEN w
                        ELSE HandleGesture(g[S \ {Max(S)}], <<>>[Max(S)])]
           iter == CHOOSE g : g = Def(g)
           h == [S \in SUBSET D |-> w]
<1>1. D = {} 
  OBVIOUS
<1>2. Handled(w, <<>>) = iter[D]
  BY DEF Handled, FoldLeft, MapThenFoldSet
<1>3. h = Def(h)
  BY <1>1
<1>4. iter = Def(iter)
  BY <1>3
<1> HIDE DEF iter
<1> QED BY <1>1, <1>2, <1>4

(* One event is handled. *)
LEMMA FoldOne ==
  ASSUME NEW w, NEW e
  PROVE  Handled(w, <<e>>) = HandleGesture(w, e)
<1> DEFINE D == DOMAIN <<e>>
           Def(g) == [S \in SUBSET D |-> IF S = {} THEN w
                        ELSE HandleGesture(g[S \ {Max(S)}], <<e>>[Max(S)])]
           iter == CHOOSE g : g = Def(g)
           val(S) == IF S = {} THEN w ELSE HandleGesture(w, e)
           h == [S \in SUBSET D |-> val(S)]
<1>1. D = {1} /\ <<e>>[1] = e
  OBVIOUS
<1>2. Handled(w, <<e>>) = iter[D]
  BY DEF Handled, FoldLeft, MapThenFoldSet
<1>3. Max({1}) = 1
  BY DEF Max
<1>4. ASSUME NEW S \in SUBSET D
      PROVE  h[S] = IF S = {} THEN w
                    ELSE HandleGesture(h[S \ {Max(S)}], <<e>>[Max(S)])
  <2>1. CASE S = {}
    BY <2>1
  <2>2. CASE S = {1}
    <3>1. S \ {Max(S)} = {}
      BY <2>2, <1>3
    <3> QED BY <2>2, <1>1, <1>3, <3>1
  <2> QED BY <1>1, <2>1, <2>2
<1> HIDE DEF h, D
<1>5. h = Def(h)
  <2>1. h = [S \in SUBSET D |-> h[S]]
    BY DEF h
  <2> QED BY <1>4, <2>1
<1> HIDE DEF Def
<1>6. iter = Def(iter)
  BY <1>5
<1> HIDE DEF iter
<1>7. \A S \in SUBSET D : iter[S] = IF S = {} THEN w
                           ELSE HandleGesture(iter[S \ {Max(S)}], <<e>>[Max(S)])
  BY <1>6 DEF Def
<1>8. iter[{}] = w
  BY <1>7
<1>9. D # {} /\ D \ {Max(D)} = {} /\ Max(D) = 1
  BY <1>1, <1>3
<1> QED BY <1>1, <1>2, <1>7, <1>8, <1>9

(* Of two events the second one meets what the first one left. *)
LEMMA FoldTwo ==
  ASSUME NEW w, NEW e1, NEW e2
  PROVE  Handled(w, <<e1, e2>>) = HandleGesture(HandleGesture(w, e1), e2)
<1> DEFINE D == DOMAIN <<e1, e2>>
           Def(g) == [S \in SUBSET D |-> IF S = {} THEN w
                        ELSE HandleGesture(g[S \ {Max(S)}], <<e1, e2>>[Max(S)])]
           iter == CHOOSE g : g = Def(g)
           val(S) == CASE S = {} -> w
                       [] S = {1} -> HandleGesture(w, e1)
                       [] S = {2} -> HandleGesture(w, e2)
                       [] OTHER -> HandleGesture(HandleGesture(w, e1), e2)
           h == [S \in SUBSET D |-> val(S)]
<1>1. D = {1, 2} /\ <<e1, e2>>[1] = e1 /\ <<e1, e2>>[2] = e2
  OBVIOUS
<1>2. Handled(w, <<e1, e2>>) = iter[D]
  BY DEF Handled, FoldLeft, MapThenFoldSet
<1>3. Max({1}) = 1 /\ Max({2}) = 2 /\ Max({1, 2}) = 2
  <2>1. Max({1}) = 1 BY DEF Max
  <2>2. Max({2}) = 2 BY DEF Max
  <2>3. Max({1, 2}) = 2 BY DEF Max
  <2> QED BY <2>1, <2>2, <2>3
<1>4. ASSUME NEW S \in SUBSET D
      PROVE  S = {} \/ S = {1} \/ S = {2} \/ S = {1, 2}
  BY <1>1
<1>5. ASSUME NEW S \in SUBSET D
      PROVE  h[S] = IF S = {} THEN w
                        ELSE HandleGesture(h[S \ {Max(S)}], <<e1, e2>>[Max(S)])
  <2>1. CASE S = {} BY <2>1
  <2>2. CASE S = {1} 
    <3>1. S \ {Max(S)} = {} BY <2>2, <1>3
    <3> QED BY <2>2, <1>1, <1>3, <3>1
  <2>3. CASE S = {2} 
    <3>1. S \ {Max(S)} = {} BY <2>3, <1>3
    <3> QED BY <2>3, <1>1, <1>3, <3>1
  <2>4. CASE S = {1, 2}
    <3>1. S \ {Max(S)} = {1} BY <2>4, <1>3
    <3>2. {1} \in SUBSET D BY <1>1
    <3>3. h[{1}] = HandleGesture(w, e1) BY <3>2
    <3>4. h[S] = HandleGesture(HandleGesture(w, e1), e2) BY <2>4
    <3> QED BY <2>4, <1>1, <1>3, <3>1, <3>3, <3>4
  <2> QED BY <1>4, <2>1, <2>2, <2>3, <2>4
<1> HIDE DEF h, D
<1>6. h = Def(h)
  <2>1. h = [S \in SUBSET D |-> h[S]] BY DEF h
  <2> QED BY <1>5, <2>1
<1> HIDE DEF Def
<1>7. iter = Def(iter)
  BY <1>6
<1> HIDE DEF iter
<1>8. \A S \in SUBSET D : iter[S] = IF S = {} THEN w
                        ELSE HandleGesture(iter[S \ {Max(S)}], <<e1, e2>>[Max(S)])
  BY <1>7 DEF Def
<1>9. iter[{}] = w
  BY <1>8
<1>10. iter[{1}] = HandleGesture(w, e1)
  <2>1. {1} \in SUBSET D /\ {1} # {} /\ {1} \ {Max({1})} = {} BY <1>1, <1>3
  <2> QED BY <1>1, <1>3, <1>8, <1>9, <2>1
<1>11. iter[D] = HandleGesture(HandleGesture(w, e1), e2)
  <2>1. D # {} /\ D \ {Max(D)} = {1} /\ Max(D) = 2 BY <1>1, <1>3
  <2> QED BY <1>1, <1>8, <1>10, <2>1
<1> QED BY <1>2, <1>11

-----------------------------------------------------------------------------
Fields == DOMAIN Viewer("other", FALSE)

(* The fields of the viewer. *)
LEMMA FieldsAre ==
  Fields = {"connected", "viewOnly", "dragViewport", "platform", "mask", "dragging", "dragPos",
            "moved", "pos", "timer", "recent", "wheel", "lastTap", "magnitude", "captured",
            "shown", "recheck", "keys", "armed", "late", "srvX", "srvMask", "srvKeys"}
  BY DEF Fields, Viewer

(* What the handlers of the pointer leave alone *)
Settings(w) == <<w.connected, w.viewOnly, w.dragViewport, w.captured>>

(* The user's pointer is sent to the server, and moves the remote one. *)
Live(w) == DOMAIN w = Fields /\ w.connected /\ ~w.viewOnly
Plain(w) == Live(w) /\ ~w.dragViewport /\ ~w.dragging

(* The two directions of a button and of a key, as operators of their own *)
PressButton(w, x, b) == HandleMouseButton(w, x, TRUE, b)
ReleaseButton(w, x, b) == HandleMouseButton(w, x, FALSE, b)
SendDown(w, keysym) == SendKey(w, keysym, TRUE)
SendUp(w, keysym) == SendKey(w, keysym, FALSE)

(* A press that no drag of the viewport takes is sent, with its button. *)
LEMMA PressPlain ==
  ASSUME NEW w, Plain(w), NEW x, NEW b
  PROVE  LET z == PressButton(w, x, b)
         IN  /\ Plain(z) /\ Settings(z) = Settings(w)
             /\ z.dragPos = w.dragPos /\ z.pos = w.pos /\ z.shown = w.shown /\ z.recheck = w.recheck
             /\ ~z.timer /\ z.srvX = x /\ z.srvMask = z.mask
             /\ z.mask = w.mask \cup {b}
  BY FieldsAre DEF PressButton, ReleaseButton, HandleMouseButton, SendMouse, PointerEvent,
                   Settings, Plain, Live

(* So is a release. *)
LEMMA ReleasePlain ==
  ASSUME NEW w, Plain(w), NEW x, NEW b
  PROVE  LET z == ReleaseButton(w, x, b)
         IN  /\ Plain(z) /\ Settings(z) = Settings(w)
             /\ z.dragPos = w.dragPos /\ z.pos = w.pos /\ z.shown = w.shown /\ z.recheck = w.recheck
             /\ ~z.timer /\ z.srvX = x /\ z.srvMask = z.mask
             /\ z.mask = w.mask \ {b}
  BY FieldsAre DEF PressButton, ReleaseButton, HandleMouseButton, SendMouse, PointerEvent,
                   Settings, Plain, Live

(* With the viewport to be dragged a press starts the drag. *)
LEMMA ButtonGrab ==
  ASSUME NEW w, Live(w), w.dragViewport, ~w.dragging, NEW x, NEW b
  PROVE  LET z == PressButton(w, x, b)
         IN  /\ DOMAIN z = Fields /\ Settings(z) = Settings(w)
             /\ z.dragging /\ z.dragPos = x /\ z.mask = w.mask /\ z.srvMask = w.srvMask
             /\ z.shown = w.shown /\ z.recheck = w.recheck
  BY FieldsAre DEF PressButton, ReleaseButton, HandleMouseButton, SendMouse, PointerEvent,
                   Settings, Live

(* The release ends it, and leaves no button pressed. *)
LEMMA ButtonDrop ==
  ASSUME NEW w, Live(w), w.dragViewport, NEW x, NEW b, w.srvMask = w.mask, w.mask = {}
  PROVE  LET z == ReleaseButton(w, x, b)
         IN  /\ DOMAIN z = Fields /\ Settings(z) = Settings(w)
             /\ ~z.dragging /\ z.dragPos = w.dragPos /\ z.mask = {} /\ z.srvMask = {}
             /\ z.shown = w.shown /\ z.recheck = w.recheck
  BY FieldsAre DEF PressButton, ReleaseButton, HandleMouseButton, SendMouse, PointerEvent,
                   Settings, Live

(* A click leaves the button up, at the place of the click. *)
LEMMA ClickPlain ==
  ASSUME NEW w, Plain(w), NEW x, NEW b
  PROVE  LET z == Click(w, x, b)
         IN  /\ Plain(z) /\ Settings(z) = Settings(w)
             /\ z.dragPos = w.dragPos /\ z.pos = w.pos /\ z.shown = w.shown /\ z.recheck = w.recheck
             /\ ~z.timer /\ z.srvX = x /\ z.srvMask = z.mask
             /\ z.mask = w.mask \ {b}
<1> DEFINE p == PressButton(w, x, b)
           z == ReleaseButton(p, x, b)
<1>1. /\ Plain(p) /\ Settings(p) = Settings(w)
      /\ p.dragPos = w.dragPos /\ p.pos = w.pos /\ p.shown = w.shown /\ p.recheck = w.recheck
      /\ p.mask = w.mask \cup {b}
  BY PressPlain
<1>2. Click(w, x, b) = z
  BY DEF Click, PressButton, ReleaseButton
<1> HIDE DEF p
<1>3. /\ Plain(z) /\ Settings(z) = Settings(p)
      /\ z.dragPos = p.dragPos /\ z.pos = p.pos /\ z.shown = p.shown /\ z.recheck = p.recheck
      /\ ~z.timer /\ z.srvX = x /\ z.srvMask = z.mask
      /\ z.mask = p.mask \ {b}
  BY <1>1, ReleasePlain
<1>4. z.mask = w.mask \ {b}
  BY <1>1, <1>3
<1> HIDE DEF z
<1> QED BY <1>1, <1>2, <1>3, <1>4

(* With the viewport to be dragged a click drags it by nothing. *)
LEMMA ClickDrag ==
  ASSUME NEW w, Live(w), w.dragViewport, ~w.dragging, NEW x, NEW b, w.srvMask = w.mask, w.mask = {}
  PROVE  LET z == Click(w, x, b)
         IN  /\ DOMAIN z = Fields /\ Settings(z) = Settings(w)
             /\ ~z.dragging /\ z.dragPos = x /\ z.mask = {} /\ z.srvMask = {}
             /\ z.shown = w.shown /\ z.recheck = w.recheck
<1> DEFINE p == PressButton(w, x, b)
           z == ReleaseButton(p, x, b)
<1>1. /\ DOMAIN p = Fields /\ Settings(p) = Settings(w)
      /\ p.dragPos = x /\ p.mask = {} /\ p.srvMask = {}
      /\ p.shown = w.shown /\ p.recheck = w.recheck
  BY ButtonGrab
<1>2. Click(w, x, b) = z
  BY DEF Click, PressButton, ReleaseButton
<1>3. Live(p) /\ p.dragViewport
  BY <1>1 DEF Settings, Live
<1> HIDE DEF p
<1>4. /\ DOMAIN z = Fields /\ Settings(z) = Settings(p)
      /\ ~z.dragging /\ z.dragPos = p.dragPos /\ z.mask = {} /\ z.srvMask = {}
      /\ z.shown = p.shown /\ z.recheck = p.recheck
  BY <1>1, <1>3, ButtonDrop
<1> HIDE DEF z
<1> QED BY <1>1, <1>2, <1>4

(* A move is sent, or waits for its timer with the new place. *)
LEMMA MovePlain ==
  ASSUME NEW w, Plain(w), NEW x, w.srvMask = w.mask
  PROVE  LET z == HandleMouseMove(w, x)
         IN  /\ Plain(z) /\ Settings(z) = Settings(w)
             /\ z.dragPos = w.dragPos /\ z.pos = x /\ z.shown = w.shown /\ z.recheck = w.recheck
             /\ (~z.timer => z.srvX = x) /\ z.srvMask = z.mask
             /\ z.mask = w.mask
  BY FieldsAre DEF HandleMouseMove, SendMouse, PointerEvent, Settings, Plain, Live

(* No move changes a button. *)
LEMMA MoveDrag ==
  ASSUME NEW w, DOMAIN w = Fields, NEW x, w.srvMask = w.mask
  PROVE  LET z == HandleMouseMove(w, x)
         IN  /\ DOMAIN z = Fields /\ Settings(z) = Settings(w)
             /\ z.dragging = w.dragging /\ z.dragPos \in {w.dragPos, x}
             /\ z.mask = w.mask /\ z.srvMask = w.mask
             /\ z.shown = w.shown /\ z.recheck = w.recheck
  BY FieldsAre DEF HandleMouseMove, SendMouse, PointerEvent, Settings

(* The delayed move sends the place and the buttons of now. *)
LEMMA DelayedMoveIs ==
  ASSUME NEW w, DOMAIN w = Fields, w.srvMask = w.mask
  PROVE  LET z == HandleDelayedMouseMove(w)
         IN  /\ DOMAIN z = Fields /\ Settings(z) = Settings(w)
             /\ z.dragging = w.dragging /\ z.dragPos = w.dragPos
             /\ z.mask = w.mask /\ z.srvMask = w.mask /\ z.pos = w.pos
             /\ (Live(w) => z.srvX = z.pos)
             /\ z.shown = w.shown /\ z.recheck = w.recheck
  BY FieldsAre DEF HandleDelayedMouseMove, SendMouse, PointerEvent, Settings, Live

-----------------------------------------------------------------------------
(* Gestures *)

(* The viewer's pointer is the server's, but for a move that waits. *)
Synced(w) == w.srvMask = w.mask /\ (~w.timer => w.srvX = w.pos)
SamePlain(z, w) == Plain(z) /\ Settings(z) = Settings(w) /\ z.dragPos = w.dragPos

(* The move before a gesture's event. *)
LEMMA FakeMoveIs ==
  ASSUME NEW w, Plain(w), w.srvMask = w.mask, NEW x
  PROVE  LET z == FakeMouseMove(w, x)
         IN  SamePlain(z, w) /\ Synced(z) /\ z.pos = x /\ z.mask = w.mask
<1> DEFINE m == HandleMouseMove(w, x)
<1>1. /\ Plain(m) /\ Settings(m) = Settings(w)
      /\ m.dragPos = w.dragPos /\ m.pos = x
      /\ (~m.timer => m.srvX = x) /\ m.srvMask = m.mask /\ m.mask = w.mask
  BY MovePlain
<1>2. FakeMouseMove(w, x) = [m EXCEPT !.shown = TRUE]
  BY DEF FakeMouseMove
<1> HIDE DEF m
<1> QED BY <1>1, <1>2, FieldsAre DEF SamePlain, Synced, Plain, Live, Settings

(* A press after its move. *)
LEMMA PressIs ==
  ASSUME NEW w, Plain(w), w.srvMask = w.mask, NEW x, NEW b
  PROVE  LET z == PressButton(FakeMouseMove(w, x), x, b)
         IN  SamePlain(z, w) /\ Synced(z) /\ z.mask = w.mask \cup {b}
<1> DEFINE m == FakeMouseMove(w, x)
           z == PressButton(m, x, b)
<1>1. SamePlain(m, w) /\ m.pos = x /\ m.mask = w.mask
  BY FakeMoveIs
<1> HIDE DEF m
<1>2. /\ Plain(z) /\ Settings(z) = Settings(m) /\ z.dragPos = m.dragPos /\ z.pos = m.pos
      /\ ~z.timer /\ z.srvX = x /\ z.srvMask = z.mask
      /\ z.mask = m.mask \cup {b}
  BY <1>1, PressPlain DEF SamePlain
<1> HIDE DEF z
<1> QED BY <1>1, <1>2 DEF SamePlain, Synced, m, z

(* A release after its move. *)
LEMMA ReleaseIs ==
  ASSUME NEW w, Plain(w), w.srvMask = w.mask, NEW x, NEW b
  PROVE  LET z == ReleaseButton(FakeMouseMove(w, x), x, b)
         IN  SamePlain(z, w) /\ Synced(z) /\ z.mask = w.mask \ {b}
<1> DEFINE m == FakeMouseMove(w, x)
           z == ReleaseButton(m, x, b)
<1>1. SamePlain(m, w) /\ m.pos = x /\ m.mask = w.mask
  BY FakeMoveIs
<1> HIDE DEF m
<1>2. /\ Plain(z) /\ Settings(z) = Settings(m) /\ z.dragPos = m.dragPos /\ z.pos = m.pos
      /\ ~z.timer /\ z.srvX = x /\ z.srvMask = z.mask
      /\ z.mask = m.mask \ {b}
  BY <1>1, ReleasePlain DEF SamePlain
<1> HIDE DEF z
<1> QED BY <1>1, <1>2 DEF SamePlain, Synced, m, z

(* The wheel's clicks of a two-finger gesture leave no button. *)
LEMMA ScrollIs ==
  ASSUME NEW w, Plain(w), Synced(w), w.mask = {}, NEW ev, w.pos = ev.x, NEW sens
  PROVE  LET z == Scroll(w, ev, sens)
         IN  SamePlain(z, w) /\ Synced(z) /\ z.mask = {}
<1>1. SamePlain(w, w)
  BY DEF SamePlain
<1> DEFINE Set(c, q) == [c EXCEPT !.magnitude = q]
           Good(z) == SamePlain(z, w) /\ Synced(z) /\ z.mask = {}
<1>2. ASSUME NEW b, NEW q PROVE Good(Set(Click(w, ev.x, b), q))
  <2> DEFINE c == Click(w, ev.x, b)
  <2>1. /\ Plain(c) /\ Settings(c) = Settings(w)
        /\ c.dragPos = w.dragPos /\ c.pos = w.pos
        /\ ~c.timer /\ c.srvX = ev.x /\ c.srvMask = c.mask
        /\ c.mask = w.mask \ {b}
    BY ClickPlain
  <2> HIDE DEF c
  <2> QED BY <2>1, FieldsAre DEF SamePlain, Synced, Plain, Live, Settings, c
<1>3. Good(w)
  BY <1>1
<1>4. \/ Scroll(w, ev, sens) = w
      \/ \E q : Scroll(w, ev, sens) = Set(Click(w, ev.x, 3), q)
      \/ \E q : Scroll(w, ev, sens) = Set(Click(w, ev.x, 4), q)
  <2> DEFINE moved == ev.magnitude - w.magnitude
             clicks == (Distance(moved, 0) - 1) \div sens
             c(b) == Click(w, ev.x, b)
  <2>1. Scroll(w, ev, sens) =
          IF Distance(moved, 0) <= sens THEN w
          ELSE IF moved > 0
            THEN [c(3) EXCEPT !.magnitude = c(3).magnitude + clicks * sens]
            ELSE [c(4) EXCEPT !.magnitude = c(4).magnitude - clicks * sens]
    BY DEF Scroll
  <2> HIDE DEF moved, clicks
  <2> QED BY <2>1, Zenon
<1> HIDE DEF Set, Good
<1>5. Good(Scroll(w, ev, sens))
  BY <1>2, <1>3, <1>4
<1> QED BY <1>5 DEF Good

(* A key message changes the server's keys alone. *)
LEMMA SendKeyIs ==
  ASSUME NEW w, DOMAIN w = Fields, NEW keysym
  PROVE  /\ DOMAIN SendDown(w, keysym) = Fields
         /\ \A f \in Fields \ {"srvKeys"} : SendDown(w, keysym)[f] = w[f]
         /\ DOMAIN SendUp(w, keysym) = Fields
         /\ \A f \in Fields \ {"srvKeys"} : SendUp(w, keysym)[f] = w[f]
  BY FieldsAre DEF SendDown, SendUp, SendKey, KeyEvent

(* What is the same in all fields of the pointer is the same pointer. *)
LEMMA SamePointer ==
  ASSUME NEW w, NEW z, DOMAIN w = Fields, DOMAIN z = Fields,
         \A f \in {"connected", "viewOnly", "dragViewport", "captured", "dragging", "dragPos",
                   "mask", "pos", "timer", "srvX", "srvMask"} : z[f] = w[f]
  PROVE  /\ Plain(w) => SamePlain(z, w) /\ z.pos = w.pos /\ z.mask = w.mask
         /\ Synced(w) => Synced(z)
  BY DEF SamePlain, Plain, Live, Settings, Synced

(* A pinch presses Ctrl and the wheel, and leaves no button. *)
LEMMA ZoomIs ==
  ASSUME NEW w, Plain(w), Synced(w), w.mask = {}, NEW ev, w.pos = ev.x
  PROVE  LET z == Zoom(w, ev)
         IN  SamePlain(z, w) /\ Synced(z) /\ z.mask = {}
<1> DEFINE k == IF Distance(ev.magnitude, w.magnitude) > ZoomSens
                  THEN SendDown(w, "Control_L") ELSE w
           s == Scroll(k, ev, ZoomSens)
           z == SendUp(s, "Control_L")
<1>1. Zoom(w, ev) = z
  BY DEF Zoom, SendDown, SendUp
<1>2. DOMAIN k = Fields /\ \A f \in Fields \ {"srvKeys"} : k[f] = w[f]
  BY SendKeyIs DEF Plain, Live
<1> HIDE DEF k
<1>3. SamePlain(k, w) /\ k.pos = w.pos /\ k.mask = {} /\ Synced(k)
  BY <1>2, SamePointer, FieldsAre DEF Plain, Live
<1>4. SamePlain(s, k) /\ Synced(s) /\ s.mask = {}
  BY <1>3, ScrollIs DEF SamePlain
<1> HIDE DEF s
<1>5. DOMAIN z = Fields /\ \A f \in Fields \ {"srvKeys"} : z[f] = s[f]
  BY <1>4, SendKeyIs DEF SamePlain, Plain, Live
<1> HIDE DEF z
<1>6. SamePlain(z, s) /\ Synced(z) /\ z.mask = {}
  BY <1>4, <1>5, SamePointer, FieldsAre DEF SamePlain, Plain, Live
<1> QED BY <1>1, <1>3, <1>4, <1>6 DEF SamePlain

(* The magnitude is not part of the pointer. *)
LEMMA SetMagnitude ==
  ASSUME NEW w, Plain(w), NEW q
  PROVE  LET z == [w EXCEPT !.magnitude = q]
         IN  SamePlain(z, w) /\ (Synced(w) => Synced(z)) /\ z.mask = w.mask /\ z.srvMask = w.srvMask
  BY FieldsAre DEF SamePlain, Plain, Live, Settings, Synced

(* A tap clicks, and leaves no button. *)
LEMMA TapIs ==
  ASSUME NEW w, Plain(w), w.srvMask = w.mask, w.mask = {}, NEW ev, NEW b
  PROVE  LET z == HandleTap(w, ev, b)
         IN  SamePlain(z, w) /\ Synced(z) /\ z.mask = {}
<1> DEFINE again == w.lastTap.gesture = ev.gesture
                    /\ Distance(w.lastTap.x, ev.x) < DoubleTapThreshold
           tap == IF again THEN w.lastTap ELSE [gesture |-> ev.gesture, x |-> ev.x]
           u == [w EXCEPT !.lastTap = tap]
           m == FakeMouseMove(u, tap.x)
           z == Click(m, tap.x, b)
<1>1. HandleTap(w, ev, b) = z
  BY DEF HandleTap
<1> HIDE DEF tap
<1>2. SamePlain(u, w) /\ u.srvMask = u.mask /\ u.mask = {}
  BY FieldsAre DEF SamePlain, Plain, Live, Settings
<1> HIDE DEF u
<1>3. SamePlain(m, u) /\ Synced(m) /\ m.pos = tap.x /\ m.mask = {}
  BY <1>2, FakeMoveIs DEF SamePlain
<1> HIDE DEF m
<1>4. /\ Plain(z) /\ Settings(z) = Settings(m) /\ z.dragPos = m.dragPos /\ z.pos = m.pos
      /\ ~z.timer /\ z.srvX = tap.x /\ z.srvMask = z.mask /\ z.mask = m.mask \ {b}
  BY <1>3, ClickPlain DEF SamePlain
<1> HIDE DEF z
<1> QED BY <1>1, <1>2, <1>3, <1>4 DEF SamePlain, Synced

(* The start of a gesture presses its button, if it has one. *)
LEMMA HandleStart ==
  ASSUME NEW w, Plain(w), w.srvMask = w.mask, NEW ev, NEW g \in Gestures, Is(ev, "gesturestart", g),
         w.mask = {}
  PROVE  LET z == HandleGesture(w, ev)
         IN  /\ SamePlain(z, w) /\ Synced(z)
             /\ z.mask = CASE g = "drag" -> {0} [] g = "longpress" -> {2} [] OTHER -> {}
<1>1. HandleGesture(w, ev) = HandleGestureStart(w, ev)
  BY DEF HandleGesture, Is
<1>2. CASE g \in Taps
  <2>1. g \in DOMAIN TapButton /\ g \notin DOMAIN DragButton
    BY <1>2 DEF Taps, TapButton, DragButton
  <2>2. HandleGestureStart(w, ev) = HandleTap(w, ev, TapButton[g])
    BY <2>1 DEF HandleGestureStart, Is
  <2> QED BY <1>1, <1>2, <2>2, TapIs DEF Taps
<1>3. CASE g \in {"drag", "longpress"}
  <2>1. g \in DOMAIN DragButton /\ g \notin DOMAIN TapButton
    BY <1>3 DEF DragButton, TapButton
  <2>2. DragButton["drag"] = 0 /\ DragButton["longpress"] = 2
    BY DEF DragButton
  <2>3. HandleGestureStart(w, ev) = PressButton(FakeMouseMove(w, ev.x), ev.x, DragButton[g])
    BY <2>1 DEF HandleGestureStart, PressButton, Is
  <2> DEFINE z == HandleGesture(w, ev)
  <2>4. SamePlain(z, w) /\ Synced(z) /\ z.mask = w.mask \cup {DragButton[g]}
    BY <1>1, <2>3, PressIs
  <2> HIDE DEF z
  <2>5. {} \cup {0} = {0} /\ {} \cup {2} = {2}
    OBVIOUS
  <2>6. CASE g = "drag"
    BY <2>2, <2>4, <2>5, <2>6 DEF z
  <2>7. CASE g = "longpress"
    BY <2>2, <2>4, <2>5, <2>7 DEF z
  <2> QED BY <1>3, <2>6, <2>7
<1>4. CASE g \in {"twodrag", "pinch"}
  <2>1. g \notin DOMAIN DragButton /\ g \notin DOMAIN TapButton
    BY <1>4 DEF DragButton, TapButton
  <2> DEFINE u == [w EXCEPT !.magnitude = ev.magnitude]
  <2>2. HandleGestureStart(w, ev) = FakeMouseMove(u, ev.x)
    BY <2>1 DEF HandleGestureStart, Is
  <2>3. SamePlain(u, w) /\ u.mask = {} /\ u.srvMask = u.mask
    BY SetMagnitude
  <2> HIDE DEF u
  <2>4. SamePlain(FakeMouseMove(u, ev.x), u) /\ Synced(FakeMouseMove(u, ev.x))
        /\ FakeMouseMove(u, ev.x).mask = {}
    BY <2>3, FakeMoveIs DEF SamePlain
  <2> QED BY <1>1, <1>4, <2>2, <2>3, <2>4 DEF SamePlain
<1> QED BY <1>2, <1>3, <1>4 DEF Gestures, Taps

(* Its moves keep the buttons. *)
LEMMA HandleMove ==
  ASSUME NEW w, Plain(w), w.srvMask = w.mask, NEW ev, NEW g \in Gestures \ Taps,
         Is(ev, "gesturemove", g), g \in {"twodrag", "pinch"} => w.mask = {}
  PROVE  LET z == HandleGesture(w, ev)
         IN  SamePlain(z, w) /\ Synced(z) /\ z.mask = w.mask
<1> DEFINE m == FakeMouseMove(w, ev.x)
<1>1. HandleGesture(w, ev) = HandleGestureMove(w, ev)
  BY DEF HandleGesture, Is
<1>2. SamePlain(m, w) /\ Synced(m) /\ m.pos = ev.x /\ m.mask = w.mask
  BY FakeMoveIs
<1>3. g \notin DOMAIN TapButton
  BY DEF TapButton, Taps
<1>4. CASE g \in {"drag", "longpress"}
  <2>1. g \in DOMAIN DragButton /\ g # "twodrag"
    BY <1>4 DEF DragButton
  <2>2. HandleGestureMove(w, ev) = m
    BY <1>3, <2>1 DEF HandleGestureMove, Is
  <2> QED BY <1>1, <1>2, <2>2
<1>5. CASE g = "twodrag"
  <2>1. g \notin DOMAIN DragButton
    BY <1>5 DEF DragButton
  <2>2. HandleGestureMove(w, ev) = Scroll(m, ev, ScrollSens)
    BY <1>3, <1>5, <2>1 DEF HandleGestureMove, Is
  <2> HIDE DEF m
  <2>3. SamePlain(Scroll(m, ev, ScrollSens), m) /\ Synced(Scroll(m, ev, ScrollSens))
        /\ Scroll(m, ev, ScrollSens).mask = {}
    BY <1>2, <1>5, ScrollIs DEF SamePlain
  <2> QED BY <1>1, <1>2, <1>5, <2>2, <2>3 DEF SamePlain
<1>6. CASE g = "pinch"
  <2>1. g \notin DOMAIN DragButton
    BY <1>6 DEF DragButton
  <2>2. HandleGestureMove(w, ev) = Zoom(m, ev)
    BY <1>3, <1>6, <2>1 DEF HandleGestureMove, Is
  <2> HIDE DEF m
  <2>3. SamePlain(Zoom(m, ev), m) /\ Synced(Zoom(m, ev)) /\ Zoom(m, ev).mask = {}
    BY <1>2, <1>6, ZoomIs DEF SamePlain
  <2> QED BY <1>1, <1>2, <1>6, <2>2, <2>3 DEF SamePlain
<1> QED BY <1>4, <1>5, <1>6 DEF Gestures, Taps

(* Its end releases the button. *)
LEMMA HandleEnd ==
  ASSUME NEW w, Plain(w), Synced(w), NEW ev, NEW g \in Gestures, Is(ev, "gestureend", g)
  PROVE  LET z == HandleGesture(w, ev)
         IN  /\ SamePlain(z, w) /\ Synced(z)
             /\ z.mask = CASE g = "drag" -> w.mask \ {0} [] g = "longpress" -> w.mask \ {2}
                           [] OTHER -> w.mask
<1>1. HandleGesture(w, ev) = HandleGestureEnd(w, ev)
  BY DEF HandleGesture, Is
<1>2. CASE g \in {"drag", "longpress"}
  <2>1. g \in DOMAIN DragButton
    BY <1>2 DEF DragButton
  <2>2. DragButton["drag"] = 0 /\ DragButton["longpress"] = 2
    BY DEF DragButton
  <2>3. HandleGestureEnd(w, ev) = ReleaseButton(FakeMouseMove(w, ev.x), ev.x, DragButton[g])
    BY <2>1 DEF HandleGestureEnd, ReleaseButton, Is
  <2> DEFINE z == HandleGesture(w, ev)
  <2>4. SamePlain(z, w) /\ Synced(z) /\ z.mask = w.mask \ {DragButton[g]}
    BY <1>1, <2>3, ReleaseIs DEF Synced
  <2> HIDE DEF z
  <2>6. CASE g = "drag"
    BY <2>2, <2>4, <2>6 DEF z
  <2>7. CASE g = "longpress"
    BY <2>2, <2>4, <2>7 DEF z
  <2> QED BY <1>2, <2>6, <2>7
<1>3. CASE g \notin {"drag", "longpress"}
  <2>1. g \notin DOMAIN DragButton
    BY <1>3 DEF DragButton
  <2>2. HandleGestureEnd(w, ev) = [w EXCEPT !.magnitude = 0]
    BY <2>1 DEF HandleGestureEnd, Is
  <2> QED BY <1>1, <1>3, <2>2, SetMagnitude
<1> QED BY <1>2, <1>3

(* The keyboard *)

KeyFields == {"keys", "armed", "late", "srvKeys"}
KeysOnly(z, w) == DOMAIN z = Fields /\ \A f \in Fields \ KeyFields : z[f] = w[f]

(* Steps that change keys only follow one another. *)
LEMMA KeysOnlyChains ==
  ASSUME NEW w, NEW y, NEW z, KeysOnly(y, w), KeysOnly(z, y)
  PROVE  KeysOnly(z, w)
  BY DEF KeysOnly

(* The state of AltGr belongs to the keyboard. *)
LEMMA DisarmKeys ==
  ASSUME NEW w, DOMAIN w = Fields
  PROVE  KeysOnly(w, w) /\ KeysOnly([w EXCEPT !.armed = FALSE], w)
         /\ KeysOnly([w EXCEPT !.armed = TRUE, !.late = FALSE], w)
         /\ KeysOnly([w EXCEPT !.late = TRUE], w)
  BY FieldsAre DEF KeysOnly, KeyFields

(* Releasing keys leaves the pointer alone, *)
LEMMA ReleaseAllKeys ==
  ASSUME NEW w, DOMAIN w = Fields, NEW codes
  PROVE  KeysOnly(ReleaseAll(w, codes), w)
<1> DEFINE up == [w EXCEPT !.keys = [c \in Codes |-> IF c \in codes THEN Up ELSE w.keys[c]]]
           z == [up EXCEPT !.srvKeys = up.srvKeys \ {w.keys[c] : c \in codes}]
<1>1. ReleaseAll(w, codes) \in {up, z}
  BY FieldsAre DEF ReleaseAll
<1>2. KeysOnly(up, w)
  BY FieldsAre DEF KeysOnly, KeyFields
<1> HIDE DEF up
<1>3. KeysOnly(z, up)
  BY <1>2, FieldsAre DEF KeysOnly, KeyFields
<1> HIDE DEF z
<1> QED BY <1>1, <1>2, <1>3, KeysOnlyChains

(* and so do pressing one, *)
LEMMA PressKeys ==
  ASSUME NEW w, DOMAIN w = Fields, NEW keysym, NEW code
  PROVE  KeysOnly(Press(w, keysym, code), w)
<1> DEFINE k == IF code \in Codes THEN [w EXCEPT !.keys[code] = keysym] ELSE w
<1>1. Press(w, keysym, code) = SendDown(k, keysym)
  BY DEF Press, SendDown
<1>2. KeysOnly(k, w)
  BY FieldsAre DEF KeysOnly, KeyFields
<1> HIDE DEF k
<1>3. KeysOnly(SendDown(k, keysym), k)
  BY <1>2, SendKeyIs DEF KeysOnly, KeyFields
<1> QED BY <1>1, <1>2, <1>3, KeysOnlyChains

(* pressing and releasing it, *)
LEMMA PressAndReleaseKeys ==
  ASSUME NEW w, DOMAIN w = Fields, NEW keysym, NEW code
  PROVE  KeysOnly(PressAndRelease(w, keysym, code), w)
<1> DEFINE p == Press(w, keysym, code)
<1>1. KeysOnly(p, w)
  BY PressKeys
<1>2. PressAndRelease(w, keysym, code) = ReleaseAll(p, {code})
  BY DEF PressAndRelease
<1> HIDE DEF p
<1>3. KeysOnly(ReleaseAll(p, {code}), p)
  BY <1>1, ReleaseAllKeys DEF KeysOnly
<1> QED BY <1>1, <1>2, <1>3, KeysOnlyChains

(* and the Ctrl that was held back. *)
LEMMA SendArmedCtrlKeys ==
  ASSUME NEW w, DOMAIN w = Fields
  PROVE  KeysOnly(SendArmedCtrl(w), w)
<1> DEFINE d == [w EXCEPT !.armed = FALSE]
<1>1. KeysOnly(d, w)
  BY DisarmKeys
<1>2. SendArmedCtrl(w) = Press(d, "Control_L", "ControlLeft")
  BY DEF SendArmedCtrl
<1> HIDE DEF d
<1>3. KeysOnly(Press(d, "Control_L", "ControlLeft"), d)
  BY <1>1, PressKeys DEF KeysOnly
<1> QED BY <1>1, <1>2, <1>3, KeysOnlyChains

(* So keydown changes the keyboard alone, *)
LEMMA HandleKeyDownKeys ==
  ASSUME NEW w, DOMAIN w = Fields, NEW e
  PROVE  KeysOnly(HandleKeyDown(w, e), w)
<1> DEFINE code == KeyCode(e, w.platform)
           keysym == GetKeysym(e, w.platform)
           altGr == w.armed /\ code = "AltRight" /\ ~w.late
           u == IF w.armed /\ ~altGr THEN SendArmedCtrl(w) ELSE [w EXCEPT !.armed = FALSE]
           meant == IF altGr THEN "ISO_Level3_Shift" ELSE keysym
           mapped == IF w.platform = "mac" /\ meant \in DOMAIN MacKeysym
                       THEN MacKeysym[meant] ELSE meant
           sym == SameKeysym(u, code, mapped)
           z == IF code = "Unidentified"
                  THEN IF meant = NoSymbol THEN u ELSE PressAndRelease(u, meant, code)
                  ELSE CASE w.platform = "mac" /\ code = "CapsLock" ->
                              PressAndRelease(u, "Caps_Lock", code)
                         [] w.platform = "windows" /\ sym \in JpBadKeys ->
                              PressAndRelease(u, sym, code)
                         [] /\ w.platform = "windows" /\ sym \notin JpBadKeys
                            /\ code = "ControlLeft" /\ u.keys[code] = Up ->
                              [u EXCEPT !.armed = TRUE, !.late = FALSE]
                         [] OTHER -> Press(u, sym, code)
<1>1. HandleKeyDown(w, e) = z
  BY DEF HandleKeyDown
<1>2. KeysOnly(u, w)
  <2>1. u = SendArmedCtrl(w) \/ u = [w EXCEPT !.armed = FALSE]
    OBVIOUS
  <2> HIDE DEF u
  <2> QED BY <2>1, SendArmedCtrlKeys, DisarmKeys
<1> HIDE DEF u, sym, meant, code
<1>3. \/ z = u
      \/ \E k : z = PressAndRelease(u, k, code) \/ z = Press(u, k, code)
      \/ z = [u EXCEPT !.armed = TRUE, !.late = FALSE]
  OBVIOUS
<1> HIDE DEF z
<1>4. KeysOnly(z, u)
  <2>1. DOMAIN u = Fields
    BY <1>2 DEF KeysOnly
  <2> QED BY <1>3, <2>1, PressKeys, PressAndReleaseKeys, DisarmKeys, Zenon
<1> QED BY <1>1, <1>2, <1>4, KeysOnlyChains

(* and keyup as well. *)
LEMMA HandleKeyUpKeys ==
  ASSUME NEW w, DOMAIN w = Fields, NEW e
  PROVE  KeysOnly(HandleKeyUp(w, e), w)
<1> DEFINE code == KeyCode(e, w.platform)
           u == IF w.armed THEN SendArmedCtrl(w) ELSE w
           z == IF w.platform = "mac" /\ code = "CapsLock" THEN PressAndRelease(u, "Caps_Lock", code)
                ELSE ReleaseAll(u, {code} \cup (IF w.platform = "windows" /\ code \in Shifts
                                                  THEN Shifts ELSE {}))
<1>1. HandleKeyUp(w, e) = z
  BY DEF HandleKeyUp
<1>2. KeysOnly(u, w)
  BY SendArmedCtrlKeys, DisarmKeys
<1> HIDE DEF u, code
<1>3. \E k : z = PressAndRelease(u, "Caps_Lock", k) \/ z = ReleaseAll(u, k)
  OBVIOUS
<1> HIDE DEF z
<1>4. KeysOnly(z, u)
  <2>1. DOMAIN u = Fields
    BY <1>2 DEF KeysOnly
  <2> QED BY <1>3, <2>1, PressAndReleaseKeys, ReleaseAllKeys, Zenon
<1> QED BY <1>1, <1>2, <1>4, KeysOnlyChains

(* Where the user and the devices can be *)
UserFits ==
    /\ at \in Coords \cup {Outside}
    /\ device # "touch" => tracked = <<>> /\ down = {}
    /\ device # "mouse" => pressed = {} /\ at = Outside

(* The viewport is dragged with the mouse only, during a capture, and then *)
(* takes all buttons; the server has the buttons of the viewer.            *)
ViewerFits(w) ==
    /\ DOMAIN w = Fields
    /\ w.dragPos \in Int
    /\ w.viewOnly => device # "touch" /\ device # "mouse"
    /\ device # "mouse" => ~w.dragViewport /\ ~w.captured
    /\ w.dragging => w.dragViewport /\ w.captured
    /\ w.dragViewport => w.mask = {}
    /\ w.connected => w.srvMask = w.mask
    /\ device # "touch" /\ device # "mouse" => w.mask = {}

(* A touch holds the buttons of its gesture, *)
TouchHolds(w) ==
    device = "touch" /\ w.connected => w.mask = ButtonsOf(state) /\ (~w.timer => w.srvX = w.pos)

(* and the mouse at most the one the user holds, whose press captured it.  *)
MouseHolds(w) ==
    device = "mouse" /\ ~chord =>
        /\ w.connected => w.mask \subseteq pressed /\ (w.mask # {} => w.captured)
        /\ \A b, c \in pressed : b = c

PointerInv == UserFits /\ ViewerFits(v) /\ TouchHolds(v) /\ MouseHolds(v)

(* What the invariant says of the viewer *)
PointerFields == {"connected", "viewOnly", "dragViewport", "captured", "dragging", "dragPos",
                  "mask", "pos", "timer", "srvX", "srvMask", "shown", "recheck"}

(* Steps that leave the user and the gestures alone *)
UserStays == UNCHANGED <<state, tracked, down, device, at, pressed, chord>>

(* The invariant is about the fields of the pointer. *)
LEMMA SameViewer ==
  ASSUME PointerInv, UserStays, DOMAIN v' = Fields,
         \A f \in {"connected", "viewOnly", "dragViewport", "captured", "dragging", "dragPos",
                   "mask", "pos", "timer", "srvX", "srvMask"} : v'[f] = v[f]
  PROVE  PointerInv'
<1> USE DEF PointerInv, UserStays
<1>1. UserFits'
  BY DEF UserFits
<1>2. ViewerFits(v)'
  BY DEF ViewerFits
<1>3. TouchHolds(v)'
  BY DEF TouchHolds
<1>4. MouseHolds(v)'
  BY DEF MouseHolds
<1> QED BY <1>1, <1>2, <1>3, <1>4

(* With a touch, the buttons at the server follow the gesture's events.    *)
LEMMA GestureHolds ==
  ASSUME PointerInv, device = "touch", v.connected, EventsFit,
         v' = Handled(v, events')
  PROVE  SamePlain(v', v) /\ (v' = v \/ Synced(v')) /\ v'.mask = ButtonsOf(state')
<1>1. Plain(v) /\ Synced(v) /\ v.mask = ButtonsOf(state)
  BY DEF PointerInv, ViewerFits, TouchHolds, Plain, Live, Synced
<1>2. ASSUME NEW d, NEW e, NEW w, w = HandleGesture(v, d), events' = <<d, e>>
      PROVE  v' = HandleGesture(w, e)
  <2>1. Handled(v, <<d, e>>) = HandleGesture(HandleGesture(v, d), e)
    BY FoldTwo
  <2> QED BY <1>2, <2>1
<1>3. CASE Quiet
  <2>1. v' = v
    BY <1>3, FoldNone DEF Quiet
  <2> QED BY <1>1, <1>3, <2>1 DEF Quiet, SamePlain
<1>4. CASE Goes
  <2>1. PICK e, g : events' = <<e>> /\ g \in Gestures \ Taps /\ Is(e, "gesturemove", g)
                    /\ state = {g} /\ state' = {g}
    BY <1>4 DEF Goes
  <2>2. v' = HandleGesture(v, e)
    BY <2>1, FoldOne
  <2>3. g \in {"twodrag", "pinch"} => v.mask = {}
    BY <1>1, <2>1, ButtonsOfAre
  <2> DEFINE z == HandleGesture(v, e)
  <2>4. SamePlain(z, v) /\ Synced(z) /\ z.mask = v.mask
    BY <1>1, <2>1, <2>3, HandleMove DEF Synced
  <2> HIDE DEF z
  <2> QED BY <1>1, <2>1, <2>2, <2>4 DEF z
<1>5. CASE Ends
  <2>1. PICK e, g : events' = <<e>> /\ g \in Gestures /\ Is(e, "gestureend", g)
                    /\ state = {g} /\ ButtonsOf(state') = {}
    BY <1>5 DEF Ends
  <2>2. v' = HandleGesture(v, e)
    BY <2>1, FoldOne
  <2> DEFINE z == HandleGesture(v, e)
  <2>3. /\ SamePlain(z, v) /\ Synced(z)
        /\ z.mask = CASE g = "drag" -> v.mask \ {0} [] g = "longpress" -> v.mask \ {2}
                      [] OTHER -> v.mask
    BY <1>1, <2>1, HandleEnd
  <2> HIDE DEF z
  <2>4. z.mask = {}
    <3>1. CASE g = "drag"
      BY <1>1, <2>1, <2>3, <3>1, ButtonsOfAre
    <3>2. CASE g = "longpress"
      BY <1>1, <2>1, <2>3, <3>2, ButtonsOfAre
    <3>3. CASE g \notin {"drag", "longpress"}
      <4>1. ButtonsOf({g}) = {}
        BY <2>1, <3>3, ButtonsOfAre DEF Gestures, Taps
      <4> QED BY <1>1, <2>1, <2>3, <3>3, <4>1
    <3> QED BY <3>1, <3>2, <3>3
  <2> QED BY <2>1, <2>2, <2>3, <2>4 DEF z
<1>6. CASE Presses
  <2>1. PICK e : events' = <<e>> /\ Is(e, "gesturestart", "longpress")
                 /\ ButtonsOf(state) = {} /\ state' = {"longpress"}
    BY <1>6 DEF Presses
  <2>2. v' = HandleGesture(v, e)
    BY <2>1, FoldOne
  <2> DEFINE z == HandleGesture(v, e)
  <2>3. PICK g \in Gestures : g = "longpress"
    BY DEF Gestures
  <2>4. SamePlain(z, v) /\ Synced(z) /\ z.mask = {2}
    <3>1. /\ SamePlain(z, v) /\ Synced(z)
          /\ z.mask = CASE g = "drag" -> {0} [] g = "longpress" -> {2} [] OTHER -> {}
      BY <1>1, <2>1, <2>3, HandleStart DEF Synced
    <3> HIDE DEF z
    <3> QED BY <2>3, <3>1
  <2> HIDE DEF z
  <2> QED BY <2>1, <2>2, <2>4, ButtonsOfAre DEF z
<1>7. CASE Begins
  <2>1. PICK d, e, g : events' = <<d, e>> /\ g \in Gestures \ Taps
                       /\ Is(d, "gesturestart", g) /\ Is(e, "gesturemove", g)
                       /\ ButtonsOf(state) = {} /\ state' = {g}
    BY <1>7 DEF Begins
  <2> DEFINE y == HandleGesture(v, d)
             z == HandleGesture(y, e)
  <2>2. v' = z
    BY <1>2, <2>1
  <2>3. /\ SamePlain(y, v) /\ Synced(y)
        /\ y.mask = CASE g = "drag" -> {0} [] g = "longpress" -> {2} [] OTHER -> {}
    BY <1>1, <2>1, HandleStart DEF Synced
  <2> HIDE DEF y
  <2>4. y.mask = ButtonsOf({g}) /\ (g \in {"twodrag", "pinch"} => y.mask = {})
    BY <2>1, <2>3, ButtonsOfAre DEF Gestures, Taps
  <2>5. SamePlain(z, y) /\ Synced(z) /\ z.mask = y.mask
    BY <2>1, <2>3, <2>4, HandleMove DEF Synced, SamePlain
  <2> HIDE DEF z
  <2>6. SamePlain(z, v)
    BY <2>3, <2>5 DEF SamePlain
  <2> QED BY <2>1, <2>2, <2>4, <2>5, <2>6
<1>8. CASE Clicks
  <2>1. PICK d, e, g : events' = <<d, e>> /\ g \in Gestures \ {"drag", "longpress"}
                       /\ Is(d, "gesturestart", g) /\ Is(e, "gestureend", g)
                       /\ ButtonsOf(state) = {} /\ ButtonsOf(state') = {}
    BY <1>8 DEF Clicks
  <2> DEFINE y == HandleGesture(v, d)
             z == HandleGesture(y, e)
  <2>2. v' = z
    BY <1>2, <2>1
  <2>3. /\ SamePlain(y, v) /\ Synced(y)
        /\ y.mask = CASE g = "drag" -> {0} [] g = "longpress" -> {2} [] OTHER -> {}
    BY <1>1, <2>1, HandleStart DEF Synced
  <2> HIDE DEF y
  <2>4. y.mask = {}
    BY <2>1, <2>3
  <2>5. /\ SamePlain(z, y) /\ Synced(z)
        /\ z.mask = CASE g = "drag" -> y.mask \ {0} [] g = "longpress" -> y.mask \ {2}
                      [] OTHER -> y.mask
    BY <2>1, <2>3, HandleEnd DEF SamePlain
  <2> HIDE DEF z
  <2>6. SamePlain(z, v) /\ z.mask = {}
    BY <2>1, <2>3, <2>4, <2>5 DEF SamePlain
  <2> QED BY <2>1, <2>2, <2>5, <2>6
<1> QED BY <1>3, <1>4, <1>5, <1>6, <1>7, <1>8 DEF EventsFit

(* Handlers of the cursor and of the capture set one field or two. *)
Same(z, w, fields) == DOMAIN z = Fields /\ \A f \in Fields \ fields : z[f] = w[f]

(* What the cursor's and the capture's handlers set. *)
LEMMA CursorIs ==
  ASSUME NEW w, DOMAIN w = Fields
  PROVE  /\ Same(SetCapture(w), w, {"captured"}) /\ SetCapture(w).captured
         /\ Same(ReleaseCapture(w), w, {"captured"}) /\ ~ReleaseCapture(w).captured
         /\ \A over : /\ Same(UpdateVisibility(w, over), w, {"shown"})
                      /\ UpdateVisibility(w, over).shown <=> w.captured \/ over
                      /\ Same(CursorMouseUp(w, over), w, {"shown", "recheck"})
                      /\ CursorMouseUp(w, over).shown <=> w.captured \/ over
                      /\ CursorMouseUp(w, over).recheck <=> w.recheck \/ w.captured
  BY FieldsAre DEF Same, SetCapture, ReleaseCapture, UpdateVisibility, CursorMouseUp

MouseStays == UNCHANGED <<state, tracked, down, device>>

(* What is left to show of a step of the mouse *)
LEMMA MouseInv ==
  ASSUME PointerInv, device = "mouse", MouseStays, at' \in Coords \cup {Outside},
         DOMAIN v' = Fields, v'.dragPos \in Int, v'.viewOnly = v.viewOnly,
         v'.dragging => v'.dragViewport /\ v'.captured,
         v'.dragViewport => v'.mask = {},
         v'.connected => v'.srvMask = v'.mask,
         MouseHolds(v)'
  PROVE  PointerInv'
<1>1. UserFits'
  BY DEF PointerInv, UserFits, MouseStays
<1>2. ViewerFits(v)'
  BY DEF PointerInv, ViewerFits, MouseStays
<1>3. TouchHolds(v)'
  BY DEF TouchHolds, MouseStays
<1> QED BY <1>1, <1>2, <1>3 DEF PointerInv

(* A place outside is clipped to one of the canvas. *)
LEMMA ClipIs == ClipToCanvas(Outside) \in Coords /\ \A p \in Coords : ClipToCanvas(p) = p
  BY CanvasAssumption, OutsideAssumption DEF ClipToCanvas

(* A press captures the mouse, for a drag or for its button. *)
LEMMA MouseDownHolds ==
  ASSUME PointerInv, MouseDown
  PROVE  PointerInv' /\ (CursorFollowsPointer => CursorFollowsPointer')
<1> USE DEF PointerInv
<1>1. PICK b \in Buttons \ pressed :
         /\ pressed' = pressed \cup {b}
         /\ chord' = (chord \/ pressed # {})
         /\ IF InCanvas /\ ~v.captured
              THEN v' = PressButton(SetCapture(v), at, b) ELSE v' = v
  BY DEF MouseDown, Mouse, PressButton
<1>2. device = "mouse" /\ v.connected /\ at' = at /\ MouseStays /\ DOMAIN v = Fields
  BY DEF MouseDown, Mouse, gestureVars, MouseStays, ViewerFits
<1>3. ~chord' => ~chord /\ pressed = {} /\ pressed' = {b}
  BY <1>1
<1>4. CASE v' = v
  <2>1. MouseHolds(v)'
    BY <1>2, <1>3, <1>4 DEF MouseHolds
  <2>2. PointerInv'
    BY <1>2, <1>4, <2>1, MouseInv DEF ViewerFits, UserFits
  <2> QED BY <1>2, <1>4, <2>2 DEF CursorFollowsPointer, InCanvas
<1>5. CASE InCanvas /\ ~v.captured
  <2> DEFINE w == SetCapture(v)
             z == PressButton(w, at, b)
  <2>1. v' = z
    BY <1>1, <1>5
  <2>2. Same(w, v, {"captured"}) /\ w.captured
    BY <1>2, CursorIs
  <2> HIDE DEF w
  <2>3. /\ Live(w) /\ ~w.dragging /\ ~v.dragging
        /\ w.dragPos = v.dragPos /\ w.shown = v.shown /\ w.recheck = v.recheck
        /\ w.dragViewport = v.dragViewport /\ w.viewOnly = v.viewOnly
        /\ w.mask = v.mask /\ w.srvMask = v.mask
    BY <1>2, <1>5, <2>2, FieldsAre DEF Same, Live, ViewerFits
  <2>4. at \in Coords /\ at \in Int
    BY <1>5, GestureAssumption DEF InCanvas, UserFits
  <2>5. /\ DOMAIN z = Fields /\ z.dragPos \in Int /\ Settings(z) = Settings(w)
        /\ z.dragging => z.dragViewport
        /\ z.dragViewport => z.mask = {}
        /\ z.srvMask = z.mask /\ z.mask \subseteq v.mask \cup {b}
        /\ z.shown = v.shown /\ z.recheck = v.recheck
    <3>1. CASE v.dragViewport
      <4>0. Live(w) /\ w.dragViewport /\ ~w.dragging
        BY <2>3, <3>1
      <4>1. /\ DOMAIN z = Fields /\ Settings(z) = Settings(w)
            /\ z.dragPos = at /\ z.mask = w.mask /\ z.srvMask = w.srvMask
            /\ z.shown = w.shown /\ z.recheck = w.recheck
        BY <4>0, ButtonGrab
      <4> HIDE DEF z
      <4> QED BY <2>3, <2>4, <3>1, <4>1 DEF Settings, ViewerFits
    <3>2. CASE ~v.dragViewport
      <4>1. /\ Plain(z) /\ Settings(z) = Settings(w)
            /\ z.dragPos = w.dragPos /\ z.shown = w.shown /\ z.recheck = w.recheck
            /\ z.srvMask = z.mask /\ z.mask = w.mask \cup {b}
        BY <2>3, <3>2, PressPlain DEF Plain
      <4> HIDE DEF z
      <4> QED BY <2>3, <3>2, <4>1 DEF Settings, Plain, Live, ViewerFits
    <3> QED BY <3>1, <3>2
  <2> HIDE DEF z
  <2>6. z.captured /\ z.connected /\ z.viewOnly = v.viewOnly
    BY <2>2, <2>3, <2>5 DEF Settings, Live
  <2>7. MouseHolds(v)'
    BY <1>2, <1>3, <2>1, <2>5, <2>6 DEF MouseHolds
  <2>8. PointerInv'
    BY <1>2, <2>1, <2>4, <2>5, <2>6, <2>7, MouseInv
  <2> QED BY <1>2, <1>5, <2>1, <2>5, <2>6, <2>8 DEF CursorFollowsPointer, InCanvas
<1> QED BY <1>1, <1>4, <1>5
(* The release ends the capture, over the canvas or not. *)
LEMMA MouseUpHolds ==
  ASSUME PointerInv, MouseUp
  PROVE  PointerInv' /\ (CursorFollowsPointer => CursorFollowsPointer')
<1> USE DEF PointerInv
<1>1. PICK b \in pressed :
         /\ pressed' = pressed \ {b}
         /\ IF InCanvas \/ v.captured
              THEN v' = ReleaseCapture(ReleaseButton(CursorMouseUp(v, InCanvas), ClipToCanvas(at), b))
              ELSE v' = v
         /\ chord' = (chord /\ ~(pressed' = {} /\ v'.mask = {}))
  BY DEF MouseUp, Mouse, ReleaseButton
<1>2. v.connected /\ at' = at /\ MouseStays /\ DOMAIN v = Fields
  BY DEF MouseUp, Mouse, gestureVars, MouseStays, ViewerFits
<1>3. device = "mouse"
  BY <1>1 DEF UserFits
<1>4. /\ ~chord' /\ ~chord => pressed' = {} /\ v.mask \subseteq {b}
      /\ ~chord' /\ chord => pressed' = {} /\ v'.mask = {}
  BY <1>1, <1>2, <1>3 DEF MouseHolds
<1>5. CASE ~(InCanvas \/ v.captured)
  <2>1. v' = v
    BY <1>1, <1>5
  <2>2. MouseHolds(v)'
    BY <1>2, <1>3, <1>4, <1>5, <2>1 DEF MouseHolds
  <2>3. PointerInv'
    BY <1>2, <1>3, <2>1, <2>2, MouseInv DEF ViewerFits, UserFits
  <2> QED BY <1>2, <2>1, <2>3 DEF CursorFollowsPointer, InCanvas, MouseStays
<1>6. CASE InCanvas \/ v.captured
  <2> DEFINE w == CursorMouseUp(v, InCanvas)
             x == ClipToCanvas(at)
             y == ReleaseButton(w, x, b)
             z == ReleaseCapture(y)
  <2>1. v' = z
    BY <1>1, <1>6
  <2>2. /\ Same(w, v, {"shown", "recheck"}) /\ w.shown
        /\ w.recheck <=> v.recheck \/ v.captured
    BY <1>2, <1>6, CursorIs
  <2> HIDE DEF w, x
  <2>3. /\ Live(w) /\ w.dragPos = v.dragPos /\ w.dragViewport = v.dragViewport
        /\ w.viewOnly = v.viewOnly /\ w.dragging = v.dragging
        /\ w.mask = v.mask /\ w.srvMask = w.mask
    BY <1>2, <1>3, <2>2, FieldsAre DEF Same, Live, ViewerFits
  <2>4. /\ DOMAIN y = Fields /\ y.dragPos = v.dragPos /\ Settings(y) = Settings(w)
        /\ ~y.dragging
        /\ y.dragViewport => y.mask = {}
        /\ y.srvMask = y.mask /\ y.mask = v.mask \ {b}
        /\ y.shown = w.shown /\ y.recheck = w.recheck
    <3>1. CASE v.dragViewport
      <4>0. Live(w) /\ w.dragViewport /\ w.mask = {} /\ w.srvMask = w.mask
        BY <2>3, <3>1 DEF ViewerFits
      <4>1. /\ DOMAIN y = Fields /\ Settings(y) = Settings(w)
            /\ ~y.dragging /\ y.dragPos = w.dragPos /\ y.mask = {} /\ y.srvMask = {}
            /\ y.shown = w.shown /\ y.recheck = w.recheck
        BY <4>0, ButtonDrop
      <4> HIDE DEF y
      <4> QED BY <2>3, <3>1, <4>0, <4>1
    <3>2. CASE ~v.dragViewport
      <4>0. Plain(w)
        BY <2>3, <3>2 DEF Plain, ViewerFits
      <4>1. /\ Plain(y) /\ Settings(y) = Settings(w)
            /\ y.dragPos = w.dragPos /\ y.shown = w.shown /\ y.recheck = w.recheck
            /\ y.srvMask = y.mask /\ y.mask = w.mask \ {b}
        BY <4>0, ReleasePlain
      <4> HIDE DEF y
      <4> QED BY <2>3, <4>1 DEF Settings, Plain, Live
    <3> QED BY <3>1, <3>2
  <2> HIDE DEF y
  <2>5. Same(z, y, {"captured"}) /\ ~z.captured
    BY <2>4, CursorIs
  <2> HIDE DEF z
  <2>6. /\ DOMAIN z = Fields /\ z.dragPos \in Int /\ z.viewOnly = v.viewOnly
        /\ ~z.dragging /\ (z.dragViewport => z.mask = {}) /\ z.srvMask = z.mask
        /\ z.mask = v.mask \ {b} /\ z.shown /\ (z.recheck <=> v.recheck \/ v.captured)
    BY <2>2, <2>3, <2>4, <2>5, FieldsAre DEF Same, Settings, ViewerFits
  <2>7. MouseHolds(v)'
    <3> SUFFICES ASSUME ~chord'
                 PROVE  /\ v'.connected => v'.mask \subseteq pressed' /\ (v'.mask # {} => v'.captured)
                        /\ \A c, d \in pressed' : c = d
      BY DEF MouseHolds
    <3>1. pressed' = {} /\ v'.mask = {}
      BY <1>4, <2>1, <2>6
    <3> QED BY <3>1
  <2>8. PointerInv'
    BY <1>2, <1>3, <2>1, <2>5, <2>6, <2>7, MouseInv DEF UserFits
  <2> QED BY <1>2, <1>6, <2>1, <2>5, <2>6, <2>8 DEF CursorFollowsPointer, InCanvas
<1> QED BY <1>5, <1>6

(* A move changes no button, and drags the viewport by what it moved. *)
LEMMA MouseMoveHolds ==
  ASSUME PointerInv, MouseMove
  PROVE  PointerInv' /\ CursorFollowsPointer' /\ (view' = view \/ \E delta \in Places : Drag(delta))
<1> USE DEF PointerInv
<1> DEFINE w == UpdateVisibility(v, at' # Outside)
           x == ClipToCanvas(at')
           z == HandleMouseMove(w, x)
<1>1. /\ device = "mouse" /\ v.connected /\ MouseStays /\ DOMAIN v = Fields
      /\ at' \in Coords \cup {Outside} /\ UNCHANGED <<pressed, chord>>
      /\ v' = z \/ (~(at' # Outside \/ v.captured) /\ v' = w)
  <2>1. IF at' # Outside \/ v.captured THEN Mouse(z) ELSE Mouse(w)
    BY DEF MouseMove
  <2>2. /\ device = "mouse" /\ v.connected /\ UNCHANGED <<pressed, chord>>
        /\ at' \in Coords \cup {Outside}
    BY DEF MouseMove
  <2> HIDE DEF w, z
  <2> QED BY <2>1, <2>2 DEF Mouse, gestureVars, MouseStays, ViewerFits
<1>2. Same(w, v, {"shown"}) /\ (w.shown <=> v.captured \/ at' # Outside)
  BY <1>1, CursorIs
<1>3. x \in Coords /\ x \in Int
  BY <1>1, ClipIs, GestureAssumption
<1> HIDE DEF w, x
<1>4. /\ DOMAIN w = Fields /\ Settings(w) = Settings(v) /\ w.dragPos = v.dragPos
      /\ w.dragging = v.dragging /\ w.mask = v.mask /\ w.srvMask = w.mask /\ w.recheck = v.recheck
  BY <1>1, <1>2, FieldsAre DEF Same, Settings, ViewerFits
<1>5. /\ DOMAIN z = Fields /\ Settings(z) = Settings(w)
      /\ z.dragging = w.dragging /\ z.dragPos \in {w.dragPos, x}
      /\ z.mask = w.mask /\ z.srvMask = w.mask
      /\ z.shown = w.shown /\ z.recheck = w.recheck
  BY <1>4, MoveDrag
<1> HIDE DEF z
<1>6. PICK y \in {w, z} : v' = y
  BY <1>1
<1>7. /\ DOMAIN y = Fields /\ Settings(y) = Settings(v) /\ y.dragPos \in Int /\ v.dragPos \in Int
      /\ y.dragging = v.dragging /\ y.mask = v.mask /\ y.srvMask = v.mask
      /\ y.shown <=> v.captured \/ at' # Outside
  BY <1>2, <1>3, <1>4, <1>5 DEF ViewerFits
<1>8. /\ y.connected = v.connected /\ y.viewOnly = v.viewOnly
      /\ y.dragViewport = v.dragViewport /\ y.captured = v.captured
  BY <1>7 DEF Settings
<1>9. MouseHolds(v)'
  BY <1>1, <1>6, <1>7, <1>8 DEF MouseHolds, MouseStays
<1>10. PointerInv'
  BY <1>1, <1>6, <1>7, <1>8, <1>9, MouseInv DEF ViewerFits
<1>11. CursorFollowsPointer'
  BY <1>1, <1>6, <1>7, <1>8 DEF CursorFollowsPointer, InCanvas
<1>12. view' = view \/ \E delta \in Places : Drag(delta)
  <2> DEFINE far == [a \in Axes |-> IF a = "x" THEN v.dragPos - v'.dragPos ELSE 0]
  <2>1. far \in Places
    BY <1>6, <1>7 DEF Places
  <2>2. view' = view \/ Drag(far)
    BY DEF MouseMove
  <2> HIDE DEF far
  <2> QED BY <2>1, <2>2
<1> QED BY <1>10, <1>11, <1>12

(* The wheel's buttons go up at once. *)
LEMMA WheelHolds ==
  ASSUME PointerInv, Wheel
  PROVE  PointerInv' /\ (CursorFollowsPointer => CursorFollowsPointer')
<1> USE DEF PointerInv
<1>1. PICK delta \in {-30, 30} : v' = HandleWheel(v, at, delta)
  BY DEF Wheel, Mouse
<1>2. /\ device = "mouse" /\ v.connected /\ InCanvas /\ ~v.captured /\ MouseStays
      /\ UNCHANGED <<at, pressed, chord>> /\ DOMAIN v = Fields
  BY DEF Wheel, Mouse, gestureVars, MouseStays, ViewerFits
<1>3. /\ Live(v) /\ ~v.dragging /\ v.dragPos \in Int /\ v.srvMask = v.mask
      /\ at \in Int /\ (~chord => v.mask = {}) /\ (v.dragViewport => v.mask = {})
  BY <1>2, GestureAssumption DEF ViewerFits, UserFits, MouseHolds, InCanvas, Live
<1> DEFINE c(b) == Click(v, at, b)
           Good(z) == /\ DOMAIN z = Fields /\ Settings(z) = Settings(v) /\ ~z.dragging
                      /\ z.dragPos \in Int /\ z.srvMask = z.mask /\ z.mask \subseteq v.mask
                      /\ z.shown = v.shown /\ z.recheck = v.recheck
<1>4. ASSUME NEW b PROVE Good(c(b))
  <2> DEFINE z == c(b)
  <2>1. CASE v.dragViewport
    <3>0. v.mask = {} /\ v.srvMask = v.mask /\ v.dragViewport
      BY <1>3, <2>1
    <3>1. /\ DOMAIN z = Fields /\ Settings(z) = Settings(v)
          /\ ~z.dragging /\ z.dragPos = at /\ z.mask = {} /\ z.srvMask = {}
          /\ z.shown = v.shown /\ z.recheck = v.recheck
      BY <1>3, <3>0, ClickDrag
    <3> HIDE DEF z
    <3> QED BY <1>3, <3>0, <3>1 DEF z
  <2>2. CASE ~v.dragViewport
    <3>1. Plain(v)
      BY <1>3, <2>2 DEF Plain
    <3>2. /\ Plain(z) /\ Settings(z) = Settings(v)
          /\ z.dragPos = v.dragPos /\ z.shown = v.shown /\ z.recheck = v.recheck
          /\ z.srvMask = z.mask /\ z.mask = v.mask \ {b}
      BY <3>1, ClickPlain
    <3> HIDE DEF z
    <3> QED BY <1>3, <3>2 DEF z, Plain, Live
  <2> QED BY <2>1, <2>2
<1>5. \/ v' = v
      \/ \E b : v' = [c(b) EXCEPT !.wheel = 0]
      \/ v' = [v EXCEPT !.wheel = v.wheel + delta]
  <2> DEFINE total == v.wheel + delta
             button == IF total < 0 THEN 3 ELSE 4
  <2>1. v' = IF Distance(total, 0) >= WheelStep THEN [c(button) EXCEPT !.wheel = 0]
             ELSE [v EXCEPT !.wheel = total]
    BY <1>1, <1>3 DEF HandleWheel, Live
  <2> HIDE DEF c, button
  <2> QED BY <2>1 DEF total
<1>6. Good(v)
  BY <1>3 DEF Live
<1>7. ASSUME NEW y, NEW q, Good(y) PROVE Good([y EXCEPT !.wheel = q])
  BY <1>7, FieldsAre DEF Settings
<1> HIDE DEF c, Good
<1>8. Good(v')
  BY <1>4, <1>5, <1>6, <1>7
<1>9. /\ v'.connected = v.connected /\ v'.viewOnly = v.viewOnly
      /\ v'.dragViewport = v.dragViewport /\ v'.captured = v.captured
  BY <1>8 DEF Good, Settings
<1>10. MouseHolds(v)'
  <2>1. ~chord => v'.mask = {}
    BY <1>3, <1>8 DEF Good
  <2> QED BY <1>2, <2>1 DEF MouseHolds, MouseStays
<1>11. PointerInv'
  <2>1. v'.dragViewport => v'.mask = {}
    BY <1>3, <1>8, <1>9 DEF Good
  <2> QED BY <1>2, <1>8, <1>9, <1>10, <2>1, MouseInv DEF Good, UserFits
<1> QED BY <1>2, <1>8, <1>9, <1>11 DEF Good, CursorFollowsPointer, InCanvas, MouseStays
-----------------------------------------------------------------------------
(* All of the input: gestures, pointer and cursor *)
InputInv == GestureInv /\ PointerInv /\ CursorFollowsPointer

(* Nothing is pressed at first. *)
LEMMA InputInitHolds == InputInit => InputInv
<1> SUFFICES ASSUME InputInit PROVE InputInv
  OBVIOUS
<1>1. Init /\ device \in Devices /\ at = Outside /\ pressed = {} /\ chord = FALSE
  BY DEF InputInit
<1>2. PICK p \in Platforms, d \in BOOLEAN : (d => device = "mouse") /\ v = Viewer(p, d)
  BY DEF InputInit
<1>3. /\ state = Gestures /\ tracked = <<>> /\ ignored = {} /\ ~waitingRelease /\ ~longpress
      /\ waitingRelease \in BOOLEAN /\ longpress \in BOOLEAN
      /\ twoTouch = "null" /\ down = {} /\ ~thrown
  BY <1>1 DEF Init
<1>4. GestureInv
  <2>1. GestureTypes
    BY <1>3 DEF GestureTypes
  <2>2. Active(<<>>) = {} /\ Distinct(<<>>)
    BY DEF Active, Distinct
  <2>3. AllAccounted /\ AtRest /\ Releasing /\ StatePossible /\ TimersFit
    BY <1>3, <2>2 DEF AllAccounted, AtRest, Releasing, StatePossible, TimersFit
  <2> QED BY <1>3, <2>1, <2>3 DEF GestureInv
<1>5. /\ DOMAIN v = Fields /\ v.dragPos = 0 /\ ~v.viewOnly /\ (v.dragViewport <=> d) /\ ~v.captured
      /\ ~v.dragging /\ v.mask = {} /\ v.srvMask = {} /\ v.srvX = v.pos /\ ~v.shown
  BY <1>2, FieldsAre DEF Viewer
<1>6. UserFits
  BY <1>1, <1>3 DEF UserFits
<1>7. ViewerFits(v)
  BY <1>2, <1>5 DEF ViewerFits
<1>8. TouchHolds(v) /\ MouseHolds(v)
  BY <1>1, <1>3, <1>5, ButtonsOfAre DEF TouchHolds, MouseHolds
<1>9. CursorFollowsPointer
  BY <1>1, <1>5 DEF CursorFollowsPointer, InCanvas
<1> QED BY <1>4, <1>6, <1>7, <1>8, <1>9 DEF InputInv, PointerInv

(* The pointer follows the gestures; without a touch there are none. *)
LEMMA GestureHandled ==
  ASSUME InputInv, v.connected, EventsFit, v' = Handled(v, events'),
         UNCHANGED <<device, at, pressed, chord>>,
         device # "touch" => events' = <<>> /\ tracked' = <<>> /\ down' = {}
  PROVE  PointerInv' /\ CursorFollowsPointer'
<1> USE DEF InputInv
<1>1. UserFits'
  BY DEF PointerInv, UserFits
<1>2. CASE device = "touch"
  <2>1. SamePlain(v', v) /\ (v' = v \/ Synced(v')) /\ v'.mask = ButtonsOf(state')
    BY <1>2, GestureHolds
  <2>2. /\ DOMAIN v' = Fields /\ v'.dragPos = v.dragPos /\ ~v'.viewOnly /\ ~v'.dragViewport
        /\ ~v'.dragging /\ v'.captured = v.captured
    BY <2>1 DEF SamePlain, Plain, Live, Settings
  <2>3. v'.srvMask = v'.mask /\ (~v'.timer => v'.srvX = v'.pos)
    BY <1>2, <2>1 DEF Synced, PointerInv, ViewerFits, TouchHolds
  <2>4. ViewerFits(v)'
    BY <1>2, <2>2, <2>3 DEF PointerInv, ViewerFits
  <2>5. TouchHolds(v)'
    BY <2>1, <2>3 DEF TouchHolds
  <2>6. MouseHolds(v)' /\ CursorFollowsPointer'
    BY <1>2 DEF MouseHolds, CursorFollowsPointer
  <2> QED BY <1>1, <2>4, <2>5, <2>6 DEF PointerInv
<1>3. CASE device # "touch"
  <2>1. v' = v
    BY <1>3, FoldNone
  <2>2. ViewerFits(v)'
    BY <2>1 DEF PointerInv, ViewerFits
  <2>3. TouchHolds(v)'
    BY <1>3 DEF TouchHolds
  <2>4. MouseHolds(v)'
    BY <2>1 DEF PointerInv, MouseHolds
  <2>5. CursorFollowsPointer'
    BY <2>1 DEF CursorFollowsPointer, InCanvas
  <2> QED BY <1>1, <2>2, <2>3, <2>4, <2>5 DEF PointerInv
<1> QED BY <1>2, <1>3

(* The steps of the gesture handler *)
GestureNext == \/ FingerDown \/ FingerMove \/ FingerUp
               \/ LongpressTimer \/ TwoTouchTimer \/ TimePasses

(* Each step of the gesture handler keeps the account of the fingers, and  *)
(* its events fit; without a touch there are none.                         *)
LEMMA GestureNextFits ==
  ASSUME InputInv, GestureNext
  PROVE  /\ GestureInv' /\ EventsFit
         /\ device # "touch" => events' = <<>> /\ tracked' = <<>> /\ down' = {}
<1> USE DEF InputInv
<1> DEFINE Rest == device # "touch" => events' = <<>> /\ tracked' = <<>> /\ down' = {}
<1>1. CASE FingerDown
  <2>1. PICK f \in Fingers, x \in Coords : device = "touch" /\ TouchStart(f, x)
    BY <1>1 DEF FingerDown, Gesture
  <2>2. GestureInv' /\ EventsFit /\ Rest
    BY <2>1, TouchStartFits DEF EventsFit
  <2> QED BY <2>2
<1>2. CASE FingerMove
  <2>1. PICK f \in down, x \in Coords : TouchMove(f, x)
    BY <1>2 DEF FingerMove, Gesture
  <2>2. f \in Fingers /\ device = "touch"
    BY <2>1 DEF GestureInv, GestureTypes, PointerInv, UserFits
  <2>3. GestureInv' /\ EventsFit /\ Rest
    BY <2>1, <2>2, TouchMoveFits
  <2> QED BY <2>3
<1>3. CASE FingerUp
  <2>1. PICK f \in down : TouchEnd(f)
    BY <1>3 DEF FingerUp, Gesture
  <2>2. f \in Fingers /\ device = "touch"
    BY <2>1 DEF GestureInv, GestureTypes, PointerInv, UserFits
  <2>3. GestureInv' /\ EventsFit /\ Rest
    BY <2>1, <2>2, TouchEndFits
  <2> QED BY <2>3
<1>4. CASE LongpressTimer
  <2>1. LongpressTimeout
    BY <1>4 DEF LongpressTimer, Gesture
  <2>2. device = "touch"
    BY <2>1 DEF LongpressTimeout, GestureInv, TimersFit, PointerInv, UserFits
  <2>3. GestureInv' /\ EventsFit /\ Rest
    BY <2>1, <2>2, LongpressFits DEF EventsFit
  <2> QED BY <2>3
<1>5. CASE TwoTouchTimer
  <2>1. TwoTouchTimeout
    BY <1>5 DEF TwoTouchTimer, Gesture
  <2>2. device = "touch"
    BY <2>1 DEF TwoTouchTimeout, GestureInv, TimersFit, PointerInv, UserFits
  <2>3. GestureInv' /\ EventsFit /\ Rest
    BY <2>1, <2>2, TwoTouchFits DEF EventsFit
  <2> QED BY <2>3
<1>6. CASE TimePasses
  <2>1. Elapse
    BY <1>6 DEF TimePasses, Gesture
  <2>2. GestureInv' /\ EventsFit
    BY <2>1, ElapseFits DEF EventsFit
  <2>3. DOMAIN tracked' = DOMAIN tracked /\ down' = down /\ events' = <<>>
    BY <2>1 DEF Elapse
  <2>4. Rest
    <3> SUFFICES ASSUME device # "touch" PROVE tracked' = <<>> /\ down' = {}
      BY <2>3
    <3>1. tracked = <<>> /\ down = {}
      BY DEF PointerInv, UserFits
    <3>2. tracked' \in Seq(Touch) /\ DOMAIN tracked' = {}
      BY <2>2, <2>3, <3>1 DEF GestureInv, GestureTypes
    <3> QED BY <2>3, <3>1, <3>2
  <2> QED BY <2>2, <2>4
<1> QED BY <1>1, <1>2, <1>3, <1>4, <1>5, <1>6 DEF GestureNext

(* What the viewer makes of it *)
LEMMA GestureNextHolds ==
  ASSUME InputInv, GestureNext
  PROVE  InputInv'
<1>1. v.connected /\ v' = Handled(v, events') /\ UNCHANGED <<view, device, at, pressed, chord>>
  BY DEF GestureNext, FingerDown, FingerMove, FingerUp, LongpressTimer, TwoTouchTimer,
         TimePasses, Gesture, Handled
<1> QED BY <1>1, GestureNextFits, GestureHandled DEF InputInv

(* Steps that do not touch the gesture handler *)
GestureStays == UNCHANGED gestureVars

(* The account of the fingers is about the handler's variables only. *)
LEMMA GestureStaysFit == GestureInv /\ GestureStays => GestureInv'
<1> SUFFICES ASSUME GestureInv, GestureStays PROVE GestureInv'
  OBVIOUS
<1>1. UNCHANGED <<state, tracked, ignored, waitingRelease, longpress, twoTouch, down, thrown>>
  BY DEF GestureStays, gestureVars
<1>2. GestureTypes' /\ AllAccounted' /\ AtRest' /\ Releasing' /\ StatePossible' /\ TimersFit'
  BY <1>1 DEF GestureInv, GestureTypes, AllAccounted, AtRest, Releasing, StatePossible, TimersFit
<1> QED BY <1>1, <1>2 DEF GestureInv

(* A step of the keyboard leaves fingers, pointer and cursor as they are. *)
LEMMA KeyStepHolds ==
  ASSUME InputInv, KeysOnly(v', v), GestureStays, UNCHANGED <<device, at, pressed, chord>>
  PROVE  InputInv'
<1> USE DEF InputInv
<1>1. DOMAIN v' = Fields /\ \A f \in PointerFields : v'[f] = v[f]
  BY FieldsAre DEF KeysOnly, KeyFields, PointerFields
<1>2. UserStays
  BY DEF UserStays, GestureStays, gestureVars
<1>3. PointerInv'
  BY <1>1, <1>2, SameViewer DEF PointerFields
<1>4. CursorFollowsPointer'
  BY <1>1 DEF CursorFollowsPointer, InCanvas, PointerFields
<1> QED BY <1>3, <1>4, GestureStaysFit

(* All but the change to view-only are such steps. *)
LEMMA KeyNextHolds ==
  ASSUME InputInv, KeyDown \/ KeyUp \/ AltGrTimer \/ AltGrIsLate \/ Blur \/ Focus
  PROVE  InputInv'
<1>1. DOMAIN v = Fields
  BY DEF InputInv, PointerInv, ViewerFits
<1>2. GestureStays /\ UNCHANGED <<device, at, pressed, chord>>
  BY DEF KeyDown, KeyUp, AltGrTimer, AltGrIsLate, Blur, Focus, Keys, GestureStays
<1>3. \/ v' = v \/ \E e : v' = HandleKeyDown(v, e) \/ v' = HandleKeyUp(v, e)
      \/ v' = SendArmedCtrl(v) \/ v' = [v EXCEPT !.late = TRUE] \/ v' = AllKeysUp(v)
  BY DEF KeyDown, KeyUp, AltGrTimer, HandleAltGrTimeout, AltGrIsLate, Blur, Focus, Keys
<1>4. KeysOnly(v', v)
  BY <1>1, <1>3, HandleKeyDownKeys, HandleKeyUpKeys, SendArmedCtrlKeys, DisarmKeys,
     ReleaseAllKeys DEF AllKeysUp
<1> QED BY <1>2, <1>4, KeyStepHolds

(* View-only is set by the page, with no pointer in use. *)
LEMMA SetViewOnlyHolds ==
  ASSUME InputInv, SetViewOnly
  PROVE  InputInv'
<1> USE DEF InputInv
<1> DEFINE w == [v EXCEPT !.viewOnly = ~v.viewOnly]
<1>1. /\ device \in {"keys", "window"} /\ GestureStays /\ UNCHANGED <<device, at, pressed, chord>>
      /\ v' = AllKeysUp(w) \/ v' = w
  BY DEF SetViewOnly, Keys, GestureStays
<1>2. DOMAIN v = Fields
  BY DEF PointerInv, ViewerFits
<1>3. Same(w, v, {"viewOnly"})
  BY <1>2, FieldsAre DEF Same
<1> HIDE DEF w
<1>4. KeysOnly(v', w)
  BY <1>1, <1>3, ReleaseAllKeys, DisarmKeys DEF AllKeysUp, Same
<1>5. /\ DOMAIN v' = Fields
      /\ v'.dragPos = v.dragPos /\ v'.dragViewport = v.dragViewport /\ v'.captured = v.captured
      /\ v'.dragging = v.dragging /\ v'.mask = v.mask /\ v'.srvMask = v.srvMask
      /\ v'.connected = v.connected
  BY <1>3, <1>4, FieldsAre DEF Same, KeysOnly, KeyFields
<1>6. device # "touch" /\ device # "mouse"
  BY <1>1
<1>7. UserFits'
  BY <1>1 DEF PointerInv, UserFits, GestureStays, gestureVars
<1>8. ViewerFits(v)'
  BY <1>1, <1>5, <1>6 DEF PointerInv, ViewerFits
<1>9. TouchHolds(v)' /\ MouseHolds(v)' /\ CursorFollowsPointer'
  BY <1>1, <1>6 DEF TouchHolds, MouseHolds, CursorFollowsPointer
<1> QED BY <1>1, <1>7, <1>8, <1>9, GestureStaysFit DEF PointerInv

(* The end of the connection stops the timers of gestures and moves. *)
LEMMA DisconnectHolds ==
  ASSUME InputInv, Disconnect
  PROVE  InputInv'
<1> USE DEF InputInv
<1> DEFINE w == [v EXCEPT !.connected = FALSE, !.timer = FALSE, !.shown = FALSE]
<1>1. /\ v' = AllKeysUp(w) /\ longpress' = FALSE /\ twoTouch' = "null"
      /\ UNCHANGED <<state, tracked, ignored, waitingRelease, down, thrown>>
      /\ UNCHANGED <<device, at, pressed, chord>>
  BY DEF Disconnect, userVars
<1>2. DOMAIN v = Fields
  BY DEF PointerInv, ViewerFits
<1>3. Same(w, v, {"connected", "timer", "shown"}) /\ ~w.connected
  BY <1>2, FieldsAre DEF Same
<1> HIDE DEF w
<1>4. KeysOnly(v', w)
  BY <1>1, <1>3, ReleaseAllKeys DEF AllKeysUp, Same
<1>5. /\ DOMAIN v' = Fields
      /\ v'.dragPos = v.dragPos /\ v'.dragViewport = v.dragViewport /\ v'.captured = v.captured
      /\ v'.dragging = v.dragging /\ v'.mask = v.mask /\ v'.viewOnly = v.viewOnly
      /\ ~v'.connected
  BY <1>3, <1>4, FieldsAre DEF Same, KeysOnly, KeyFields
<1>6. UserFits'
  BY <1>1 DEF PointerInv, UserFits
<1>7. ViewerFits(v)'
  BY <1>1, <1>5 DEF PointerInv, ViewerFits
<1>8. TouchHolds(v)' /\ MouseHolds(v)' /\ CursorFollowsPointer'
  BY <1>1, <1>5 DEF PointerInv, TouchHolds, MouseHolds, CursorFollowsPointer
<1>9. GestureTypes' /\ AllAccounted' /\ AtRest' /\ Releasing' /\ StatePossible' /\ TimersFit'
  BY <1>1 DEF GestureInv, GestureTypes, AllAccounted, AtRest, Releasing, StatePossible, TimersFit
<1> QED BY <1>1, <1>6, <1>7, <1>8, <1>9 DEF GestureInv, PointerInv

(* Timers of the viewer; the check of the cursor shows or hides it. *)
LEMMA ViewerTimerHolds ==
  ASSUME InputInv, TapIsOld \/ MoveIsOld \/ CursorRecheck \/ MoveTimer
  PROVE  InputInv'
<1> USE DEF InputInv
<1>1. GestureStays /\ UserStays /\ UNCHANGED <<device, at, pressed, chord>>
  BY DEF TapIsOld, MoveIsOld, CursorRecheck, MoveTimer, userVars, GestureStays, gestureVars, UserStays
<1>2. DOMAIN v = Fields
  BY DEF PointerInv, ViewerFits
<1>3. CASE TapIsOld \/ MoveIsOld
  <2>1. Same(v', v, {"lastTap", "recent"})
    BY <1>2, <1>3, FieldsAre DEF TapIsOld, MoveIsOld, Same
  <2>2. \A f \in PointerFields : v'[f] = v[f]
    BY <2>1, FieldsAre DEF Same, PointerFields
  <2>3. PointerInv'
    BY <1>1, <2>1, <2>2, SameViewer DEF Same, PointerFields
  <2>4. CursorFollowsPointer'
    BY <1>1, <2>2 DEF CursorFollowsPointer, InCanvas, PointerFields
  <2> QED BY <1>1, <2>3, <2>4, GestureStaysFit
<1>4. CASE CursorRecheck
  <2> DEFINE u == UpdateVisibility(v, InCanvas)
  <2>1. Same(u, v, {"shown"}) /\ (u.shown <=> v.captured \/ InCanvas)
    BY <1>2, CursorIs
  <2>2. v' = IF v.connected THEN [u EXCEPT !.recheck = FALSE] ELSE [v EXCEPT !.recheck = FALSE]
    BY <1>4 DEF CursorRecheck
  <2> HIDE DEF u
  <2>3. /\ Same(v', v, {"shown", "recheck"})
        /\ v.connected => (v'.shown <=> v.captured \/ InCanvas)
    <3>1. CASE v.connected
      <4>1. v' = [u EXCEPT !.recheck = FALSE]
        BY <2>2, <3>1
      <4> QED BY <2>1, <4>1, FieldsAre DEF Same
    <3>2. CASE ~v.connected
      <4>1. v' = [v EXCEPT !.recheck = FALSE]
        BY <2>2, <3>2
      <4> QED BY <1>2, <3>2, <4>1, FieldsAre DEF Same
    <3> QED BY <3>1, <3>2
  <2>4. \A f \in PointerFields \ {"shown", "recheck"} : v'[f] = v[f]
    BY <2>3, FieldsAre DEF Same, PointerFields
  <2>5. PointerInv'
    BY <1>1, <2>3, <2>4, SameViewer DEF Same, PointerFields
  <2>6. v'.connected = v.connected /\ v'.captured = v.captured
    BY <2>4 DEF PointerFields
  <2>7. CursorFollowsPointer'
    BY <1>1, <2>3, <2>6 DEF CursorFollowsPointer, InCanvas
  <2> QED BY <1>1, <2>5, <2>7, GestureStaysFit
<1>5. CASE MoveTimer
  <2>1. v' = HandleDelayedMouseMove(v) /\ v.connected
    BY <1>5 DEF MoveTimer
  <2>2. v.srvMask = v.mask
    BY <2>1 DEF PointerInv, ViewerFits
  <2>3. /\ DOMAIN v' = Fields /\ Settings(v') = Settings(v)
        /\ v'.dragging = v.dragging /\ v'.dragPos = v.dragPos
        /\ v'.mask = v.mask /\ v'.srvMask = v.mask /\ v'.pos = v.pos
        /\ (Live(v) => v'.srvX = v'.pos)
        /\ v'.shown = v.shown /\ v'.recheck = v.recheck
    BY <1>2, <2>1, <2>2, DelayedMoveIs
  <2>4. /\ v'.connected = v.connected /\ v'.viewOnly = v.viewOnly
        /\ v'.dragViewport = v.dragViewport /\ v'.captured = v.captured
    BY <2>3 DEF Settings
  <2>5. UserFits'
    BY <1>1 DEF PointerInv, UserFits, UserStays
  <2>6. ViewerFits(v)'
    BY <1>1, <2>2, <2>3, <2>4 DEF PointerInv, ViewerFits
  <2>7. TouchHolds(v)'
    BY <1>1, <1>2, <2>1, <2>3, <2>4 DEF PointerInv, TouchHolds, ViewerFits, Live, UserStays
  <2>8. MouseHolds(v)'
    BY <1>1, <2>3, <2>4 DEF PointerInv, MouseHolds
  <2>9. CursorFollowsPointer'
    BY <1>1, <2>3, <2>4 DEF CursorFollowsPointer, InCanvas
  <2> QED BY <1>1, <2>5, <2>6, <2>7, <2>8, <2>9, GestureStaysFit DEF PointerInv
<1> QED BY <1>3, <1>4, <1>5

(* Every step, of the user, of a timer, of the page or of the connection,  *)
(* keeps the account of fingers, buttons and cursor.                       *)
THEOREM InputInvInductive == InputInv /\ [Next]_vars => InputInv'
<1> SUFFICES ASSUME InputInv, [Next]_vars PROVE InputInv'
  OBVIOUS
<1>1. CASE GestureNext
  BY <1>1, GestureNextHolds
<1>2. CASE TapIsOld \/ MoveIsOld \/ CursorRecheck \/ MoveTimer
  BY <1>2, ViewerTimerHolds
<1>3. CASE MouseDown
  <2>1. GestureStays
    BY <1>3 DEF MouseDown, Mouse, GestureStays
  <2> QED BY <1>3, <2>1, MouseDownHolds, GestureStaysFit DEF InputInv
<1>4. CASE MouseUp
  <2>1. GestureStays
    BY <1>4 DEF MouseUp, Mouse, GestureStays
  <2> QED BY <1>4, <2>1, MouseUpHolds, GestureStaysFit DEF InputInv
<1>5. CASE MouseMove
  <2>1. GestureStays
    BY <1>5 DEF MouseMove, Mouse, GestureStays
  <2> QED BY <1>5, <2>1, MouseMoveHolds, GestureStaysFit DEF InputInv
<1>6. CASE Wheel
  <2>1. GestureStays
    BY <1>6 DEF Wheel, Mouse, GestureStays
  <2> QED BY <1>6, <2>1, WheelHolds, GestureStaysFit DEF InputInv
<1>7. CASE KeyDown \/ KeyUp \/ AltGrTimer \/ AltGrIsLate \/ Blur \/ Focus
  BY <1>7, KeyNextHolds
<1>8. CASE SetViewOnly
  BY <1>8, SetViewOnlyHolds
<1>9. CASE ViewChanges \/ UNCHANGED vars
  <2>1. v' = v /\ GestureStays /\ UNCHANGED <<device, at, pressed, chord>>
    BY <1>9 DEF ViewChanges, userVars, vars, GestureStays
  <2>2. KeysOnly(v', v)
    BY <2>1, DisarmKeys DEF InputInv, PointerInv, ViewerFits
  <2> QED BY <2>1, <2>2, KeyStepHolds
<1>10. CASE Disconnect
  BY <1>10, DisconnectHolds
<1> QED BY <1>1, <1>2, <1>3, <1>4, <1>5, <1>6, <1>7, <1>8, <1>9, <1>10 DEF Next, GestureNext
-----------------------------------------------------------------------------
(* What the user does reaches the view by the display's steps only. *)
LEMMA NextIsViewStep == InputInv /\ [Next]_vars => [ViewStep]_view
<1> SUFFICES ASSUME InputInv, [Next]_vars, view' # view PROVE ViewStep
  OBVIOUS
<1>1. Drags \subseteq Places
  BY SizesAssumption DEF Places
<1>2. CASE MouseMove
  BY <1>2, MouseMoveHolds DEF InputInv, ViewStep
<1>3. CASE ViewChanges
  BY <1>1, <1>3 DEF ViewChanges, ViewStep
<1>4. CASE SetViewOnly
  BY <1>4 DEF SetViewOnly, ViewStep
<1>5. CASE Disconnect
  BY <1>5 DEF Disconnect, ViewStep
<1>6. CASE GestureNext \/ TapIsOld
  BY <1>6 DEF GestureNext, FingerDown, FingerMove, FingerUp, LongpressTimer, TwoTouchTimer,
              TimePasses, Gesture, TapIsOld
<1>7. CASE MouseDown \/ MouseUp \/ Wheel \/ CursorRecheck \/ MoveTimer \/ MoveIsOld
  BY <1>7 DEF MouseDown, MouseUp, Wheel, CursorRecheck, MoveTimer, MoveIsOld
<1>8. CASE KeyDown \/ KeyUp \/ AltGrTimer \/ AltGrIsLate \/ Blur \/ Focus
  BY <1>8 DEF KeyDown, KeyUp, AltGrTimer, AltGrIsLate, Blur, Focus
<1>9. CASE UNCHANGED vars
  BY <1>9 DEF vars
<1> QED BY <1>2, <1>3, <1>4, <1>5, <1>6, <1>7, <1>8, <1>9 DEF Next, GestureNext

(* Whatever is resized, clipped, scaled and dragged in which order, the    *)
(* viewport lies within the framebuffer; once a frame was drawn it shows   *)
(* what the page asked for, each point of the canvas is one of the         *)
(* framebuffer, and the server was asked for the size of the container.    *)
THEOREM ViewStaysFit == ViewSpec => []ViewFits
<1>1. FitInv /\ [ViewNext]_view => FitInv'
  BY ViewNextIsStep, FitInvInductive
<1> QED BY <1>1, FitInit, FitMeansFits, PTL DEF ViewSpec

(* The same with the mouse that drags the viewport by what it moved, and   *)
(* with everything else that happens to the viewer.                        *)
THEOREM ViewerShowsFramebuffer == Spec => []ViewFits
<1>1. InputInit => InputInv /\ FitInv
  BY InputInitHolds, FitInit DEF InputInit
<1>2. InputInv /\ FitInv /\ [Next]_vars => (InputInv /\ FitInv)'
  BY InputInvInductive, NextIsViewStep, FitInvInductive
<1> QED BY <1>1, <1>2, FitMeansFits, PTL DEF Spec

-----------------------------------------------------------------------------
(* Every finger on the screen is tracked or ignored, never both; with the  *)
(* last one gone the handler is ready for any gesture, and no timer ever   *)
(* meets fingers it was not set for.                                       *)
THEOREM FingersStayAccounted == Spec => []FingersAccounted
<1>1. InputInv => FingersAccounted
  <2> SUFFICES ASSUME InputInv PROVE FingersAccounted
    OBVIOUS
  <2> USE DEF InputInv, GestureInv
  <2>1. down = ActiveIds \cup ignored /\ ActiveIds \cap ignored = {}
    BY ActiveIdsAre DEF AllAccounted
  <2>2. ASSUME down = {}
        PROVE  state = Gestures /\ tracked = <<>> /\ ~waitingRelease /\ ~longpress
    <3>1. Active(tracked) = {} /\ ignored = {}
      BY <2>2 DEF AllAccounted
    <3>2. tracked = <<>>
      BY <3>1 DEF Releasing
    <3>3. Len(tracked) = 0
      BY <3>2
    <3> QED BY <3>1, <3>2, <3>3 DEF AtRest, TimersFit
  <2> QED BY <2>1, <2>2 DEF FingersAccounted
<1> QED BY <1>1, InputInitHolds, InputInvInductive, PTL DEF Spec

(* The buttons at the server are those of the gesture. *)
LEMMA ButtonsFit == InputInv => ButtonsFollowGesture
<1> SUFFICES ASSUME InputInv, device = "touch", v.connected
             PROVE  v.srvMask = {DragButton[g] : g \in CurrentGesture \cap DOMAIN DragButton}
  BY DEF ButtonsFollowGesture
<1> USE DEF InputInv
<1>1. v.srvMask = ButtonsOf(state)
  BY DEF PointerInv, ViewerFits, TouchHolds
<1>2. DOMAIN DragButton = {"drag", "longpress"}
      /\ DragButton["drag"] = 0 /\ DragButton["longpress"] = 2
  BY DEF DragButton
<1>3. tracked = <<>> => state \notin Sure
  <2>1. Gestures \notin Sure /\ NoGesture \notin Sure
    BY DEF Sure, Gestures, Taps, NoGesture
  <2> QED BY <2>1 DEF GestureInv, AtRest
<1>4. CurrentGesture = IF state \in Sure THEN state ELSE NoGesture
  BY <1>3, KnownAre DEF CurrentGesture
<1>5. CASE state \notin Sure
  <2>1. ButtonsOf(state) = {}
    BY <1>5 DEF ButtonsOf, Sure
  <2> QED BY <1>1, <1>4, <1>5, <2>1 DEF NoGesture
<1>6. CASE state \in {{"twodrag"}, {"pinch"}}
  <2>1. CurrentGesture \cap DOMAIN DragButton = {}
    BY <1>2, <1>4, <1>6 DEF Sure
  <2> QED BY <1>1, <1>6, <2>1, ButtonsOfAre
<1>7. CASE state = {"drag"}
  <2>1. CurrentGesture \cap DOMAIN DragButton = {"drag"}
    BY <1>2, <1>4, <1>7 DEF Sure
  <2> QED BY <1>1, <1>2, <1>7, <2>1, ButtonsOfAre
<1>8. CASE state = {"longpress"}
  <2>1. CurrentGesture \cap DOMAIN DragButton = {"longpress"}
    BY <1>2, <1>4, <1>8 DEF Sure
  <2> QED BY <1>1, <1>2, <1>8, <2>1, ButtonsOfAre
<1> QED BY <1>5, <1>6, <1>7, <1>8 DEF Sure

(* The server holds the buttons of the touch gesture that goes on, and no  *)
(* other: each press is released by the gesture's end.                     *)
THEOREM ButtonsStayWithGesture == Spec => []ButtonsFollowGesture
BY ButtonsFit, InputInitHolds, InputInvInductive, PTL DEF Spec

(* The server's pointer is the viewer's, and holds no button that the user *)
(* let go of.                                                              *)
THEOREM PointerStaysFaithful == Spec => []PointerFaithful
<1>1. InputInv => PointerFaithful
  <2> SUFFICES ASSUME InputInv PROVE PointerFaithful
    OBVIOUS
  <2> USE DEF InputInv, PointerInv
  <2>1. PointerSynced
    BY DEF PointerSynced, ViewerFits, TouchHolds
  <2>2. ButtonsReleased
    <3> SUFFICES ASSUME v.connected, pressed = {}, down = {}, ~chord PROVE v.mask = {}
      BY DEF ButtonsReleased, ViewerFits
    <3>1. CASE device = "touch"
      <4>1. Active(tracked) = {} /\ ignored = {}
        BY DEF GestureInv, AllAccounted
      <4>2. state = Gestures
        BY <4>1 DEF GestureInv, Releasing, AtRest
      <4> QED BY <3>1, <4>2, ButtonsOfAre DEF TouchHolds
    <3>2. CASE device = "mouse"
      BY <3>2 DEF MouseHolds
    <3> QED BY <3>1, <3>2 DEF ViewerFits
  <2> QED BY <2>1, <2>2 DEF PointerFaithful
<1> QED BY <1>1, InputInitHolds, InputInvInductive, PTL DEF Spec

(* The emulated cursor is visible over the canvas and during a capture,    *)
(* and nowhere else, once the delayed check has run.                       *)
THEOREM CursorStaysWithPointer == Spec => []CursorFollowsPointer
<1>1. InputInv => CursorFollowsPointer
  BY DEF InputInv
<1> QED BY <1>1, InputInitHolds, InputInvInductive, PTL DEF Spec

(* The last release of a tap that is in time is its end. *)
LEMMA TapEnds ==
  ASSUME NEW f, EndTracked(f), ~Detected(state, tracked), twoTouch = "null", ~waitingRelease,
         ~\E i \in DOMAIN tracked : tracked[i].age > 1,
         NEW g, Remaining(state) = {g}, Detected({g}, Lifted(tracked, f))
  PROVE  Dispatch(<<"gesturestart", "gestureend">>, {g}, Lifted(tracked, f))
<1> DEFINE known == Detected(state, tracked)
           cut == ~known /\ twoTouch # "null"
           s0 == IF cut THEN NoGesture ELSE state
           waiting == waitingRelease \/ ~known
           slow == \/ waitingRelease /\ releaseAge > 0
                   \/ \E i \in DOMAIN tracked : tracked[i].age > 1
           s == IF known THEN (IF waiting /\ slow THEN NoGesture ELSE s0)
                ELSE IF slow THEN NoGesture ELSE Remaining(s0)
           ts == [i \in DOMAIN tracked |->
                   IF waiting /\ tracked[i].id = f THEN [tracked[i] EXCEPT !.active = FALSE]
                   ELSE tracked[i]]
           types == CASE waiting /\ Detected(s, ts) -> <<"gesturestart", "gestureend">>
                      [] ~waiting /\ Detected(s, ts) -> <<"gestureend">>
                      [] OTHER -> <<>>
<1>1. (waiting /\ ~Detected(s, ts) /\ s # NoGesture) \/ Finish(f, types, s, ts)
  BY DEF EndTracked
<1>2. waiting /\ s = {g} /\ ts = Lifted(tracked, f)
  <2>1. waiting /\ ~slow /\ ~known /\ s0 = state
    OBVIOUS
  <2>2. s = {g}
    BY <2>1
  <2> HIDE DEF slow, s0, s
  <2> QED BY <2>1, <2>2 DEF Lifted
<1>3. types = <<"gesturestart", "gestureend">>
  <2> HIDE DEF s, ts, waiting
  <2> QED BY <1>2
<1> HIDE DEF s, ts, types, waiting
<1> QED BY <1>1, <1>2, <1>3 DEF Finish

(* Whatever happened before, a single finger that did not move and is      *)
(* lifted within a second makes a tap.                                     *)
THEOREM TapsStayHonoured == Spec => TapHonoured
<1> DEFINE Lone == /\ Len(tracked) = 1 /\ state = Gestures /\ tracked[1].age < 2
                   /\ twoTouch = "null" /\ ActiveIds \ down' # {}
<1>1. ASSUME InputInv, [Next]_vars, Lone PROVE events' # <<>>
  <2>1. GestureTypes /\ AllAccounted /\ Releasing /\ StatePossible
    BY <1>1 DEF InputInv, GestureInv
  <2>2. PICK f : f \in ActiveIds /\ f \in down /\ f \notin down' /\ f \notin ignored
    BY <1>1, <2>1, ActiveIdsAre DEF AllAccounted
  <2>3. PICK g \in down : TouchEnd(g)
    <3>1. CASE FingerDown \/ FingerMove \/ LongpressTimer \/ TwoTouchTimer \/ TimePasses
      <4>1. down \subseteq down'
        <5>1. CASE FingerDown
          <6>1. PICK h \in Fingers, x \in Coords : TouchStart(h, x)
            BY <5>1 DEF FingerDown, Gesture
          <6> QED BY <6>1 DEF TouchStart
        <5>2. CASE FingerMove
          <6>1. PICK h \in down, x \in Coords : TouchMove(h, x)
            BY <5>2 DEF FingerMove, Gesture
          <6> QED BY <6>1 DEF TouchMove
        <5>3. CASE LongpressTimer
          BY <5>3 DEF LongpressTimer, Gesture, LongpressTimeout
        <5>4. CASE TwoTouchTimer
          BY <5>4 DEF TwoTouchTimer, Gesture, TwoTouchTimeout
        <5>5. CASE TimePasses
          BY <5>5 DEF TimePasses, Gesture, Elapse
        <5> QED BY <3>1, <5>1, <5>2, <5>3, <5>4, <5>5
      <4> QED BY <2>2, <4>1
    <3>2. CASE FingerUp
      BY <3>2 DEF FingerUp, Gesture
    <3>3. CASE \/ MouseDown \/ MouseUp \/ MouseMove \/ Wheel \/ CursorRecheck \/ MoveTimer
               \/ MoveIsOld \/ TapIsOld
      BY <2>2, <3>3 DEF MouseDown, MouseUp, MouseMove, Wheel, CursorRecheck, MoveTimer,
                        MoveIsOld, TapIsOld, Mouse, gestureVars
    <3>4. CASE KeyDown \/ KeyUp \/ AltGrTimer \/ AltGrIsLate \/ Blur \/ Focus \/ SetViewOnly
      BY <2>2, <3>4 DEF KeyDown, KeyUp, AltGrTimer, AltGrIsLate, Blur, Focus, SetViewOnly, Keys,
                        gestureVars
    <3>5. CASE ViewChanges \/ Disconnect \/ UNCHANGED vars
      BY <2>2, <3>5 DEF ViewChanges, Disconnect, vars, gestureVars
    <3> QED BY <1>1, <3>1, <3>2, <3>3, <3>4, <3>5 DEF Next
  <2>4. g = f /\ EndTracked(f)
    BY <2>2, <2>3 DEF TouchEnd, EndIgnored
  <2>5. ~Detected(state, tracked)
    BY <1>1, DetectedAre
  <2>6. ~waitingRelease
    <3>1. Gestures # NoGesture /\ \A h : Gestures # {h}
      BY DEF Gestures, Taps, NoGesture
    <3>2. Gestures # {"twotap", "threetap", "twodrag", "pinch"} /\ Gestures # {"twodrag", "pinch"}
      BY DEF Gestures, Taps
    <3>3. tracked # <<>>
      BY <1>1
    <3> QED BY <1>1, <2>1, <3>1, <3>2, <3>3 DEF StatePossible, Possible
  <2>7. DOMAIN tracked = {1} /\ tracked[1] \in Touch
    BY <1>1, <2>1 DEF GestureTypes
  <2>8. ~\E i \in DOMAIN tracked : tracked[i].age > 1
    BY <1>1, <2>7 DEF Touch, Ages
  <2>9. Remaining(state) = {"onetap"}
    <3>1. Remaining(state) = Gestures \ ({"drag", "twodrag", "pinch", "longpress"}
                                         \cup {"twotap", "threetap"})
      BY <1>1, <2>6 DEF Remaining
    <3> QED BY <3>1 DEF Gestures, Taps
  <2>10. Detected({"onetap"}, Lifted(tracked, f))
    <3>1. f \in Active(tracked)
      BY <2>2, ActiveIdsAre
    <3> QED BY <1>1, <2>1, <3>1, LoneFinger, DetectedAre DEF GestureTypes, Taps
  <2>11. Dispatch(<<"gesturestart", "gestureend">>, {"onetap"}, Lifted(tracked, f))
    BY <1>1, <2>4, <2>5, <2>6, <2>8, <2>9, <2>10, TapEnds
  <2>12. \E d, e : events' = <<d, e>> /\ Is(d, "gesturestart", "onetap")
                   /\ Is(e, "gestureend", "onetap")
    BY <2>11, DispatchIs
  <2>13. \A d, e : <<d, e>> # <<>>
    OBVIOUS
  <2> QED BY <2>12, <2>13
<1>2. InputInv /\ [Next]_vars => [Lone => events' # <<>>]_vars
  BY <1>1
<1> QED BY <1>2, InputInitHolds, InputInvInductive, PTL DEF Spec, TapHonoured

-----------------------------------------------------------------------------
(* What the server holds is on the viewer's list, under its own keysym.    *)
Mirror(w) ==
    /\ DOMAIN w.keys = Codes
    /\ w.srvKeys \subseteq {w.keys[c] : c \in Codes} \ {Up, NoSymbol}

(* A key of Windows that is never released *)
Bad(w, k) == w.platform = "windows" /\ \E e \in Typing[k].downs : BadOnWindows(e)

(* A key on the list is one the user holds, or for Windows another Shift;  *)
(* only the Ctrl of AltGr may be there without one.                        *)
Owned(w, c, ks) ==
    IF w.platform = "windows" /\ c = "ControlLeft" THEN w.keys[c] = "Control_L"
    ELSE /\ focused
         /\ c # "Unidentified" /\ ~(w.platform = "mac" /\ c = "CapsLock")
         /\ \E k \in ks : /\ ~Bad(w, k)
                          /\ LET d == KeyCode(Typing[k].up, w.platform)
                             IN  d = c \/ (w.platform = "windows" /\ {c, d} \subseteq Shifts)

Typed(w) == Live(w) /\ w.platform \in Platforms /\ Mirror(w)
            /\ (w.armed => w.platform = "windows" /\ "ControlLeft" \in Codes)

KeysHeld(w, ks) == Typed(w) /\ \A c \in Codes : w.keys[c] # Up => Owned(w, c, ks)

KeyInv == v.connected /\ ~silenced => KeysHeld(v, held) /\ held \subseteq Layouts[v.platform]

-----------------------------------------------------------------------------
(* What a handler of the pointer may do to keys: tell the server of fewer. *)
PointerOnly(z, w) ==
    /\ DOMAIN z = Fields
    /\ \A f \in {"connected", "viewOnly", "platform", "keys", "armed", "late"} : z[f] = w[f]
    /\ z.srvKeys \subseteq w.srvKeys

(* Such handlers follow one another. *)
LEMMA PointerOnlyChains ==
  ASSUME NEW w, NEW y, NEW z, PointerOnly(y, w), PointerOnly(z, y)
  PROVE  PointerOnly(z, w)
  BY DEF PointerOnly

(* Buttons, *)
LEMMA ButtonOnly ==
  ASSUME NEW w, DOMAIN w = Fields, NEW x, NEW b
  PROVE  PointerOnly(PressButton(w, x, b), w) /\ PointerOnly(ReleaseButton(w, x, b), w)
  BY FieldsAre DEF PressButton, ReleaseButton, HandleMouseButton, SendMouse, PointerEvent, PointerOnly

(* clicks, *)
LEMMA ClickOnly ==
  ASSUME NEW w, DOMAIN w = Fields, NEW x, NEW b
  PROVE  PointerOnly(Click(w, x, b), w)
<1> DEFINE p == PressButton(w, x, b)
           z == ReleaseButton(p, x, b)
<1>1. Click(w, x, b) = z
  BY DEF Click, PressButton, ReleaseButton
<1>2. PointerOnly(p, w)
  BY ButtonOnly
<1> HIDE DEF p
<1>3. PointerOnly(z, p)
  BY <1>2, ButtonOnly DEF PointerOnly
<1> QED BY <1>1, <1>2, <1>3, PointerOnlyChains

(* moves, *)
LEMMA MoveOnly ==
  ASSUME NEW w, DOMAIN w = Fields, NEW x
  PROVE  /\ PointerOnly(HandleMouseMove(w, x), w)
         /\ PointerOnly(HandleDelayedMouseMove(w), w)
         /\ PointerOnly(FakeMouseMove(w, x), w)
<1> DEFINE m == HandleMouseMove(w, x)
<1>1. PointerOnly(m, w)
  BY FieldsAre DEF HandleMouseMove, SendMouse, PointerEvent, PointerOnly
<1>2. PointerOnly(HandleDelayedMouseMove(w), w)
  BY FieldsAre DEF HandleDelayedMouseMove, SendMouse, PointerEvent, PointerOnly
<1>3. FakeMouseMove(w, x) = [m EXCEPT !.shown = TRUE]
  BY DEF FakeMouseMove
<1> HIDE DEF m
<1>4. PointerOnly([m EXCEPT !.shown = TRUE], m)
  BY <1>1, FieldsAre DEF PointerOnly
<1>5. PointerOnly(FakeMouseMove(w, x), w)
  BY <1>1, <1>3, <1>4, PointerOnlyChains
<1> QED BY <1>1, <1>2, <1>5 DEF m

(* and what handlers keep of their own. *)
LEMMA FieldOnly ==
  ASSUME NEW w, DOMAIN w = Fields, NEW q
  PROVE  /\ PointerOnly(w, w)
         /\ PointerOnly([w EXCEPT !.magnitude = q], w)
         /\ PointerOnly([w EXCEPT !.lastTap = q], w)
         /\ PointerOnly([w EXCEPT !.wheel = q], w)
         /\ PointerOnly([w EXCEPT !.captured = q], w)
         /\ PointerOnly([w EXCEPT !.recent = q], w)
         /\ PointerOnly([w EXCEPT !.shown = q], w)
         /\ PointerOnly([w EXCEPT !.recheck = q], w)
  BY FieldsAre DEF PointerOnly

(* A wheel event clicks or waits. *)
LEMMA WheelOnly ==
  ASSUME NEW w, DOMAIN w = Fields, NEW x, NEW delta
  PROVE  PointerOnly(HandleWheel(w, x, delta), w)
<1> DEFINE total == w.wheel + delta
           c(b) == Click(w, x, b)
<1>1. \/ HandleWheel(w, x, delta) = w
      \/ \E b : HandleWheel(w, x, delta) = [c(b) EXCEPT !.wheel = 0]
      \/ HandleWheel(w, x, delta) = [w EXCEPT !.wheel = total]
  BY Zenon DEF HandleWheel
<1>2. \A b : PointerOnly(c(b), w)
  BY ClickOnly
<1> HIDE DEF c, total
<1>3. \A b : PointerOnly([c(b) EXCEPT !.wheel = 0], c(b))
  BY <1>2, FieldOnly DEF PointerOnly
<1>4. \A b : PointerOnly([c(b) EXCEPT !.wheel = 0], w)
  BY <1>2, <1>3, PointerOnlyChains
<1> QED BY <1>1, <1>4, FieldOnly

(* A tap, *)
LEMMA TapOnly ==
  ASSUME NEW w, DOMAIN w = Fields, NEW ev, NEW b
  PROVE  PointerOnly(HandleTap(w, ev, b), w)
<1> DEFINE again == w.lastTap.gesture = ev.gesture
                    /\ Distance(w.lastTap.x, ev.x) < DoubleTapThreshold
           tap == IF again THEN w.lastTap ELSE [gesture |-> ev.gesture, x |-> ev.x]
           u == [w EXCEPT !.lastTap = tap]
           m == FakeMouseMove(u, tap.x)
           z == Click(m, tap.x, b)
<1>1. HandleTap(w, ev, b) = z
  BY DEF HandleTap
<1> HIDE DEF tap
<1>2. PointerOnly(u, w)
  BY FieldOnly
<1> HIDE DEF u
<1>3. PointerOnly(m, u)
  BY <1>2, MoveOnly DEF PointerOnly
<1> HIDE DEF m
<1>4. PointerOnly(z, m)
  BY <1>3, ClickOnly DEF PointerOnly
<1> HIDE DEF z
<1> QED BY <1>1, <1>2, <1>3, <1>4, PointerOnlyChains

(* the wheel of a gesture, *)
LEMMA ScrollOnly ==
  ASSUME NEW w, DOMAIN w = Fields, NEW ev, NEW sens
  PROVE  PointerOnly(Scroll(w, ev, sens), w)
<1> DEFINE Set(c, q) == [c EXCEPT !.magnitude = q]
<1>1. ASSUME NEW b, NEW q PROVE PointerOnly(Set(Click(w, ev.x, b), q), w)
  <2> DEFINE c == Click(w, ev.x, b)
  <2>1. PointerOnly(c, w)
    BY ClickOnly
  <2> HIDE DEF c
  <2>2. PointerOnly(Set(c, q), c)
    BY <2>1, FieldOnly DEF PointerOnly
  <2> HIDE DEF Set
  <2> QED BY <2>1, <2>2, PointerOnlyChains DEF c
<1>2. \/ Scroll(w, ev, sens) = w
      \/ \E b, q : Scroll(w, ev, sens) = Set(Click(w, ev.x, b), q)
  <2> DEFINE moved == ev.magnitude - w.magnitude
             clicks == (Distance(moved, 0) - 1) \div sens
             c(b) == Click(w, ev.x, b)
  <2>1. Scroll(w, ev, sens) =
          IF Distance(moved, 0) <= sens THEN w
          ELSE IF moved > 0
            THEN [c(3) EXCEPT !.magnitude = c(3).magnitude + clicks * sens]
            ELSE [c(4) EXCEPT !.magnitude = c(4).magnitude - clicks * sens]
    BY DEF Scroll
  <2> HIDE DEF moved, clicks
  <2> QED BY <2>1, Zenon
<1> HIDE DEF Set
<1> QED BY <1>1, <1>2, FieldOnly

(* and a pinch, which lets go of the Ctrl it presses. *)
LEMMA ZoomOnly ==
  ASSUME NEW w, DOMAIN w = Fields, NEW ev
  PROVE  PointerOnly(Zoom(w, ev), w)
<1> DEFINE k == IF Distance(ev.magnitude, w.magnitude) > ZoomSens
                  THEN SendDown(w, "Control_L") ELSE w
           s == Scroll(k, ev, ZoomSens)
           z == SendUp(s, "Control_L")
<1>1. Zoom(w, ev) = z
  BY DEF Zoom, SendDown, SendUp
<1>2. DOMAIN k = Fields /\ \A f \in Fields \ {"srvKeys"} : k[f] = w[f]
  BY SendKeyIs
<1>3. /\ k.srvKeys \subseteq w.srvKeys \cup {"Control_L"}
      /\ ~(w.connected /\ ~w.viewOnly) => k.srvKeys = w.srvKeys
  BY FieldsAre DEF SendDown, SendKey, KeyEvent
<1> HIDE DEF k
<1>4. PointerOnly(s, k)
  BY <1>2, ScrollOnly
<1> HIDE DEF s
<1>5. DOMAIN z = Fields /\ \A f \in Fields \ {"srvKeys"} : z[f] = s[f]
  BY <1>4, SendKeyIs DEF PointerOnly
<1>6. /\ s.connected /\ ~s.viewOnly => z.srvKeys = s.srvKeys \ {"Control_L"}
      /\ ~(s.connected /\ ~s.viewOnly) => z.srvKeys = s.srvKeys
  BY <1>4, FieldsAre DEF SendUp, SendKey, KeyEvent, NoSymbol, PointerOnly
<1> HIDE DEF z
<1>7. z.srvKeys \subseteq w.srvKeys
  BY <1>2, <1>3, <1>4, <1>6, FieldsAre DEF PointerOnly
<1> QED BY <1>1, <1>2, <1>4, <1>5, <1>7, FieldsAre DEF PointerOnly

(* So does each event of a gesture. *)
LEMMA GestureOnly ==
  ASSUME NEW w, DOMAIN w = Fields, NEW ev
  PROVE  PointerOnly(HandleGesture(w, ev), w)
<1> DEFINE m == FakeMouseMove(w, ev.x)
<1>1. PointerOnly(m, w)
  BY MoveOnly
<1>2. DOMAIN m = Fields
  BY <1>1 DEF PointerOnly
<1>3. PointerOnly(HandleGestureStart(w, ev), w)
  <2> DEFINE u == [w EXCEPT !.magnitude = ev.magnitude]
  <2>1. PointerOnly(u, w)
    BY FieldOnly
  <2>2. PointerOnly(FakeMouseMove(u, ev.x), u)
    BY <2>1, MoveOnly DEF PointerOnly
  <2>3. \A b : PointerOnly(PressButton(m, ev.x, b), m)
    BY <1>2, ButtonOnly
  <2>4. \/ HandleGestureStart(w, ev) = HandleTap(w, ev, TapButton[ev.gesture])
        \/ HandleGestureStart(w, ev) = PressButton(m, ev.x, DragButton[ev.gesture])
        \/ HandleGestureStart(w, ev) = FakeMouseMove(u, ev.x)
    <3>1. HandleGestureStart(w, ev) =
            CASE ev.gesture \in DOMAIN TapButton -> HandleTap(w, ev, TapButton[ev.gesture])
              [] ev.gesture \in DOMAIN DragButton -> PressButton(m, ev.x, DragButton[ev.gesture])
              [] OTHER -> FakeMouseMove(u, ev.x)
      BY DEF HandleGestureStart, PressButton
    <3> HIDE DEF u, m
    <3> QED BY <3>1
  <2> HIDE DEF u, m
  <2> QED BY <1>1, <2>1, <2>2, <2>3, <2>4, TapOnly, PointerOnlyChains
<1>4. PointerOnly(HandleGestureMove(w, ev), w)
  <2>1. PointerOnly(Scroll(m, ev, ScrollSens), m) /\ PointerOnly(Zoom(m, ev), m)
    BY <1>2, ScrollOnly, ZoomOnly
  <2>2. \/ HandleGestureMove(w, ev) = w \/ HandleGestureMove(w, ev) = m
        \/ HandleGestureMove(w, ev) = Scroll(m, ev, ScrollSens)
        \/ HandleGestureMove(w, ev) = Zoom(m, ev)
    <3>1. HandleGestureMove(w, ev) =
            CASE ev.gesture \in DOMAIN TapButton -> w
              [] ev.gesture \in DOMAIN DragButton -> m
              [] ev.gesture = "twodrag" -> Scroll(m, ev, ScrollSens)
              [] OTHER -> Zoom(m, ev)
      BY DEF HandleGestureMove
    <3> HIDE DEF m
    <3> QED BY <3>1
  <2> HIDE DEF m
  <2>3. PointerOnly(Scroll(m, ev, ScrollSens), w) /\ PointerOnly(Zoom(m, ev), w)
    BY <1>1, <2>1, PointerOnlyChains
  <2>4. PointerOnly(w, w)
    BY FieldOnly
  <2> QED BY <1>1, <2>2, <2>3, <2>4
<1>5. PointerOnly(HandleGestureEnd(w, ev), w)
  <2>1. \A b : PointerOnly(ReleaseButton(m, ev.x, b), m)
    BY <1>2, ButtonOnly
  <2>2. \/ \E b : HandleGestureEnd(w, ev) = ReleaseButton(m, ev.x, b)
        \/ HandleGestureEnd(w, ev) = [w EXCEPT !.magnitude = 0]
    BY Zenon DEF HandleGestureEnd, ReleaseButton
  <2> HIDE DEF m
  <2> QED BY <1>1, <2>1, <2>2, FieldOnly, PointerOnlyChains
<1> QED BY <1>3, <1>4, <1>5, Zenon DEF HandleGesture

-----------------------------------------------------------------------------
(* A smaller set of keys at the server, and nothing else of the keyboard. *)
LEMMA PointerKeepsKeys ==
  ASSUME NEW w, NEW z, NEW ks, KeysHeld(w, ks), PointerOnly(z, w)
  PROVE  KeysHeld(z, ks)
  BY DEF PointerOnly, KeysHeld, Typed, Mirror, Live, Owned, Bad

(* What a press does: the code is listed under its keysym, which the       *)
(* server is told.                                                         *)
LEMMA PressTells ==
  ASSUME NEW w, Typed(w), NEW code \in Codes, NEW keysym, keysym # Up,
         w.keys[code] \in {Up, keysym}
  PROVE  LET z == Press(w, keysym, code)
         IN  /\ Typed(z) /\ z.platform = w.platform /\ z.armed = w.armed
             /\ z.keys = [w.keys EXCEPT ![code] = keysym]
<1> DEFINE k == [w EXCEPT !.keys[code] = keysym]
           z == SendDown(k, keysym)
<1>1. Press(w, keysym, code) = z
  BY DEF Press, SendDown
<1>2. /\ DOMAIN k = Fields /\ k.keys = [w.keys EXCEPT ![code] = keysym]
      /\ \A f \in Fields \ {"keys"} : k[f] = w[f]
  BY FieldsAre DEF Typed, Live
<1> HIDE DEF k
<1>3. DOMAIN z = Fields /\ \A f \in Fields \ {"srvKeys"} : z[f] = k[f]
  BY <1>2, SendKeyIs
<1>4. IF keysym = NoSymbol THEN z.srvKeys = k.srvKeys ELSE z.srvKeys = k.srvKeys \cup {keysym}
  BY <1>2, FieldsAre DEF Typed, Live, SendDown, SendKey, KeyEvent
<1> HIDE DEF z
<1>5. /\ z.keys = [w.keys EXCEPT ![code] = keysym] /\ z.armed = w.armed
      /\ z.platform = w.platform /\ Live(z)
  BY <1>2, <1>3, FieldsAre DEF Typed, Live
<1>6. DOMAIN z.keys = Codes /\ z.keys[code] = keysym
      /\ \A c \in Codes \ {code} : z.keys[c] = w.keys[c]
  BY <1>5 DEF Typed, Mirror
<1>7. Mirror(z)
  <2> SUFFICES ASSUME NEW s \in z.srvKeys
               PROVE  s # Up /\ s # NoSymbol /\ \E c \in Codes : z.keys[c] = s
    BY <1>6 DEF Mirror
  <2>1. CASE s = keysym /\ s # NoSymbol
    BY <1>6, <2>1
  <2>2. CASE s \in w.srvKeys
    <3>1. PICK c \in Codes : w.keys[c] = s /\ s # Up /\ s # NoSymbol
      BY <2>2 DEF Typed, Mirror
    <3> QED BY <1>6, <3>1
  <2>3. w.srvKeys = k.srvKeys
    BY <1>2, FieldsAre
  <2> QED BY <1>4, <2>1, <2>2, <2>3
<1> QED BY <1>1, <1>5, <1>7 DEF Typed

(* What a release does: the codes are off the list, their keysyms up.      *)
LEMMA ReleaseTells ==
  ASSUME NEW w, Typed(w), NEW codes
  PROVE  LET z == ReleaseAll(w, codes)
         IN  /\ Typed(z) /\ z.platform = w.platform /\ z.armed = w.armed
             /\ \A c \in Codes : z.keys[c] = IF c \in codes THEN Up ELSE w.keys[c]
<1> DEFINE list == [c \in Codes |-> IF c \in codes THEN Up ELSE w.keys[c]]
           up == [w EXCEPT !.keys = list]
           gone == {w.keys[c] : c \in codes}
           z == [up EXCEPT !.srvKeys = up.srvKeys \ gone]
<1>1. ReleaseAll(w, codes) = z
  BY DEF ReleaseAll, Typed, Live
<1>2. list = [c \in Codes |-> IF c \in codes THEN Up ELSE w.keys[c]]
  OBVIOUS
<1> HIDE DEF list, gone
<1>3. /\ z.keys = list /\ z.srvKeys = w.srvKeys \ gone /\ z.armed = w.armed
      /\ z.platform = w.platform /\ Live(z)
  BY FieldsAre DEF Typed, Live
<1> HIDE DEF z
<1>4. Mirror(z)
  <2> SUFFICES ASSUME NEW s \in w.srvKeys, s \notin gone
               PROVE  s # Up /\ s # NoSymbol /\ \E c \in Codes : z.keys[c] = s
    BY <1>2, <1>3 DEF Mirror
  <2>1. PICK c \in Codes : w.keys[c] = s /\ s # Up /\ s # NoSymbol
    BY DEF Typed, Mirror
  <2>2. c \notin codes
    BY <2>1 DEF gone
  <2> QED BY <1>2, <1>3, <2>1, <2>2
<1> QED BY <1>1, <1>2, <1>3, <1>4 DEF Typed

(* A key that is pressed and released leaves the list as it was, if it was *)
(* not on it under another keysym.                                         *)
LEMMA TapTells ==
  ASSUME NEW w, Typed(w), NEW code \in Codes, NEW keysym, keysym # Up,
         w.keys[code] \in {Up, keysym}
  PROVE  LET z == PressAndRelease(w, keysym, code)
         IN  /\ Typed(z) /\ z.platform = w.platform /\ z.armed = w.armed
             /\ \A c \in Codes : z.keys[c] = IF c = code THEN Up ELSE w.keys[c]
<1> DEFINE p == Press(w, keysym, code)
           z == ReleaseAll(p, {code})
<1>1. PressAndRelease(w, keysym, code) = z
  BY DEF PressAndRelease
<1>2. /\ Typed(p) /\ p.platform = w.platform /\ p.armed = w.armed
      /\ p.keys = [w.keys EXCEPT ![code] = keysym]
  BY PressTells
<1> HIDE DEF p
<1>3. /\ Typed(z) /\ z.platform = p.platform /\ z.armed = p.armed
      /\ \A c \in Codes : z.keys[c] = IF c \in {code} THEN Up ELSE p.keys[c]
  BY <1>2, ReleaseTells
<1> HIDE DEF z
<1>4. DOMAIN w.keys = Codes
  BY DEF Typed, Mirror
<1>5. \A c \in Codes : z.keys[c] = IF c = code THEN Up ELSE w.keys[c]
  BY <1>2, <1>3, <1>4
<1> QED BY <1>1, <1>2, <1>3, <1>5

(* A list that lost codes keeps what the user is to hold. *)
LEMMA FewerKeysHeld ==
  ASSUME NEW w, NEW z, NEW ks, KeysHeld(w, ks), Typed(z), z.platform = w.platform,
         \A c \in Codes : z.keys[c] \in {Up, w.keys[c]}
  PROVE  KeysHeld(z, ks)
  BY DEF KeysHeld, Owned, Bad

(* The Ctrl that was held back is pressed, or forgotten for AltGr. *)
LEMMA CtrlTells ==
  ASSUME NEW w, NEW ks, KeysHeld(w, ks)
  PROVE  /\ LET d == [w EXCEPT !.armed = FALSE]
            IN  KeysHeld(d, ks) /\ d.platform = w.platform
         /\ w.armed => LET z == SendArmedCtrl(w)
                       IN  KeysHeld(z, ks) /\ z.platform = w.platform
<1> DEFINE d == [w EXCEPT !.armed = FALSE]
           z == Press(d, "Control_L", "ControlLeft")
<1>1. d.keys = w.keys /\ d.platform = w.platform /\ d.srvKeys = w.srvKeys /\ ~d.armed /\ Live(d)
  BY FieldsAre DEF KeysHeld, Typed, Live
<1>2. SendArmedCtrl(w) = z
  BY DEF SendArmedCtrl
<1> HIDE DEF d
<1>3. Typed(d)
  BY <1>1 DEF KeysHeld, Typed, Mirror
<1>4. KeysHeld(d, ks)
  BY <1>1, <1>3, FewerKeysHeld
<1>5. ASSUME w.armed PROVE KeysHeld(z, ks) /\ z.platform = w.platform
  <2>1. w.platform = "windows" /\ "ControlLeft" \in Codes
    BY <1>5 DEF KeysHeld, Typed
  <2>2. d.keys["ControlLeft"] \in {Up, "Control_L"} /\ "Control_L" # Up
    BY <1>1, <1>4, <2>1 DEF KeysHeld, Owned, Up
  <2>3. Typed(z) /\ z.platform = d.platform /\ z.keys = [d.keys EXCEPT !["ControlLeft"] = "Control_L"]
    BY <1>3, <2>1, <2>2, PressTells
  <2> HIDE DEF z
  <2>4. DOMAIN d.keys = Codes
    BY <1>3 DEF Typed, Mirror
  <2>5. \A c \in Codes : z.keys[c] # Up => Owned(z, c, ks)
    BY <1>1, <1>4, <2>1, <2>3, <2>4 DEF KeysHeld, Owned, Bad
  <2> QED BY <1>1, <2>3, <2>5 DEF KeysHeld
<1> QED BY <1>1, <1>2, <1>4, <1>5 DEF d

(* The codes of the events that a key of the layout makes *)
LEMMA CodesAre ==
  ASSUME NEW p \in Platforms, NEW k \in Layouts[p]
  PROVE  /\ KeyCode(Typing[k].up, p) \in Codes
         /\ \A e \in Typing[k].downs :
               /\ KeyCode(e, p) \in Codes
               /\ KeyCode(e, p) \in {"Unidentified", KeyCode(Typing[k].up, p)}
               /\ GetKeysym(e, p) # Up
<1>1. k \in DOMAIN Typing
  BY TypingAssumption
<1>2. \A e \in Typing[k].downs \cup {Typing[k].up} : KeyCode(e, p) \in Codes
  BY <1>1 DEF Codes
<1> QED BY <1>1, <1>2, TypingAssumption

(* A key that Windows never releases is no Shift, and no part of AltGr,    *)
(* and each press of it says so.                                           *)
LEMMA BadKeysAre ==
  ASSUME NEW w, w.platform \in Platforms, NEW k \in Layouts[w.platform], Bad(w, k)
  PROVE  /\ w.platform = "windows"
         /\ KeyCode(Typing[k].up, w.platform) \notin Shifts \cup {"AltRight"}
         /\ \A e \in Typing[k].downs : GetKeysym(e, w.platform) \in JpBadKeys
<1>1. w.platform = "windows" /\ k \in DOMAIN Typing
  BY TypingAssumption DEF Bad
<1>2. PICK d \in Typing[k].downs : BadOnWindows(d)
  BY DEF Bad
<1>3. /\ \A e \in Typing[k].downs : BadOnWindows(e)
      /\ KeyCode(Typing[k].up, "windows") \notin {"ShiftLeft", "ShiftRight", "AltRight"}
  BY <1>1, <1>2, TypingAssumption
<1> QED BY <1>1, <1>3 DEF BadOnWindows, Shifts

(* What a key stands for on a Mac is no marker either. *)
LEMMA MacKeysymsAre == \A s \in DOMAIN MacKeysym : MacKeysym[s] # Up
  BY DEF MacKeysym, Up

(* A press lists the key under a code that it is held by, and one that is  *)
(* not to be released goes up again.                                       *)
LEMMA KeyDownTells ==
  ASSUME NEW w, NEW ks, KeysHeld(w, ks), focused, NEW k \in Layouts[w.platform],
         NEW e \in Typing[k].downs
  PROVE  LET z == HandleKeyDown(w, e)
         IN  KeysHeld(z, ks \cup {k}) /\ z.platform = w.platform
<1> DEFINE code == KeyCode(e, w.platform)
           keysym == GetKeysym(e, w.platform)
           altGr == w.armed /\ code = "AltRight" /\ ~w.late
           u == IF w.armed /\ ~altGr THEN SendArmedCtrl(w) ELSE [w EXCEPT !.armed = FALSE]
           meant == IF altGr THEN "ISO_Level3_Shift" ELSE keysym
           mapped == IF w.platform = "mac" /\ meant \in DOMAIN MacKeysym
                       THEN MacKeysym[meant] ELSE meant
           sym == SameKeysym(u, code, mapped)
           none == IF meant = NoSymbol THEN u ELSE PressAndRelease(u, meant, code)
           caps == PressAndRelease(u, "Caps_Lock", code)
           bad == PressAndRelease(u, sym, code)
           ctrl == [u EXCEPT !.armed = TRUE, !.late = FALSE]
           other == Press(u, sym, code)
           z == IF code = "Unidentified" THEN none
                ELSE CASE w.platform = "mac" /\ code = "CapsLock" -> caps
                       [] w.platform = "windows" /\ sym \in JpBadKeys -> bad
                       [] /\ w.platform = "windows" /\ sym \notin JpBadKeys
                          /\ code = "ControlLeft" /\ u.keys[code] = Up -> ctrl
                       [] OTHER -> other
<1>1. HandleKeyDown(w, e) = z
  BY DEF HandleKeyDown
<1>2. w.platform \in Platforms
  BY DEF KeysHeld, Typed
<1>3. code \in Codes /\ code \in {"Unidentified", KeyCode(Typing[k].up, w.platform)} /\ keysym # Up
  BY <1>2, CodesAre
<1>4. KeysHeld(u, ks) /\ u.platform = w.platform
  BY CtrlTells
<1>5. meant # Up /\ mapped # Up
  BY <1>3, MacKeysymsAre DEF Up
<1>6. sym # Up /\ u.keys[code] \in {Up, sym}
  BY <1>5 DEF SameKeysym
<1>7. Bad(w, k) /\ u.keys[code] = Up => sym \in JpBadKeys \/ code = "Unidentified"
  <2> SUFFICES ASSUME Bad(w, k), u.keys[code] = Up, code # "Unidentified" PROVE sym \in JpBadKeys
    OBVIOUS
  <2>1. w.platform = "windows" /\ code # "AltRight" /\ keysym \in JpBadKeys
    BY <1>2, <1>3, BadKeysAre
  <2> HIDE DEF u
  <2> QED BY <2>1 DEF SameKeysym
<1> HIDE DEF u, code, sym, meant, none, caps, bad, ctrl, other
<1>8. Typed(u)
  BY <1>4 DEF KeysHeld
<1>9. KeysHeld(u, ks \cup {k})
  BY <1>4 DEF KeysHeld, Owned
<1>10. CASE code = "Unidentified"
  <2>1. u.keys[code] = Up
    BY <1>3, <1>4, <1>10 DEF KeysHeld, Owned
  <2>2. z = none
    BY <1>10
  <2> HIDE DEF z
  <2>3. CASE z = u
    BY <1>1, <1>4, <1>9, <2>3
  <2>4. CASE z = PressAndRelease(u, meant, code)
    <3>1. /\ Typed(z) /\ z.platform = u.platform
          /\ \A c \in Codes : z.keys[c] = IF c = code THEN Up ELSE u.keys[c]
      BY <1>3, <1>5, <1>8, <2>1, <2>4, TapTells
    <3> QED BY <1>1, <1>4, <1>9, <3>1, FewerKeysHeld
  <2> QED BY <2>2, <2>3, <2>4 DEF none
<1>11. CASE w.platform = "mac" /\ code = "CapsLock" /\ code # "Unidentified"
  <2>1. u.keys[code] = Up /\ "Caps_Lock" # Up
    BY <1>3, <1>4, <1>11 DEF KeysHeld, Owned, Up
  <2>2. z = caps
    BY <1>11
  <2> HIDE DEF z
  <2>3. /\ Typed(z) /\ z.platform = u.platform
        /\ \A c \in Codes : z.keys[c] = IF c = code THEN Up ELSE u.keys[c]
    BY <1>3, <1>8, <2>1, <2>2, TapTells DEF caps
  <2> QED BY <1>1, <1>4, <1>9, <2>3, FewerKeysHeld
<1>12. CASE w.platform = "windows" /\ sym \in JpBadKeys /\ code # "Unidentified"
  <2>1. z = bad
    BY <1>12
  <2> HIDE DEF z
  <2>2. /\ Typed(z) /\ z.platform = u.platform
        /\ \A c \in Codes : z.keys[c] = IF c = code THEN Up ELSE u.keys[c]
    BY <1>3, <1>6, <1>8, <2>1, TapTells DEF bad
  <2> QED BY <1>1, <1>4, <1>9, <2>2, FewerKeysHeld
<1>13. CASE /\ w.platform = "windows" /\ sym \notin JpBadKeys
            /\ code = "ControlLeft" /\ u.keys[code] = Up
  <2>1. z = ctrl
    BY <1>13
  <2> HIDE DEF z
  <2>2. /\ z.keys = u.keys /\ z.platform = u.platform /\ z.srvKeys = u.srvKeys /\ Live(z)
    BY <1>8, <2>1, FieldsAre DEF Typed, Live, ctrl
  <2>3. Typed(z)
    BY <1>3, <1>4, <1>8, <1>13, <2>2 DEF Typed, Mirror
  <2> QED BY <1>1, <1>4, <1>9, <2>2, <2>3, FewerKeysHeld
<1>14. CASE /\ code # "Unidentified" /\ ~(w.platform = "mac" /\ code = "CapsLock")
            /\ ~(w.platform = "windows" /\ sym \in JpBadKeys)
            /\ ~(w.platform = "windows" /\ code = "ControlLeft" /\ u.keys[code] = Up)
  <2>1. z = other
    BY <1>14
  <2> HIDE DEF z
  <2>2. Typed(z) /\ z.platform = u.platform /\ z.keys = [u.keys EXCEPT ![code] = sym]
    BY <1>3, <1>6, <1>8, <2>1, PressTells DEF other
  <2>3. DOMAIN u.keys = Codes
    BY <1>8 DEF Typed, Mirror
  <2>4. CASE u.keys[code] # Up
    <3>1. \A c \in Codes : z.keys[c] = u.keys[c]
      BY <1>3, <1>6, <2>2, <2>3, <2>4
    <3> QED BY <1>1, <1>4, <1>9, <2>2, <3>1, FewerKeysHeld
  <2>5. CASE u.keys[code] = Up
    <3>1. ~Bad(w, k)
      BY <1>7, <1>14, <2>5 DEF Bad
    <3>2. KeyCode(Typing[k].up, z.platform) = code /\ ~Bad(z, k)
      BY <1>3, <1>4, <1>14, <2>2, <3>1 DEF Bad
    <3>3. Owned(z, code, ks \cup {k})
      BY <1>4, <1>14, <2>2, <2>5, <3>2 DEF Owned
    <3>4. \A c \in Codes \ {code} : z.keys[c] = u.keys[c]
      BY <2>2, <2>3
    <3>5. \A c \in Codes : z.keys[c] # Up => Owned(z, c, ks \cup {k})
      BY <1>9, <2>2, <3>3, <3>4 DEF KeysHeld, Owned, Bad
    <3> QED BY <1>1, <1>4, <2>2, <3>5 DEF KeysHeld
  <2> QED BY <2>4, <2>5
<1> QED BY <1>10, <1>11, <1>12, <1>13, <1>14

(* A release takes the key's code off the list, and for Windows the other  *)
(* Shift; what stays is held by other keys.                                *)
LEMMA KeyUpTells ==
  ASSUME NEW w, NEW ks, KeysHeld(w, ks), NEW k \in Layouts[w.platform]
  PROVE  LET z == HandleKeyUp(w, Typing[k].up)
         IN  KeysHeld(z, ks \ {k}) /\ z.platform = w.platform
<1> DEFINE code == KeyCode(Typing[k].up, w.platform)
           u == IF w.armed THEN SendArmedCtrl(w) ELSE w
           codes == {code} \cup (IF w.platform = "windows" /\ code \in Shifts THEN Shifts ELSE {})
           caps == PressAndRelease(u, "Caps_Lock", code)
           other == ReleaseAll(u, codes)
           z == IF w.platform = "mac" /\ code = "CapsLock" THEN caps ELSE other
<1>1. HandleKeyUp(w, Typing[k].up) = z
  BY DEF HandleKeyUp
<1>2. w.platform \in Platforms
  BY DEF KeysHeld, Typed
<1>3. code \in Codes
  BY <1>2, CodesAre
<1>4. KeysHeld(u, ks) /\ u.platform = w.platform
  BY CtrlTells
<1>5. Typed(u)
  BY <1>4 DEF KeysHeld
<1> HIDE DEF u, caps, other, codes
<1>6. ASSUME /\ Typed(z) /\ z.platform = u.platform
             /\ \A c \in Codes : z.keys[c] = IF c \in codes THEN Up ELSE u.keys[c]
      PROVE  KeysHeld(z, ks \ {k})
  <2> HIDE DEF z
  <2> SUFFICES ASSUME NEW c \in Codes, z.keys[c] # Up PROVE Owned(z, c, ks \ {k})
    BY <1>6 DEF KeysHeld
  <2>1. c \notin codes /\ z.keys[c] = u.keys[c] /\ u.keys[c] # Up
    BY <1>6
  <2>2. Owned(u, c, ks)
    BY <1>4, <2>1 DEF KeysHeld
  <2>3. CASE w.platform = "windows" /\ c = "ControlLeft"
    BY <1>4, <1>6, <2>1, <2>2, <2>3 DEF Owned
  <2>4. CASE ~(w.platform = "windows" /\ c = "ControlLeft")
    <3> DEFINE Of(j) == KeyCode(Typing[j].up, w.platform)
    <3>1. PICK j \in ks : /\ ~Bad(u, j)
                          /\ Of(j) = c \/ (w.platform = "windows" /\ {c, Of(j)} \subseteq Shifts)
      BY <1>4, <2>2, <2>4 DEF Owned
    <3>2. Of(k) = code
      OBVIOUS
    <3>3. j # k
      BY <2>1, <3>1, <3>2 DEF codes
    <3> QED BY <1>4, <1>6, <2>2, <2>4, <3>1, <3>3 DEF Owned, Bad
  <2> QED BY <2>3, <2>4
<1>7. CASE w.platform = "mac" /\ code = "CapsLock"
  <2>1. u.keys[code] = Up /\ "Caps_Lock" # Up
    BY <1>3, <1>4, <1>7 DEF KeysHeld, Owned, Up
  <2>2. z = caps
    BY <1>7
  <2>3. codes = {code}
    BY <1>7 DEF codes
  <2> HIDE DEF z
  <2>4. /\ Typed(z) /\ z.platform = u.platform
        /\ \A c \in Codes : z.keys[c] = IF c = code THEN Up ELSE u.keys[c]
    BY <1>3, <1>5, <2>1, <2>2, TapTells DEF caps
  <2> QED BY <1>1, <1>4, <1>6, <2>3, <2>4
<1>8. CASE ~(w.platform = "mac" /\ code = "CapsLock")
  <2>1. z = other
    BY <1>8
  <2> HIDE DEF z
  <2>2. /\ Typed(z) /\ z.platform = u.platform
        /\ \A c \in Codes : z.keys[c] = IF c \in codes THEN Up ELSE u.keys[c]
    BY <1>5, <2>1, ReleaseTells DEF other
  <2> QED BY <1>1, <1>4, <1>6, <2>2
<1> QED BY <1>7, <1>8

(* A release that nobody tells of: the window has no focus, the key is one *)
(* that is never listed, or another Shift is held and stands for it.       *)
LEMMA UntoldKeepsKeys ==
  ASSUME KeysHeld(v, held), held \subseteq Layouts[v.platform], NEW k \in held,
         ~focused \/ Untold(k)
  PROVE  KeysHeld(v, held \ {k})
<1> SUFFICES ASSUME NEW c \in Codes, v.keys[c] # Up,
                    ~(v.platform = "windows" /\ c = "ControlLeft")
             PROVE  Owned(v, c, held \ {k})
  BY DEF KeysHeld, Owned
<1> DEFINE Of(j) == KeyCode(Typing[j].up, v.platform)
           For(j) == Of(j) = c \/ (v.platform = "windows" /\ {c, Of(j)} \subseteq Shifts)
<1>1. /\ focused /\ c # "Unidentified" /\ ~(v.platform = "mac" /\ c = "CapsLock")
      /\ \E i \in held : ~Bad(v, i) /\ For(i)
  BY DEF KeysHeld, Owned
<1>2. PICK i \in held : ~Bad(v, i) /\ For(i)
  BY <1>1
<1>3. \A j \in held \ {k} : ~Bad(v, j) /\ For(j) => Owned(v, c, held \ {k})
  BY <1>1 DEF Owned
<1>4. CASE i # k
  BY <1>2, <1>3, <1>4
<1>5. CASE i = k
  <2>1. v.platform = "windows" /\ Of(k) \in Shifts
    BY <1>1, <1>2, <1>5 DEF Untold, CodeOf, Bad
  <2>2. PICK j \in held \ {k} : Of(j) \in Shifts
    BY <1>1, <1>2, <1>5 DEF Untold, CodeOf, Bad
  <2>3. For(j)
    BY <1>2, <1>5, <2>1, <2>2
  <2>4. ~Bad(v, j)
    BY <2>2, BadKeysAre DEF KeysHeld, Typed
  <2> QED BY <1>3, <2>2, <2>3, <2>4
<1> QED BY <1>4, <1>5

-----------------------------------------------------------------------------
(* Each step of the keyboard *)
LEMMA KeyNextKeeps ==
  ASSUME KeyInv, DOMAIN v = Fields,
         KeyDown \/ KeyUp \/ AltGrTimer \/ AltGrIsLate \/ Blur \/ Focus,
         v'.connected, ~silenced'
  PROVE  KeyInv'
<1>1. ~silenced /\ v.connected
  <2>1. ~silenced
    BY DEF KeyDown, KeyUp, AltGrTimer, AltGrIsLate, Blur, Focus
  <2>2. \/ v' = v \/ \E e : v' = HandleKeyDown(v, e) \/ v' = HandleKeyUp(v, e)
        \/ v' = SendArmedCtrl(v) \/ v' = [v EXCEPT !.late = TRUE] \/ v' = AllKeysUp(v)
    BY DEF KeyDown, KeyUp, AltGrTimer, HandleAltGrTimeout, AltGrIsLate, Blur, Focus, Keys
  <2>3. KeysOnly(v', v)
    BY <2>2, HandleKeyDownKeys, HandleKeyUpKeys, SendArmedCtrlKeys, DisarmKeys,
       ReleaseAllKeys DEF AllKeysUp
  <2> QED BY <2>1, <2>3, FieldsAre DEF KeysOnly, KeyFields
<1>2. CASE KeyDown
  <2>1. PICK k \in Layouts[v.platform] : \E e \in Typing[k].downs :
           /\ held' = held \cup {k}
           /\ v' = IF focused /\ ~v.viewOnly THEN HandleKeyDown(v, e) ELSE v
    BY <1>2 DEF KeyDown, Keys
  <2>2. PICK e \in Typing[k].downs : v' = IF focused /\ ~v.viewOnly THEN HandleKeyDown(v, e) ELSE v
    BY <2>1
  <2>3. focused' = focused /\ v.connected
    BY <1>2 DEF KeyDown
  <2>4. KeysHeld(v, held) /\ held \subseteq Layouts[v.platform]
    BY <1>1, <2>3 DEF KeyInv
  <2> DEFINE z == HandleKeyDown(v, e)
  <2>5. focused => KeysHeld(z, held \cup {k}) /\ z.platform = v.platform
    BY <2>4, KeyDownTells
  <2> HIDE DEF z
  <2>6. ~v.viewOnly
    BY <2>4 DEF KeysHeld, Typed, Live
  <2>7. KeysHeld(v', held') /\ v'.platform = v.platform
    <3>1. CASE focused
      BY <2>1, <2>2, <2>5, <2>6, <3>1 DEF z
    <3>2. CASE ~focused
      BY <2>1, <2>2, <2>4, <3>2 DEF KeysHeld, Owned
    <3> QED BY <3>1, <3>2
  <2>8. held' \subseteq Layouts[v.platform]
    BY <2>1, <2>4
  <2> QED BY <2>3, <2>7, <2>8 DEF KeyInv, KeysHeld, Owned
<1>3. CASE KeyUp
  <2>1. PICK k \in held :
           /\ held' = held \ {k}
           /\ v' = IF focused /\ v.connected /\ ~v.viewOnly /\ ~Untold(k)
                     THEN HandleKeyUp(v, Typing[k].up) ELSE v
    BY <1>3 DEF KeyUp, Keys
  <2>2. focused' = focused
    BY <1>3 DEF KeyUp
  <2>3. v.connected
    BY <2>1
  <2>4. KeysHeld(v, held) /\ held \subseteq Layouts[v.platform]
    BY <1>1, <2>3 DEF KeyInv
  <2> DEFINE z == HandleKeyUp(v, Typing[k].up)
  <2>5. KeysHeld(z, held \ {k}) /\ z.platform = v.platform
    BY <2>4, KeyUpTells
  <2> HIDE DEF z
  <2>6. ~v.viewOnly
    BY <2>4 DEF KeysHeld, Typed, Live
  <2>7. KeysHeld(v', held \ {k}) /\ v'.platform = v.platform
    <3>1. CASE focused /\ ~Untold(k)
      BY <2>1, <2>3, <2>5, <2>6, <3>1 DEF z
    <3>2. CASE ~focused \/ Untold(k)
      BY <2>1, <2>4, <3>2, UntoldKeepsKeys
    <3> QED BY <3>1, <3>2
  <2> QED BY <2>1, <2>2, <2>4, <2>7 DEF KeyInv, KeysHeld, Owned
<1>4. CASE AltGrTimer \/ AltGrIsLate \/ Focus
  <2>1. UNCHANGED held /\ (focused' = focused \/ (~focused /\ focused'))
    BY <1>4 DEF AltGrTimer, AltGrIsLate, Focus
  <2>2. \/ v.armed /\ v' = SendArmedCtrl(v)
        \/ v.armed /\ v' = [v EXCEPT !.late = TRUE]
        \/ v' = v
    BY <1>4 DEF AltGrTimer, AltGrIsLate, Focus, HandleAltGrTimeout, Keys
  <2>3. KeysHeld(v, held) /\ held \subseteq Layouts[v.platform]
    BY <1>1 DEF KeyInv
  <2>4. KeysHeld(v', held) /\ v'.platform = v.platform
    <3>1. CASE v' = SendArmedCtrl(v) /\ v.armed
      BY <2>3, <3>1, CtrlTells
    <3>2. CASE v' = [v EXCEPT !.late = TRUE]
      <4>1. v'.keys = v.keys /\ v'.srvKeys = v.srvKeys /\ v'.platform = v.platform
            /\ v'.armed = v.armed /\ Live(v')
        BY <2>3, <3>2, FieldsAre DEF KeysHeld, Typed, Live
      <4> QED BY <2>3, <4>1 DEF KeysHeld, Typed, Mirror, Owned, Bad
    <3>3. CASE v' = v
      BY <2>3, <3>3
    <3> QED BY <2>2, <3>1, <3>2, <3>3
  <2>5. \A c \in Codes : v'.keys[c] # Up => Owned(v, c, held)'
    BY <2>1, <2>4 DEF KeysHeld, Owned, Bad
  <2> QED BY <2>1, <2>3, <2>4, <2>5 DEF KeyInv, KeysHeld
<1>5. CASE Blur
  <2>1. held' = held /\ v' = IF v.connected /\ ~v.viewOnly THEN AllKeysUp(v) ELSE v
    BY <1>5 DEF Blur, Keys
  <2>2. KeysHeld(v, held) /\ held \subseteq Layouts[v.platform]
    BY <1>1 DEF KeyInv
  <2>3. Typed(v) /\ ~v.viewOnly
    BY <2>2 DEF KeysHeld, Typed, Live
  <2> DEFINE z == ReleaseAll(v, Codes)
  <2>4. v' = z
    BY <1>1, <2>1, <2>3 DEF AllKeysUp
  <2> HIDE DEF z
  <2>5. Typed(z) /\ z.platform = v.platform /\ \A c \in Codes : z.keys[c] = Up
    BY <2>3, ReleaseTells DEF z
  <2> QED BY <2>1, <2>2, <2>4, <2>5 DEF KeyInv, KeysHeld
<1> QED BY <1>2, <1>3, <1>4, <1>5

(* A step of the pointer, or of nothing the keyboard knows *)
PointerStep == PointerOnly(v', v) /\ UNCHANGED <<held, focused, silenced>>

(* Such a step leaves the server with no more keys than it had. *)
LEMMA PointerStepKeeps == KeyInv /\ PointerStep => KeyInv'
<1> SUFFICES ASSUME KeyInv, PointerStep, v'.connected, ~silenced' PROVE KeyInv'
  BY DEF KeyInv
<1>1. v.connected /\ ~silenced /\ v'.platform = v.platform
  BY DEF PointerStep, PointerOnly
<1>2. KeysHeld(v, held) /\ held \subseteq Layouts[v.platform]
  BY <1>1 DEF KeyInv
<1>3. KeysHeld(v', held)
  BY <1>2, PointerKeepsKeys DEF PointerStep
<1>4. \A c \in Codes : v'.keys[c] # Up => Owned(v, c, held)'
  BY <1>3 DEF KeysHeld, Owned, Bad, PointerStep
<1> QED BY <1>1, <1>2, <1>3, <1>4 DEF KeyInv, KeysHeld, PointerStep

(* The gestures of a step come one or two at a time. *)
LEMMA HandledOnly ==
  ASSUME NEW w, DOMAIN w = Fields, EventsFit
  PROVE  PointerOnly(Handled(w, events'), w)
<1>1. CASE events' = <<>>
  BY <1>1, FoldNone, FieldOnly
<1>2. CASE \E e : events' = <<e>>
  <2>1. PICK e : events' = <<e>>
    BY <1>2
  <2> QED BY <2>1, FoldOne, GestureOnly
<1>3. CASE \E d, e : events' = <<d, e>>
  <2>1. PICK d, e : events' = <<d, e>>
    BY <1>3
  <2> DEFINE u == HandleGesture(w, d)
             z == HandleGesture(u, e)
  <2>2. Handled(w, events') = z
    BY <2>1, FoldTwo
  <2>3. PointerOnly(u, w)
    BY GestureOnly
  <2> HIDE DEF u
  <2>4. PointerOnly(z, u)
    BY <2>3, GestureOnly DEF PointerOnly
  <2> QED BY <2>2, <2>3, <2>4, PointerOnlyChains
<1> QED BY <1>1, <1>2, <1>3 DEF EventsFit, Quiet, Goes, Ends, Presses, Begins, Clicks

(* The mouse and the cursor *)
LEMMA MouseNextIsPointer ==
  ASSUME DOMAIN v = Fields, MouseDown \/ MouseUp \/ MouseMove \/ Wheel
  PROVE  PointerStep
<1>1. UNCHANGED <<held, focused, silenced>>
  BY DEF MouseDown, MouseUp, MouseMove, Wheel, Mouse
<1>2. PointerOnly(v, v)
  BY FieldOnly
<1>3. ASSUME NEW o PROVE PointerOnly(UpdateVisibility(v, o), v)
  BY FieldOnly DEF UpdateVisibility
<1>4. CASE MouseDown
  <2> DEFINE u == SetCapture(v)
  <2>1. v' = v \/ \E b : v' = PressButton(u, at, b)
    BY <1>4 DEF MouseDown, Mouse, PressButton
  <2>2. PointerOnly(u, v)
    BY FieldOnly DEF SetCapture
  <2> HIDE DEF u
  <2>3. \A b : PointerOnly(PressButton(u, at, b), u)
    BY <2>2, ButtonOnly DEF PointerOnly
  <2> QED BY <1>1, <1>2, <2>1, <2>2, <2>3, PointerOnlyChains DEF PointerStep
<1>5. CASE MouseUp
  <2> DEFINE s == UpdateVisibility(v, InCanvas)
             u == CursorMouseUp(v, InCanvas)
             r(b) == ReleaseButton(u, ClipToCanvas(at), b)
             z(b) == ReleaseCapture(r(b))
  <2>1. v' = v \/ \E b : v' = z(b)
    BY <1>5 DEF MouseUp, Mouse, ReleaseButton
  <2>2. u = [s EXCEPT !.recheck = s.recheck \/ v.captured]
    BY DEF CursorMouseUp
  <2>3. PointerOnly(s, v)
    BY <1>3
  <2> HIDE DEF s
  <2>4. PointerOnly(u, s)
    BY <2>2, <2>3, FieldOnly DEF PointerOnly
  <2> HIDE DEF u
  <2>5. PointerOnly(u, v)
    BY <2>3, <2>4, PointerOnlyChains
  <2>6. ASSUME NEW b PROVE PointerOnly(z(b), v)
    <3>1. PointerOnly(r(b), u)
      BY <2>5, ButtonOnly DEF PointerOnly
    <3> HIDE DEF r
    <3>2. PointerOnly(z(b), r(b))
      BY <3>1, FieldOnly DEF PointerOnly, ReleaseCapture
    <3> HIDE DEF z
    <3> QED BY <2>5, <3>1, <3>2, PointerOnlyChains
  <2> HIDE DEF z
  <2> QED BY <1>1, <1>2, <2>1, <2>6 DEF PointerStep
<1>6. CASE MouseMove
  <2> DEFINE s == UpdateVisibility(v, at' # Outside)
             z(x) == HandleMouseMove(s, x)
  <2>1. v' = s \/ \E x : v' = z(x)
    BY <1>6 DEF MouseMove, Mouse
  <2>2. PointerOnly(s, v)
    BY <1>3
  <2> HIDE DEF s
  <2>3. \A x : PointerOnly(z(x), s)
    BY <2>2, MoveOnly DEF PointerOnly
  <2> HIDE DEF z
  <2> QED BY <1>1, <2>1, <2>2, <2>3, PointerOnlyChains DEF PointerStep
<1>7. CASE Wheel
  <2>1. \E delta : v' = HandleWheel(v, at, delta)
    BY <1>7 DEF Wheel, Mouse
  <2> QED BY <1>1, <2>1, WheelOnly DEF PointerStep
<1> QED BY <1>4, <1>5, <1>6, <1>7

(* and the timers of the viewer *)
LEMMA ViewerTimerIsPointer ==
  ASSUME DOMAIN v = Fields, TapIsOld \/ MoveIsOld \/ CursorRecheck \/ MoveTimer
  PROVE  PointerStep
<1>1. UNCHANGED <<held, focused, silenced>>
  BY DEF TapIsOld, MoveIsOld, CursorRecheck, MoveTimer, userVars
<1> DEFINE s == UpdateVisibility(v, InCanvas)
<1>2. \/ v' = [v EXCEPT !.lastTap = NoTap] \/ v' = [v EXCEPT !.recent = FALSE]
      \/ v' = [v EXCEPT !.recheck = FALSE] \/ v' = [s EXCEPT !.recheck = FALSE]
      \/ v' = HandleDelayedMouseMove(v)
  <2>1. CASE CursorRecheck /\ v.connected
    <3>1. v' = [(IF v.connected THEN s ELSE v) EXCEPT !.recheck = FALSE]
      BY <2>1 DEF CursorRecheck
    <3> HIDE DEF s
    <3> QED BY <2>1, <3>1
  <2>2. CASE CursorRecheck /\ ~v.connected
    <3>1. v' = [(IF v.connected THEN s ELSE v) EXCEPT !.recheck = FALSE]
      BY <2>2 DEF CursorRecheck
    <3> HIDE DEF s
    <3> QED BY <2>2, <3>1
  <2>3. CASE TapIsOld \/ MoveIsOld \/ MoveTimer
    BY <2>3 DEF TapIsOld, MoveIsOld, MoveTimer
  <2> QED BY <2>1, <2>2, <2>3
<1>3. PointerOnly(s, v)
  BY FieldOnly DEF UpdateVisibility
<1> HIDE DEF s
<1>4. PointerOnly([s EXCEPT !.recheck = FALSE], s)
  BY <1>3, FieldOnly DEF PointerOnly
<1>5. PointerOnly([s EXCEPT !.recheck = FALSE], v)
  BY <1>3, <1>4, PointerOnlyChains
<1> QED BY <1>1, <1>2, <1>5, FieldOnly, MoveOnly DEF PointerStep

(* No key is held at the start. *)
LEMMA KeyInvInit == InputInit => KeyInv
<1> SUFFICES ASSUME InputInit PROVE KeyInv
  OBVIOUS
<1>1. PICK p \in Platforms, d \in BOOLEAN : v = Viewer(p, d)
  BY DEF InputInit
<1>2. held = {}
  BY DEF InputInit
<1>3. /\ DOMAIN v = Fields /\ v.connected /\ ~v.viewOnly /\ v.platform = p /\ ~v.armed
      /\ v.keys = [c \in Codes |-> Up] /\ v.srvKeys = {}
  BY <1>1, FieldsAre DEF Viewer
<1>4. Typed(v)
  BY <1>3 DEF Typed, Live, Mirror
<1> QED BY <1>2, <1>3, <1>4 DEF KeyInv, KeysHeld

(* Whatever the user, the timers and the page do, a key on the list is one *)
(* that the user holds, and the server holds no other.                     *)
THEOREM KeyInvInductive == InputInv /\ KeyInv /\ [Next]_vars => KeyInv'
<1> SUFFICES ASSUME InputInv, KeyInv, [Next]_vars PROVE KeyInv'
  OBVIOUS
<1>1. DOMAIN v = Fields
  BY DEF InputInv, PointerInv, ViewerFits
<1>2. CASE GestureNext
  <2>1. v' = Handled(v, events') /\ UNCHANGED <<held, focused, silenced>>
    BY <1>2 DEF GestureNext, FingerDown, FingerMove, FingerUp, LongpressTimer, TwoTouchTimer,
                TimePasses, Gesture, Handled
  <2>2. EventsFit
    BY <1>2, GestureNextFits
  <2> QED BY <1>1, <2>1, <2>2, HandledOnly, PointerStepKeeps DEF PointerStep
<1>3. CASE TapIsOld \/ MoveIsOld \/ CursorRecheck \/ MoveTimer
  BY <1>1, <1>3, ViewerTimerIsPointer, PointerStepKeeps
<1>4. CASE MouseDown \/ MouseUp \/ MouseMove \/ Wheel
  BY <1>1, <1>4, MouseNextIsPointer, PointerStepKeeps
<1>5. CASE KeyDown \/ KeyUp \/ AltGrTimer \/ AltGrIsLate \/ Blur \/ Focus
  BY <1>1, <1>5, KeyNextKeeps DEF KeyInv
<1>6. CASE SetViewOnly
  BY <1>6 DEF SetViewOnly, KeyInv
<1>7. CASE ViewChanges \/ UNCHANGED vars
  <2>1. v' = v /\ UNCHANGED <<held, focused, silenced>>
    BY <1>7 DEF ViewChanges, userVars, vars
  <2> QED BY <1>1, <2>1, FieldOnly, PointerStepKeeps DEF PointerStep
<1>8. CASE Disconnect
  <2> DEFINE w == [v EXCEPT !.connected = FALSE, !.timer = FALSE, !.shown = FALSE]
  <2>1. v' = AllKeysUp(w)
    BY <1>8 DEF Disconnect
  <2>2. DOMAIN w = Fields /\ ~w.connected
    BY <1>1, FieldsAre
  <2> HIDE DEF w
  <2>3. KeysOnly(v', w)
    BY <2>1, <2>2, ReleaseAllKeys DEF AllKeysUp
  <2>4. ~v'.connected
    BY <2>2, <2>3, FieldsAre DEF KeysOnly, KeyFields
  <2> QED BY <2>4 DEF KeyInv
<1> QED BY <1>2, <1>3, <1>4, <1>5, <1>6, <1>7, <1>8 DEF Next, GestureNext

(* The server holds no key that the viewer does not list, and none at all  *)
(* when the user has let go of everything: keyboard.js loses no release,   *)
(* not those Windows keeps to itself, nor those of a window without focus. *)
THEOREM KeysStayFaithful == Spec => []KeysFaithful
<1>1. KeyInv => KeysFaithful
  <2> SUFFICES ASSUME KeyInv, v.connected, ~silenced PROVE KeysFaithful
    BY DEF KeysFaithful
  <2>1. KeysHeld(v, held) /\ v.srvKeys \subseteq {v.keys[c] : c \in Codes} \ {Up, NoSymbol}
    BY DEF KeyInv, KeysHeld, Typed, Mirror
  <2>2. ASSUME held = {}, NEW s \in v.srvKeys
        PROVE  s \in (IF v.platform = "windows" THEN {"Control_L"} ELSE {})
    <3>1. PICK c \in Codes : v.keys[c] = s /\ s # Up
      BY <2>1
    <3>2. Owned(v, c, held)
      BY <2>1, <3>1 DEF KeysHeld
    <3> QED BY <2>2, <3>1, <3>2 DEF Owned
  <2> QED BY <2>1, <2>2 DEF KeysFaithful
<1> QED BY <1>1, InputInitHolds, InputInvInductive, KeyInvInit, KeyInvInductive, PTL DEF Spec

=============================================================================
