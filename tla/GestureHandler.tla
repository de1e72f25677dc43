--------------------------- MODULE GestureHandler ---------------------------
(***************************************************************************)
(* The touch gestures of the VNC viewer (core/input/gesturehandler.js).    *)
(*                                                                         *)
(* state is the set of gestures that are still possible, the bits of       *)
(* this._state: all of them is GH_INITSTATE, none is GH_NOGESTURE.  Touch  *)
(* points have one coordinate; an angle is that of a move to the right (0) *)
(* or to the left (180).  Time appears as ages, of a touch or of the first *)
(* release: 0 is at most GH_MULTITOUCH_TIMEOUT, 1 is at most the one       *)
(* second of GH_TAP_TIMEOUT and GH_LONGPRESS_TIMEOUT, 2 is longer.         *)
(*                                                                         *)
(* events is what the handler dispatches during a step, in order; the      *)
(* listeners run inside dispatchEvent, that is, in the same step.          *)
(***************************************************************************)
EXTENDS Integers, Sequences, FiniteSets, SequencesExt

CONSTANTS
    Fingers,        \* identifiers of touch points
    Coords,         \* where a finger can be
    MoveThreshold   \* GH_MOVE_THRESHOLD

ASSUME GestureAssumption ==
    IsFiniteSet(Fingers) /\ Coords \subseteq Int /\ MoveThreshold \in Nat \ {0}

VARIABLES
    state,          \* gestures still possible
    tracked,        \* touches of the current gesture, in the order they began
    ignored,        \* touches to ignore until they end
    waitingRelease, \* a finger was lifted, the others should follow
    releaseAge,     \* age of that moment
    longpress,      \* the longpress timer runs
    twoTouch,       \* timer id of the two-finger decision: null, pending, or fired
    down,           \* fingers on the screen
    events,         \* events dispatched by the last step
    thrown          \* the last step threw an Error

gestureVars == <<state, tracked, ignored, waitingRelease, releaseAge, longpress,
                 twoTouch, down, events, thrown>>

Taps == {"onetap", "twotap", "threetap"}
Gestures == Taps \cup {"drag", "longpress", "twodrag", "pinch"}
NoGesture == {}
Ages == 0..2

Touch == [id : Fingers, age : Ages, active : BOOLEAN, first : Coords, last : Coords,
          angle : {0, 180}]

Abs(n) == IF n < 0 THEN -n ELSE n

TrackedIds == {tracked[i].id : i \in DOMAIN tracked}
ActiveIds == {tracked[i].id : i \in {j \in DOMAIN tracked : tracked[j].active}}

(* A gesture is known: one bit is left and, for taps, every finger is up. *)
Detected(s, ts) ==
    /\ Cardinality(s) = 1
    /\ s \subseteq Taps => \A i \in DOMAIN ts : ~ts[i].active

Average(ts, f(_)) == FoldLeftDomain(LAMBDA sum, i : sum + f(ts[i]), 0, ts) \div Len(ts)
AverageMovement(ts) == Average(ts, LAMBDA t : t.last - t.first)
FirstDistance(ts) == Abs(Last(ts).first - Head(ts).first)
LastDistance(ts) == Abs(Last(ts).last - Head(ts).last)

(* A dispatched event: its place is the first one for the start of a       *)
(* gesture and for two-finger gestures, its magnitude the distance of the  *)
(* fingers or how far they moved.                                          *)
Event(type, s, ts) ==
    LET gesture == CHOOSE g \in s : TRUE
    IN  [type |-> type,
         gesture |-> gesture,
         x |-> IF type = "gesturestart" \/ gesture \in {"twodrag", "pinch"}
                 THEN Average(ts, LAMBDA t : t.first)
                 ELSE Average(ts, LAMBDA t : t.last),
         magnitude |->
            CASE gesture = "pinch" /\ type = "gesturestart" -> FirstDistance(ts)
              [] gesture = "pinch" /\ type # "gesturestart" -> LastDistance(ts)
              [] gesture = "twodrag" /\ type # "gesturestart" -> AverageMovement(ts)
              [] OTHER -> 0]

Dispatch(types, s, ts) == events' = [i \in DOMAIN types |-> Event(types[i], s, ts)]

Init ==
    /\ state = Gestures
    /\ tracked = <<>>
    /\ ignored = {}
    /\ waitingRelease = FALSE
    /\ releaseAge = 0
    /\ longpress = FALSE
    /\ twoTouch = "null"
    /\ down = {}
    /\ events = <<>>
    /\ thrown = FALSE

-----------------------------------------------------------------------------
(* A touch that begins during a gesture, after a failed one, too late, or  *)
(* while others are being lifted is ignored; the last two also end the     *)
(* attempt.                                                                *)
IgnoreTouch(f) ==
    LET busy == Detected(state, tracked) \/ state = NoGesture
        late == tracked # <<>> /\ Head(tracked).age > 0
    IN  /\ busy \/ late \/ waitingRelease
        /\ state' = IF busy THEN state ELSE NoGesture
        /\ ignored' = ignored \cup {f}
        /\ UNCHANGED <<tracked, longpress>>

(* The n-th finger rules out the gestures of fewer fingers. *)
Excluded(n) == CASE n = 1 -> {}
                 [] n = 2 -> {"onetap", "drag", "longpress"}
                 [] n = 3 -> {"twotap", "twodrag", "pinch"}
                 [] OTHER -> Gestures

TrackTouch(f, x) ==
    LET n == Len(tracked) + 1
    IN  /\ ~Detected(state, tracked) /\ state # NoGesture
        /\ tracked # <<>> => Head(tracked).age = 0
        /\ ~waitingRelease
        /\ tracked' = Append(tracked, [id |-> f, age |-> 0, active |-> TRUE,
                                       first |-> x, last |-> x, angle |-> 0])
        /\ state' = state \ Excluded(n)
        /\ longpress' = (n = 1 \/ (longpress /\ n # 2))
        /\ UNCHANGED ignored

TouchStart(f, x) ==
    /\ f \notin down
    /\ down' = down \cup {f}
    /\ IgnoreTouch(f) \/ TrackTouch(f, x)
    /\ events' = <<>>
    /\ UNCHANGED <<waitingRelease, releaseAge, twoTouch, thrown>>

-----------------------------------------------------------------------------
MovedTo(t, x) ==
    [t EXCEPT !.last = x,
              !.angle = IF x = t.first THEN @ ELSE IF x > t.first THEN 0 ELSE 180]

(* What a finger's move beyond the threshold leaves possible; with two     *)
(* fingers the direction of both decides, once both moved far enough.      *)
AfterMove(ts) ==
    state \ (Taps \cup {"longpress"} \cup (IF Len(ts) # 1 THEN {"drag"} ELSE {})
                  \cup (IF Len(ts) # 2 THEN {"twodrag", "pinch"} ELSE {}))

AfterBothMoved(ts) ==
    AfterMove(ts) \ (IF ts[1].angle = ts[2].angle THEN {"pinch"} ELSE {"twodrag"})

TouchMove(f, x) ==
    /\ f \in down \cap TrackedIds
    /\ LET i == CHOOSE j \in DOMAIN tracked : tracked[j].id = f
           ts == [tracked EXCEPT ![i] = MovedTo(@, x)]
           near == Abs(x - ts[i].first) < MoveThreshold
           bothMoved == /\ Len(ts) = 2
                        /\ Abs(ts[3 - i].last - ts[3 - i].first) > MoveThreshold
           s == IF bothMoved THEN AfterBothMoved(ts) ELSE AfterMove(ts)
       IN  /\ tracked[i].last # x
           /\ tracked' = ts
           /\ \/ /\ Detected(state, tracked)
                 /\ Dispatch(<<"gesturemove">>, state, ts)
                 /\ UNCHANGED <<state, longpress, twoTouch>>
              \/ /\ ~Detected(state, tracked) /\ near
                 /\ events' = <<>>
                 /\ UNCHANGED <<state, longpress, twoTouch>>
              \/ /\ ~Detected(state, tracked) /\ ~near
                 /\ state' = s
                 /\ longpress' = FALSE
                 /\ twoTouch' = CASE bothMoved -> "null"
                                  [] Len(ts) = 2 /\ ~bothMoved /\ twoTouch = "null" -> "pending"
                                  [] OTHER -> twoTouch
                 /\ IF Detected(s, ts)
                      THEN Dispatch(<<"gesturestart", "gesturemove">>, s, ts)
                      ELSE events' = <<>>
    /\ UNCHANGED <<ignored, waitingRelease, releaseAge, down, thrown>>

-----------------------------------------------------------------------------
(* A touch that was ignored ends; the last one makes the handler ready. *)
EndIgnored(f) ==
    /\ f \in ignored
    /\ ignored' = ignored \ {f}
    /\ IF ignored' = {} /\ tracked = <<>>
         THEN state' = Gestures /\ waitingRelease' = FALSE
         ELSE UNCHANGED <<state, waitingRelease>>
    /\ events' = <<>>
    /\ UNCHANGED <<tracked, longpress, twoTouch, releaseAge>>

Remaining_AllTaps(s) == s \ {"drag", "twodrag", "pinch", "longpress"}

(* The gestures that remain when a finger is lifted before one is known.   *)
Remaining(s) ==
    s \ ({"drag", "twodrag", "pinch", "longpress"}
         \cup (IF waitingRelease THEN {}
               ELSE CASE Len(tracked) = 1 -> {"twotap", "threetap"}
                      [] Len(tracked) = 2 -> {"onetap", "threetap"}
                      [] OTHER -> {}))

(* What is still down when a gesture ends or fails is ignored. *)
LeftDown(f) == (ignored \cup ActiveIds) \ {f}

(* A longpress that goes on needs its timer no more; one that can no       *)
(* longer be has it stopped.                                               *)
LongpressAfterEnd_Kept(known) == longpress
LongpressAfterEnd(known) == longpress /\ known

Finish(f, types, s, ts) ==
    LET left == LeftDown(f)
    IN  /\ Dispatch(types, s, ts)
        /\ tracked' = <<>>
        /\ ignored' = left
        /\ state' = IF left = {} THEN Gestures ELSE NoGesture

EndTracked(f) ==
    LET known == Detected(state, tracked)
        cut == ~known /\ twoTouch # "null"
        s0 == IF cut THEN NoGesture ELSE state
        waiting == waitingRelease \/ ~known
        slow == \/ waitingRelease /\ releaseAge > 0
                \/ \E i \in DOMAIN tracked : tracked[i].age > 1
        s == IF known THEN (IF waiting /\ slow THEN NoGesture ELSE s0)
             ELSE IF slow THEN NoGesture ELSE Remaining(s0)
        ts == [i \in DOMAIN tracked |->
                 IF waiting /\ tracked[i].id = f THEN [tracked[i] EXCEPT !.active = FALSE]
                 ELSE tracked[i]]
    IN  /\ f \in ActiveIds \ ignored
        /\ longpress' = LongpressAfterEnd(known)
        /\ twoTouch' = IF cut THEN "null" ELSE twoTouch
        /\ releaseAge' = IF waiting /\ ~waitingRelease THEN 0 ELSE releaseAge
        /\ \/ /\ waiting /\ ~Detected(s, ts) /\ s # NoGesture  \* more fingers to lift
              /\ state' = s
              /\ tracked' = ts
              /\ waitingRelease' = TRUE
              /\ events' = <<>>
              /\ UNCHANGED ignored
           \/ /\ ~waiting \/ Detected(s, ts) \/ s = NoGesture
              /\ Finish(f, CASE waiting /\ Detected(s, ts) -> <<"gesturestart", "gestureend">>
                             [] ~waiting /\ Detected(s, ts) -> <<"gestureend">>
                             [] OTHER -> <<>>, s, ts)
              /\ waitingRelease' = (waiting /\ ignored' # {})

TouchEnd(f) ==
    /\ f \in down
    /\ down' = down \ {f}
    /\ EndIgnored(f) \/ EndTracked(f)
    /\ UNCHANGED thrown

-----------------------------------------------------------------------------
(* setTimeout of GH_LONGPRESS_TIMEOUT, counted from the first touch. *)
LongpressTimeout ==
    /\ longpress
    /\ tracked # <<>> => Head(tracked).age = 2
    /\ longpress' = FALSE
    /\ IF Detected(state, tracked) \/ tracked = <<>>
         THEN /\ thrown' = TRUE
              /\ events' = <<>>
              /\ UNCHANGED state
         ELSE /\ state' = {"longpress"}
              /\ Dispatch(<<"gesturestart">>, {"longpress"}, tracked)
              /\ UNCHANGED thrown
    /\ UNCHANGED <<tracked, ignored, waitingRelease, releaseAge, twoTouch, down>>

(* setTimeout of GH_TWOTOUCH_TIMEOUT: decide from how the fingers moved.   *)
(* The timer id is not reset here.                                         *)
TwoTouchTimeout ==
    LET spread == Abs(FirstDistance(tracked) - LastDistance(tracked))
        gesture == IF 0 < spread /\ Abs(AverageMovement(tracked)) < spread
                     THEN {"pinch"} ELSE {"twodrag"}
    IN  /\ twoTouch = "pending"
        /\ twoTouch' = "fired"
        /\ IF tracked = <<>>
             THEN /\ thrown' = TRUE
                  /\ events' = <<>>
                  /\ UNCHANGED state
             ELSE /\ state' = gesture
                  /\ Dispatch(<<"gesturestart", "gesturemove">>, gesture, tracked)
                  /\ UNCHANGED thrown
        /\ UNCHANGED <<tracked, ignored, waitingRelease, releaseAge, longpress, down>>

(* Time passes: older touches reach an age no later than younger ones, and *)
(* the first release is younger than every touch.                          *)
Elapse ==
    \E ages \in [DOMAIN tracked -> Ages], age \in 0..1 :
        /\ \A i \in DOMAIN tracked : ages[i] >= tracked[i].age
        /\ \A i \in DOMAIN tracked : i > 1 => ages[i] <= ages[i - 1]
        /\ age >= releaseAge /\ (waitingRelease \/ age = 0)
        /\ \A i \in DOMAIN tracked : age <= ages[i]
        /\ tracked' = [i \in DOMAIN tracked |-> [tracked[i] EXCEPT !.age = ages[i]]]
        /\ releaseAge' = age
        /\ <<tracked', releaseAge'>> # <<tracked, releaseAge>>
        /\ events' = <<>>
        /\ UNCHANGED <<state, ignored, waitingRelease, longpress, twoTouch, down, thrown>>

=============================================================================
