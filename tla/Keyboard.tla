------------------------------ MODULE Keyboard ------------------------------
(***************************************************************************)
(* The keyboard of the VNC viewer (core/input/keyboard.js).  Handlers are  *)
(* operators on the viewer's state, see RfbInput; its fields here:         *)
(*   keys    _keyDownList: the keysym sent for a code, or Up               *)
(*   armed   Ctrl was pressed on Windows and may be the start of AltGr     *)
(*   late    that was 50 ms ago or more                                    *)
(* A key is named by its code; its keysym is what the event says it means. *)
(***************************************************************************)
EXTENDS RfbInput

CONSTANTS
    Typing,     \* physical key -> events of its press, of which one, and its release
    Layouts     \* platform -> the physical keys of its keyboard

Up == "up"
Platforms == {"windows", "mac", "other"}
Codes ==
    {KeyCode(e, p) : p \in Platforms,
                     e \in UNION {Typing[k].downs \cup {Typing[k].up} : k \in DOMAIN Typing}}

(* Japanese keys that Windows never releases *)
JpBadKeys == {"Zenkaku_Hankaku", "Eisu_toggle", "Katakana", "Hiragana", "Romaji"}

MacKeysym == [Super_L |-> "Alt_L", Super_R |-> "Super_L",
              Alt_L |-> "Mode_switch", Alt_R |-> "ISO_Level3_Shift"]

(* onkeyevent is RFB's sendKey *)
Press(v, keysym, code) ==
    SendKey(IF code \in Codes THEN [v EXCEPT !.keys[code] = keysym] ELSE v, keysym, TRUE)

ReleaseAll_ServerOnly(v, codes) ==
    IF v.connected /\ ~v.viewOnly
      THEN [v EXCEPT !.srvKeys = @ \ {v.keys[c] : c \in codes}] ELSE v

(* The keys among codes that are down go up, each under its keysym. *)
ReleaseAll(v, codes) ==
    LET up == [v EXCEPT !.keys = [c \in Codes |-> IF c \in codes THEN Up ELSE @[c]]]
    IN  IF v.connected /\ ~v.viewOnly
          THEN [up EXCEPT !.srvKeys = @ \ {v.keys[c] : c \in codes}] ELSE up

PressAndRelease(v, keysym, code) == ReleaseAll(Press(v, keysym, code), {code})

(* The Ctrl that was held back was a real one. *)
SendArmedCtrl(v) == Press([v EXCEPT !.armed = FALSE], "Control_L", "ControlLeft")

(* A key that is down already keeps its keysym. *)
SameKeysym_Changes(v, code, keysym) == keysym
SameKeysym(v, code, keysym) == IF v.keys[code] # Up THEN v.keys[code] ELSE keysym

HandleKeyDown(v, e) ==
    LET code == KeyCode(e, v.platform)
        keysym == GetKeysym(e, v.platform)
        altGr == v.armed /\ code = "AltRight" /\ ~v.late
        w == IF v.armed /\ ~altGr THEN SendArmedCtrl(v) ELSE [v EXCEPT !.armed = FALSE]
        meant == IF altGr THEN "ISO_Level3_Shift" ELSE keysym
        mapped == IF v.platform = "mac" /\ meant \in DOMAIN MacKeysym
                    THEN MacKeysym[meant] ELSE meant
        sym == SameKeysym(w, code, mapped)
    IN  IF code = "Unidentified"
          THEN IF meant = NoSymbol THEN w ELSE PressAndRelease(w, meant, code)
          ELSE CASE v.platform = "mac" /\ code = "CapsLock" ->
                      PressAndRelease(w, "Caps_Lock", code)
                 [] v.platform = "windows" /\ sym \in JpBadKeys ->
                      PressAndRelease(w, sym, code)
                 [] /\ v.platform = "windows" /\ sym \notin JpBadKeys
                    /\ code = "ControlLeft" /\ w.keys[code] = Up ->
                      [w EXCEPT !.armed = TRUE, !.late = FALSE]
                 [] OTHER -> Press(w, sym, code)

Shifts == {"ShiftLeft", "ShiftRight"} \cap Codes

HandleKeyUp(v, e) ==
    LET code == KeyCode(e, v.platform)
        w == IF v.armed THEN SendArmedCtrl(v) ELSE v
    IN  IF v.platform = "mac" /\ code = "CapsLock" THEN PressAndRelease(w, "Caps_Lock", code)
        ELSE ReleaseAll(w, {code} \cup (IF v.platform = "windows" /\ code \in Shifts
                                          THEN Shifts ELSE {}))

HandleAltGrTimeout(v) == SendArmedCtrl(v)

AllKeysUp(v) == ReleaseAll(v, Codes)

=============================================================================
