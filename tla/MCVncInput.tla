----------------------------- MODULE MCVncInput -----------------------------
(* VncInput with few keys, two positions and one of each kind of timing.   *)
(* The Shifts are those of a browser without KeyboardEvent.code.           *)
EXTENDS VncInput

MCVKeys == 16 :> "ShiftLeft"
MCFixedKeys == ("ShiftLeft" :> "Shift") @@ ("ShiftRight" :> "Shift")

Sides(left, right) == (0 :> left) @@ (1 :> left) @@ (2 :> right) @@ (3 :> left)
MCDOMKeyTable ==
    [Control |-> Sides("Control_L", "Control_R"), Alt |-> Sides("Alt_L", "Alt_R"),
     Shift |-> Sides("Shift_L", "Shift_R"), Meta |-> Sides("Super_L", "Super_R"),
     CapsLock |-> Sides("Caps_Lock", "Caps_Lock"), Hiragana |-> Sides("Hiragana", "Hiragana")]

E(code, key, location, keyCode) ==
    [code |-> code, key |-> key, location |-> location, keyCode |-> keyCode,
     char |-> "", identifier |-> ""]
Plain(e) == [downs |-> {e}, up |-> e]

MCTyping ==
    [ctrl |-> Plain(E("ControlLeft", "Control", 1, 17)),
     altGr |-> Plain(E("AltRight", "Alt", 2, 18)),
     shift |-> Plain(E("", "", 1, 16)),
     rightShift |-> Plain(E("", "", 2, 16)),
     capsLock |-> Plain(E("CapsLock", "CapsLock", 0, 20)),
     super |-> Plain(E("OSLeft", "OS", 1, 91)),
     kana |-> Plain(E("Lang1", "Hiragana", 0, 242)),
     a |-> [downs |-> {E("KeyA", "a", 0, 65), E("KeyA", "A", 0, 65)}, up |-> E("KeyA", "a", 0, 65)],
     composed |-> [downs |-> {E("", "b", 0, 229), E("", "Unidentified", 0, 229)},
                   up |-> E("", "b", 0, 66)]]

(* On each platform the keys that are special there, and an ordinary one. *)
MCLayouts ==
    [windows |-> {"ctrl", "altGr", "shift", "rightShift", "kana", "a"},
     mac |-> {"super", "altGr", "capsLock", "shift", "a"},
     other |-> {"ctrl", "rightShift", "composed", "a"}]

(* Two desktops, wide and high; containers that are smaller, larger, flat  *)
(* and high, and one that is hidden.                                       *)
Size(x, y) == [a \in Axes |-> IF a = "x" THEN x ELSE y]
MCFbSizes == {Size(200, 100), Size(100, 200)}
MCScreenSizes == {Size(100, 100), Size(250, 150), Size(40, 300), Size(0, 150)}
MCDrags == {Size(60, 0), Size(-60, 0)}

MCFingers == Permutations(Fingers)
=============================================================================
