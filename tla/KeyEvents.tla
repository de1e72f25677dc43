------------------------------ MODULE KeyEvents ------------------------------
(***************************************************************************)
(* What a key event of a browser means (core/input/util.js): the physical  *)
(* key it is about and the keysym to send.  An event is a record:          *)
(*   code, key, location   as in the DOM; "" where a browser leaves it out *)
(*   keyCode, char         legacy fields; 0 and "" where it leaves them out*)
(*   identifier            the name keyIdentifier gives the key, or ""     *)
(***************************************************************************)
EXTENDS Integers, Sequences, TLC

CONSTANTS
    VKeys,          \* vkeys.js: virtual key code -> code
    FixedKeys,      \* fixedkeys.js: code -> key
    DOMKeyTable,    \* domkeytable.js: key -> location -> keysym
    Symbols         \* printable characters, which are their own keysyms

NoSymbol == "NoSymbol"

CodeNames == [OSLeft |-> "MetaLeft", OSRight |-> "MetaRight"]
KeyNames ==
    [OS |-> "Meta", LaunchMyComputer |-> "LaunchApplication1",
     LaunchCalculator |-> "LaunchApplication2", UIKeyInputUpArrow |-> "ArrowUp",
     UIKeyInputDownArrow |-> "ArrowDown", UIKeyInputLeftArrow |-> "ArrowLeft",
     UIKeyInputRightArrow |-> "ArrowRight", UIKeyInputEscape |-> "Escape"]
RightCodes ==
    [ShiftLeft |-> "ShiftRight", ControlLeft |-> "ControlRight", AltLeft |-> "AltRight"]
NumpadCodes ==
    [Delete |-> "NumpadDecimal", Insert |-> "Numpad0", End |-> "Numpad1",
     ArrowDown |-> "Numpad2", PageDown |-> "Numpad3", ArrowLeft |-> "Numpad4",
     ArrowRight |-> "Numpad6", Home |-> "Numpad7", ArrowUp |-> "Numpad8",
     PageUp |-> "Numpad9", Enter |-> "NumpadEnter"]

Renamed(names, x) == IF x \in DOMAIN names THEN names[x] ELSE x

GetKeycode(e, platform) ==
    LET vkey == VKeys[e.keyCode]
        code == IF platform = "mac" /\ vkey = "ContextMenu" THEN "MetaRight" ELSE vkey
    IN  CASE e.code # "" -> Renamed(CodeNames, e.code)
          [] e.code = "" /\ e.keyCode \notin DOMAIN VKeys -> "Unidentified"
          [] OTHER -> CASE e.location = 2 -> Renamed(RightCodes, code)
                        [] e.location = 3 -> Renamed(NumpadCodes, code)
                        [] OTHER -> code

GetKey(e, platform) ==
    LET code == GetKeycode(e, platform)
    IN  CASE e.key = "NUL" /\ e.code = "NumpadDecimal" -> "Delete"
          [] e.key # "" /\ ~(e.key = "NUL" /\ e.code = "NumpadDecimal") -> Renamed(KeyNames, e.key)
          [] e.key = "" /\ code \in DOMAIN FixedKeys -> FixedKeys[code]
          [] OTHER -> IF e.char = "" THEN "Unidentified" ELSE e.char

MetaKeysyms == [AltLeft |-> "Meta_L", AltRight |-> "Meta_R"]
JpKeysyms == [Zenkaku |-> "Zenkaku_Hankaku", Hankaku |-> "Zenkaku_Hankaku",
              Romaji |-> "Romaji", KanaMode |-> "Romaji"]

(* Clear of a Mac stands for NumLock. *)
SpecialKeysym(key, code, location, platform) ==
    CASE key = "Meta" /\ code \in DOMAIN MetaKeysyms -> MetaKeysyms[code]
      [] key = "Clear" /\ code = "NumLock" -> "Num_Lock"
      [] platform = "windows" /\ key \in DOMAIN JpKeysyms -> JpKeysyms[key]
      [] OTHER -> DOMKeyTable[key][
                    CASE key = "Meta" /\ location = 0 -> 2
                      [] location > 3 -> 0
                      [] OTHER -> location]

GetKeysym(e, platform) ==
    LET key == GetKey(e, platform)
    IN  CASE key \in DOMAIN DOMKeyTable ->
                SpecialKeysym(key, GetKeycode(e, platform), e.location, platform)
          [] key \in Symbols \ DOMAIN DOMKeyTable -> key
          [] OTHER -> NoSymbol

(* The code a key is tracked by; 229 stands for every key of a composition.*)
KeyCode(e, platform) ==
    LET code == GetKeycode(e, platform)
    IN  CASE code # "Unidentified" -> code
          [] code = "Unidentified" /\ e.keyCode \notin {0, 229} -> "Platform" \o ToString(e.keyCode)
          [] OTHER -> IF e.identifier = "" THEN "Unidentified" ELSE e.identifier
=============================================================================
