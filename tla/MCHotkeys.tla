---------------------------- MODULE MCHotkeys ----------------------------
(* A keyboard of two Win keys, a Ctrl key and three letters, two of them    *)
(* with a meaning of their own, and three chords for TLC.                   *)
EXTENDS Hotkeys

SmallKeyboard == {"LWin", "Ctrl", "S", "L", "H"}
Keyboard      == SmallKeyboard \union {"RWin"}

KeyModifier ==
  [k \in Keys |-> CASE k \in {"LWin", "RWin"} -> "Win"
                    [] k = "Ctrl" -> "Ctrl"
                    [] OTHER -> None]

\* Win+H, Win+Ctrl+L (which repeats) and Ctrl+H.
Chords == {[key |-> "H", mods |-> {"Win"}, repeats |-> FALSE],
           [key |-> "L", mods |-> {"Win", "Ctrl"}, repeats |-> TRUE],
           [key |-> "H", mods |-> {"Ctrl"}, repeats |-> FALSE]}
===========================================================================
