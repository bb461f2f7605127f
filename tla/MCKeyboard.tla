----------------------------- MODULE MCKeyboard -----------------------------
(* Keyboard with a letter, a function key (no character) and a shift key.    *)
EXTENDS Keyboard

Lower == [k \in {"a", "f1", "lshift"} |-> IF k = "a" THEN "a" ELSE "nul"]
Upper == [k \in {"a", "f1", "lshift"} |-> IF k = "a" THEN "A" ELSE "nul"]
=============================================================================
