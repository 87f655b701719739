--------------------------- MODULE MCKeyboardKeys ---------------------------
(* Small instances of KeyboardKeys for TLC. *)
EXTENDS KeyboardKeys
=============================================================================
