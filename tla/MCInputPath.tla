----------------------------- MODULE MCInputPath -----------------------------
(* Small instances of InputPath for TLC. *)
EXTENDS InputPath

LeftButton == {{}, {"left"}}
Still == {<<0, 0>>}
=============================================================================
