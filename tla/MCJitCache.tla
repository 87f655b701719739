----------------------------- MODULE MCJitCache -----------------------------
(* A small instance of JitCache for TLC. *)
EXTENDS JitCache, TLC
=============================================================================
