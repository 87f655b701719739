----------------------------- MODULE MCJitGrace -----------------------------
(* A small instance of JitGrace for TLC. *)
EXTENDS JitGrace
=============================================================================
