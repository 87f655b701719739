----------------------------- MODULE MCCpuBanks -----------------------------
(* Small instances of CpuBanks for TLC. *)
EXTENDS CpuBanks
=============================================================================
