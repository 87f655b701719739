-------------------------------- MODULE JitEmit --------------------------------
(* What translate emits for a start address (kernel/src/jit.c 1429-1670): the *)
(* word copy loop is a block of its own, any other code an ordinary block.    *)
EXTENDS JitBlock

CONSTANTS W, Byte, MemSize, HwLo, HwHi, PageSize, COPY_MIN, Scenarios, Off

VARIABLES copy, loop

Copy == INSTANCE JitCopy

emitVars == <<vars, copy, loop>>

BlockOff ==
  /\ blk = [marked |-> {}] /\ gmem = << >> /\ fields = {} /\ n = 0 /\ x = NoInsn /\ at = "none"
  /\ J = NewBlock(<< >>) /\ exit = [pc |-> None, guest |-> None]

EmitInit ==
  \/ BlockInit /\ copy = Off /\ loop = Off
  \/ Copy!CopyInit /\ BlockOff

EmitNext ==
  \/ copy = Off /\ BlockNext /\ UNCHANGED <<copy, loop>>
  \/ copy # Off /\ Copy!CopyNext /\ UNCHANGED vars

EmitSpec == EmitInit /\ [][EmitNext]_emitVars

(* A block that begins with the copy does what the loop's instructions do:    *)
(* the same memory, variables and patched fields included, the same next      *)
(* instruction and the same count of instructions, which never overdraws the  *)
(* budget (jit_copy, jit.c 1041-1089).                                        *)
CopyIsTheLoop == copy # Off => Copy!CopyIsLoop
===============================================================================
