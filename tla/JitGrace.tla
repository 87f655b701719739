------------------------------ MODULE JitGrace ------------------------------
(***************************************************************************)
(* The grace periods of the translator (kernel/src/jit.c), without memory   *)
(* and code: what every CPU publishes in its dispatcher, and how long a new *)
(* block waits for the others.  JitCoherence implements this module; here   *)
(* blocks are only their stamps, so that the wait for room in the pending    *)
(* ring can be checked, and proved free of deadlock, on its own.             *)
(*                                                                          *)
(* Stores are visible at once in this module (see JitCoherence for the       *)
(* store buffer).                                                            *)
(***************************************************************************)
EXTENDS Integers, Sequences

CONSTANTS
  CPUs,         \* the CPUs given to jit_init
  PendingLen,   \* PENDING_LEN, ring size of a CPU's unchecked blocks
  MaxEpoch,     \* bound: no translation starts once epoch has reached it
  Idle          \* the ~0 a CPU publishes outside of jit_run

(* A CPU makes at most two blocks between two publications (lookup, link),  *)
(* so the ring must hold two; PENDING_LEN is 4096.                           *)
ASSUME GraceAssumption ==
  /\ PendingLen \in Nat /\ PendingLen >= 3
  /\ MaxEpoch \in Nat
  /\ Idle \notin Nat

VARIABLES
  epoch,    \* counts translations
  quiet,    \* the epoch each CPU last published in its dispatcher
  seen,     \* the epoch a CPU loaded and is about to publish
  pend,     \* per CPU: stamps of the blocks to be checked, oldest first
  unread,   \* revalidate: the CPUs whose quiet is still to be read
  minq,     \* revalidate: the least epoch read
  back,     \* revalidate: who called it
  tret,     \* translate: where it returns to
  at        \* per CPU: where it is

vars == <<epoch, quiet, seen, pend, unread, minq, back, tret, at>>

Places == {"out", "top", "publish", "drain", "reval", "lookup", "work", "run",
           "trans", "twait"}

Goto(c, l) == at' = [at EXCEPT ![c] = l]

(* The lesser of two published epochs, and stamp <= q, with Idle as ~0 *)
LeastQuiet(p, q) == CASE p = Idle -> q
                      [] q = Idle -> p
                      [] OTHER -> IF q < p THEN q ELSE p

(* Mutant: a block never passes the CPU that published its epoch *)
PassedStrict(stamp, q) == q = Idle \/ stamp < q

Passed(stamp, q) == q = Idle \/ stamp <= q

Init ==
  /\ epoch = 1
  /\ quiet = [c \in CPUs |-> Idle]
  /\ seen = [c \in CPUs |-> 0]
  /\ pend = [c \in CPUs |-> <<>>]
  /\ unread = [c \in CPUs |-> CPUs]
  /\ minq = [c \in CPUs |-> Idle]
  /\ back = [c \in CPUs |-> "lookup"]
  /\ tret = [c \in CPUs |-> "top"]
  /\ at = [c \in CPUs |-> "out"]

-----------------------------------------------------------------------------
(* The dispatcher loop of jit_run *)

LoadEpoch(c, l) ==
  /\ at[c] = l
  /\ seen' = [seen EXCEPT ![c] = epoch]
  /\ Goto(c, "publish")
  /\ UNCHANGED <<epoch, quiet, pend, unread, minq, back, tret>>

EnterRun(c) == LoadEpoch(c, "out")
LoopTop(c) == LoadEpoch(c, "top")

Publish(c) ==
  /\ at[c] = "publish"
  /\ quiet' = [quiet EXCEPT ![c] = seen[c]]
  /\ seen' = [seen EXCEPT ![c] = 0]
  /\ Goto(c, "drain")
  /\ UNCHANGED <<epoch, pend, unread, minq, back, tret>>

(* flush empties the code cache, and what is pending with it *)
MayFlush(c) == UNCHANGED pend \/ pend' = [pend EXCEPT ![c] = <<>>]

(* drain_queue, which flushes after its queue overflowed *)
Drain(c) ==
  /\ at[c] = "drain"
  /\ MayFlush(c)
  /\ Goto(c, "reval")
  /\ UNCHANGED <<epoch, quiet, seen, unread, minq, back, tret>>

LeaveRun(c) ==
  /\ at[c] \in {"lookup", "run"}
  /\ quiet' = [quiet EXCEPT ![c] = Idle]
  /\ Goto(c, "out")
  /\ UNCHANGED <<epoch, seen, pend, unread, minq, back, tret>>

LookupRun(c) ==
  /\ at[c] = "lookup"
  /\ Goto(c, "run")
  /\ UNCHANGED <<epoch, quiet, seen, pend, unread, minq, back, tret>>

(* an instruction interpreted, or marked words hit: no block is made *)
Work(c) ==
  /\ at[c] \in {"lookup", "run"}
  /\ Goto(c, "work")
  /\ UNCHANGED <<epoch, quiet, seen, pend, unread, minq, back, tret>>

BackToTop(c) ==
  /\ at[c] \in {"work", "run"}
  /\ Goto(c, "top")
  /\ UNCHANGED <<epoch, quiet, seen, pend, unread, minq, back, tret>>

-----------------------------------------------------------------------------
(* revalidate *)

RevalReturn(c) ==
  /\ back' = [back EXCEPT ![c] = "lookup"]
  /\ Goto(c, back[c])

RevalNone(c) ==
  /\ at[c] = "reval"
  /\ pend[c] = <<>> /\ unread[c] = CPUs
  /\ RevalReturn(c)
  /\ UNCHANGED <<epoch, quiet, seen, pend, unread, minq, tret>>

ScanQuiet(c) ==
  /\ at[c] = "reval"
  /\ pend[c] # <<>>
  /\ \E d \in unread[c] :
       /\ minq' = [minq EXCEPT ![c] = LeastQuiet(@, quiet[d])]
       /\ unread' = [unread EXCEPT ![c] = @ \ {d}]
  /\ UNCHANGED <<epoch, quiet, seen, pend, back, tret, at>>

Ready(c) == pend[c] # <<>> /\ Passed(Head(pend[c]), minq[c])

CheckOldest(c) ==
  /\ at[c] = "reval" /\ unread[c] = {}
  /\ Ready(c)
  /\ pend' = [pend EXCEPT ![c] = Tail(@)]
  /\ UNCHANGED <<epoch, quiet, seen, unread, minq, back, tret, at>>

CheckDone(c) ==
  /\ at[c] = "reval" /\ unread[c] = {}
  /\ ~Ready(c)
  /\ unread' = [unread EXCEPT ![c] = CPUs]
  /\ minq' = [minq EXCEPT ![c] = Idle]
  /\ RevalReturn(c)
  /\ UNCHANGED <<epoch, quiet, seen, pend, tret>>

-----------------------------------------------------------------------------
(* translate, from the lookup or to link a jump that left the code *)

Translate(c) ==
  /\ epoch < MaxEpoch
  /\ \/ at[c] = "lookup" /\ tret' = [tret EXCEPT ![c] = "run"]
     \/ at[c] = "run" /\ tret' = [tret EXCEPT ![c] = "top"]
  /\ MayFlush(c)
  /\ Goto(c, "trans")
  /\ UNCHANGED <<epoch, quiet, seen, unread, minq, back>>

Translated(c) ==
  /\ at[c] = "trans"
  /\ Goto(c, "twait")
  /\ UNCHANGED <<epoch, quiet, seen, pend, unread, minq, back, tret>>

(* Mutants: the ring takes one too many, or only one *)
PendingFullLate(c) == Len(pend[c]) = PendingLen
PendingFullEarly(c) == Len(pend[c]) >= PendingLen - 2

(* next == phead: the ring of PendingLen slots holds one block less *)
PendingFull(c) == Len(pend[c]) = PendingLen - 1

WaitPending(c) ==
  /\ at[c] = "twait"
  /\ PendingFull(c)
  /\ back' = [back EXCEPT ![c] = "twait"]
  /\ Goto(c, "reval")
  /\ UNCHANGED <<epoch, quiet, seen, pend, unread, minq, tret>>

Stamp(c) ==
  /\ at[c] = "twait"
  /\ ~PendingFull(c)
  /\ epoch' = epoch + 1
  /\ pend' = [pend EXCEPT ![c] = Append(@, epoch + 1)]
  /\ tret' = [tret EXCEPT ![c] = "top"]
  /\ Goto(c, tret[c])
  /\ UNCHANGED <<quiet, seen, unread, minq, back>>

-----------------------------------------------------------------------------
Step(c) ==
  \/ LoopTop(c) \/ Publish(c) \/ Drain(c)
  \/ LeaveRun(c) \/ LookupRun(c) \/ Work(c) \/ BackToTop(c)
  \/ RevalNone(c) \/ ScanQuiet(c) \/ CheckOldest(c) \/ CheckDone(c)
  \/ Translate(c) \/ Translated(c) \/ WaitPending(c) \/ Stamp(c)

Next == \E c \in CPUs : EnterRun(c) \/ Step(c)

Spec == Init /\ [][Next]_vars

(* A CPU inside jit_run goes on, and whatever it was doing it comes back to  *)
(* the dispatcher: the budget ends translated code.                          *)
Fairness == \A c \in CPUs : WF_vars(Step(c))

FairSpec == Spec /\ Fairness

-----------------------------------------------------------------------------
(* Epochs are numbers or ~0, and no ring of pending stamps is overfull.      *)
TypeOK ==
  /\ epoch \in Nat \ {0}
  /\ quiet \in [CPUs -> Nat \cup {Idle}]
  /\ seen \in [CPUs -> Nat]
  /\ pend \in [CPUs -> Seq(Nat)]
  /\ \A c \in CPUs : Len(pend[c]) < PendingLen
  /\ unread \in [CPUs -> SUBSET CPUs]
  /\ minq \in [CPUs -> Nat \cup {Idle}]
  /\ back \in [CPUs -> {"lookup", "twait"}]
  /\ tret \in [CPUs -> {"run", "top"}]
  /\ at \in [CPUs -> Places]

(* CPU c, in translate, has no room in pending until CPU d has been through  *)
(* its dispatcher since c's oldest block.                                    *)
WaitsFor(c, d) ==
  /\ at[c] = "twait" \/ back[c] = "twait"
  /\ PendingFull(c)
  /\ ~Passed(Head(pend[c]), quiet[d])

(* The loop at jit.c 1660 publishes nothing while it waits, so CPUs in it    *)
(* could wait for each other forever, or one for itself.  They never do:     *)
(* among any CPUs, one waits for none of them.                               *)
NoCircularWait ==
  \A S \in SUBSET CPUs : S # {} => \E c \in S : \A d \in S : ~WaitsFor(c, d)

(* That loop ends: every block translated gets its stamp (jit.c 1657-1667).  *)
TranslationEnds ==
  \A c \in CPUs : at[c] = "twait" ~> at[c] \in {"run", "top"}
=============================================================================
