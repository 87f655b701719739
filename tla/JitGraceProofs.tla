--------------------------- MODULE JitGraceProofs ---------------------------
(***************************************************************************)
(* Proofs about JitGrace: its types, and that the wait in translate is never *)
(* circular, for any number of CPUs and any ring of at least three slots.    *)
(*                                                                          *)
(* A CPU that waits has, by GraceInv, published an epoch no older than the   *)
(* oldest block it waits for, as at most one of its blocks (the newest) was  *)
(* made since.  So a CPU waits only for CPUs that published less than it     *)
(* did, and the one that published least waits for none.                     *)
(***************************************************************************)
EXTENDS JitGrace, TLAPS, WellFoundedInduction

(* The CPU's blocks up to the n-th were made before its last publication *)
Older(c, n) == \A i \in 1 .. n : Passed(pend[c][i], quiet[c])

(* In translate, revalidate when called from there included *)
InTranslate(c) == at[c] \in {"trans", "twait"} \/ back[c] = "twait"

(* What holds of one CPU *)
CpuInv(c) ==
  /\ quiet[c] = Idle => at[c] \in {"out", "publish"}
  /\ back[c] = "twait" => at[c] = "reval"
  /\ \A i \in 1 .. Len(pend[c]) : pend[c][i] <= epoch
  /\ at[c] = "publish" => \A i \in 1 .. Len(pend[c]) : pend[c][i] <= seen[c]
  /\ at[c] \in {"drain", "lookup"} => Older(c, Len(pend[c]))
  /\ at[c] = "reval" /\ back[c] = "lookup" => Older(c, Len(pend[c]))
  /\ InTranslate(c) /\ tret[c] = "run" => Older(c, Len(pend[c]))
  /\ InTranslate(c) /\ tret[c] = "top" => Older(c, Len(pend[c]) - 1)
  /\ at[c] = "run" => Older(c, Len(pend[c]) - 1)

GraceInv == \A c \in CPUs : CpuInv(c)

-----------------------------------------------------------------------------
(* A flush leaves rings that are rings, no longer than before. *)
LEMMA FlushType ==
  ASSUME TypeOK, NEW c \in CPUs, MayFlush(c)
  PROVE  /\ pend' \in [CPUs -> Seq(Nat)]
         /\ \A d \in CPUs : Len(pend'[d]) < PendingLen
<1>1. <<>> \in Seq(Nat) /\ Len(<<>>) = 0
  OBVIOUS
<1>2. CASE UNCHANGED pend
  BY <1>2 DEF TypeOK
<1>3. CASE pend' = [pend EXCEPT ![c] = <<>>]
  <2>1. pend' \in [CPUs -> Seq(Nat)]
    BY <1>1, <1>3 DEF TypeOK
  <2>2. ASSUME NEW d \in CPUs PROVE Len(pend'[d]) < PendingLen
    <3>1. CASE d = c
      <4>1. pend'[d] = <<>>
        BY <1>3, <3>1 DEF TypeOK
      <4> QED
        BY <1>1, <4>1, GraceAssumption
    <3>2. CASE d # c
      BY <1>3, <3>2 DEF TypeOK
    <3> QED
      BY <3>1, <3>2
  <2> QED
    BY <2>1, <2>2
<1> QED
  BY <1>2, <1>3 DEF MayFlush

(* Every variable keeps its type, and no CPU's ring holds more than it can.  *)
THEOREM GraceTypeCorrect == Spec => []TypeOK
<1>1. Init => TypeOK
  BY GraceAssumption DEF Init, TypeOK, Places
<1>2. TypeOK /\ [Next]_vars => TypeOK'
  <2> SUFFICES ASSUME TypeOK, [Next]_vars PROVE TypeOK'
    OBVIOUS
  <2> USE GraceAssumption DEF TypeOK, Places, Goto
  <2>1. CASE UNCHANGED vars
    BY <2>1 DEF vars
  <2>2. ASSUME NEW c \in CPUs, EnterRun(c) \/ Step(c) PROVE TypeOK'
    <3>1. CASE EnterRun(c)
      BY <3>1 DEF EnterRun, LoadEpoch
    <3>2. CASE LoopTop(c)
      BY <3>2 DEF LoopTop, LoadEpoch
    <3>3. CASE Publish(c)
      BY <3>3 DEF Publish
    <3>4. CASE Drain(c)
      BY <3>4, FlushType DEF Drain
    <3>5. CASE LeaveRun(c)
      BY <3>5 DEF LeaveRun
    <3>6. CASE LookupRun(c)
      BY <3>6 DEF LookupRun
    <3>7. CASE Work(c)
      BY <3>7 DEF Work
    <3>8. CASE BackToTop(c)
      BY <3>8 DEF BackToTop
    <3>9. CASE RevalNone(c)
      BY <3>9 DEF RevalNone, RevalReturn
    <3>10. CASE ScanQuiet(c)
      BY SMTT(30), <3>10 DEF ScanQuiet, LeastQuiet
    <3>11. CASE CheckOldest(c)
      BY <3>11 DEF CheckOldest, Ready
    <3>12. CASE CheckDone(c)
      BY <3>12 DEF CheckDone, RevalReturn
    <3>13. CASE Translate(c)
      BY <3>13, FlushType DEF Translate
    <3>14. CASE Translated(c)
      BY <3>14 DEF Translated
    <3>15. CASE WaitPending(c)
      BY <3>15 DEF WaitPending
    <3>16. CASE Stamp(c)
      BY <3>16 DEF Stamp, PendingFull
    <3> QED
      BY <2>2, <3>1, <3>2, <3>3, <3>4, <3>5, <3>6, <3>7, <3>8, <3>9, <3>10, <3>11, <3>12, <3>13, <3>14, <3>15, <3>16 DEF Step
  <2> QED
    BY <2>1, <2>2 DEF Next
<1> QED
  BY <1>1, <1>2, PTL DEF Spec

(* A flush empties a ring or leaves everything as it is. *)
LEMMA FlushEffect ==
  ASSUME TypeOK, NEW c \in CPUs, MayFlush(c), NEW d \in CPUs
  PROVE  pend'[d] = pend[d] \/ (d = c /\ Len(pend'[d]) = 0)
<1>1. Len(<<>>) = 0
  OBVIOUS
<1>2. CASE UNCHANGED pend
  BY <1>2
<1>3. CASE pend' = [pend EXCEPT ![c] = <<>>]
  <2>1. d = c => pend'[d] = <<>>
    BY <1>3 DEF TypeOK
  <2>2. d # c => pend'[d] = pend[d]
    BY <1>3 DEF TypeOK
  <2> QED
    BY <1>1, <2>1, <2>2
<1> QED
  BY <1>2, <1>3 DEF MayFlush

(* GraceInv holds throughout: what a CPU has pending is no newer than what   *)
(* it published, but for the one block it may have made since.               *)
LEMMA GraceInvHolds == Spec => []GraceInv
<1>1. Init => GraceInv
  <2>1. Len(<<>>) = 0
    OBVIOUS
  <2>2. Init => \A c \in CPUs : Len(pend[c]) = 0
    BY ZenonT(60), <2>1 DEF Init
  <2> SUFFICES ASSUME Init, NEW c \in CPUs PROVE CpuInv(c)
    BY DEF GraceInv
  <2>3. at[c] = "out" /\ back[c] = "lookup" /\ Len(pend[c]) = 0
    BY <2>2 DEF Init
  <2> QED
    BY <2>3 DEF CpuInv, InTranslate
<1>2. TypeOK /\ TypeOK' /\ GraceInv /\ [Next]_vars => GraceInv'
  <2> SUFFICES ASSUME TypeOK, TypeOK', GraceInv, [Next]_vars, NEW d \in CPUs
               PROVE  CpuInv(d)'
    BY DEF GraceInv
  <2>0. CpuInv(d)
    BY DEF GraceInv
  <2> USE GraceAssumption DEF Goto, CpuInv, Older, InTranslate, Passed
  <2>1. CASE UNCHANGED vars
    BY <2>0, <2>1 DEF vars
  <2>2. ASSUME NEW c \in CPUs, EnterRun(c) \/ Step(c) PROVE CpuInv(d)'
    <3>1. CASE EnterRun(c)
      BY <2>0, <3>1 DEF EnterRun, LoadEpoch, TypeOK
    <3>2. CASE LoopTop(c)
      BY <2>0, <3>2 DEF LoopTop, LoadEpoch, TypeOK
    <3>3. CASE Publish(c)
      BY SMTT(30), <2>0, <3>3 DEF Publish, TypeOK
    <3>4. CASE Drain(c)
      <4>1. pend'[d] = pend[d] \/ (d = c /\ Len(pend'[d]) = 0)
        BY <3>4, FlushEffect DEF Drain
      <4>2. CASE pend'[d] = pend[d]
        BY <2>0, <3>4, <4>2 DEF Drain, TypeOK
      <4>3. CASE d = c /\ Len(pend'[d]) = 0
        BY <2>0, <3>4, <4>3 DEF Drain, TypeOK
      <4> QED
        BY <4>1, <4>2, <4>3
    <3>5. CASE LeaveRun(c)
      BY <2>0, <3>5 DEF LeaveRun, TypeOK
    <3>6. CASE LookupRun(c)
      BY <2>0, <3>6 DEF LookupRun, TypeOK
    <3>7. CASE Work(c)
      BY <2>0, <3>7 DEF Work, TypeOK
    <3>8. CASE BackToTop(c)
      BY <2>0, <3>8 DEF BackToTop, TypeOK
    <3>9. CASE RevalNone(c)
      BY <2>0, <3>9 DEF RevalNone, RevalReturn, TypeOK
    <3>10. CASE ScanQuiet(c)
      BY <2>0, <3>10 DEF ScanQuiet, TypeOK
    <3>11. CASE CheckOldest(c)
      BY SMTT(30), <2>0, <3>11 DEF CheckOldest, Ready, TypeOK
    <3>12. CASE CheckDone(c)
      BY SMTT(30), <2>0, <3>12 DEF CheckDone, RevalReturn, TypeOK
    <3>13. CASE Translate(c)
      <4>1. pend'[d] = pend[d] \/ (d = c /\ Len(pend'[d]) = 0)
        BY <3>13, FlushEffect DEF Translate
      <4>2. CASE pend'[d] = pend[d]
        BY <2>0, <3>13, <4>2 DEF Translate, TypeOK
      <4>3. CASE d = c /\ Len(pend'[d]) = 0
        BY <2>0, <3>13, <4>3 DEF Translate, TypeOK
      <4> QED
        BY <4>1, <4>2, <4>3
    <3>14. CASE Translated(c)
      BY <2>0, <3>14 DEF Translated, TypeOK
    <3>15. CASE WaitPending(c)
      BY <2>0, <3>15 DEF WaitPending, TypeOK
    <3>16. CASE Stamp(c)
      BY SMTT(30), <2>0, <3>16 DEF Stamp, PendingFull, TypeOK
    <3> QED
      BY <2>2, <3>1, <3>2, <3>3, <3>4, <3>5, <3>6, <3>7, <3>8, <3>9, <3>10, <3>11, <3>12, <3>13, <3>14, <3>15, <3>16 DEF Step
  <2> QED
    BY <2>1, <2>2 DEF Next
<1> QED
  BY <1>1, <1>2, GraceTypeCorrect, PTL DEF Spec

(* A CPU that waits for another published a later epoch than that one. *)
LEMMA WaitsDown ==
  ASSUME TypeOK, GraceInv, NEW c \in CPUs, NEW d \in CPUs, WaitsFor(c, d)
  PROVE  quiet[c] \in Nat /\ quiet[d] \in Nat /\ quiet[d] < quiet[c]
<1>1. CpuInv(c)
  BY DEF GraceInv
<1>2. Len(pend[c]) >= 2
  BY GraceAssumption DEF WaitsFor, PendingFull, TypeOK
<1>3. Head(pend[c]) = pend[c][1] /\ pend[c][1] \in Nat
  BY <1>2 DEF TypeOK
<1>4. Passed(pend[c][1], quiet[c])
  BY <1>1, <1>2 DEF CpuInv, WaitsFor, InTranslate, Older, TypeOK
<1>5. quiet[c] \in Nat
  BY <1>1 DEF CpuInv, WaitsFor, TypeOK
<1> QED
  BY <1>3, <1>4, <1>5, GraceAssumption DEF WaitsFor, Passed, TypeOK

(* No set of CPUs waits in a circle for room in their pending rings. *)
THEOREM GraceNoCircularWait == Spec => []NoCircularWait
<1>1. TypeOK /\ GraceInv => NoCircularWait
  <2> SUFFICES ASSUME TypeOK, GraceInv, NEW S \in SUBSET CPUs, S # {},
                      \A c \in S : \E d \in S : WaitsFor(c, d)
               PROVE  FALSE
    BY DEF NoCircularWait
  <2> DEFINE Q == {quiet[c] : c \in S}
  <2>1. Q \subseteq Nat /\ Q # {}
    BY WaitsDown
  <2>2. PICK m \in Q : \A q \in Q : ~(<<q, m>> \in OpToRel(<, Nat))
    BY <2>1, NatLessThanWellFounded, WFMin
  <2>3. PICK c \in S : m = quiet[c]
    BY <2>2
  <2>4. PICK d \in S : WaitsFor(c, d)
    BY <2>3
  <2>5. quiet[d] \in Q /\ quiet[d] < m /\ m \in Nat
    BY <2>1, <2>3, <2>4, WaitsDown
  <2>6. <<quiet[d], m>> \in OpToRel(<, Nat)
    BY <2>1, <2>5 DEF OpToRel
  <2> QED
    BY <2>2, <2>5, <2>6
<1> QED
  BY <1>1, GraceTypeCorrect, GraceInvHolds, PTL

=============================================================================
