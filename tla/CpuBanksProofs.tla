--------------------------- MODULE CpuBanksProofs ---------------------------
(***************************************************************************)
(* Proofs about CpuBanks, for any number of APs and any eips, of a guest     *)
(* that leaves an AP alone until it has initialised its bank.                *)
(***************************************************************************)
EXTENDS CpuBanks, TLAPS

(* Where an AP is while it has a thread of the guest's to run *)
Active == {"load", "run", "save", "ack"}

(* What the guest may find in the bank at each step of its side *)
Protocol(c) ==
  /\ guest[c] = "free" => status[c] \in {0, 4}
  /\ guest[c] = "set" => status[c] = 4
  /\ guest[c] = "started" => status[c] = 1
  /\ guest[c] = "stopping" => status[c] \in {2, 4}

(* An AP without a thread does not act as if it had one *)
Parked(c) ==
  /\ pc[c] \in Initialising => guest[c] = "free" /\ halted[c]
  /\ guest[c] = "free" \/ status[c] = 4 =>
       pc[c] \notin Active /\ (pc[c] = "look" => halted[c])
  /\ pc[c] = "ack" => status[c] = 2

(* The thread is in the bank, but for the slice that is running it *)
Banked(c) ==
  /\ guest[c] # "free" /\ pc[c] \notin {"run", "save"} => saved[c] = thread[c]
  /\ pc[c] \in {"run", "save"} => eip[c] = thread[c]
  /\ pc[c] \in {"load", "run", "save"} => ~halted[c]
  /\ pc[c] \in Waiting => halted[c]
  /\ pc[c] = "look" /\ ~halted[c] => eip[c] = thread[c]

BankInv == TypeOK /\ \A c \in APs : Protocol(c) /\ Parked(c) /\ Banked(c)

-----------------------------------------------------------------------------
(* The types, which hold whatever the guest does, early or not *)
LEMMA TypeStep == TypeOK /\ [Next]_vars => TypeOK'
<1> SUFFICES ASSUME TypeOK, [Next]_vars PROVE TypeOK'
  OBVIOUS
<1> USE BanksAssumption DEF TypeOK, Places, Waiting, Initialising, Goto, At,
      SetStatus, banks, local, cpu0, Cpu0At, GuestRuns, GuestGoes, Trigger
<1>1. CASE UNCHANGED vars
  BY <1>1 DEF vars
<1>2. ASSUME NEW c \in APs, ApStep(c) PROVE TypeOK'
  <2>1. CASE ApInit(c)
    BY <2>1 DEF ApInit
  <2>2. CASE ApInitEip(c)
    BY <2>2 DEF ApInitEip
  <2>3. CASE ApSetWatch(c)
    BY <2>3 DEF ApSetWatch
  <2>4. CASE ApLook(c)
    BY <2>4 DEF ApLook
  <2>5. CASE ApLoad(c)
    BY <2>5 DEF ApLoad
  <2>6. CASE ApRunEnd(c)
    BY <2>6 DEF ApRunEnd
  <2>7. CASE ApSave(c)
    BY <2>7 DEF ApSave
  <2>8. CASE ApAck(c)
    BY <2>8 DEF ApAck
  <2>9. CASE ApHalt(c)
    BY <2>9 DEF ApHalt
  <2>10. CASE WaitTest(c)
    BY <2>10 DEF WaitTest
  <2>11. CASE WaitArm(c)
    BY <2>11 DEF WaitArm
  <2>12. CASE WaitRecheck(c)
    BY <2>12 DEF WaitRecheck
  <2>13. CASE WaitSleep(c)
    BY <2>13 DEF WaitSleep
  <2>14. CASE WaitWake(c)
    BY <2>14 DEF WaitWake
  <2> QED
    BY <1>2, <2>1, <2>2, <2>3, <2>4, <2>5, <2>6, <2>7, <2>8, <2>9, <2>10,
       <2>11, <2>12, <2>13, <2>14 DEF ApStep
<1>3. ASSUME NEW c \in APs, ApRun(c) PROVE TypeOK'
  BY <1>3 DEF ApRun
<1>4. ASSUME NEW c \in APs, WaitInterrupted(c) PROVE TypeOK'
  BY <1>4 DEF WaitInterrupted
<1>5. ASSUME NEW c \in APs, GuestStep(c) PROVE TypeOK'
  <2>1. CASE GuestSetEip(c)
    BY <2>1 DEF GuestSetEip
  <2>2. CASE GuestStart(c)
    BY <2>2 DEF GuestStart
  <2>3. CASE GuestStop(c)
    BY <2>3 DEF GuestStop
  <2>4. CASE GuestTake(c)
    BY <2>4 DEF GuestTake
  <2> QED
    BY <1>5, <2>1, <2>2, <2>3, <2>4 DEF GuestStep
<1>6. CASE Cpu0Step
  BY <1>6 DEF Cpu0Step, Cpu0Init, Cpu0Off, Cpu0Slice, Cpu0SliceEnd
<1>7. ASSUME NEW v \in {8, 16, 32}, GuestPower(v) PROVE TypeOK'
  BY <1>7 DEF GuestPower
<1> QED
  BY <1>1, <1>2, <1>3, <1>4, <1>5, <1>6, <1>7 DEF Next

LEMMA BankInit == Init => BankInv
BY BanksAssumption DEF Init, BankInv, TypeOK, Protocol, Parked, Banked, Places,
   Waiting, Initialising, Active

(* A step on AP d: what is shown for d holds for the others, whose part of   *)
(* the state it leaves alone.                                                *)
LEMMA BankLocal ==
  ASSUME BankInv, TypeOK', NEW d \in APs,
         Protocol(d)' /\ Parked(d)' /\ Banked(d)',
         \A c \in APs \ {d} :
           /\ status'[c] = status[c] /\ saved'[c] = saved[c] /\ pc'[c] = pc[c]
           /\ eip'[c] = eip[c] /\ halted'[c] = halted[c]
           /\ guest'[c] = guest[c] /\ thread'[c] = thread[c]
  PROVE  BankInv'
BY DEF BankInv, Protocol, Parked, Banked

LEMMA BankStep ==
  ASSUME EarlyGuest = FALSE PROVE BankInv /\ [Next]_vars => BankInv'
<1> SUFFICES ASSUME BankInv, [Next]_vars PROVE BankInv'
  OBVIOUS
<1>0. TypeOK /\ TypeOK'
  BY TypeStep DEF BankInv
<1>1. CASE UNCHANGED vars
  BY <1>1 DEF vars, banks, local, cpu0, BankInv, TypeOK, Protocol, Parked, Banked
<1>2. ASSUME NEW c \in APs,
             ApStep(c) \/ ApRun(c) \/ WaitInterrupted(c) \/ GuestStep(c)
      PROVE  BankInv'
  <2>1. Protocol(c) /\ Parked(c) /\ Banked(c)
    BY DEF BankInv
  <2>2. \A d \in APs \ {c} :
          /\ status'[d] = status[d] /\ saved'[d] = saved[d] /\ pc'[d] = pc[d]
          /\ eip'[d] = eip[d] /\ halted'[d] = halted[d]
          /\ guest'[d] = guest[d] /\ thread'[d] = thread[d]
    <3> USE <1>0 DEF TypeOK, banks, local, cpu0, Goto, SetStatus, GuestGoes
    <3>1. CASE ApLook(c)
      BY <3>1 DEF ApLook
    <3>2. CASE ApInit(c) \/ ApInitEip(c) \/ ApSetWatch(c) \/ ApLoad(c)
      BY <3>2 DEF ApInit, ApInitEip, ApSetWatch, ApLoad
    <3>3. CASE ApRun(c) \/ ApRunEnd(c) \/ ApSave(c) \/ ApAck(c) \/ ApHalt(c)
      BY <3>3 DEF ApRun, ApRunEnd, ApSave, ApAck, ApHalt
    <3>4. CASE \/ WaitTest(c) \/ WaitArm(c) \/ WaitRecheck(c) \/ WaitSleep(c)
               \/ WaitWake(c) \/ WaitInterrupted(c)
      BY <3>4 DEF WaitTest, WaitArm, WaitRecheck, WaitSleep, WaitWake,
         WaitInterrupted
    <3>5. CASE GuestStep(c)
      BY <3>5 DEF GuestStep, GuestSetEip, GuestStart, GuestStop, GuestTake
    <3> QED
      BY <1>2, <3>1, <3>2, <3>3, <3>4, <3>5 DEF ApStep
  <2>3. Protocol(c)' /\ Parked(c)' /\ Banked(c)'
    <3> USE <1>0, <2>1 DEF TypeOK, Protocol, Parked, Banked, Places, Waiting,
          Initialising, Active, Goto, At, SetStatus, banks, local, GuestRuns,
          GuestGoes, MayStart
    <3>1. CASE ApInit(c)
      BY <3>1 DEF ApInit
    <3>2. CASE ApInitEip(c)
      BY <3>2 DEF ApInitEip
    <3>3. CASE ApSetWatch(c)
      BY <3>3 DEF ApSetWatch
    <3>4. CASE ApLook(c)
      <4>1. /\ pc[c] = "look"
            /\ halted' = [halted EXCEPT ![c] = IF status[c] = 1 THEN FALSE ELSE @]
            /\ UNCHANGED <<status, saved, eip, guest, thread>>
        BY <3>4 DEF ApLook
      <4>2. CASE status[c] = 1
        <5>1. pc'[c] = (IF halted[c] THEN "load" ELSE "run") /\ ~halted'[c]
          BY <3>4, <4>1, <4>2 DEF ApLook
        <5> QED
          BY <4>1, <4>2, <5>1
      <4>3. CASE status[c] # 1
        <5>1. pc'[c] = (CASE status[c] = 2 -> "ack" [] status[c] = 4 -> "halt"
                          [] OTHER -> "look")
          BY <3>4, <4>3 DEF ApLook
        <5>2. halted'[c] = halted[c]
          BY <4>1, <4>3
        <5> QED
          BY <4>1, <4>3, <5>1, <5>2
      <4> QED
        BY <4>2, <4>3
    <3>5. CASE ApLoad(c)
      BY <3>5 DEF ApLoad
    <3>6. CASE ApRunEnd(c)
      BY <3>6 DEF ApRunEnd
    <3>7. CASE ApSave(c)
      BY <3>7 DEF ApSave
    <3>8. CASE ApAck(c)
      BY <3>8 DEF ApAck
    <3>9. CASE ApHalt(c)
      BY <3>9 DEF ApHalt
    <3>10. CASE WaitTest(c)
      BY <3>10 DEF WaitTest, StillStopped
    <3>11. CASE WaitArm(c)
      BY <3>11 DEF WaitArm
    <3>12. CASE WaitRecheck(c)
      BY <3>12 DEF WaitRecheck
    <3>13. CASE WaitSleep(c)
      BY <3>13 DEF WaitSleep
    <3>14. CASE WaitWake(c) \/ WaitInterrupted(c)
      BY <3>14 DEF WaitWake, WaitInterrupted
    <3>15. CASE ApRun(c)
      BY <3>15 DEF ApRun
    <3>16. CASE GuestSetEip(c)
      BY <3>16 DEF GuestSetEip
    <3>17. CASE GuestStart(c)
      BY <3>17 DEF GuestStart
    <3>18. CASE GuestStop(c)
      BY <3>18 DEF GuestStop
    <3>19. CASE GuestTake(c)
      BY <3>19 DEF GuestTake
    <3> QED
      BY <1>2, <3>1, <3>2, <3>3, <3>4, <3>5, <3>6, <3>7, <3>8, <3>9, <3>10,
         <3>11, <3>12, <3>13, <3>14, <3>15, <3>16, <3>17, <3>18, <3>19
      DEF ApStep, GuestStep
  <2> QED
    BY <1>0, <2>2, <2>3, BankLocal
<1>3. CASE Cpu0Step \/ \E v \in {8, 16, 32} : GuestPower(v)
  <2>1. UNCHANGED <<banks, local, guest, thread>>
    BY <1>3 DEF Cpu0Step, Cpu0Init, Cpu0Off, Cpu0Slice, Cpu0SliceEnd, GuestPower
  <2> QED
    BY <1>0, <2>1 DEF banks, local, BankInv, Protocol, Parked, Banked
<1> QED
  BY <1>1, <1>2, <1>3 DEF Next

-----------------------------------------------------------------------------
(* The banks and subleq()'s own variables keep their types, even with a      *)
(* guest that starts APs too early (subleq.c 63-122).                        *)
THEOREM BanksTypeCorrect == Spec => []TypeOK
<1>1. Init => TypeOK
  BY BankInit DEF BankInv
<1> QED
  BY <1>1, TypeStep, PTL DEF Spec

(* The theorems below suppose that the guest leaves an AP alone until its    *)
(* bank is initialised (subleq.c 70-71).                                     *)

(* An AP runs the thread the guest put on it from where that thread is        *)
(* (subleq.c 97-111).                                                        *)
THEOREM BanksRunThread ==
  ASSUME EarlyGuest = FALSE
  PROVE  Spec => []RunsItsThread
<1>1. BankInv => RunsItsThread
  BY DEF BankInv, Protocol, Banked, Active, RunsItsThread
<1> QED
  BY <1>1, BankInit, BankStep, PTL DEF Spec

(* The guest that stopped an AP finds the thread's eip in the bank (subleq.c  *)
(* 112-115).                                                                 *)
THEOREM BanksSaveThread ==
  ASSUME EarlyGuest = FALSE
  PROVE  Spec => []StoppedThreadIsSaved
<1>1. BankInv => StoppedThreadIsSaved
  BY DEF BankInv, Protocol, Parked, Banked, Active, StoppedThreadIsSaved
<1> QED
  BY <1>1, BankInit, BankStep, PTL DEF Spec

(* An AP whose bank says stopped runs nothing (subleq.c 97-121).             *)
THEOREM BanksStopped ==
  ASSUME EarlyGuest = FALSE
  PROVE  Spec => []StoppedIsStopped
<1>1. BankInv => StoppedIsStopped
  BY DEF BankInv, Protocol, Parked, Banked, Active, StoppedIsStopped
<1> QED
  BY <1>1, BankInit, BankStep, PTL DEF Spec
=============================================================================
