------------------------------ MODULE CpuBanks ------------------------------
(***************************************************************************)
(* The CPU control banks (kernel/src/subleq.c): how the guest kernel, which *)
(* runs on CPU 0, starts and stops the other CPUs (APs) through two words   *)
(* of memory per CPU, a status and an instruction pointer.                  *)
(*                                                                          *)
(* Status: 0 no CPU, 1 run, 2 stop requested, 4 stopped; in CPU 0's own     *)
(* bank 8 shuts down, 16 reboots, 32 sleeps.  The AP polls its bank between *)
(* slices of guest code, and translated code watches it on every block.  A  *)
(* stopped AP waits for the bank to change, with monitor and mwait where    *)
(* there are such.                                                          *)
(*                                                                          *)
(* The guest is external, modelled from the protocol the AP's code answers: *)
(* it starts a CPU it sees stopped, by writing its eip and then 1, and      *)
(* stops one by writing 2 and waiting for 4.  It may give up on a CPU at    *)
(* any point, and never come back to it.                                    *)
(***************************************************************************)
EXTENDS Integers

CONSTANTS
  APs,          \* the CPUs other than CPU 0
  Eips,         \* instruction pointers, 0 among them
  HasMonitor,   \* has_monitor: the CPUs have monitor and mwait
  EarlyGuest,   \* the guest may start an AP that is still initialising
  None          \* no thread

ASSUME BanksAssumption ==
  /\ 0 \in Eips
  /\ None \notin Eips
  /\ HasMonitor \in BOOLEAN /\ EarlyGuest \in BOOLEAN

VARIABLES
  status,       \* per AP: the first word of its bank
  saved,        \* per AP: the second word of its bank
  pc,           \* per AP: where subleq() is
  eip, halted,  \* per AP: subleq()'s own variables
  mon,          \* per AP: the monitor is armed, and the bank not written since
  guest,        \* per AP: what the guest is doing with it
  thread,       \* per AP: where the thread the guest put on it really is
  status0, pc0, \* CPU 0: the first word of its bank, and where it is
  power         \* whether the machine is on

banks == <<status, saved>>
local == <<pc, eip, halted, mon>>
cpu0  == <<status0, pc0, power>>
vars  == <<banks, local, guest, thread, cpu0>>

Waiting == {"wait", "arm", "recheck", "mwait", "asleep"}
Initialising == {"init", "initeip", "setwatch"}
Places == {"look", "load", "run", "save", "ack", "halt"}
            \cup Waiting \cup Initialising

Init ==
  /\ status = [c \in APs |-> 0]
  /\ saved = [c \in APs |-> 0]
  /\ pc = [c \in APs |-> "init"]
  /\ eip = [c \in APs |-> 0]
  /\ halted = [c \in APs |-> TRUE]
  /\ mon = [c \in APs |-> FALSE]
  /\ guest = [c \in APs |-> "free"]
  /\ thread = [c \in APs |-> None]
  /\ status0 = 0 /\ pc0 = "init" /\ power = "on"

Goto(c, l) == pc' = [pc EXCEPT ![c] = l]
At(c, l) == power = "on" /\ pc[c] = l
SetStatus(c, v) == status' = [status EXCEPT ![c] = v]

-----------------------------------------------------------------------------
(* subleq() on an AP: status stopped, eip 0, and the watch on the status *)

ApInit(c) ==
  /\ At(c, "init")
  /\ SetStatus(c, 4)
  /\ Goto(c, "initeip")
  /\ UNCHANGED <<saved, eip, halted, mon, guest, thread, cpu0>>

ApInitEip(c) ==
  /\ At(c, "initeip")
  /\ saved' = [saved EXCEPT ![c] = 0]
  /\ Goto(c, "setwatch")
  /\ UNCHANGED <<status, eip, halted, mon, guest, thread, cpu0>>

ApSetWatch(c) ==
  /\ At(c, "setwatch")
  /\ Goto(c, "look")
  /\ UNCHANGED <<banks, eip, halted, mon, guest, thread, cpu0>>

(* the switch on the status; any other value is polled again *)
ApLook(c) ==
  /\ At(c, "look")
  /\ Goto(c, CASE status[c] = 1 -> IF halted[c] THEN "load" ELSE "run"
               [] status[c] = 2 -> "ack"
               [] status[c] = 4 -> "halt"
               [] OTHER -> "look")
  /\ halted' = [halted EXCEPT ![c] = IF status[c] = 1 THEN FALSE ELSE @]
  /\ UNCHANGED <<banks, eip, mon, guest, thread, cpu0>>

(* just started: from the eip in the bank *)
ApLoad(c) ==
  /\ At(c, "load")
  /\ eip' = [eip EXCEPT ![c] = saved[c]]
  /\ Goto(c, "run")
  /\ UNCHANGED <<banks, halted, mon, guest, thread, cpu0>>

(* run(): guest code, until the slice ends or a block sees the status        *)
(* change; the interpreter does not look                                     *)
ApRun(c) ==
  /\ At(c, "run")
  /\ \E e \in Eips :
       /\ eip' = [eip EXCEPT ![c] = e]
       /\ thread' = [thread EXCEPT ![c] = e]
  /\ UNCHANGED <<banks, pc, halted, mon, guest, cpu0>>

ApRunEnd(c) ==
  /\ At(c, "run")
  /\ Goto(c, "save")
  /\ UNCHANGED <<banks, eip, halted, mon, guest, thread, cpu0>>

(* Mutant: a requested stop is acknowledged before the eip is saved *)
ApSaveLate(c) ==
  /\ At(c, "save")
  /\ IF status[c] = 2
     THEN SetStatus(c, 4) /\ UNCHANGED <<saved, pc>>
     ELSE /\ saved' = [saved EXCEPT ![c] = eip[c]]
          /\ Goto(c, "look")
          /\ UNCHANGED status
  /\ UNCHANGED <<eip, halted, mon, guest, thread, cpu0>>

(* Mutant: the eip is not saved *)
ApSaveNot(c) ==
  /\ At(c, "save")
  /\ Goto(c, "look")
  /\ UNCHANGED <<banks, eip, halted, mon, guest, thread, cpu0>>

ApSave(c) ==
  /\ At(c, "save")
  /\ saved' = [saved EXCEPT ![c] = eip[c]]
  /\ Goto(c, "look")
  /\ UNCHANGED <<status, eip, halted, mon, guest, thread, cpu0>>

(* Mutant: 4 is added to the request instead of replacing it *)
ApAckOr(c) ==
  /\ At(c, "ack")
  /\ SetStatus(c, status[c] + 4)
  /\ Goto(c, "halt")
  /\ UNCHANGED <<saved, eip, halted, mon, guest, thread, cpu0>>

(* stop requested *)
ApAck(c) ==
  /\ At(c, "ack")
  /\ SetStatus(c, 4)
  /\ Goto(c, "halt")
  /\ UNCHANGED <<saved, eip, halted, mon, guest, thread, cpu0>>

(* Mutant: the AP does not remember that it stopped *)
ApHaltForget(c) ==
  /\ At(c, "halt")
  /\ Goto(c, "wait")
  /\ UNCHANGED <<banks, eip, halted, mon, guest, thread, cpu0>>

ApHalt(c) ==
  /\ At(c, "halt")
  /\ halted' = [halted EXCEPT ![c] = TRUE]
  /\ Goto(c, "wait")
  /\ UNCHANGED <<banks, eip, mon, guest, thread, cpu0>>

-----------------------------------------------------------------------------
(* wait_stopped *)

(* Mutant: anything but a start is waited out *)
StillStoppedUntilRun(c) == status[c] # 1

(* dawn_readram(bank) == 4 *)
StillStopped(c) == status[c] = 4

WaitTest(c) ==
  /\ At(c, "wait")
  /\ Goto(c, IF StillStopped(c) THEN IF HasMonitor THEN "arm" ELSE "wait"
             ELSE "look")
  /\ UNCHANGED <<banks, eip, halted, mon, guest, thread, cpu0>>

(* monitor *)
WaitArm(c) ==
  /\ At(c, "arm")
  /\ mon' = [mon EXCEPT ![c] = TRUE]
  /\ Goto(c, "recheck")
  /\ UNCHANGED <<banks, eip, halted, guest, thread, cpu0>>

(* Mutant: mwait without another look at the bank *)
WaitRecheckNot(c) ==
  /\ At(c, "recheck")
  /\ Goto(c, "mwait")
  /\ UNCHANGED <<banks, eip, halted, mon, guest, thread, cpu0>>

WaitRecheck(c) ==
  /\ At(c, "recheck")
  /\ Goto(c, IF StillStopped(c) THEN "mwait" ELSE "wait")
  /\ UNCHANGED <<banks, eip, halted, mon, guest, thread, cpu0>>

(* mwait: goes to sleep unless the bank was written since monitor *)
WaitSleep(c) ==
  /\ At(c, "mwait")
  /\ Goto(c, IF mon[c] THEN "asleep" ELSE "wait")
  /\ UNCHANGED <<banks, eip, halted, mon, guest, thread, cpu0>>

WaitWake(c) ==
  /\ At(c, "asleep")
  /\ ~mon[c]
  /\ Goto(c, "wait")
  /\ UNCHANGED <<banks, eip, halted, mon, guest, thread, cpu0>>

(* an interrupt, or a write to another bank in the same cache line *)
WaitInterrupted(c) ==
  /\ At(c, "asleep")
  /\ Goto(c, "wait")
  /\ UNCHANGED <<banks, eip, halted, mon, guest, thread, cpu0>>

-----------------------------------------------------------------------------
(* subleq() on CPU 0.  Its bank says 4 from the start, and is not looked at  *)
(* but for the power requests.                                               *)

Cpu0At(l) == power = "on" /\ pc0 = l

Cpu0Init ==
  /\ Cpu0At("init")
  /\ status0' = 4
  /\ pc0' = "look"
  /\ UNCHANGED <<banks, local, guest, thread, power>>

(* Mutant: the switch misses the reboot *)
PowerRequestsMissed == {8}

(* what does not come back: a shutdown that works, a reboot *)
PowerRequests == {8, 16}

Cpu0Off ==
  /\ Cpu0At("look")
  /\ status0 \in PowerRequests
  /\ power' = "off"
  /\ UNCHANGED <<banks, local, guest, thread, status0, pc0>>

(* no request, a sleep (not implemented), or a shutdown that did not work *)
Cpu0Slice ==
  /\ Cpu0At("look")
  /\ status0 \notin PowerRequests \ {8}
  /\ pc0' = "run"
  /\ UNCHANGED <<banks, local, guest, thread, status0, power>>

Cpu0SliceEnd ==
  /\ Cpu0At("run")
  /\ pc0' = "look"
  /\ UNCHANGED <<banks, local, guest, thread, status0, power>>

-----------------------------------------------------------------------------
(* The guest kernel, on CPU 0 *)

GuestRuns(c, g) == Cpu0At("run") /\ guest[c] = g
GuestGoes(c, g) == guest' = [guest EXCEPT ![c] = g]
(* its writes to a bank wake who monitors it *)
Trigger(c) == mon' = [mon EXCEPT ![c] = FALSE]

MayStart(c) == status[c] = 4 /\ (EarlyGuest \/ pc[c] \notin Initialising)

GuestSetEip(c) ==
  /\ GuestRuns(c, "free")
  /\ MayStart(c)
  /\ \E e \in Eips :
       /\ saved' = [saved EXCEPT ![c] = e]
       /\ thread' = [thread EXCEPT ![c] = e]
  /\ Trigger(c)
  /\ GuestGoes(c, "set")
  /\ UNCHANGED <<status, pc, eip, halted, cpu0>>

GuestStart(c) ==
  /\ GuestRuns(c, "set")
  /\ SetStatus(c, 1)
  /\ Trigger(c)
  /\ GuestGoes(c, "started")
  /\ UNCHANGED <<saved, pc, eip, halted, thread, cpu0>>

GuestStop(c) ==
  /\ GuestRuns(c, "started")
  /\ SetStatus(c, 2)
  /\ Trigger(c)
  /\ GuestGoes(c, "stopping")
  /\ UNCHANGED <<saved, pc, eip, halted, thread, cpu0>>

(* the guest sees the 4, and takes the thread's eip from the bank *)
GuestTake(c) ==
  /\ GuestRuns(c, "stopping")
  /\ status[c] = 4
  /\ GuestGoes(c, "free")
  /\ UNCHANGED <<banks, local, thread, cpu0>>

GuestPower(v) ==
  /\ Cpu0At("run")
  /\ status0' = v
  /\ UNCHANGED <<banks, local, guest, thread, pc0, power>>

-----------------------------------------------------------------------------
ApStep(c) ==
  \/ ApInit(c) \/ ApInitEip(c) \/ ApSetWatch(c) \/ ApLook(c) \/ ApLoad(c)
  \/ ApRunEnd(c) \/ ApSave(c) \/ ApAck(c) \/ ApHalt(c)
  \/ WaitTest(c) \/ WaitArm(c) \/ WaitRecheck(c) \/ WaitSleep(c) \/ WaitWake(c)

Cpu0Step == Cpu0Init \/ Cpu0Off \/ Cpu0Slice \/ Cpu0SliceEnd

GuestStep(c) ==
  GuestSetEip(c) \/ GuestStart(c) \/ GuestStop(c) \/ GuestTake(c)

Next ==
  \/ \E c \in APs : ApStep(c) \/ ApRun(c) \/ WaitInterrupted(c) \/ GuestStep(c)
  \/ Cpu0Step
  \/ \E v \in {8, 16, 32} : GuestPower(v)

Spec == Init /\ [][Next]_vars

(* Every CPU goes on, and no slice lasts forever (JIT_SLICE, INTERP_SLICE). *)
(* Nothing is assumed of the guest, and no interrupt ever wakes an AP.      *)
FairSpec == Spec /\ WF_vars(Cpu0Step) /\ \A c \in APs : WF_vars(ApStep(c))

-----------------------------------------------------------------------------
(* The banks hold only the values the protocol knows (hardware.txt 36-41),   *)
(* and subleq() is at one of its steps on every CPU.                         *)
TypeOK ==
  /\ status \in [APs -> {0, 1, 2, 4}]
  /\ saved \in [APs -> Eips]
  /\ pc \in [APs -> Places]
  /\ eip \in [APs -> Eips]
  /\ halted \in [APs -> BOOLEAN]
  /\ mon \in [APs -> BOOLEAN]
  /\ guest \in [APs -> {"free", "set", "started", "stopping"}]
  /\ thread \in [APs -> Eips \cup {None}]
  /\ status0 \in {0, 4, 8, 16, 32}
  /\ pc0 \in {"init", "look", "run"}
  /\ power \in {"on", "off"}

(* "run, from the eip in the bank if just started" (subleq.c 100): the code  *)
(* an AP runs is the thread the guest put on it, from where that thread is.  *)
RunsItsThread == \A c \in APs : pc[c] \in {"run", "save"} => eip[c] = thread[c]

(* "the hardware should write 4 after it succesfully stopped the core", and  *)
(* "the EIP should be saved" (hardware.txt 36-40): the guest that sees 4     *)
(* after its stop finds in the bank where the thread really is, whether the  *)
(* AP ran it or never noticed the start.                                     *)
StoppedThreadIsSaved ==
  \A c \in APs : guest[c] = "stopping" /\ status[c] = 4 => saved[c] = thread[c]

(* An AP whose bank says stopped runs nothing, and does not write its bank   *)
(* until it is started again.                                                *)
StoppedIsStopped ==
  \A c \in APs : status[c] = 4 => pc[c] \notin {"load", "run", "save", "ack"}

(* A stop is answered, and a start, even if the bank is written just before  *)
(* the AP goes to sleep, unless the machine is turned off.  The guest "gives *)
(* up on those that do not answer soon" (subleq.c 49-50).                    *)
StopIsAnswered ==
  \A c \in APs : status[c] = 2 ~> (status[c] = 4 \/ power = "off")
StartIsAnswered ==
  \A c \in APs : status[c] = 1 ~> (pc[c] = "run" \/ status[c] # 1 \/ power = "off")

(* A reboot request is served by the next look at CPU 0's bank, unless the   *)
(* guest withdraws it.                                                       *)
RebootIsServed == status0 = 16 ~> (power = "off" \/ status0 # 16)
=============================================================================
