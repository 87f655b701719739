------------------------------ MODULE InputPath ------------------------------
(***************************************************************************)
(* How keyboard and mouse reach the guest (kernel/src/dawn.c, mouse.c,      *)
(* keyboard.c, time.c).  The keyboard and mouse interrupts of CPU 0 put     *)
(* writes into the I/O ring and packets into an array; the timer's work,    *)
(* dawn_io_flush and mouse_update, takes them out, on CPU 0 itself or, with *)
(* more CPUs, in an interrupt CPU 0 raises on the last one.  Interrupts are *)
(* not nested.  The guest, on CPU 0, reads and clears the registers.        *)
(*                                                                          *)
(* The three click words are the set of those that are not zero, and a       *)
(* position is two words, <<0, 0>> in the upper left corner.  The redraw and *)
(* the clock, which the same interrupts serve, touch none of this.          *)
(***************************************************************************)
EXTENDS Keyboard, FiniteSets, SequencesExt

CONSTANTS
  KeyBytes,      \* the bytes the keyboard sends
  Garbage,       \* what a read past the end of a table may give
  Buttons,       \* what is held on the mouse: sets of ClickRegs
  Moves,         \* movements in a mouse packet, <<x, y>>
  Width, Height, \* of the screen
  IoMax,         \* IO_STACK_MAX, ring size of the deferred writes
  MaxPackets,    \* MAX_PACKETS
  MousePeriod,   \* ticks between mouse updates
  MaxClicks,     \* bound: changes of the buttons the guest has not read
  CpuCounts      \* the machines looked at: 1 CPU, 2 for several

ASSUME InputAssumption ==
  /\ Buttons \subseteq SUBSET ClickRegs
  /\ Width \in Nat \ {0} /\ Height \in Nat \ {0}
  /\ IoMax \in Nat /\ IoMax >= 2
  /\ MaxPackets \in Nat \ {0}
  /\ MousePeriod \in Nat \ {0} /\ MaxClicks \in Nat
  /\ CpuCounts \subseteq {1, 2}

VARIABLES
  kb, hw,                  \* the keyboard's modifiers, hw_mouse_enabled
  ring, head, tail,        \* io_stack
  reg,                     \* the registers the ring writes to
  at0, out,                \* CPU 0's interrupt: where it is, what it writes
  cycle, cur, discard,     \* mouse_handler: byte, packet so far, discard it
  pos, dp, slot,           \* mouse position, packet made, place for it
  packets, packet_i,       \* mouse packets for the guest
  dawn, regs,              \* dawn_mouse_*, and the mouse registers
  cpu_count, uptime, ipi,  \* CPUs, ticks (modulo MousePeriod), interrupt raised
  work, popped,            \* the timer's work: where it is, packet_i loaded
  panic,                   \* the machine stopped
  owed, clicks, last, seen \* for the properties: writes and changes of the
                           \* buttons the guest has not read, the buttons in
                           \* the last packet, those the guest read last

keyv   == <<kb, ring, tail, at0, out>>
mousev == <<cycle, cur, discard, pos, dp, slot>>
clock  == <<cpu_count, uptime>>
ghosts == <<owed, clicks, last, seen>>
vars   == <<keyv, hw, head, reg, mousev, packets, packet_i, dawn, regs, clock,
            ipi, work, popped, panic, ghosts>>

RingRegs == RelRegs \cup {KeyReg}
Centre == <<Width \div 2, Height \div 2>>

Init ==
  /\ kb = NoModifiers /\ hw = FALSE
  /\ ring = [i \in 0 .. IoMax - 1 |-> Nothing] /\ head = 0 /\ tail = 0
  /\ reg = [r \in RingRegs |-> 0]
  /\ at0 = "idle" /\ out = Nothing
  /\ cycle = 0 /\ cur = [buttons |-> {}, x |-> 0] /\ discard = FALSE
  /\ pos = Centre /\ dp = [buttons |-> {}, pos |-> Centre] /\ slot = 0
  /\ packets = [i \in 0 .. MaxPackets - 1 |-> [buttons |-> {}, pos |-> <<0, 0>>]]
  /\ packet_i = 0
  /\ dawn = [buttons |-> {}, pos |-> Centre]
  /\ regs = [buttons |-> {}, pos |-> <<0, 0>>, unread |-> FALSE]
  /\ cpu_count \in CpuCounts /\ uptime = 0 /\ ipi = FALSE /\ work = "idle" /\ popped = 0
  /\ panic = FALSE
  /\ owed = <<>> /\ clicks = <<>> /\ last = {} /\ seen = {}

(* with more than one CPU, the last one does the timer's work *)
LastAP == cpu_count > 1

(* CPU 0 takes an interrupt, or runs the guest: nothing else is going on on  *)
(* it, the timer's work included if that is its own                          *)
Cpu0Free == ~panic /\ at0 = "idle" /\ (LastAP \/ work = "idle")
Cpu0At(l) == ~panic /\ at0 = l

-----------------------------------------------------------------------------
(* keyboard_isr and dawn_io_write *)

IoNext(i) == (i + 1) % IoMax
IoFull == IoNext(tail) = head

KeyInterrupt(b) ==
  /\ Cpu0Free
  /\ kb' = ModifiersAfter(kb, b)
  /\ hw' = (hw /\ ~MouseOff(kb, b))
  /\ \E g \in Garbage :
       LET s == SentBy(kb, b, g)
       IN \/ /\ s.by = "none"
             /\ UNCHANGED <<at0, out, regs, panic>>
          \/ /\ s.by = "direct"
             /\ regs' = [regs EXCEPT !.buttons =
                          IF s.val = 0 THEN @ \ {s.reg} ELSE @ \cup {s.reg}]
             /\ UNCHANGED <<at0, out, panic>>
          \/ /\ s.by = "ring" /\ IoFull
             /\ panic' = TRUE
             /\ UNCHANGED <<at0, out, regs>>
          \/ /\ s.by = "ring" /\ ~IoFull
             /\ out' = s
             /\ at0' = "slot"
             /\ UNCHANGED <<regs, panic>>
  /\ UNCHANGED <<ring, tail, head, reg, mousev, packets, packet_i, dawn, clock,
                 ipi, work, popped, ghosts>>

(* the entry, and then the tail that shows it *)
IoSlot ==
  /\ Cpu0At("slot")
  /\ ring' = [ring EXCEPT ![tail] = out]
  /\ at0' = "tail"
  /\ UNCHANGED <<kb, tail, out, hw, head, reg, mousev, packets, packet_i, dawn, regs,
                 clock, ipi, work, popped, panic, ghosts>>

IoTail ==
  /\ Cpu0At("tail")
  /\ tail' = IoNext(tail)
  /\ owed' = Append(owed, out)
  /\ out' = Nothing
  /\ at0' = "idle"
  /\ UNCHANGED <<kb, ring, hw, head, reg, mousev, packets, packet_i, dawn, regs,
                 clock, ipi, work, popped, panic, clicks, last, seen>>

-----------------------------------------------------------------------------
(* mouse_isr, a byte each time *)

(* the buttons; no sync bit, or a movement that overflowed: a bad packet *)
MouseFlags(b, bad) ==
  /\ Cpu0Free /\ cycle = 0
  /\ Len(clicks) < MaxClicks
  /\ cur' = [cur EXCEPT !.buttons = b]
  /\ discard' = (discard \/ bad)
  /\ cycle' = 1
  /\ UNCHANGED <<keyv, hw, head, reg, pos, dp, slot, packets, packet_i, dawn, regs,
                 clock, ipi, work, popped, panic, ghosts>>

MouseX(x) ==
  /\ Cpu0Free /\ cycle = 1
  /\ cur' = [cur EXCEPT !.x = x]
  /\ cycle' = 2
  /\ UNCHANGED <<keyv, hw, head, reg, discard, pos, dp, slot, packets, packet_i,
                 dawn, regs, clock, ipi, work, popped, panic, ghosts>>

Clamp(p, size) == IF p < 0 THEN 0 ELSE IF p >= size THEN size - 1 ELSE p

(* process_packet: the screen's y grows downwards *)
Moved(p, x, y) == <<Clamp(p[1] + x, Width), Clamp(p[2] - y, Height)>>

MouseY(y) ==
  /\ Cpu0Free /\ cycle = 2
  /\ cycle' = 0
  /\ discard' = FALSE
  /\ IF discard
     THEN UNCHANGED <<hw, pos, dp, at0, clicks, last>>
     ELSE /\ hw' = TRUE
          /\ pos' = Moved(pos, cur.x, y)
          /\ dp' = [buttons |-> cur.buttons, pos |-> pos']
          /\ last' = cur.buttons
          /\ clicks' = IF last' = last THEN clicks ELSE Append(clicks, last')
          /\ at0' = "classify"
  /\ UNCHANGED <<kb, ring, tail, out, head, reg, cur, slot, packets, packet_i, dawn,
                 regs, clock, ipi, work, popped, panic, owed, seen>>

(* Mutant: the buttons are compared with what the guest was given last *)
LastButtonsGiven == dawn.buttons

(* The buttons before this packet.  packet_i is read once, for this and for   *)
(* the test that follows; the code reads it again and again, and on two CPUs  *)
(* mouse_update may lower it in between (mouse.c 240-292, 333).               *)
LastButtons == IF packet_i = 0 THEN dawn.buttons ELSE packets[packet_i - 1].buttons

(* Mutant: one packet too many *)
PacketsFullLate == packet_i > MaxPackets

PacketsFull == packet_i = MaxPackets

(* is_location_info: the buttons are the same, and only the position is new *)
MouseClassify ==
  /\ Cpu0At("classify")
  /\ \/ /\ dp.buttons = LastButtons
        /\ dawn' = dp
        /\ at0' = "idle"
        /\ UNCHANGED <<slot, panic>>
     \/ /\ dp.buttons # LastButtons
        /\ PacketsFull
        /\ panic' = TRUE
        /\ UNCHANGED <<dawn, at0, slot>>
     \/ /\ dp.buttons # LastButtons
        /\ ~PacketsFull
        /\ slot' = packet_i
        /\ at0' = "put"
        /\ UNCHANGED <<dawn, panic>>
  /\ UNCHANGED <<kb, ring, tail, out, hw, head, reg, cycle, cur, discard, pos, dp,
                 packets, packet_i, regs, clock, ipi, work, popped, ghosts>>

(* packets[packet_i++] = dp *)
MousePut ==
  /\ Cpu0At("put")
  /\ packets' = [packets EXCEPT ![slot] = dp]
  /\ packet_i' = slot + 1
  /\ slot' = 0
  /\ at0' = "idle"
  /\ UNCHANGED <<kb, ring, tail, out, hw, head, reg, cycle, cur, discard, pos, dp,
                 dawn, regs, clock, ipi, work, popped, panic, ghosts>>

-----------------------------------------------------------------------------
(* timer_interrupt on CPU 0, timer_interrupt_ap on the last AP *)

Tick ==
  /\ Cpu0Free
  /\ uptime' = (uptime + 1) % MousePeriod
  /\ UNCHANGED cpu_count
  /\ IF LastAP THEN ipi' = TRUE /\ UNCHANGED work
     ELSE work' = "flush" /\ UNCHANGED ipi
  /\ UNCHANGED <<keyv, hw, head, reg, mousev, packets, packet_i, dawn, regs, popped,
                 panic, ghosts>>

(* the interrupt, however many ticks raised it *)
TakeIpi ==
  /\ ~panic /\ ipi /\ work = "idle"
  /\ ipi' = FALSE
  /\ work' = "flush"
  /\ UNCHANGED <<keyv, hw, head, reg, mousev, packets, packet_i, dawn, regs, clock,
                 popped, panic, ghosts>>

Working(l) == ~panic /\ work = l

(* Mutants: the register is not looked at, or the test is the wrong way *)
EmptyAlways(r) == TRUE
EmptyNot(r) == reg[r] # 0

Empty(r) == reg[r] = 0

(* The writes s without the first one to register r *)
Without(s, r) ==
  LET mine == {i \in 1 .. Len(s) : s[i].reg = r}
  IN IF mine = {} THEN s
     ELSE RemoveAt(s, CHOOSE i \in mine : \A j \in mine : i <= j)

(* dawn_io_flush: the oldest write, if the guest cleared its register.  The *)
(* guest will never see that a 0 was written.                                *)
FlushWrite ==
  /\ Working("flush")
  /\ head # tail
  /\ Empty(ring[head].reg)
  /\ reg' = [reg EXCEPT ![ring[head].reg] = ring[head].val]
  /\ work' = "advance"
  /\ owed' = IF ring[head].val = 0 THEN Without(owed, ring[head].reg) ELSE owed
  /\ UNCHANGED <<keyv, hw, head, mousev, packets, packet_i, dawn, regs, clock, ipi,
                 popped, panic, clicks, last, seen>>

FlushAdvance ==
  /\ Working("advance")
  /\ head' = IoNext(head)
  /\ work' = "flush"
  /\ UNCHANGED <<keyv, hw, reg, mousev, packets, packet_i, dawn, regs, clock, ipi,
                 popped, panic, ghosts>>

(* nothing left, or blocked; then the mouse, if the tick is one of its own *)
FlushDone ==
  /\ Working("flush")
  /\ head = tail \/ ~Empty(ring[head].reg)
  /\ work' = IF uptime = 0 THEN "update" ELSE "idle"
  /\ UNCHANGED <<keyv, hw, head, reg, mousev, packets, packet_i, dawn, regs, clock,
                 ipi, popped, panic, ghosts>>

(* mouse_update, once the guest cleared the movements and the position *)
MayUpdate == hw /\ (\A r \in RelRegs : reg[r] = 0) /\ regs.pos = <<0, 0>>

UpdateTest ==
  /\ Working("update")
  /\ work' = IF ~MayUpdate THEN "idle" ELSE IF packet_i = 0 THEN "write" ELSE "pop"
  /\ UNCHANGED <<keyv, hw, head, reg, mousev, packets, packet_i, dawn, regs, clock,
                 ipi, popped, panic, ghosts>>

(* the oldest packet, and the others a place down *)
UpdatePop ==
  /\ Working("pop")
  /\ dawn' = packets[0]
  /\ packets' = [i \in 0 .. MaxPackets - 1 |->
                   IF i + 1 < packet_i THEN packets[i + 1] ELSE packets[i]]
  /\ work' = "load"
  /\ UNCHANGED <<keyv, hw, head, reg, mousev, packet_i, regs, clock, ipi, popped,
                 panic, ghosts>>

(* packet_i--, a load and a store *)
UpdateLoad ==
  /\ Working("load")
  /\ popped' = packet_i
  /\ work' = "store"
  /\ UNCHANGED <<keyv, hw, head, reg, mousev, packets, packet_i, dawn, regs, clock,
                 ipi, panic, ghosts>>

UpdateStore ==
  /\ Working("store")
  /\ packet_i' = popped - 1
  /\ popped' = 0
  /\ work' = "write"
  /\ UNCHANGED <<keyv, hw, head, reg, mousev, packets, dawn, regs, clock, ipi, panic,
                 ghosts>>

UpdateWrite ==
  /\ Working("write")
  /\ regs' = [buttons |-> dawn.buttons, pos |-> dawn.pos, unread |-> TRUE]
  /\ work' = "idle"
  /\ UNCHANGED <<keyv, hw, head, reg, mousev, packets, packet_i, dawn, clock, ipi,
                 popped, panic, ghosts>>

-----------------------------------------------------------------------------
(* The guest: "All value is erased by the kernel once it reads them"         *)
(* (hardware.txt 137, and 129)                                               *)

(* the first write owed to register r is the one it takes *)
GuestTake(r) ==
  /\ Cpu0Free
  /\ reg[r] # 0
  /\ reg' = [reg EXCEPT ![r] = 0]
  /\ owed' = Without(owed, r)
  /\ UNCHANGED <<keyv, hw, head, mousev, packets, packet_i, dawn, regs, clock, ipi,
                 work, popped, panic, clicks, last, seen>>

GuestMouse ==
  /\ Cpu0Free
  /\ regs.unread
  /\ seen' = regs.buttons
  /\ clicks' = IF clicks # <<>> /\ regs.buttons = Head(clicks) THEN Tail(clicks)
               ELSE clicks
  /\ regs' = [buttons |-> {}, pos |-> <<0, 0>>, unread |-> FALSE]
  /\ UNCHANGED <<keyv, hw, head, reg, mousev, packets, packet_i, dawn, clock, ipi,
                 work, popped, panic, owed, last>>

-----------------------------------------------------------------------------
Isr == IoSlot \/ IoTail \/ MouseClassify \/ MousePut

Work == \/ FlushWrite \/ FlushAdvance \/ FlushDone
        \/ UpdateTest \/ UpdatePop \/ UpdateLoad \/ UpdateStore \/ UpdateWrite

Devices == \/ \E b \in KeyBytes : KeyInterrupt(b)
           \/ \E b \in Buttons, bad \in BOOLEAN : MouseFlags(b, bad)
           \/ \E m \in Moves : MouseX(m[1]) \/ MouseY(m[2])

Guest == (\E r \in RingRegs : GuestTake(r)) \/ GuestMouse

Next == Isr \/ Devices \/ Tick \/ TakeIpi \/ Work \/ Guest

Spec == Init /\ [][Next]_vars

(* Interrupts end, the timer ticks, the last AP takes its interrupts, and    *)
(* the guest reads its registers.                                            *)
FairSpec ==
  /\ Spec
  /\ WF_vars(Isr) /\ SF_vars(Tick) /\ WF_vars(TakeIpi) /\ WF_vars(Work)
  /\ \A r \in RingRegs : SF_vars(GuestTake(r))
  /\ SF_vars(GuestMouse)

-----------------------------------------------------------------------------
(* The ring from its head to its tail, and what is left of it to write *)
Ringed == [i \in 1 .. (tail + IoMax - head) % IoMax |-> ring[(head + i - 1) % IoMax]]
ToWrite == IF work = "advance" THEN Tail(Ringed) ELSE Ringed

(* dawn_io_write and dawn_io_flush, on two CPUs and without a lock, lose,    *)
(* repeat and reorder nothing: of the writes the guest has yet to read, the  *)
(* last ones are those in the ring, in the order they were sent, and the     *)
(* ones before are in the registers, one in each register that is not clear. *)
WritesArriveInOrder ==
  LET n == Len(owed) - Len(ToWrite)
  IN /\ n >= 0
     /\ \A i \in 1 .. Len(ToWrite) : owed[n + i] = ToWrite[i]
     /\ \A i \in 1 .. n : owed[i].val # 0 /\ reg[owed[i].reg] = owed[i].val
     /\ \A i, j \in 1 .. n : owed[i].reg = owed[j].reg => i = j
     /\ \A r \in RingRegs : reg[r] # 0 => \E i \in 1 .. n : owed[i].reg = r

Queued == [i \in 1 .. packet_i |-> packets[i - 1].buttons]
Unread == IF regs.unread /\ regs.buttons # seen THEN <<regs.buttons>> ELSE <<>>

(* "wait for Dawn to clear mouse registers" (mouse.c 209): on one CPU, every   *)
(* change of the buttons is in the registers until the guest has read it, or *)
(* waits in the packets, in order.                                           *)
NoClickLost ==
  cpu_count = 1 /\ ~panic /\ at0 = "idle" /\ work = "idle" => clicks = Unread \o Queued

(* The handler tests for a full array with == (mouse.c 333): packet_i never  *)
(* passes MAX_PACKETS nor goes below 0, though two CPUs change it without a  *)
(* lock, and every place they load is one of the array.                      *)
PacketsInBounds ==
  /\ packet_i \in 0 .. MaxPackets
  /\ slot \in 0 .. MaxPackets - 1
  /\ work \in {"pop", "load"} => packet_i > 0
  /\ work = "store" => popped > 0

(* A deferred write at the head of the ring is made once the guest has       *)
(* cleared its register, and does not block the others forever.              *)
HeadMoves ==
  \A i \in 0 .. IoMax - 1 : (head = i /\ tail # i) ~> (head # i \/ panic)
=============================================================================
