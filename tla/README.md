# A TLA+ verification project for subleq-emu

subleq-emu is a small x86-64 kernel that runs Dawn, an operating system for a
SUBLEQ machine. It translates SUBLEQ code to x86 code while the guest, on
several CPUs, keeps rewriting that code; it starts and stops guest CPUs through
words of guest memory; it feeds keyboard and mouse to the guest from interrupts;
and at boot it shares out the machine's memory. This directory holds models of these parts, what TLC checks about
them, and what the TLA+ proof system (TLAPS) proves about them.
`PROJECT.json` has the same information for tools: the source lines of every
definition, the runs, the mutants of the code each property was tried on, the
hazards and the findings.

## 1. Inventory

| Part | State | Operations | Used by / uses |
| --- | --- | --- | --- |
| Translator (`jit.c`) | while it emits a block: registers, constants, aliases, pins, the store held back; `static_map`, `page_map`, `dyn_map`, `epoch`, shared; per CPU `htab`, blocks, links, `queue`, `qoverflow`, `pending`, `quiet` | `jit_run`, `lookup`, `translate`, `smc_hit`, `store_check`, `interp_step`, `drain_queue`, `revalidate`, `invalidate`, `flush`, `link_to`; the emitted code, `jit_copy` | called by `run` (subleq.c); shares guest memory with every CPU |
| Entry and exit stubs (`jit.asm`), interpreter (`subleq.asm`) | registers only | enter and leave translated code; a slice of instructions | called by `jit_run`, `run` |
| CPU control banks (`subleq.c`, `pm.c`) | two words of guest memory per CPU; `eip`, `is_halted`; the monitor | `subleq` on CPU 0 and on the APs, `wait_stopped`, `reboot`, `shutdown`, `pm_sleep` | the guest kernel writes the banks; translated code watches them |
| I/O ring (`dawn.c`) | `io_stack`, head, tail; the device registers in guest memory | `dawn_io_write`, `dawn_io_flush` | filled by the keyboard, emptied by the timer |
| Keyboard (`keyboard.c`) | four modifier flags | `keyboard_handler` | its interrupt, on CPU 0; the ring |
| Mouse (`mouse.c`) | byte of the packet, position, `packets`, `packet_i`, `dawn_mouse_*` | `mouse_handler`, `process_packet`, `is_location_info`, `mouse_update` | its interrupt, on CPU 0; the timer |
| Timer (`time.c`, `pit.c`, `apic.c`) | `uptime_raw` | `timer_interrupt` on CPU 0, `timer_interrupt_ap` on the last AP | ring, mouse, redraw |
| Screen (`dawn.c`, `graphics.c`, `subleq.asm`) | a frame counter | redraw | timer |
| Set-up (`main.c`, `dawn.c`, `smp.c`, `cpu.c`) | per-CPU areas, counts | once, at boot | all |
| Memory (`pmm.c`, `klib.c`, `memory.c`), paging (`paging.c`) | bitmap and hint; page tables | `kmalloc`, `kmfree`, `kalloc`, `kfree`, `krealloc`; `map_page`, `map_page_2m` | set-up, translator |
| Interrupt tables, exceptions, ACPI | tables | once, at boot | |

What is hard to get right, and to test:

- **Code and stores race.** A store tests a mark, another CPU marks the word
  and bakes its old value into code, and then the store lands. The translator
  takes no lock: it relies on marks, queues, and a grace period. The order of
  every two steps matters, and so do full rings, and x86's store buffer.
- **Pointers into code that comes and goes.** Jumps are patched to other blocks,
  a patch site is kept across a translation that may flush everything, and link
  records change hands as blocks are dropped.
- **Waiting for everyone.** A CPU whose `pending` ring is full waits until all
  CPUs have been through their dispatchers, and is not in its own meanwhile.
- **A handshake through memory.** The guest starts and stops an AP by writing
  its bank at any moment of the AP's loop, also between its test and `mwait`.
- **Interrupt handlers on two CPUs without locks**, over the I/O ring and the
  mouse packets, with registers that the guest clears when it likes.
- **A compiler in miniature.** Within a block a word may be known as a constant,
  in a register, or as the negation of one; one store is held back; results are
  computed in place; every exit must leave memory as the interpreter would.
- **Memory shared out by its own user.** The tables that map memory, the
  translator's tables, sized by what is free, and the guest's memory come from one
  allocator, until it is empty; most failures on the way are not looked at.
- **State across bytes**: scancode prefixes, modifiers with two keys, packets of
  three bytes.

What makes each part correct:

- Translator: code that runs agrees with memory, or is about to be dropped; code
  that disagrees is dropped at last; no wait lasts forever; jumps between blocks
  go where the guest goes, and never into code that was dropped or given up.
- Emitted code: at every exit memory and the next instruction are those of the
  interpreter; stores reach memory in order; a word with translated code is never
  stored to unseen.
- Memory: a page has one owner; the guest's memory has no hole and the size the
  translator was told.
- Banks: an AP runs the thread it was given, gives it back where it is, runs
  nothing once stopped, and answers.
- Ring: writes arrive, once and in order, and never block for good.
- Mouse: no change of the buttons is lost; indices stay in the array.
- Keyboard: no modifier sticks; the special codes are the documented ones.

`PROJECT.json` lists the hazards at their lines, with the properties that would
catch them or a note on why none does. Hazards of the code that no property is about:

- keyboard.c 139: the keypad's click is written on CPU 0 while `mouse_update` on the
  last AP may be past its test of `hw_mouse_enabled` and overwrite it. It is a step of
  `InputPath`; no document says the click survives.
- keyboard.c 195: function keys index past the end of the character tables. What is
  found there is not in the source; `Keyboard` takes any member of `Garbage`.
- mouse.c 305: a byte lost between mouse and handler shifts all later packets, unless
  the sync bit of the wrong byte is clear. The code has no way back from it.
- dawn.c 471: the two screen buffers are used without a test for null, and virtual
  address 0 is the guest's image. `BootMemory` has machines where they do not fit; the
  redraw is not modelled.

## 2. Modules

| Module | Models | Instances for TLC |
| --- | --- | --- |
| `JitGrace` | grace periods: `epoch`, `quiet`, `pending`, the wait for room | `MCJitGrace` |
| `JitCoherence` | the translator's marks, queues, blocks and checks over memory; implements `JitGrace` | `MCJitCoherence` |
| `JitCache` | one CPU's block records, table, code, jumps and their links, and the control of `jit_run` around them | `MCJitCache` |
| `JitBlock` | the code emitted for one block, and the machine that runs it, beside the interpreter | (by `JitEmit`) |
| `JitCopy` | the word copy loop: `match_copy` and `jit_copy` beside the loop's instructions | (by `JitEmit`) |
| `JitEmit` | what `translate` emits: a block with the copy, or one without | `MCJitEmit` |
| `BootMemory` | `pmm_init`, `kmalloc`, `kalloc`, `map_page`, `map_page_2m`, `dawn_build_pagemap`, `jit_init`'s allocations | `MCBootMemory` |
| `CpuBanks` | `subleq()` on CPU 0 and the APs, and the guest kernel | `MCCpuBanks` |
| `Keyboard` | `keyboard_handler`, as operators | (used by the next two) |
| `KeyboardKeys` | the handler behind a keyboard with keys | `MCKeyboardKeys` |
| `InputPath` | keyboard and mouse interrupts, I/O ring, packets, timer, guest | `MCInputPath` |
| `JitGraceProofs`, `JitCoherenceProofs`, `JitCacheProofs`, `JitBlockProofs`, `CpuBanksProofs`, `InputPathProofs`, `BootMemoryProofs`, `KeyboardKeysProofs` | theorems about the module of that name, and their proofs; `JitCoherenceProofs` also has the proof that `JitCoherence` implements `JitGrace` | |

Definitions whose names end in a word like `Late`, `Lossy` or `Forgotten` and
whose comment says "Mutant" are not part of the models: each is a plausible bug
in the definition it stands before, and a property that must catch it names it
in `PROJECT.json`.

### 2.1 JitGrace

Blocks are only their stamps. A CPU is `out` of `jit_run`, in its dispatcher
(`top`, `publish`, `drain`, `reval`, `lookup`), at `work` (interpreting, or in
`smc_hit`), in translated code (`run`), or translating (`trans`, and `twait`
where it waits for room). `LoadEpoch` and `Publish` are the load and the store
of line 1856; `ScanQuiet` is one round of the loop in `revalidate`, so that other
CPUs publish between two reads.

`PendingLen >= 3` is an assumption: a CPU makes at most two blocks between two
publications, one after a lookup and one after a link. With a ring for less the
CPU would wait for itself. The code's 4096 is far from it.

### 2.2 JitCoherence

State: guest memory as words with values, the three maps, the queues, the block
tables and `pending` rings of every CPU, and the local variables of whatever
function each CPU is in. Actions, by function:

- `jit_run`: `EnterRun`, `LoopTop`, `Publish`, `LookupEnd`, `LookupRun`,
  `LookupInterp`, `LookupTranslate`, and the exits of translated code `RunLeave`,
  `RunWatch`, `RunSmc`, `RunHoist`, `RunTranslate`, `RunLinked`;
- `drain_queue`: `DrainOverflow`, `DrainNoOverflow`, `DrainWord`, `DrainDone`;
- stores: `RunTest` and `RunStore` for translated code, `InterpStep` and
  `InterpStore` for the interpreter's steps: the test of `static_map` and the store
  are two steps, with any steps of others in between;
- `smc_hit`: `HitBegin`, `HitDyn`, `HitClear`, `HitSend` (one CPU at a time),
  `HitSent`;
- `revalidate`: `RevalNone`, `ScanQuiet`, `CheckOldest`, `CheckDone`;
- `translate`: `NextInsn`, `ReadField`, `TestField`, `TestMark`, `MarkField`,
  `MarkPage`, `Insert`, `WaitPending`, `Stamp`. The two questions to `is_dynamic`
  are two steps, and so are the two marks.

What the guest computes is left open: any block a CPU has may run, any
instruction be interpreted, any value be stored in any word, a block may end
after any instruction. So what is shown holds for every guest program, and the
symmetry in CPUs, words, values and starts is sound.

`StoreBuffer` is the number of plain stores a CPU may hold back. With 0, stores
are visible at once. Otherwise a store to memory, to `page_map` and to `quiet`
waits in the buffer and leaves it in order, the CPU sees its own stores, and a
locked instruction (`bit_set`, `bit_clr`, the epoch's increment, the queue's lock)
waits for the buffer to be empty: x86's rules.

Abstractions a reader should know of:

- `static_hash` stands for the fields themselves (no collisions), and reads them
  in one step, where the code reads one after another. Each word is compared on
  its own, and the properties speak of one word at a time.
- `HitClear` clears the mark and drops this CPU's own blocks in one step. No
  other CPU reads this CPU's table, and this CPU runs no code in between.
- A block is its covered words, those baked in, their values, and those hashed.
  Constants that the register cache carries between instructions (lines
  1189-1205) are memory values under the same marks and are not kept apart; how
  they are carried is `JitBlock`'s.
- A store is to one word, so that `MarkPage` marks that word's page only.
  `mark_static` marks the page before it too (258-259), for a store that begins there
  and reaches into the word: `JitBlock` has those stores (`MarkedPages`).
- Code space, links and jump patching are `JitCache`'s: here `RunLinked` goes from
  a block to any other that is valid, and a flush may come at any translation.
  That a linked jump reaches only a valid block is what `JitCache` shows.
- `MaxEpoch` only stops new translations, so that TLC ends, and `Translators` says
  on which CPUs there are any; the others interpret. The proofs hold for every
  value of both.

### 2.3 JitCache

The cache of one CPU is private to it: other CPUs only say which words to drop
(`DrainWord`, `DrainOverflow`). So one CPU is modelled, and what arrives for it is
left open. Code is a row of cells, one for the entry of a block and one for
each of its jumps that may be linked; a cell holds where it goes: on with the
block (`Body`), to `inv_stub` (`Gone`), to the slow path behind it (`Slow`), or to
the cell of an entry. Patching writes a cell whatever it belongs to by then,
so that a stale patch site does in the model what it does on the machine.

Actions, by function:

- `jit_run`: `EnterRun`, `Leave`, `LookupFound`, `LookupInterp`, `Enter`, then by the
  exit of translated code `RunBudget`, `RunWatch`, `RunHoist` with `HoistWord` and
  `HoistDone`, `RunSmc` with `SmcInterp`, `RunComputed`, `RunExit` (a jump that may be
  linked), and `LinkFound`, `LinkNone`, `Link` for what follows the last;
- `drain_queue`: `DrainOverflow`, `DrainWord`, `DrainDone`; `revalidate`:
  `CheckOldest`, `RevalDone`;
- `translate`: `TranslateBegin`, `TranslateFlush` or `TranslateRoom`, `Emit`, and, where
  the ring is full (`"room"`), the rounds of `revalidate` that make room, of which
  `CheckOldest` may drop the very block just made, up to `PutPending`;
- `Invalidate`, `InvalidateWords` and `Flush` are operators of these actions, and
  `LinkTo` of `Link`.

`flushed` is the outcome of comparing `gen` with `stats.flushes`, and is true only
while a jump is to be linked. `goal` is a ghost: where the guest's last branch went,
which only properties read.

Abstractions: which instructions a block has, and which of their words changed,
are left open, so that any block may end anywhere and drop anything it covers;
budget, watched word and the rules about where blocks may start (`strong`,
`weak_steps`) are choices; whether a start is that of the copy loop, whose block goes on
over the starts of others (1443), is left open too (`CopyLen` is its size); the free list of link records is a set; the memory of
`meta` is its space test, which may always fail; a flush clears what it gives up,
where the code leaves it to be overwritten (nothing reads it in between:
`NoStalePointers`).

A jump may be linked to a block that was dropped while `translate` waited. It then
goes to that block's `inv_stub` and through the dispatcher at every use until a
flush. That is slow and not wrong, and `RunsValidCode` and `LinksAgree` hold.

### 2.4 JitBlock, JitCopy and JitEmit

`JitBlock` goes through a block once, instruction by instruction, as `translate`
does, and lets the machine run along. The record `J` has both sides: what the
translator knows (`regs`, the order of their use `lru`, `pinned`, `consts`, `aliases`,
`pend`, `live` for `flags_live`) and what the machine has at that point (`reg`, `mem`,
`flags`). Since a block is straight code up to each of its exits, this is a run of
the block that leaves at any one of them. `gmem` is the guest's memory had it
interpreted. The helpers are operators with the code's names: `Scratch`, `Release`,
`Bind`, `ToReg`, `FlushPending`, `SetAlias`, `GetStatic`, `UpdateSpanned`, `StubStore`.
One instruction is five steps, in the order of `translate_insn`: `Fetch` (the fields,
and whether a dynamic one is known after all), `Test` (the store's target against
`static_map`), `Operands`, `Compute` (result, store, cache), `Branch`; `EndBlock` is the
exit at the end. The instructions are a choice at each step, so a run covers every
block over the given addresses.

`hoist` is the list of words tested on entry, made from memory before the fields
were read to be baked in: a static B outside of it is one that changed since, or
that was dynamic and is known as a constant here, and is tested in place.

A word is `WordBytes` bytes of `Radix` values, big-endian; `Num` is the number that bytes
make. The proofs hold for all of them, 8 bytes of 256 values included. TLC's instance
has bytes of one bit, so that all values of a word can occur, INT64_MIN and overflow
included. `lru` is each register's rank in the order of use, which is all that `scratch`
reads from the counts in `regs[i].lru`.

`GuestPc` and `JitCopy`'s `GuestStep` branch as `interp_step` does, when B is at most A.
Where B - A overflows, that is not what `hardware.txt` says (see findings).

Abstractions: an operand outside memory is no step of the model, as it takes a page
fault, and `generic_exception` (exceptions.c) ends the guest; static fields are
constants and stay so (`JitCoherence`); the two tests of a computed address, the byte of
the page its first byte is in and then the bits of its words, are one step, with
`MarkedPages` for what `mark_static` left in `page_map`, the page before each word
included; whether a mask fits an immediate depends on the width of a word, so
`MaskedOr` always takes a register for it; which of two addressing modes an address
needs is left out. Where `scratch` finds every register pinned the code would write
outside its array: the model sets `out` and stops, and the properties claim nothing of
such a block (see findings).

`JitCopy` has the block that begins with the call of `jit_copy` (`copy`) and the
interpreter on the same memory (`loop`); the interpreter catches up whenever the
copy has used some of the budget. The program is laid out from the template the
code matches, then changed: pointers, counter, step, budget, and words that make
it another program or dynamic. `JitEmit` is the choice `translate` makes between
the two kinds of block, and nothing else; at a time only one of the parts moves.

### 2.5 CpuBanks

Per AP: the two words of its bank, where `subleq()` is, its `eip` and `is_halted`,
the armed monitor. The AP's actions follow the code line by line: the two writes
of the set-up, `ApLook` (the switch), `ApLoad`, `ApRun`, `ApSave` before `ApAck`,
`ApHalt`, and `wait_stopped` as `WaitTest`, `WaitArm`, `WaitRecheck`, `WaitSleep`.
A write to the bank between `monitor` and `mwait` wakes the AP; that an interrupt
wakes it is possible (`WaitInterrupted`) and never relied on. Without monitor
`wait_stopped` spins, in the model's `WaitTest`.

The guest kernel is external. It is modelled from the protocol the AP's code
answers and `hardware.txt` describes: eip, then 1; 2, then wait for 4. The variable
`thread` says where the thread the guest put on an AP really is; only properties
read it. `EarlyGuest` lets the guest start an AP that has written 4 but not yet
finished its set-up, which `kmain` does not rule out.

CPU 0's bank keeps the 4 of its own set-up while CPU 0 runs, as in the code.

### 2.6 Keyboard and KeyboardKeys

`ModifiersAfter` and `SentBy` are `keyboard_handler`: the modifiers after a byte,
and what the byte sends, through the ring or straight to a register. Of the four
character tables the keys that the handler treats differently are kept (the
letters of the ctrl combinations and one other, escape, backspace, tab, enter,
alt); reads past the end of the tables give any member of `Garbage`.
`KeyboardKeys` adds a keyboard (external, scancode set 1): keys go down, repeat
and come up, their bytes wait, and each interrupt takes one. Every byte carries
the modifier keys that were down when it was made, which is what the documented
codes are compared with, however late the interrupt.

### 2.7 InputPath

CPU 0's interrupts (`at0`) and the timer's work (`work`) are two activities. With
more than one CPU (`LastAP`) they run on two CPUs and interleave step by step; on
one they exclude each other, as interrupts do not nest. `dawn_io_write` is test, entry, tail;
`dawn_io_flush` is test and write, head; `packet_i--` on the last AP is a load and
a store; `packets[packet_i++]` on CPU 0 keeps its index from the test to the put.
A tick raises one interrupt on the last AP however many ticks came before it was
taken, and whether the mouse is served depends on `uptime_raw` at that time. A
panic stops everything.

Abstractions: the five words of a packet, the shift of the array and the five
register writes are one step each; a position is a pair of small numbers, of
which only "zero" matters to the code (the scaling to fixed point maps 0 to 0 and
nothing else to 0 on any screen narrower than 2^32); touch and scroll registers
are never written by this code and stay 0; `packet_i` is read once for
`is_location_info` and the test for a full array, where the code reads it again and
again (240-292, 333): on two CPUs `mouse_update` may lower it in between, so that the
buttons are compared with another packet, or with what lies before the first. Of the two
properties about packets `NoClickLost` is for one CPU, and `PacketsInBounds`, with its
proof, holds however the comparison comes out; `dawn_ready` is true; cursor, clock and
redraw are left out. The guest is external: it reads a register, takes its value
and clears it. Ghost variables record what the guest has yet to
read: `owed` the writes of the ring in the order they were made, each until the guest
reads it, and `clicks`, `last` and `seen` the changes of the mouse buttons.

### 2.8 BootMemory

`pm` is the allocator: the free pages (the bitmap), the hint, `max_page`, and, for the
properties only, what was handed out so far. `pt` is the guest's page map: tables by
level and index, with the page each one was given, and the entries of 4K and 2M.
The actions are the steps of the boot: `PmmInit`, `AllocBuffers`, `NewPagemap`,
`MapCall` once for every page or large page of the kernel, the HHDM, the APICs and
the image, in the code's order (`calls` holds the loops still to be done, each with the
pages it has left), `SetUpJit` (`jit_init` up to its first allocation),
`JitAlloc` once for every `jit_os_alloc` after it, `GrowGuest` once for every page the
guest gets, `Finish`. Nothing runs beside them; what varies is the machine. `map_page` fails
where a large page is, `map_page_2m` takes the place of a table, and tables come
from the same pages as everything else, so that each can run out at any call.

Abstractions: an address is a small number, a page has 64 bytes and a table 8
entries, the translator's records a few bytes each, which keeps the order of the
sizes (a table is much more than a record); a `size_t` wraps where the code's
subtraction can (`SizeT`); zeroing of pages is left out, and so are flag bits of the
entries. `kmfree`, `kfree` and `krealloc` have no caller in this kernel and are not
modelled.

`LayoutAssumption` is what the boot loader's layout gives: the image and all of usable memory
after it end below the direct map, the direct map ends below the kernel, and no
page of the image lies in an entry the allocator takes (it is a module of the boot
loader's, with a type of its own). On a machine where they met, two of the loops would
write the same entries.

## 3. Runs

All of them end in less than five minutes with two workers.

| Run | Checks | Instance and why it is enough |
| --- | --- | --- |
| `jit_coherence` | `TypeOK`, `CheckedCodeIsCurrent`, `DynamicCodeIsDropped`, `OwnStoresMissOwnCode`, `ImplementsGrace`, `StaleCodeGoes` | two CPUs, one word, two values, one start, rings of 2 and 3, no translation begun after the first stamp (`MaxEpoch`), so that each CPU makes one block; fair CPUs: both CPUs translate the word at once, change it under each other and drop their blocks. Making a block again is in `jit_buffered`, and in the proofs |
| `jit_buffered` | `BakedFieldsAreMarked` | a store buffer of one store on two CPUs, of which one translates (`Translators`) and both interpret, two starts over one word, four epochs: marks, epochs and stores to guest memory are all held back, links are followed by translations, and the translating CPU fills its ring and waits while the other stays inside. One value, since the property is about marks and no block need differ from memory to be dropped |
| `jit_store_buffer` | `CheckedCodeIsCurrent`, **violated** | a store buffer of two stores, see findings |
| `jit_cache` | `TypeOK`, `FollowsGuest`, `RunsValidCode`, `NoStalePointers`, `LinksAgree`, `DropIsComplete` | seven words, blocks of one or two instructions from words 1 and 4, which overlap (the copy loop has two), so that `invalidate_word`'s window of starts begins above 0 for word 6, at the start of the block that ends there; three records, six cells, two links, and a ring with room for one block: every space runs out, records and cells are used again, and translating waits for room |
| `jit_emit` | `ExitsAreCurrent`, `BranchesAsGuest`, `CacheIsCurrent`, `StoresInOrder`, `CodeUntouched`, `CopyIsTheLoop` | words of three bytes, four of them, one a device; four registers, one constant and one alias, so that each of them is taken from a word that still needs it, a held back one included. Blocks: any three instructions with every kind of field; two around a word with translated code, not all tested on entry, the first of its page (two words each), so that a computed store may reach it from the page before; six static ones, the length of the MOV idiom and more; four with unaligned words. The copy: pointers before, in and behind the loop, its variables, each other, the device and a page with code; counters around -W and far from it; budgets for none, some and all |
| `jit_own_target` | `BranchesAsGuest`, **violated** | two instructions, the second storing to its own C field, see findings |
| `memory` | `OneOwner`, `KmallocFindsRun`, `GuestMemoryWhole`, `EndIsMarked`, `MappingsComplete` | 198 machines: memory for a page or two up to 90, cut by a hole of 2 or 9 pages on or off a page boundary, in single pages, small and large buffers, one CPU and more than the translator takes. The translator comes out on, off, and off after some of its allocations; boot panics, hangs, runs out of tables in every phase; large pages replace tables and stop small ones |
| `grace` | `TypeOK`, `NoCircularWait`, `TranslationEnds` | two CPUs, six epochs: both rings fill (four stamps) and both CPUs wait with a third block; fair CPUs |
| `banks` | `TypeOK`, `RunsItsThread`, `StoppedThreadIsSaved`, `StoppedIsStopped`, `StopIsAnswered`, `StartIsAnswered`, `RebootIsServed` | one AP, three instruction pointers, any number of starts and stops; APs share nothing but the guest, and the theorem is for any number of them. Fair CPUs, a guest of which nothing is assumed |
| `keyboard` | `NoStuckModifier`, `SpecialCodesAsDocumented` | left shift, right ctrl (an extended key), capslock, and a key of every kind; three bytes on the wire, so that interrupts are late |
| `input_ring` | `WritesArriveInOrder`, `HeadMoves` | ring of 3 (two writes), two keys for one register and one for another, a keypad click, two CPUs: full, empty, wrapped, blocked; fair timer and guest |
| `input_mouse` | `NoClickLost`, `PacketsInBounds` | one CPU and two, two packets, three changes of the buttons unread, so that the array fills; keypad in between; pointer not in the corner; an update every second tick |

Two words in one block, and two CPUs that translate with store buffers, are beyond the
time of a run; the properties of `jit_coherence` but `StaleCodeGoes`, and
`BakedFieldsAreMarked`, are proved for any number of words and CPUs where stores are
visible at once.

Deadlock is checked in the translator's, the memory's and the keyboard's runs. In the
banks' run the machine can be turned off, and in the input runs it can panic.

### Fairness

- Translator: a CPU inside `jit_run` goes on, and the budget ends its stay in
  translated code (`RunLeave`). Nothing is assumed of a CPU outside: the guest
  may never call it again, which is why `StaleCodeGoes` excepts it.
- Banks: CPUs go on and slices end (`JIT_SLICE`, `INTERP_SLICE`). No interrupt is
  assumed to wake a sleeping AP, and nothing is assumed of the guest.
- Input: handlers end (weak fairness), the timer ticks and the guest reads its
  registers again and again (strong, as other interrupts come in between), the
  last AP takes its interrupt.

### Findings

`jit_store_buffer`. A CPU that enters `jit_run` replaces the `~0` that says it is
outside by the epoch, with a plain store (line 1856). That store can wait in the
CPU's store buffer while the CPU tests `static_map`, finds no mark, and stores to
a word of guest memory, behind it in the buffer. Meanwhile another CPU reads the
old value, marks the word, makes a block, and finds the first CPU still outside:
it compares the block with memory and lets it go. Then the store lands. The
comment at lines 398-400 says every store that could have missed the marks is
visible by the time of the check. Once a CPU is known to be inside, the order of
its buffer protects it: an epoch it publishes is seen after its older stores. A
publication on entry that waits for the buffer (an exchange) would close the
window.

`jit_own_target`. An instruction may store to its own C field. "A dynamic C is read
before the store, as the instruction would" (jit.c 1277): but where the word is
cached, `rc` is the register bound to it. If static B is that word too, `vb` is the
same register; nothing else stands for it, so the subtraction is done in it
(1340-1343), and a taken branch goes to the result. `interp_step` goes to C as it was
(381). Reading C to a register of its own where B is its word would do. `jit_emit`
has all instructions but this one (`OwnC = FALSE`).

Disagreements that bound an instance or what a property says, each among the hazards:

- `mouse_update` takes zero position registers for registers that were read ("wait
  for Dawn to clear mouse registers", mouse.c 209). In the upper left corner they
  are zero though unread: a button pressed and let go there while the guest is
  slow is never seen pressed. `input_mouse` keeps the pointer away from the corner.
- `hardware.txt` (24-26) stores B - A as a `long long` and branches when what was stored is
  at most 0. `interp_step` (jit.c 386) and `subleq.asm` (25-26: "taking the branch when B <= A
  as signed numbers") compare B with A, and translated code goes by the flags of the
  subtraction. The two differ where B - A overflows: with B = INT64_MIN and A = 1 the
  code branches, and the stored difference, INT64_MAX, is above 0. All of the repository's
  interpreters agree with each other, and `BranchesAsGuest` and `CopyIsTheLoop` measure
  emitted code by `interp_step`, overflow included; they do not show that it agrees with
  `hardware.txt` there.
- One flag stands for both shift keys, and one for both ctrl keys: letting one go
  while the other is down switches shift off, and the up key sends 14 and not 18
  (`hardware.txt` 113). `keyboard` has one key of each modifier.
- An AP writes status 4 and then eip 0 (subleq.c 70-71), and `kmain` does not wait
  for the APs (main.c 74). A guest that sees the 4 and writes an eip in between has
  it replaced, though the AP is to run "from the eip in the bank if just started"
  (subleq.c 100; `hardware.txt` 37). `banks` has a guest that waits until the AP is
  parked (`EarlyGuest = FALSE`).
- "An instruction pins at most 8 of the 11" registers (jit.c 665). With 11 registers,
  words of two bytes and seven instructions TLC finds an instruction with all 11
  pinned that asks for another. The instance is too large for a run; `JitBlock` stops
  there.
- The tab key is sent as 9, the code of page up (`hardware.txt` 104). `keyboard` leaves
  it out.

With `EarlyGuest = TRUE`, `RunsItsThread` fails; with `"rshift"` or `"tab"` among `Keys`, `SpecialCodesAsDocumented` fails, and with a
screen and `Moves` that reach <<0, 0>>, so does `NoClickLost`.

Two precautions in `jit.c` are not needed as far as `jit_emit` goes: the flush when an
alias that is held back gives way (630), and negating without the flags (769).

`kmalloc`'s second pass ends at the hint, so that a free run across the hint would be
found by neither pass. `KmallocFindsRun` holds all the same, because nothing is ever
given back: the page before the hint is taken. A first caller of `kmfree` would
change that.

`MappingsComplete` and `GuestMemoryWhole` speak of a guest that got at least a page.
A machine whose memory ends before that boots with whatever was mapped, since no
result of `map_page` is looked at.

On two CPUs the mouse loses and repeats packets, since `packets` and `packet_i`
are shared without a lock: `NoClickLost` speaks of one CPU and fails without that
condition. No document says otherwise, so it is a hazard with a note and not a
finding.

## 4. Proofs

TLAPS checks every theorem to the last leaf. They hold for any values of the
constants that satisfy the assumptions of the modules (`GraceAssumption`,
`CacheAssumption`, `BlockAssumption`, `BootAssumption`, ...: sizes are positive, a page is
whole words, sets are of the right kind) and what the last column adds.

| Theorem | States | Assumes besides |
| --- | --- | --- |
| `GraceTypeCorrect` | `Spec => []TypeOK` | |
| `GraceNoCircularWait` | `Spec => []NoCircularWait` | |
| `CoherenceTypeCorrect` | `Spec => []TypeOK` | `StoreBuffer = 0` |
| `CoherenceCurrent` | `Spec => []CheckedCodeIsCurrent` | `StoreBuffer = 0` |
| `CoherenceDynamic` | `Spec => []DynamicCodeIsDropped` | `StoreBuffer = 0` |
| `CoherenceMarks` | `Spec => []BakedFieldsAreMarked` | `StoreBuffer = 0` |
| `CoherenceOwnStores` | `Spec => []OwnStoresMissOwnCode` | `StoreBuffer = 0` |
| `CoherenceImplementsGrace` | `Spec => ImplementsGrace` | `StoreBuffer = 0` |
| `CoherenceNoCircularWait` | `Spec => []Grace!NoCircularWait` | `StoreBuffer = 0` |
| `CacheTypeCorrect` | `Spec => []TypeOK` | |
| `CacheFollowsGuest` | `Spec => []FollowsGuest` | |
| `CacheRunsValidCode` | `Spec => []RunsValidCode` | |
| `CacheLinksAgree` | `Spec => []LinksAgree` | |
| `CacheNoStalePointers` | `Spec => []NoStalePointers` | |
| `CacheDrops` | `Spec => DropIsComplete` | |
| `CacheStaysCurrent` | `BlockSpec => []CacheIsCurrent` | |
| `ExitsStayCurrent` | `BlockSpec => []ExitsAreCurrent` | |
| `BranchesGoAsGuest` | `BlockSpec => []BranchesAsGuest` | `~OwnC` |
| `StoresStayInOrder` | `BlockSpec => StoresInOrder` | |
| `CodeStaysUntouched` | `BlockSpec => CodeUntouched` | |
| `BanksTypeCorrect` | `Spec => []TypeOK` | |
| `BanksRunThread` | `Spec => []RunsItsThread` | `EarlyGuest = FALSE` |
| `BanksSaveThread` | `Spec => []StoppedThreadIsSaved` | `EarlyGuest = FALSE` |
| `BanksStopped` | `Spec => []StoppedIsStopped` | `EarlyGuest = FALSE` |
| `RingKeepsOrder` | `Spec => []WritesArriveInOrder` | |
| `PacketsStayInArray` | `Spec => []PacketsInBounds` | |
| `ClicksReachGuest` | `Spec /\ []NotInCorner => []NoClickLost` | `KeyBytes \cap KeypadButtons = {}` |
| `PagesHaveOneOwner` | `Spec => []OneOwner` | |
| `FreeRunsAreFound` | `Spec => []KmallocFindsRun` | |
| `EndOfMemoryMarked` | `Spec => []EndIsMarked` | |
| `MappingsAreComplete` | `Spec => []MappingsComplete` | |
| `GuestMemoryIsWhole` | `Spec => []GuestMemoryWhole` | |
| `ModifiersLetGo` | `Spec => []NoStuckModifier` | |
| `SpecialCodesMatch` | `Spec => []SpecialCodesAsDocumented` | `OneOfEach`, `InTables` |

What a theorem assumes is what the code needs, as section 3 shows:

- `StoreBuffer = 0`: a store is visible at once. With a store buffer
  `CheckedCodeIsCurrent` is refuted by `jit_store_buffer`; `BakedFieldsAreMarked` is
  then checked by `jit_buffered` and not proved, and nothing is claimed of the others.
- `~OwnC`: no instruction stores to its own C field, as far as the translator can tell: where it
  does, `jit_own_target` shows the branch going elsewhere than the guest's. The other four
  theorems about emitted code do not need it. None of the five says anything of a block
  whose translation ran out of registers (`out`).
- `EarlyGuest = FALSE`: the guest starts an AP only once the AP has finished its
  set-up; else `RunsItsThread` fails.
- `NotInCorner`: the pointer never gets to <<0, 0>>. It is a condition on the behaviour and
  not on a constant, so that any screen and any moves are covered; in the corner `NoClickLost`
  fails. `KeypadButtons`
  are the bytes with which the keypad writes the button registers over the mouse's.
- `OneOfEach`: not both shift and not both ctrl keys are used. `InTables`: neither tab,
  whose character is a special code, nor a function key, whose character is read
  from behind the tables. With both shift keys, or tab, `SpecialCodesAsDocumented`
  fails.

**No circular wait.** `NoCircularWait` alone says nothing of how a CPU got to its wait.
`GraceInv` adds that stamps are at most the present epoch, and at every place of the
loop how many of a CPU's own blocks are younger than its own publication: none
in the dispatcher, and at most the newest one in translated code or in the
translation that follows it. A ring that is full holds two blocks or more, so the
oldest block of a CPU that waits is not younger than what that CPU published: it
never waits for itself, and waits only for CPUs that published less than it did.
Published epochs fall along any chain of waits, and the CPU that published least
waits for none.

**Code stays current.** `CheckedCodeIsCurrent` is not inductive: it says nothing of
the stores under way. `CodeInv` adds, per CPU, where it is and what that says of its
locals (`Control`) and of the block it is making (`Building`); per block, that a word
baked in and found dynamic is on its way to be dropped, and that every other
baked word is marked and hashed (`Baked`); that a word the CPU itself may still store
to, and has baked in, is dynamic (`OwnTested`); and per block and CPU, that a store which
has passed its test in spite of the block either found its word dynamic or tested
before the block's stamp and has not published since (`Tested`). When `revalidate`
lets a block go, every CPU has published since its stamp, so by `Tested` no such
store is left, and what is compared then stays equal (`Current`). With a
store buffer `Control` fails first: a CPU that has just entered is still seen as
outside. `OwnStoresMissOwnCode` is `OwnTested` with `Baked`: the word is dynamic, and
dynamic words are on their way to be dropped.

**The refinement.** `ImplementsGrace` reads each block of a ring as its stamp (`Stamps`)
and each place of the code as the place of `JitGrace` it is in (`Place`: a CPU in
`smc_hit` is at `work`, or at `reval` where the walk through its ring called it).
There is a lemma for each group of places: a step within a group changes nothing
`JitGrace` sees, and one that leaves it, or that takes a stamp, publishes, or looks
at another CPU, is the action of that name there. `Locals`, which `CodeInv` has for
its own sake, says where a hit returns to. `CoherenceNoCircularWait` then follows from
the theorem about `JitGrace`, instantiated with the same mapping: no CPU's wait for room
is circular in the detailed model either.

**The cache.** `RunsValidCode` speaks of the block that runs and not of the cells it
leaves through. `CacheInv` adds that the cell of an entry shows whether its block
is valid (`Entries`); that a linked jump goes to the entry of a block for its own
target (`JumpsGoHome`); that a jump to be linked, unless a flush came in between,
is still a jump to `eip` and still goes to its slow path (`SiteOK`); and what
`jit_run` holds at each of its places (`Local`): among them that no block starts at
`eip` where one is being made, so that the table has one block for each start, and
that there is room for the largest block where one is emitted. Then a jump
arrives at a block for the guest's target, and runs it only if it is valid. For
`CacheDrops`, a block that covers a word starts less than `3 * MaxBlock` words
below it, within the window, and is the one that `lookup` finds for its start.

**The emitted code.** `CacheIsCurrent` speaks of the moments between instructions, and within
one every helper may give a register away, which stores what is held back and forgets
words. The proof has three layers.

- Numbers: `Rd` and `Wr` of words that are anywhere in memory, aligned or not. An
  unaligned store is seen by the two words it spans as `update_spanned` puts them together, from
  masks and shifts (`MaskedOr`, `Shifted`), for bytes of any size. The word a store reaches is
  in the page of its first byte or in the next (`PageOfSpan`), for pages of any number of
  words, so that a marked page and the one before it are enough for `Test`.
- Helpers: `Fits(j, K)` says that every word the cache knows, as a constant, a register or
  an alias, has its value in the view `K`, and that a held back word is known; `Whole(j, K)`
  is memory with the held back word stored. Each helper is then one lemma: it `Keeps` these
  (what is pinned stays, words may be forgotten, and what was held back is still held back or
  stored, with `Whole` the same), or changes the view in the one word it is about
  (`SetAlias`, `Bind`, `SetConst`). `Tight` is `Keeps` by a helper that makes nothing known.
  That an eviction in `SetAlias` or `Release` may happen
  anywhere is covered once, there.
- Steps: `IInv` says for each of the five places of an instruction what the translator has.
  Until the result is stored, memory with what is held back is the guest's and the cache fits
  it (`Ready`). From `Fetch` on, each field known or in a pinned register stands for its value
  (`InsnOk`); after `Test`, the words of the store's target have no translated code, and a computed
  target is still in its pinned register (`StoreChecked`); after `Operands`, both operands
  stand for what the interpreter reads, and the branch target is not in the register that the
  result will be computed in, unless that is no loss (`OperandsRead`). After `Compute` the
  whole is the guest's memory after the instruction, the result and the flags are the
  guest's, and for an unaligned store the cache fits the memory before it, until `Branch`
  has run `UpdateSpanned` (`Stored`). At every place what is held back is at a word without
  translated code, which is what `CodeUntouched` needs of a store that is made
  several instructions after its test.

`Stored` is also where `~OwnC` comes in: the target of a computed branch is read before the
store, and is right after it only if the store did not go there. TLC checked `IInv` as an
invariant on the instance of `jit_emit` before it was proved.

**The handshake.** `BankInv` ties what the guest is doing with an AP to the values its
bank can have (`Protocol`), what a parked AP may be looking at (`Parked`), and where
the thread's eip is at every step of the AP (`Banked`): in `eip` while it runs, in the
bank once it was saved, and in the bank from the guest's write until it is loaded.

**The ring.** `RingInv` is `WritesArriveInOrder` with the types (`RingTyped`) and what holds
between the steps of one handler (`BetweenSteps`): where the entry was found free, the
tail has a place to go to, whatever the flush does meanwhile; the entry behind the
tail is the one sent before the tail shows it; and between the flush's write and its
head there is an entry to take. Then each step either leaves the sequence of what is
owed as it is, or takes one from the front of what is to be written to the end of what
is in the registers (a written 0 is owed to nobody), or appends one at the tail.
`PacketsInBounds` needs besides only that what the last AP loaded from `packet_i`
was in the array (`BoundsInv`).

**The clicks.** `ClickInv` says of one CPU, at each of its places, that the changes the
guest has yet to see are the one in the registers, if they show one, then those of
the packets in order, then the one of a packet that has no place yet (`Waiting`,
`Popping`, `Writing`, by where `mouse_update` is), and that each differs from the one
before (`Chain`), which is what makes the comparison of neighbours in
`mouse_handler` enough. `OutOfCorner` gives that registers which are zero were read
(`Cleared`).

**Memory.** `BootInv` has the type of the allocator; that what is free and what was given
lies in usable memory, outside of the bitmap, and that no page is in two of these
(`PmOwners`); and that the page before the hint is not free (`PmHint`), which
`KmallocFindsRun` does not say and without which it fails at the next call. A run of
free pages then lies on one side of the hint, where one of the two passes finds
it. That an entry's pages lie within it (`EntryPagesAre`) is arithmetic of roundings,
for any page size. `EndInv` says that `lastptrs` are the frames of the newest pages, newest
first, each in a small entry with no large page over it (`Newest`): a call of
`map_page` that fails changes none of them, and one that succeeds adds the next.

**The guest's memory.** Addresses have one right frame each (`FrameOf`), whichever loop
maps them, and `MapInv` says that every large page shows the right frames
(`LargeRight`), that the loops left map each page to its right frame, and large pages
only within the direct map (`Loops`), and that every page of every loop is either shown
right or still to come (`Progress`). `map_page` may fail where a large page is, and
`map_page_2m` may throw away a table: by `LargeRight` what is shown then is right
all the same, which is why nobody's looking at the results does no harm. A call that
fails for want of a table leaves no free page, and free pages only go down, so the guest
gets none: the other case of `MapInv`, and the property's `pg > 0`. For
`GuestMemoryWhole`, `RoomInv` bounds the guest's pages with those still free, so that they
stay below the direct map and its large pages; `JitInv` says that the translator's
maps cover that room (they were sized for it, and it only shrinks); and `OwnedInv` that
the tables and the guest's pages are pages handed out one at a time, no two of them
the same, so that by `OneOwner` no frame is shared.

**The keyboard.** Bytes wait on the wire while keys change, so both properties speak of the
future: `After` says what a modifier will be once the handler has taken the first n
bytes. `KeysInv` has that the wire is made of whole codes, prefixes included
(`WellFormed`), and that after all of it no modifier is active without a key of it
down (`NoneSticks`). `CodesInv` adds that each byte was recorded with the modifiers the
handler will have when it comes to it (`Recorded`), and that after all of them it has
those that are held (`CatchesUp`), which needs `OneOfEach`.

Only model-checked:

- liveness (`StaleCodeGoes`, `TranslationEnds`, the banks' answers, `HeadMoves`): the
  prover has no fairness or ENABLED;
- the translator's coherence with a store buffer (`jit_buffered`);
- `CopyIsTheLoop`: what nineteen instructions compute when iterated, by induction over
  data.

## 5. Plan

Done: the models of section 2 with their runs, and the theorems above. Eight modules hold
proofs, one for each model but `JitCopy` and `JitEmit`; further ones go into these.
Next, in this order:

1. `BakedFieldsAreMarked` with a store buffer: `Control` and `Baked` restated for marks that
   are still on their way.
2. That an instruction leaves a register free for every `scratch`, which some do not (see
   findings), under a bound on dynamic fields and aliases that the translator could test.
3. Per-CPU set-up of the APs (`smp.c`), with the counts the timer relies on.

## 6. Not modelled, and why

- Instruction encoders, `jit.asm`, interrupt tables, ACPI, PIT and APIC
  programming, drawing: code without state of its own, or formats fixed by
  hardware.
- `dawn_redraw_screen`: pixel copies guided by one counter.
- Of guest set-up: panics when the boot loader did not answer, CPU features, the
  choice of the word copy by time, device registers and clock: straight code without
  a decision that later state depends on.
- `kmfree`, `kfree`, `krealloc`: nothing calls them. (`kfree` steps back from its pointer
  in units of the header, klib.c 78, and would free other pages.)
- `jit_sample`, `jit_top_samples` and the statistics: nothing but reports reads them.
- The compiler: variables that are not volatile (the ring's head and tail, the
  packets) are read and written in program order in the models.
- Dawn itself: external, as far as the code here depends on it.
