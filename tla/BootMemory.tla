------------------------------- MODULE BootMemory -------------------------------
(* Memory at boot: the page allocator (pmm.c), page tables (paging.c) and what *)
(* dawn_init builds with them (dawn.c 147-279, 470-483): the two buffers, the  *)
(* kernel's and the guest's address space, the translator's tables (jit_init)  *)
(* and all that is left as guest memory.  One CPU runs it, interrupts off;     *)
(* what differs is the machine: its memory map, kernel, devices and CPUs.      *)
(* An address is counted in bytes, PageSize to the page; page numbers are      *)
(* addresses divided by PageSize.                                              *)
EXTENDS Integers, Sequences, FiniteSets, SequencesExt, FiniteSetsExt, TLC

CONSTANTS
  PageSize,                   \* bytes of a page (4096)
  SizeT,                      \* values of a size_t
  BITMAP_BASE,                \* the first page handed out (4096)
  Fan,                        \* entries of a page table (512), pages of a large page
  DawnPages,                  \* pages of the guest's image (65536)
  HhdmPage,                   \* the page hhdm_offset is
  CpuSize, HashSize,          \* sizeof(jit_cpu_t), bytes of a hash table
  CodeSize, BlockSize, LinkSize, MetaSize,  \* bytes for a block's code, record,
                              \* link and metadata word (512, sizeof, sizeof, 8)
  MinBlocks, MaxBlocks,       \* block records worth having (4096), at most (2^18)
  JIT_MAX_CPUS, JIT_CPU_BYTES,
  Machines                    \* memory map (map, a sequence of records of base,
                              \* len and type), the kernel's segments (segments,
                              \* of vaddr and memsz) and bases (kphys, kvirt), the
                              \* image's page (ramdisk), the APICs' pages (apics),
                              \* bytes of a buffer (screen) and CPUs (ncpus)

ASSUME BootAssumption ==
  /\ {PageSize, SizeT, BITMAP_BASE} \subseteq Nat \ {0} /\ Fan \in Nat \ {0, 1}
  /\ {DawnPages, JIT_CPU_BYTES} \subseteq Nat
  /\ {CpuSize, HashSize, CodeSize, BlockSize, LinkSize, MetaSize, MinBlocks, MaxBlocks,
      JIT_MAX_CPUS} \subseteq Nat \ {0}
  /\ HhdmPage \in Nat /\ HhdmPage % Fan = 0
  /\ \A m \in Machines :
       /\ m.map \in Seq([base : Nat, len : Nat, type : STRING])
       /\ m.segments \in Seq([vaddr : Nat, memsz : Nat])
       /\ {m.kphys, m.kvirt} \subseteq Nat
       /\ m.kphys % PageSize = 0 /\ m.kvirt % PageSize = 0
       /\ \A g \in Range(m.segments) : m.kvirt <= g.vaddr
       /\ m.ramdisk \in Nat \ {0} /\ m.apics \in Seq(Nat)
       /\ m.screen \in Nat /\ m.ncpus \in Nat \ {0}

VARIABLES
  machine,  \* the machine, of Machines
  at,       \* the step: "init", "buffers", "pagemap", "map", "jit", "grow",
            \* "fill", then "run"; or "panic", "hang"
  pm,       \* the allocator: free pages, the hint last_alloc_page, max_page, the
            \* bitmap's own pages, and every allocation so far
  pt,       \* dawn_pagemap: its tables by level and index, 4K and 2M entries
  calls,    \* what is still to be done: loops that map pages, then jit_os_alloc
  jit,      \* the translator: on, whether it got what it asked for, the sizes
            \* of its maps, mem_size
  pg,       \* pages of guest memory after the image
  last,     \* lastptrs, newest first
  filled    \* the frames filled with ones

vars == <<machine, at, pm, pt, calls, jit, pg, last, filled>>

Null == 0
CeilDiv(a, b) == (a + b - 1) \div b

-------------------------------------------------------------------------------
(* pmm.c                                                                       *)

\* the last page of the first run of k free pages between lo and hi
RunEnds(p, lo, hi, k) == {i \in lo..(hi - 1) : i - k + 1 >= lo /\ (i - k + 1)..i \subseteq p.free}

\* Mutant: the hint is a page too far
HintAhead(i) == i + 2

\* where the next search begins
HintAfter(i) == i + 1

Taken(p, i, k) ==
  [p EXCEPT !.free = @ \ (i - k + 1)..i, !.hint = HintAfter(i), !.given = Append(@, (i - k + 1)..i)]

\* kmalloc: from the hint up, then from the first page to the hint
Kmalloc(p, k) ==
  LET up == RunEnds(p, p.hint, p.max, k)
      low == RunEnds(p, BITMAP_BASE, p.hint, k)
      i == IF up # {} THEN Min(up) ELSE Min(low)
  IN  IF up = {} /\ low = {} THEN [p |-> p, page |-> Null]
      ELSE [p |-> Taken(p, i, k), page |-> i - k + 1]

\* kalloc: a page more, for its size
Kalloc(p, bytes) == Kmalloc(p, CeilDiv(bytes, PageSize) + 1).p

PmmFreePages(p) == Cardinality(p.free)

Usable(e) == e.type = "usable"

\* the first page that begins in an entry, and the first page past those that
\* end in it
FirstPage(e) == CeilDiv(e.base, PageSize)
EndPage(e) == (e.base + e.len) \div PageSize

NewMaxPage(map) ==
  LET counted == {i \in DOMAIN map : map[i].type \in {"usable", "reclaimable"}}
  IN  Max({0} \cup {map[i].base + map[i].len : i \in counted}) \div PageSize

BitmapPages(map) ==
  LET bits == (NewMaxPage(map) - BITMAP_BASE) % SizeT
  IN  CeilDiv(((bits + 7) % SizeT) \div 8, PageSize)

\* where the bitmap goes: the first usable entry that holds it
BitmapStart(e) == IF FirstPage(e) < BITMAP_BASE THEN BITMAP_BASE ELSE FirstPage(e)
Holds(e, k) == Usable(e) /\ EndPage(e) > BitmapStart(e) /\ EndPage(e) - BitmapStart(e) >= k

\* Mutant: the length is rounded up
EntryPagesLong(e) ==
  FirstPage(e)..(FirstPage(e) + CeilDiv(e.len, PageSize) - 1)

\* the pages of an entry: its length rounded down, less one if its base is not
\* aligned
EntryPages(e) ==
  LET k == e.len \div PageSize
      n == IF e.base % PageSize # 0 /\ k > 0 THEN k - 1 ELSE k
  IN  FirstPage(e)..(FirstPage(e) + n - 1)

PmmInit ==
  /\ at = "init"
  /\ LET map == machine.map
         k == BitmapPages(map)
         fits == {i \in DOMAIN map : Holds(map[i], k)}
         start == BitmapStart(map[Min(fits)])
         bitmap == start..(start + k - 1)
         free == UNION {EntryPages(map[i]) : i \in {i \in DOMAIN map : Usable(map[i])}}
     IN  IF fits = {}
         THEN at' = "panic" /\ UNCHANGED pm
         ELSE /\ at' = "buffers"
              /\ pm' = [pm EXCEPT !.max = NewMaxPage(map), !.bitmap = bitmap,
                                  !.free = (free \cap BITMAP_BASE..(NewMaxPage(map) - 1)) \ bitmap]
  /\ UNCHANGED <<machine, pt, calls, jit, pg, last, filled>>

-------------------------------------------------------------------------------
(* paging.c.  s has the allocator, the tables and whether the call succeeded.  *)

\* f with an entry written
With(f, x, y) == [u \in DOMAIN f \cup {x} |-> IF u = x THEN y ELSE f[u]]

Table(s, key) ==
  LET k == Kmalloc(s.pm, 1)
  IN  IF ~s.ok \/ key \in DOMAIN s.pt.tables THEN s
      ELSE IF k.page = Null THEN [s EXCEPT !.ok = FALSE]
      ELSE [s EXCEPT !.pm = k.p, !.pt.tables = With(@, key, k.page)]

\* the page directory of page v, and the ones above it
Directory(p, t, v) ==
  Table(Table([pm |-> p, pt |-> t, ok |-> TRUE], <<"pdpt", v \div Fan^3>>),
        <<"pd", v \div Fan^2>>)

MapPage(p, t, frame, v) ==
  LET s == Directory(p, t, v)
      l == Table(s, <<"pt", v \div Fan>>)
  IN  IF ~s.ok \/ v \div Fan \in DOMAIN s.pt.large THEN [s EXCEPT !.ok = FALSE]
      ELSE IF ~l.ok THEN l ELSE [l EXCEPT !.pt.small = With(@, v, frame)]

\* a large page takes the place of a table that was there
MapPage2m(p, t, frame, v) ==
  LET s == Directory(p, t, v)
      d == v \div Fan
      kept == DOMAIN s.pt.tables \ {<<"pt", d>>}
      rest == {u \in DOMAIN s.pt.small : u \div Fan # d}
  IN  IF ~s.ok THEN s
      ELSE [s EXCEPT !.pt.large = With(@, d, frame - (frame % Fan)),
                     !.pt.tables = [key \in kept |-> s.pt.tables[key]],
                     !.pt.small = [u \in rest |-> s.pt.small[u]]]

\* what the machine finds for page v
Translate(v) ==
  IF v \div Fan \in DOMAIN pt.large THEN pt.large[v \div Fan] + (v % Fan)
  ELSE IF v \in DOMAIN pt.small THEN pt.small[v] ELSE Null

-------------------------------------------------------------------------------
(* dawn.c                                                                      *)

AllocBuffers ==
  /\ at = "buffers"
  /\ pm' = Kalloc(Kalloc(pm, machine.screen), machine.screen)
  /\ at' = "pagemap"
  /\ UNCHANGED <<machine, pt, calls, jit, pg, last, filled>>

\* a loop over n pages from v on, mapped to the frames from frame on, in large
\* pages where it may
Pages(frame, v, n, large) == [frame |-> frame, v |-> v, n |-> n, large |-> large]
After(c, k) == Pages(c.frame + k, c.v + k, c.n - k, c.large)

SegmentPages(g) ==
  Pages((machine.kphys + (g.vaddr - machine.kvirt)) \div PageSize, g.vaddr \div PageSize,
        CeilDiv(g.memsz + (g.vaddr % PageSize), PageSize), FALSE)

ShouldMap(type) ==
  type \in {"usable", "reclaimable", "kernel", "framebuffer", "acpi"}

OuterEnd(e) == CeilDiv(e.base + e.len, PageSize)

\* Mutant: the alignment is not tested
LargeHereLoose(a, end) == end - a >= Fan

\* whether a large page can be used at page a of a region
LargeHere(a, end) == a % Fan = 0 /\ end - a >= Fan

\* the boot loader's layout: all the pages of usable memory, after the image,
\* would end below the direct map, which ends below the kernel, and the image
\* is in no usable entry
ASSUME LayoutAssumption ==
  \A m \in Machines :
    /\ DawnPages + NewMaxPage(m.map) <= HhdmPage /\ HhdmPage <= m.kvirt \div PageSize
    /\ \A e \in Range(m.map) : ShouldMap(e.type) => HhdmPage + OuterEnd(e) <= m.kvirt \div PageSize
    /\ \A a \in Range(m.apics) : HhdmPage + a < m.kvirt \div PageSize
    /\ \A p \in m.ramdisk..(m.ramdisk + DawnPages - 1), e \in Range(m.map) :
         Usable(e) => ~(e.base <= p * PageSize /\ (p + 1) * PageSize <= e.base + e.len)

HhdmPages(e) ==
  LET p == e.base \div PageSize
  IN  Pages(p, HhdmPage + p, IF ShouldMap(e.type) THEN OuterEnd(e) - p ELSE 0, TRUE)

Calls ==
  LET segments == machine.segments
      map == machine.map
      apics == machine.apics
  IN  [i \in DOMAIN segments |-> SegmentPages(segments[i])]
      \o [i \in DOMAIN map |-> HhdmPages(map[i])]
      \o [i \in DOMAIN apics |-> Pages(apics[i], HhdmPage + apics[i], 1, FALSE)]
      \o <<Pages(machine.ramdisk, 0, DawnPages, FALSE)>>

NewPagemap ==
  /\ at = "pagemap"
  /\ LET k == Kmalloc(pm, 1)
     IN  IF k.page = Null
         THEN at' = "hang" /\ UNCHANGED <<pm, calls>>
         ELSE at' = "map" /\ pm' = k.p /\ calls' = Calls
  /\ UNCHANGED <<machine, pt, jit, pg, last, filled>>

\* the kernel, the HHDM, the APICs and the image: no result is looked at
MapCall ==
  /\ at = "map" /\ calls # << >>
  /\ LET c == Head(calls)
         large == c.large /\ LargeHere(c.frame, c.frame + c.n)
         s == IF large THEN MapPage2m(pm, pt, c.frame, c.v) ELSE MapPage(pm, pt, c.frame, c.v)
     IN  IF c.n = 0
         THEN calls' = Tail(calls) /\ UNCHANGED <<pm, pt>>
         ELSE /\ pm' = s.pm /\ pt' = s.pt
              /\ calls' = <<After(c, IF large THEN Fan ELSE 1)>> \o Tail(calls)
  /\ UNCHANGED <<machine, at, jit, pg, last, filled>>

DawnMax == (DawnPages + PmmFreePages(pm)) * PageSize

JitMax(n) ==
  LET most == (DawnMax - DawnPages * PageSize) \div 8
      want == 2 * (DawnMax \div 64) + n * JIT_CPU_BYTES
  IN  IF want > most THEN most ELSE want

MapBytes(msize) == LET b == msize \div 64 + 15 IN b - (b % 8)
PageBytes(msize) == msize \div PageSize + 1

\* what jit_init takes beside the code and the records, and how many records
\* of a block fit into the rest
Fixed(n) == 2 * MapBytes(DawnMax) + PageBytes(DawnMax) + n * (CpuSize + HashSize)
BlocksIn(n, max) ==
  LET unit == CodeSize + BlockSize + 2 * LinkSize + 16 * MetaSize
      fit == ((max - Fixed(n)) \div n) \div unit
  IN  IF fit > MaxBlocks THEN MaxBlocks ELSE fit

\* an allocation, and whether those up to it are checked after it
Alloc(bytes, check) == [bytes |-> bytes, check |-> check]

\* the maps, then for every CPU its record and its five arrays
JitCalls(n, blocks) ==
  LET maps == <<Alloc(MapBytes(DawnMax) + PageBytes(DawnMax), FALSE), Alloc(MapBytes(DawnMax), TRUE)>>
      cpu == <<Alloc(CpuSize, TRUE), Alloc(CodeSize * blocks, FALSE), Alloc(BlockSize * blocks, FALSE),
               Alloc(2 * LinkSize * blocks, FALSE), Alloc(16 * MetaSize * blocks, FALSE),
               Alloc(HashSize, TRUE)>>
  IN  [i \in 1..(2 + 6 * n) |-> IF i <= 2 THEN maps[i] ELSE cpu[((i - 3) % 6) + 1]]

\* jit_init
SetUpJit ==
  /\ at = "map" /\ calls = << >>
  /\ LET n == IF machine.ncpus > JIT_MAX_CPUS THEN JIT_MAX_CPUS ELSE machine.ncpus
         max == JitMax(machine.ncpus)
     IN  IF max <= Fixed(n) \/ BlocksIn(n, max) < MinBlocks
         THEN at' = "grow" /\ UNCHANGED calls
         ELSE at' = "jit" /\ calls' = JitCalls(n, BlocksIn(n, max))
  /\ jit' = [on |-> FALSE, ok |-> TRUE, map |-> MapBytes(DawnMax), pages |-> PageBytes(DawnMax),
             mem |-> DawnMax]
  /\ UNCHANGED <<machine, pm, pt, pg, last, filled>>

\* jit_os_alloc; whatever failed ends jit_init at the next check, and what it
\* has is not given back
JitAlloc ==
  /\ at = "jit"
  /\ LET c == Head(calls)
         k == Kmalloc(pm, CeilDiv(c.bytes, PageSize))
         ok == jit.ok /\ k.page # Null
     IN  /\ pm' = k.p
         /\ calls' = IF c.check /\ ~ok THEN << >> ELSE Tail(calls)
         /\ at' = IF calls' = << >> THEN "grow" ELSE "jit"
         /\ jit' = [jit EXCEPT !.ok = ok, !.on = ok /\ calls' = << >>]
  /\ UNCHANGED <<machine, pt, pg, last, filled>>

Shift(p) == SubSeq(<<p>> \o last, 1, IF Len(last) < 4 THEN Len(last) + 1 ELSE 4)

\* Mutant: the page is noted before it is mapped
NotedEarly(mapped, p) == Shift(p)

\* lastptrs once page p was taken
Noted(mapped, p) == IF mapped THEN Shift(p) ELSE last

\* a page more for the guest, until there is none for it or for its tables
GrowGuest ==
  /\ at = "grow"
  /\ LET k == Kmalloc(pm, 1)
         s == MapPage(k.p, pt, k.page, DawnPages + pg)
     IN  IF k.page = Null THEN at' = "fill" /\ UNCHANGED <<pm, pt, pg, last>>
         ELSE /\ pm' = s.pm /\ pt' = s.pt
              /\ last' = Noted(s.ok, k.page)
              /\ IF s.ok THEN pg' = pg + 1 /\ UNCHANGED at ELSE at' = "fill" /\ UNCHANGED pg
  /\ UNCHANGED <<machine, calls, jit, filled>>

\* Mutant: the translator keeps the size it was set up for
MemSizeUntold == jit.mem

\* jit_set_mem_size, if the translator is on
MemSize == IF jit.on THEN (DawnPages + pg) * PageSize ELSE jit.mem

\* the end of memory is marked, the translator told its size, and the tables
\* are loaded
Finish ==
  /\ at = "fill"
  /\ filled' = Range(last)
  /\ jit' = [jit EXCEPT !.mem = MemSize]
  /\ at' = "run"
  /\ UNCHANGED <<machine, pm, pt, calls, pg, last>>

Done == at \in {"run", "panic", "hang"} /\ UNCHANGED vars

Init ==
  /\ machine \in Machines
  /\ at = "init"
  /\ pm = [free |-> {}, hint |-> BITMAP_BASE, max |-> 0, bitmap |-> {}, given |-> << >>]
  /\ pt = [tables |-> << >>, small |-> << >>, large |-> << >>]
  /\ calls = << >>
  /\ jit = [on |-> FALSE, ok |-> TRUE, map |-> 0, pages |-> 0, mem |-> 0]
  /\ pg = 0 /\ last = << >> /\ filled = {}

Next ==
  \/ PmmInit \/ AllocBuffers \/ NewPagemap \/ MapCall \/ SetUpJit \/ JitAlloc
  \/ GrowGuest \/ Finish \/ Done

Spec == Init /\ [][Next]_vars

-------------------------------------------------------------------------------
(* No page is handed out twice, and every one lies wholly in usable memory,    *)
(* above the low pages and outside the bitmap (pmm_init's two passes round     *)
(* entries in different ways, and kmalloc's passes go by a hint).              *)
OneOwner ==
  /\ \A i, k \in DOMAIN pm.given : i # k => pm.given[i] \cap pm.given[k] = {}
  /\ \A p \in UNION Range(pm.given) :
       /\ p >= BITMAP_BASE /\ p \notin pm.bitmap
       /\ \E e \in Range(machine.map) :
            Usable(e) /\ e.base <= p * PageSize /\ (p + 1) * PageSize <= e.base + e.len

(* kmalloc fails only when it must: whatever number of pages is asked for at   *)
(* any point of the boot, if that many are free in a row they are found,       *)
(* though neither pass looks at a run that lies across the hint (pmm.c 96).    *)
KmallocFindsRun ==
  \A k \in 1..(pm.max - BITMAP_BASE) :
    Kmalloc(pm, k).page = Null => RunEnds(pm, BITMAP_BASE, pm.max, k) = {}

GuestFrames == {Translate(v) : v \in 0..(DawnPages + pg - 1)}

(* When the guest starts, its memory is the image and then pages of its own,   *)
(* without a hole and without one frame twice, and a translator that is on has *)
(* exactly that size and maps with a bit for every word and a byte for every   *)
(* page of it, though they were sized before the memory was shared out.        *)
GuestMemoryWhole ==
  at = "run" /\ pg > 0 =>
    /\ Null \notin GuestFrames /\ Cardinality(GuestFrames) = DawnPages + pg
    /\ \A v \in DawnPages..(DawnPages + pg - 1) : {Translate(v)} \in Range(pm.given)
    /\ GuestFrames \cap Range(pt.tables) = {}
    /\ jit.on => /\ jit.mem = (DawnPages + pg) * PageSize
                 /\ (jit.mem - 1) \div 64 < jit.map
                 /\ (jit.mem - 1) \div PageSize < jit.pages

(* The pages filled with ones are the last four of guest memory, or all there  *)
(* are after the image, though the page that ran out of tables was taken too.  *)
EndIsMarked ==
  at = "run" =>
    filled = {Translate(v) : v \in {v \in DawnPages..(DawnPages + pg - 1) : v >= DawnPages + pg - 4}}

(* A guest that got any memory runs with every mapping made: no result of      *)
(* map_page is looked at before, but a table that could not be allocated       *)
(* leaves no page for the guest either, and the calls that fail or replace a   *)
(* table where small and large pages meet leave each address its own frame.    *)
MappingsComplete ==
  at = "run" /\ pg > 0 =>
    /\ \A e \in Range(machine.map) : ShouldMap(e.type) =>
         \A p \in (e.base \div PageSize)..(OuterEnd(e) - 1) : Translate(HhdmPage + p) = p
    /\ \A p \in Range(machine.apics) : Translate(HhdmPage + p) = p
    /\ \A g \in Range(machine.segments) : \A a \in g.vaddr..(g.vaddr + g.memsz - 1) :
         Translate(a \div PageSize) = (machine.kphys + (a - machine.kvirt)) \div PageSize
    /\ \A i \in 0..(DawnPages - 1) : Translate(i) = machine.ramdisk + i
===============================================================================
