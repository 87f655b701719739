------------------------------- MODULE JitBlock -------------------------------
(* The code the translator emits for one block (kernel/src/jit.c 540-1425 and *)
(* 1554-1645): translate_insn and the machine that runs what it emits, in step *)
(* along the straight path of the block, against the interpreter.  J holds    *)
(* both sides: regs, consts, aliases, pend and pinned are what the translator *)
(* knows at this point of the block; reg, mem and flags are what the machine  *)
(* has when it gets there.  gmem is the guest's memory had it interpreted.    *)
(* A word has WordBytes bytes, big-endian, of Radix values each.  Static      *)
(* fields are constants (that they stay so is JitCoherence's subject); a      *)
(* dynamic field is a word of memory.                                         *)
EXTENDS Integers, FiniteSets, FiniteSetsExt, Functions

CONSTANTS
  NREGS, NCONST, NALIAS,  \* the sizes of the register cache (11, 16, 16)
  WordBytes, Radix,       \* bytes of a word (8) and values of a byte (256)
  MemWords,               \* words of guest memory
  PageBytes,              \* bytes of a page of the page map (4096)
  HW,                     \* the device words, between HW_LO and HW_HI
  UseMovbe,               \* whether stores swap bytes by themselves
  NextPc,                 \* the address of the next instruction, p + 24
  Blocks,                 \* the blocks: the addresses their static A and B
                          \* fields and targets their C fields may hold (a, b,
                          \* c), the words that may be dynamic fields (dyn), the
                          \* bound on their length (len), memory at their entry
                          \* (mem), the words with translated code (marked) and
                          \* those found without on entry (hoist)
  OwnC                    \* whether an instruction may store to its own C field

VARIABLES
  J,       \* the translator's jit_cpu_t and the machine's state
  x,       \* the instruction being translated
  gmem,    \* the guest's memory
  at,      \* the step: "fetch", "test", "operands", "compute", "branch", "left"
  fields,  \* the words that were dynamic fields of this block
  n,       \* instructions begun
  blk,     \* the block, of Blocks
  exit     \* where the block left to, and where the guest goes

vars == <<J, x, gmem, at, fields, n, blk, exit>>

None == -1
Regs == 1..NREGS
Pow[k \in 0..WordBytes] == IF k = 0 THEN 1 ELSE Radix * Pow[k - 1]
Word == Pow[WordBytes]
Value == 0..(Word - 1)
Bytes == 0..(MemWords * WordBytes - 1)
Words == {w * WordBytes : w \in 0..(MemWords - 1)}
Addresses == 0..((MemWords - 1) * WordBytes)
Memories == [Bytes -> 0..(Radix - 1)]

\* a block has no word both translated before it was and found without
ASSUME BlockAssumption ==
  /\ {NCONST, NALIAS, MemWords} \subseteq Nat \ {0} /\ NREGS \in Nat \ 0..2
  /\ {WordBytes, Radix} \subseteq Nat \ {0, 1}
  /\ PageBytes \in Nat \ {0} /\ PageBytes % WordBytes = 0
  /\ UseMovbe \in BOOLEAN /\ OwnC \in BOOLEAN
  /\ \A e \in Blocks :
       /\ e.dyn \subseteq Words /\ e.mem \in Memories
       /\ e.marked \subseteq Words /\ e.marked \cap e.hoist = {}

Signed(v) == IF v >= Word \div 2 THEN v - Word ELSE v
Down(a) == a - (a % WordBytes)
Aligned(a) == a % WordBytes = 0
SpanOf(a) == {Down(a), Down(a + WordBytes - 1)}

\* the number that the first k bytes from a on make
Num(m, a, k) ==
  LET sum[i \in 0..WordBytes] == IF i = 0 THEN 0 ELSE Radix * sum[i - 1] + m[a + i - 1]
  IN  sum[k]

Rd(m, a) == Num(m, a, WordBytes)

Wr(m, a, v) ==
  [b \in DOMAIN m |-> IF b \in a..(a + WordBytes - 1)
                      THEN (v \div Pow[a + WordBytes - 1 - b]) % Radix ELSE m[b]]

-------------------------------------------------------------------------------
(* The register cache.                                                        *)

NoVal == [kind |-> "none", reg |-> None, val |-> 0]
RegVal(r) == [kind |-> "reg", reg |-> r, val |-> 0]
NegVal(r) == [kind |-> "neg", reg |-> r, val |-> 0]
ConstVal(v) == [kind |-> "const", reg |-> None, val |-> v]
InReg(v) == v.kind \in {"reg", "neg"}
IsZero(v) == v = ConstVal(0)

Cacheable(a) == Aligned(a) /\ a \notin HW

NoConst == [addr |-> None, val |-> 0]
NoAlias == [addr |-> None, reg |-> None, neg |-> FALSE]

CacheDrop(j, a) ==
  [j EXCEPT !.regs = [r \in Regs |-> IF @[r] = a THEN None ELSE @[r]],
            !.consts = [i \in 1..NCONST |-> IF @[i].addr = a THEN NoConst ELSE @[i]],
            !.aliases = [i \in 1..NALIAS |-> IF @[i].addr = a THEN NoAlias ELSE @[i]]]

CacheDropAll(j) ==
  [j EXCEPT !.regs = [r \in Regs |-> None],
            !.consts = [i \in 1..NCONST |-> NoConst],
            !.aliases = [i \in 1..NALIAS |-> NoAlias]]

\* what cache_find returns; what it does to the order of use is Touch
Find(j, a) ==
  LET First(S, v) == IF S = {} THEN v ELSE CHOOSE e \in S : TRUE
  IN  IF ~Cacheable(a) THEN NoVal
      ELSE First({ConstVal(e.val) : e \in {e \in Range(j.consts) : e.addr = a}},
           First({RegVal(r) : r \in {r \in Regs : j.regs[r] = a}},
           First({IF e.neg THEN NegVal(e.reg) ELSE RegVal(e.reg) :
                    e \in {e \in Range(j.aliases) : e.addr = a}}, NoVal)))

\* r was used last: the registers used since it was go down by one
Use(j, r) ==
  [j EXCEPT !.lru = [q \in Regs |-> IF q = r THEN NREGS ELSE IF @[q] > @[r] THEN @[q] - 1 ELSE @[q]]]
Touch(j, v) == IF InReg(v) THEN Use(j, v.reg) ELSE j
Pin(j, v) == IF InReg(v) THEN [j EXCEPT !.pinned = @ \cup {v.reg}] ELSE j
Unpin(j, r) == [j EXCEPT !.pinned = @ \ {r}]

Aliased(j, r) == \E i \in 1..NALIAS : j.aliases[i].reg = r

SetConst(j, a, v) ==
  LET d == CacheDrop(j, a)
      free == {i \in 1..NCONST : d.consts[i] = NoConst}
  IN  IF ~Cacheable(a) THEN d
      ELSE IF free # {}
      THEN [d EXCEPT !.consts[Min(free)] = [addr |-> a, val |-> v]]
      ELSE [d EXCEPT !.consts[d.cnext] = [addr |-> a, val |-> v],
                     !.cnext = (@ % NCONST) + 1]

\* the words that stood for register r no longer do
Forget(j, r) ==
  [j EXCEPT !.regs[r] = None,
            !.aliases = [i \in 1..NALIAS |-> IF @[i].reg = r THEN NoAlias ELSE @[i]]]

\* the register scratch takes: a free one, or the least recently used
Victim(j) ==
  LET open == Regs \ j.pinned
      free == {r \in open : j.regs[r] = None /\ ~Aliased(j, r)}
  IN  IF free # {} THEN Min(free)
      ELSE CHOOSE r \in open : \A q \in open : j.lru[r] <= j.lru[q]

\* no register left: scratch would take none, and the model goes no further
Spent(j) == Regs \subseteq j.pinned
OutOfRegs(j) == [j |-> [j EXCEPT !.out = TRUE], r |-> 1]

\* scratch while nothing is held back
TakePlain(j, r) == [j |-> Forget([j EXCEPT !.pinned = @ \cup {r}], r), r |-> r]
ScratchPlain(j) == IF Spent(j) THEN OutOfRegs(j) ELSE TakePlain(j, Victim(j))

Neg(v) == (Word - v) % Word
FlagsOf(b, a) == IF Signed(b) <= Signed(a) THEN "le" ELSE "gt"
FlagsOfAdd(b, r) == IF Signed(b) + Signed(r) <= 0 THEN "le" ELSE "gt"

\* what a cval stands for when the machine gets here
ValueOf(j, v) ==
  CASE v.kind = "const" -> v.val
    [] v.kind = "reg" -> j.reg[v.reg]
    [] v.kind = "neg" -> Neg(j.reg[v.reg])

\* load the register of a scratch result with a word, or a cval
Give(s, w) == [s EXCEPT !.j.reg[s.r] = w]
Clobber(s) == [s EXCEPT !.j.flags = "none"]

\* negating clobbers the flags, unless a branch still needs them
Negated(s, v) ==
  IF v.kind = "neg" /\ ~s.j.live
  THEN Clobber(Give(s, ValueOf(s.j, v))) ELSE Give(s, ValueOf(s.j, v))

\* to_reg, with the scratch operator the caller can use
ToRegWith(Scr(_), j, v) ==
  IF v.kind = "reg" THEN [j |-> j, r |-> v.reg] ELSE Negated(Scr(Pin(j, v)), v)

\* store_reg and store_const: t is taken to swap the bytes, and stays pinned
StoreReg(j, r, a) ==
  LET Put(s) == [s.j EXCEPT !.mem = Wr(@, a, s.j.reg[s.r])]
  IN  Put(IF UseMovbe THEN [j |-> j, r |-> r] ELSE Give(ScratchPlain(j), j.reg[r]))

ShortConst(v) == v \in {0, Word - 1}  \* a sign-extended imm32 either way round

StoreConst(j, v, dyn, a) ==
  LET s == IF ~dyn /\ ShortConst(v) THEN j ELSE Give(ScratchPlain(j), v).j
  IN  [s EXCEPT !.mem = Wr(@, a, v)]

\* store v at a: its register is kept pinned meanwhile, then as it was, and one
\* taken for it is given back
FlushValue(j, a, v) ==
  LET Put(s) == [StoreReg(s.j, s.r, a) EXCEPT !.pinned = @ \ ({s.r} \ {v.reg})]
  IN  IF v.kind = "const" THEN StoreConst(j, v.val, FALSE, a)
      ELSE [Put(ToRegWith(ScratchPlain, Pin(j, v), v)) EXCEPT !.pinned = @ \ ({v.reg} \ j.pinned)]

HeldBack(j) == IF j.pend = None THEN NoVal ELSE Find(j, j.pend)

FlushPending(j) ==
  LET Flush(v) == FlushValue(Touch([j EXCEPT !.pend = None], v), j.pend, v)
  IN  IF j.pend = None THEN j ELSE Flush(HeldBack(j))

\* before register r's value goes or changes
Release(j, r) ==
  LET Let(v) == IF InReg(v) /\ v.reg = r THEN FlushPending(Touch(j, v)) ELSE Touch(j, v)
  IN  Forget(Let(HeldBack(j)), r)

Take(j, r) == [j |-> Release([j EXCEPT !.pinned = @ \cup {r}], r), r |-> r]
Scratch(j) == IF Spent(j) THEN OutOfRegs(j) ELSE Take(j, Victim(j))

ToReg(j, v) == ToRegWith(Scratch, j, v)

SetAlias(j, a, r, neg) ==
  LET d == CacheDrop(j, a)
      new == [addr |-> a, reg |-> r, neg |-> neg]
      free == {i \in 1..NALIAS : d.aliases[i] = NoAlias}
      f == IF d.pend # None /\ d.pend = d.aliases[d.anext].addr THEN FlushPending(d) ELSE d
  IN  IF ~Cacheable(a) THEN d
      ELSE IF free # {} THEN [d EXCEPT !.aliases[Min(free)] = new]
      ELSE [f EXCEPT !.aliases[d.anext] = new, !.anext = (@ % NALIAS) + 1]

Bind(j, r, a) ==
  IF ~Cacheable(a) THEN j ELSE Use([CacheDrop(j, a) EXCEPT !.regs[r] = a], r)

-------------------------------------------------------------------------------
(* Values put together from parts: every operator gives the state and a cval. *)

Of(s) == [j |-> s.j, v |-> RegVal(s.r)]

Shl(v, k) == (v * Pow[k]) % Word
Shr(v, k) == v \div Pow[k]

\* v shifted by k bytes, as a new value; clobbers the flags
Shifted(j, v, left, k) ==
  LET Sh(w) == IF left THEN Shl(w, k) ELSE Shr(w, k)
      Copy(s, r) == Of(Clobber(Give(s, Sh(s.j.reg[r]))))
      From(p) == Copy(Scratch(p.j), p.r)
  IN  IF v.kind = "const" THEN [j |-> j, v |-> ConstVal(Sh(v.val))] ELSE From(ToReg(j, v))

\* register r with v's bits: the parts put together have no bit in common
OrVal(j, r, v) ==
  LET Or(t) == Clobber([t EXCEPT !.j.reg[r] = (@ + t.j.reg[t.r]) % Word]).j
      Put(t) == IF v.kind # "reg" THEN Unpin(Or(t), t.r) ELSE Or(t)
  IN  IF IsZero(v) THEN j ELSE Put(ToReg(j, v))

\* a word that is cached, or loaded and cached, held back or not
LoadWord(s, a) == [s EXCEPT !.j = Bind(Give(s, Rd(s.j.mem, a)).j, s.r, a)]

GetWord(j, a) ==
  LET covered == j.pend # None /\ ~Aligned(a) /\ j.pend \in SpanOf(a)
      Hit(v) == [j |-> Pin(Touch(j, v), v), v |-> v]
  IN  IF Find(j, a) # NoVal THEN Hit(Find(j, a))
      ELSE Of(LoadWord(Scratch(IF covered THEN FlushPending(j) ELSE j), a))

Joins(j, a) ==
  /\ ~Aligned(a) /\ \A w \in SpanOf(a) : Cacheable(w)
  /\ \E w \in SpanOf(a) : Find(j, w) # NoVal

\* one register or constant with the parts in s.v and h.v
Merged(s, h) ==
  IF s.v.kind = "const" /\ h.v.kind = "const"
  THEN [j |-> h.j, v |-> ConstVal(s.v.val + h.v.val)]
  ELSE IF s.v.kind = "const"
  THEN [j |-> OrVal(h.j, h.v.reg, s.v), v |-> h.v]
  ELSE [j |-> OrVal(h.j, s.v.reg, h.v), v |-> s.v]

\* an unaligned word from the two it spans, lo and hi if they are cached
Joined(j, a, lo, hi) ==
  LET k == a % WordBytes
      Part(i, v, w) == IF v = NoVal THEN GetWord(i, w) ELSE [j |-> i, v |-> v]
      High(s, h) == Merged(s, Shifted(s.j, h, FALSE, WordBytes - k))
      Both(l, h) == High(Shifted(h.j, l.v, TRUE, k), h.v)
      With(l) == Both(l, Part(l.j, hi, Down(a) + WordBytes))
  IN  With(Part(Pin(Pin(Touch(Touch(j, lo), hi), lo), hi), lo, Down(a)))

GetStatic(j, a) ==
  IF Joins(j, a) THEN Joined(j, a, Find(j, Down(a)), Find(j, Down(a) + WordBytes))
  ELSE GetWord(j, a)

GiveBack(s) == Unpin(s.j, s.r)

\* (w & keep) | part, keeping w's first k bytes or those after them, the mask
\* in a register of its own
MaskedOr(j, w, first, k, part) ==
  LET Keep(v) == IF first THEN v - (v % Pow[WordBytes - k]) ELSE v % Pow[WordBytes - k]
      And(s, v) == Clobber(Give([s EXCEPT !.j = GiveBack(Scratch(@))], Keep(v)))
      Copy(s, r) == And(s, s.j.reg[r])
      From(p) == Copy(Scratch(p.j), p.r)
      Or(s) == [j |-> OrVal(s.j, s.r, part), v |-> RegVal(s.r)]
  IN  IF w.kind = "const" /\ part.kind = "const"
      THEN [j |-> j, v |-> ConstVal(Keep(w.val) + part.val)]
      ELSE IF w.kind = "const" /\ Keep(w.val) = 0 THEN [j |-> j, v |-> part]
      ELSE Or(IF w.kind = "const" THEN Clobber(Give(Scratch(j), Keep(w.val))) ELSE From(ToReg(j, w)))

SetWord(s, a) ==
  IF s.v.kind = "const" THEN SetConst(s.j, a, s.v.val) ELSE Bind(s.j, s.v.reg, a)

\* after v was stored to unaligned a, the cached words it spans: lo and hi
UpdateWords(j, a, v, lo, hi) ==
  LET k == a % WordBytes
      Or(p, w, first) == MaskedOr(p.j, w, first, k, p.v)
      Low(i) == IF lo = NoVal THEN i
                ELSE SetWord(Or(Shifted(i, v, FALSE, k), lo, TRUE), Down(a))
      High(i) == IF hi = NoVal THEN i
                 ELSE SetWord(Or(Shifted(i, v, TRUE, WordBytes - k), hi, FALSE), Down(a) + WordBytes)
  IN  High(Low(Pin(Pin(Touch(Touch(Pin([j EXCEPT !.pinned = {}], v), lo), hi), lo), hi)))

UpdateSpanned(j, a, v) == UpdateWords(j, a, v, Find(j, Down(a)), Find(j, Down(a) + WordBytes))

-------------------------------------------------------------------------------
(* One instruction, translate_insn: its steps in the code's order.            *)

Static(a) == [dyn |-> FALSE, val |-> a, word |-> None, v |-> NoVal]
Dynamic(w) == [dyn |-> TRUE, val |-> None, word |-> w, v |-> NoVal]

\* a dynamic field known as a constant is static after all
Known(j, f) ==
  IF ~f.dyn THEN f
  ELSE LET v == Find(j, f.word)
       IN  IF v.kind = "const" THEN [f EXCEPT !.dyn = FALSE, !.val = v.val]
           ELSE [f EXCEPT !.v = v]

\* what the field holds for the interpreter
FieldValue(f) == IF f.word = None THEN f.val ELSE Rd(gmem, f.word)

Noted(j, f) == Pin(Touch(j, f.v), f.v)

\* a block begins with nothing cached and nothing held back
NewBlock(m) ==
  [regs |-> [r \in Regs |-> None], lru |-> [i \in Regs |-> i], pinned |-> {},
   consts |-> [i \in 1..NCONST |-> NoConst], cnext |-> 1,
   aliases |-> [i \in 1..NALIAS |-> NoAlias], anext |-> 1,
   pend |-> None, live |-> FALSE, out |-> FALSE,
   reg |-> [r \in Regs |-> 0], mem |-> m, flags |-> "none"]

NoInsn ==
  [a |-> Static(None), b |-> Static(None), c |-> Static(None),
   rb |-> None, rc |-> None, va |-> NoVal, vb |-> NoVal,
   res |-> NoVal]

\* hoist is what the block's static B fields were when the list was made: they
\* may have changed before they are baked in
BlockInit ==
  /\ blk \in Blocks /\ J = NewBlock(blk.mem) /\ gmem = blk.mem
  /\ x = NoInsn /\ at = "fetch" /\ fields = {} /\ n = 0
  /\ exit = [pc |-> None, guest |-> None]

Going(step) == at = step /\ ~J.out

\* what was emitted ran; when registers ran out, none of it did
Ran(j) == J' = IF j.out THEN [J EXCEPT !.out = TRUE] ELSE j

\* a word is a field of one instruction
FieldsOf(values) == {Static(v) : v \in values} \cup {Dynamic(w) : w \in blk.dyn \ fields}

\* an operand outside memory takes a page fault, which ends the guest: such an
\* instruction has no step
Fetch ==
  /\ Going("fetch") /\ n < blk.len
  /\ \E fa \in FieldsOf(blk.a), fb \in FieldsOf(blk.b), fc \in FieldsOf(blk.c) :
       LET dyn == {f \in {fa, fb, fc} : f.dyn}
           j == [J EXCEPT !.pinned = {}]
           a == Known(j, fa)
           b == Known(j, fb)
           c == Known(j, fc)
       IN  /\ Cardinality({f.word : f \in dyn}) = Cardinality({i \in 1..3 : <<fa, fb, fc>>[i].dyn})
           /\ {FieldValue(fa), FieldValue(fb)} \subseteq Addresses
           /\ OwnC \/ b.dyn \/ ~c.dyn \/ b.val # c.word
           /\ x' = [NoInsn EXCEPT !.a = a, !.b = b, !.c = c]
           /\ J' = Noted(Noted(Noted(j, a), b), c)
           /\ fields' = fields \cup {f.word : f \in dyn}
  /\ n' = n + 1 /\ at' = "test"
  /\ UNCHANGED <<gmem, blk, exit>>

\* Mutant: a held back negation leaves as it is in the register
StubStorePlain(j, keep) ==
  LET v == Find(j, j.pend)
      old == IF InReg(v) THEN j.reg[v.reg] ELSE v.val
  IN  IF j.pend = None THEN j ELSE [j EXCEPT !.mem = Wr(@, j.pend, old)]

\* a held back value leaves with the block: stub_store, in a register other
\* than the value's and the one that has the target
StubStore(j, keep) ==
  LET v == Find(j, j.pend)
      t == Min(Regs \ {v.reg, keep})
  IN  IF j.pend = None THEN j
      ELSE [j EXCEPT !.mem = Wr(@, j.pend, ValueOf(j, v)), !.reg[t] = ValueOf(j, v)]

Leave(j, keep, pc, guest) ==
  /\ Ran(StubStore(j, keep))
  /\ exit' = [pc |-> pc, guest |-> guest]
  /\ at' = "left"

\* the register with the address a dynamic field holds
AddressReg(j, f) == IF f.v # NoVal THEN ToReg(j, f.v) ELSE LoadWord(Scratch(j), f.word)

\* two registers for the page's byte and the words' bits, given back at once
TestRegs(j) ==
  LET Back(t, u) == Unpin(Unpin(u.j, t.r), u.r)
      Second(t) == Back(t, Scratch(t.j))
  IN  Second(Scratch(j))

\* what the held back value is when a test or branch is emitted
Snapped(j) == IF j.pend = None THEN j ELSE Touch(j, Find(j, j.pend))

Page(a) == a \div PageBytes

\* Mutant: only the word's own page is marked
MarkedPagesOwn == {Page(w) : w \in blk.marked}

\* page_map, mark_static: the page of a word with translated code and the page
\* before it, as a store is looked up by the page of its first byte
MarkedPages == UNION {{Page(w), Page(w) - 1} : w \in blk.marked}

\* Mutant: static words are taken for tested on entry
TestedDynamic(j, rb) ==
  IF x.b.dyn /\ Page(j.reg[rb]) \in MarkedPages THEN SpanOf(j.reg[rb]) ELSE {}

\* the words of the store's target tested here: a computed one's if the page
\* of its first byte is marked; static ones were mostly tested on entry, but B
\* may have changed since, or be known only here
Tested(j, rb) ==
  IF ~x.b.dyn THEN SpanOf(x.b.val) \ blk.hoist
  ELSE IF Page(j.reg[rb]) \in MarkedPages THEN SpanOf(j.reg[rb]) ELSE {}

TestWords(j, rb) ==
  LET hit == Tested(j, rb) \cap blk.marked # {}
      j1 == IF x.b.dyn \/ Tested(j, rb) # {} THEN Snapped(j) ELSE j
  IN  IF hit /\ ~j.out
      THEN Leave(j1, None, None, None) /\ UNCHANGED x
      ELSE Ran(j1) /\ x' = [x EXCEPT !.rb = rb] /\ at' = "operands" /\ UNCHANGED exit

\* check the store target against translated code, leaving with the
\* instruction not run if it is some
Test ==
  /\ Going("test")
  /\ LET In(s) == TestWords(TestRegs(s.j), s.r)
     IN  IF x.b.dyn THEN In(AddressReg(J, x.b)) ELSE TestWords(J, None)
  /\ UNCHANGED <<gmem, fields, n, blk>>

\* what a computed address points to, once nothing is held back
LoadThrough(a) ==
  LET Load(s) == Of(Give(s, Rd(s.j.mem, s.j.reg[a.r]))) IN Load(Scratch(FlushPending(a.j)))

Same == ~x.a.dyn /\ ~x.b.dyn /\ x.a.val = x.b.val

OperandA(j) ==
  IF Same THEN [j |-> j, v |-> NoVal]
  ELSE IF ~x.a.dyn THEN GetStatic(j, x.a.val)
  ELSE LoadThrough(AddressReg(j, x.a))

OperandB(j) ==
  IF Same THEN [j |-> j, v |-> NoVal]
  ELSE IF ~x.b.dyn THEN GetStatic(j, x.b.val) ELSE LoadThrough([j |-> j, r |-> x.rb])

\* a dynamic C is read before the store, and not cached
TargetC(j) ==
  IF ~x.c.dyn THEN [j |-> j, r |-> None]
  ELSE IF x.c.v # NoVal THEN ToReg(j, x.c.v)
  ELSE LET Load(s) == Give(s, Rd(s.j.mem, x.c.word)) IN Load(Scratch(j))

Operands ==
  /\ Going("operands")
  /\ LET All(a, b, c) == Ran(c.j) /\ x' = [x EXCEPT !.va = a.v, !.vb = b.v, !.rc = c.r]
         Two(a, b) == All(a, b, TargetC(b.j))
         One(a) == Two(a, OperandB(a.j))
     IN  One(OperandA(J))
  /\ at' = "compute"
  /\ UNCHANGED <<gmem, fields, n, blk, exit>>

Branches == x.c.dyn \/ x.c.val # NextPc
Pendable == ~x.b.dyn /\ Cacheable(x.b.val)

\* Mutant: other words that stand for the register are forgotten
InPlaceAliased(j) ==
  /\ x.vb.kind = "reg"
  /\ j.regs[x.vb.reg] = None \/ (~x.b.dyn /\ j.regs[x.vb.reg] = x.b.val)

\* B's register may take the result if it holds nothing but B
InPlace(j) ==
  /\ x.vb.kind = "reg"
  /\ ~Aliased(j, x.vb.reg)
  /\ j.regs[x.vb.reg] = None \/ (~x.b.dyn /\ j.regs[x.vb.reg] = x.b.val)

\* the register the result is computed in, with B in it
ResultReg(j, inplace) ==
  IF inplace THEN [j |-> j, r |-> x.vb.reg]
  ELSE LET Copy(s) == Give(s, ValueOf(s.j, x.vb)) IN Copy(Scratch(j))

Pinned(s) == [j |-> Pin(s.j, RegVal(s.r)), v |-> RegVal(s.r)]

\* Mutant: also where the flags are needed
AddsAlways == x.va.kind = "neg" /\ x.vb.kind # "neg"

\* B - -R as B + R, where no branch needs the flags
AddsInstead == x.va.kind = "neg" /\ x.vb.kind # "neg" /\ ~Branches

\* 0 - A as a name for A's register
Renames == IsZero(x.vb) /\ ~Branches /\ InReg(x.va)

\* 0 - A in a register that is not A's own
Negate(z) ==
  LET Copy(s) == Give(s, s.j.reg[z.r])
      Neg0(s) == Pinned([s EXCEPT !.j.flags = FlagsOf(0, s.j.reg[s.r]), !.j.reg[s.r] = Neg(@)])
  IN  Neg0(IF z.r = x.va.reg THEN Copy(Scratch(z.j)) ELSE z)

\* B, in b's register, less A
Difference(b) ==
  LET Sub(a) == Pinned([b EXCEPT !.j = [a.j EXCEPT
                          !.flags = FlagsOf(a.j.reg[b.r], a.j.reg[a.r]),
                          !.reg[b.r] = (@ + Neg(a.j.reg[a.r])) % Word]])
  IN  Sub(ToReg(b.j, x.va))

Subtract(j) ==
  IF IsZero(x.vb) THEN Negate(ToReg(j, x.va))
  ELSE Difference(IF x.vb.kind = "neg" THEN ToReg(j, x.vb) ELSE ResultReg(j, InPlace(j)))

Add(j) ==
  LET Sum(b) == Pinned([b EXCEPT !.j.flags = FlagsOfAdd(b.j.reg[b.r], b.j.reg[x.va.reg]),
                                 !.j.reg[b.r] = (@ + b.j.reg[x.va.reg]) % Word])
  IN  Sum(ResultReg(j, InPlace(j) /\ ~x.b.dyn))

\* B is left as it is; a branch needs flags to go by
KeepB(j) ==
  LET Test0(t) == [t.j EXCEPT !.flags = FlagsOf(t.j.reg[t.r], 0)]
  IN  [j |-> IF Branches THEN Test0(ToReg(j, x.vb)) ELSE j, v |-> x.vb]

Consts == x.va.kind = "const" /\ x.vb.kind = "const"
Unchanged == ~Same /\ IsZero(x.va) /\ ~Consts

Result(j) ==
  IF Same THEN [j |-> j, v |-> ConstVal(0)]
  ELSE IF Consts THEN [j |-> j, v |-> ConstVal((x.vb.val + Neg(x.va.val)) % Word)]
  ELSE IF Unchanged THEN KeepB(j)
  ELSE IF Renames
  THEN [j |-> j, v |-> IF x.va.kind = "reg" THEN NegVal(x.va.reg) ELSE RegVal(x.va.reg)]
  ELSE IF AddsInstead THEN Add(j) ELSE Subtract(j)

\* whether the branch is known to be taken, or not to be, or is in the flags
Taken ==
  IF Same THEN "yes"
  ELSE IF ~Consts THEN "flags"
  ELSE IF Signed(x.vb.val) <= Signed(x.va.val) THEN "yes" ELSE "no"

FlushesFirst(j) == ~Same /\ ~Unchanged /\ (~Pendable \/ j.pend # x.b.val)

Hold(s) == [s EXCEPT !.j = IF @.pend # x.b.val THEN FlushPending(@) ELSE @]

StoreNow(s) ==
  LET Address(j) == IF x.b.dyn THEN j.reg[x.rb] ELSE x.b.val
      Put(t) == [j |-> StoreReg(t.j, t.r, Address(t.j)), v |-> RegVal(t.r)]
  IN  IF s.v.kind = "const"
      THEN [s EXCEPT !.j = StoreConst(@, s.v.val, x.b.dyn, Address(@))]
      ELSE Put(ToReg(s.j, s.v))

\* Mutant: what is held back stays so
StoreResultUnordered(s) ==
  IF Unchanged THEN s ELSE IF Pendable THEN Hold(s) ELSE StoreNow(s)

\* the store: held back for a static word, otherwise after what is held back
StoreResult(s) ==
  IF Unchanged THEN s ELSE IF Pendable THEN Hold(s)
  ELSE StoreNow([s EXCEPT !.j = FlushPending(@)])

Spanned ==
  /\ ~x.b.dyn /\ ~Aligned(x.b.val) /\ ~Unchanged
  /\ \A w \in SpanOf(x.b.val) : Cacheable(w)

\* what the store did to the cache
CacheResult(s) ==
  LET fb == x.b.val
      named == IF s.v.kind = "const" THEN SetConst(s.j, fb, s.v.val)
               ELSE IF s.v.kind = "neg" THEN SetAlias(s.j, fb, s.v.reg, TRUE)
               ELSE IF s.j.regs[s.v.reg] \in {None, fb} THEN Bind(s.j, s.v.reg, fb)
               ELSE SetAlias(s.j, fb, s.v.reg, FALSE)
  IN  IF x.b.dyn THEN IF Unchanged THEN s.j ELSE CacheDropAll(s.j)
      ELSE IF Pendable THEN IF Unchanged THEN named ELSE [named EXCEPT !.pend = fb]
      ELSE IF Spanned \/ Unchanged THEN s.j
      ELSE CacheDrop(CacheDrop(s.j, Down(fb)), Down(fb) + WordBytes)

Compute ==
  /\ Going("compute")
  /\ LET Store(r) == StoreResult([r EXCEPT !.j.live = Branches /\ Taken = "flags"])
         Put(s) == Ran(CacheResult(s)) /\ x' = [x EXCEPT !.res = s.v]
     IN  Put(Store(Result(IF FlushesFirst(J) THEN FlushPending(J) ELSE J)))
  /\ at' = "branch"
  /\ UNCHANGED <<gmem, fields, n, blk, exit>>

-------------------------------------------------------------------------------
(* The interpreter, on the guest's memory: interp_step.  It branches when B   *)
(* is at most A, as signed numbers, and so does subleq.asm.  hardware.txt     *)
(* (24-26) writes a test of the difference that was stored: the two disagree  *)
(* where B - A overflows, as with INT64_MIN and 1.  GuestPc is the code's.    *)

GuestA == Rd(gmem, FieldValue(x.a))
GuestB == Rd(gmem, FieldValue(x.b))
GuestMem == Wr(gmem, FieldValue(x.b), (GuestB + Neg(GuestA)) % Word)
GuestPc == IF Signed(GuestB) <= Signed(GuestA) THEN FieldValue(x.c) ELSE NextPc

\* the branch out, or on to the next instruction
Branch ==
  /\ Going("branch")
  /\ LET j == Snapped([J EXCEPT !.live = FALSE])
         jumps == Taken # "no" /\ Branches
         leaves == jumps /\ (Taken = "yes" \/ J.flags = "le")
         stub == StubStore(j, x.rc)
     IN  IF leaves
         THEN Leave(j, x.rc, IF x.c.dyn THEN stub.reg[x.rc] ELSE x.c.val, GuestPc)
         ELSE /\ LET k == IF jumps THEN j ELSE [J EXCEPT !.live = FALSE]
                 IN  Ran(IF Spanned THEN UpdateSpanned(k, x.b.val, x.res) ELSE k)
              /\ exit' = [pc |-> NextPc, guest |-> GuestPc]
              /\ at' = "fetch"
  /\ gmem' = GuestMem
  /\ x' = NoInsn
  /\ UNCHANGED <<fields, n, blk>>

\* the block is over without a jump
EndBlock ==
  /\ Going("fetch") /\ n > 0
  /\ Leave(J, None, NextPc, NextPc)
  /\ UNCHANGED <<x, gmem, fields, n, blk>>

Done == (at = "left" \/ J.out) /\ UNCHANGED vars

BlockNext == Fetch \/ Test \/ Operands \/ Compute \/ Branch \/ EndBlock \/ Done

BlockSpec == BlockInit /\ [][BlockNext]_vars

-------------------------------------------------------------------------------
\* memory with what is held back
Flushed == IF J.pend = None THEN J.mem ELSE Wr(J.mem, J.pend, ValueOf(J, Find(J, J.pend)))

(* Wherever the block leaves, by a branch, at its end or before a store to    *)
(* translated code, the stub has stored what was held back: memory is as the  *)
(* interpreter would have left it.                                            *)
ExitsAreCurrent == Going("left") => J.mem = gmem

(* After every instruction the machine goes on, or leaves to the target,      *)
(* where the interpreter would: branches go by the flags of their own         *)
(* subtraction, INT64_MIN and overflow included, and a computed target is the *)
(* one read before the store.  The measure is interp_step's comparison of B   *)
(* with A (jit.c 386), not hardware.txt's of the stored difference with 0.    *)
BranchesAsGuest == ~J.out => exit.pc = exit.guest

(* Between instructions, every word the cache knows as a constant, in a       *)
(* register or as the negation of one has that value for the guest, the held  *)
(* back value is among them, and memory is current but for it.                *)
CacheIsCurrent ==
  Going("fetch") =>
    /\ \A w \in Words : Find(J, w) # NoVal => ValueOf(J, Find(J, w)) = Rd(gmem, w)
    /\ J.pend # None => Find(J, J.pend) # NoVal
    /\ Flushed = gmem

(* Stores reach memory in program order: when a step changes memory, every    *)
(* word but the instruction's own target is current, so that nothing older is *)
(* still held back when a device or another CPU sees a younger store.         *)
StoresInOrder ==
  [][\A b \in Bytes :
       J'.mem # J.mem => \/ at \in {"compute", "branch"} /\ Down(b) \in SpanOf(FieldValue(x.b))
                         \/ J'.mem[b] = gmem[b]]_vars

(* Code this block did not check against is not stored to: no word with a bit *)
(* in static_map is changed, though tests were hoisted to the entry from what *)
(* B was then, a computed address is looked up by the page of its first byte  *)
(* alone, and stores are held back past later instructions.                   *)
CodeUntouched ==
  [][\A w \in blk.marked : Rd(J'.mem, w) = Rd(J.mem, w)]_vars
===============================================================================
