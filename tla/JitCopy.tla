-------------------------------- MODULE JitCopy --------------------------------
(* The word copy loop (kernel/src/jit.c 940-1090 and 1540-1562): a block that *)
(* match_copy recognises begins with a call of jit_copy, which does as many   *)
(* of its iterations at once as the budget allows, or none.  copy is the      *)
(* machine with that block, loop the guest interpreting the same memory one   *)
(* instruction at a time.  Words have W bytes of Byte values, an instruction  *)
(* three words; memory holds the loop at 0, then its six variables, then data.*)
EXTENDS Integers, FiniteSets

CONSTANTS
  W, Byte,      \* bytes of a word (8) and values of a byte (256)
  MemSize,      \* bytes of guest memory
  HwLo, HwHi,   \* the device words
  PageSize,     \* bytes of a page (4096)
  COPY_MIN,     \* iterations worth a call
  Scenarios     \* what S, D, C and M hold (s, d, c, m), the budget left on
                \* entry, the pages with translated code, and how the guest's
                \* code differs from the loop: words with other values, and
                \* words marked dynamic

VARIABLES copy, loop

copyVars == <<copy, loop>>

Val == Byte^W
Signed64(v) == IF v >= Val \div 2 THEN v - Val ELSE v
Wrap(v) == v % Val

Read(m, a) ==
  LET sum[k \in 0..W] == IF k = 0 THEN 0 ELSE Byte * sum[k - 1] + m[a + k - 1]
  IN  sum[W]

Write(m, a, v) ==
  [b \in DOMAIN m |-> IF b \in a..(a + W - 1)
                      THEN (v \div Byte^(a + W - 1 - b)) % Byte ELSE m[b]]

-------------------------------------------------------------------------------
(* The loop, copy_tmpl: the words each instruction names.                     *)

Insn == 3 * W
Field(k, f) == Insn * k + W * f
LoopEnd == 19 * Insn

F1 == Field(5, 0)
F2 == Field(15, 1)
F3 == Field(14, 0)
F4 == Field(14, 1)

Template ==
  << <<"T1", "T1">>, <<"T2", "T2">>, <<"F1", "F1">>, <<"S", "T1">>, <<"T1", "F1">>,
     <<"any", "T2">>, <<"T1", "T1">>, <<"F2", "F2">>, <<"F3", "F3">>, <<"F4", "F4">>,
     <<"D", "T1">>, <<"T1", "F2">>, <<"T1", "F3">>, <<"T1", "F4">>, <<"any", "any">>,
     <<"T2", "any">>, <<"M", "SD">>, <<"M", "SD">>, <<"M", "C">> >>

Variables == {"T1", "T2", "S", "D", "C", "M"}

\* where a symbol is named first
Symbol(m) ==
  [T1 |-> Read(m, Field(0, 0)), T2 |-> Read(m, Field(1, 0)), S |-> Read(m, Field(3, 0)),
   D |-> Read(m, Field(10, 0)), M |-> Read(m, Field(16, 0)), C |-> Read(m, Field(18, 1)),
   F1 |-> F1, F2 |-> F2, F3 |-> F3, F4 |-> F4]

Overlaps(a, alen, b, blen) == a < b + blen /\ b < a + alen

\* whether the loop starts at 0, with no dynamic word where it needs a constant
MatchCopy(m, dyn) ==
  LET sym == Symbol(m)
  IN  /\ LoopEnd <= MemSize
      /\ \A k \in 0..18 :
           /\ Read(m, Field(k, 2)) = IF k = 18 THEN 0 ELSE Insn * (k + 1)
           /\ Field(k, 2) \notin dyn
           /\ \A f \in 0..1 :
                LET t == Template[k + 1][f + 1]
                IN  t # "any" =>
                      /\ Field(k, f) \notin dyn
                      /\ t # "SD" => Read(m, Field(k, f)) = sym[t]
      /\ LET p == Read(m, Field(16, 1))
             q == Read(m, Field(17, 1))
         IN  p # q /\ {p, q} \subseteq {sym.S, sym.D}
      /\ \A v \in Variables :
           /\ sym[v] % W = 0 /\ sym[v] + W <= MemSize
           /\ ~Overlaps(sym[v], W, 0, LoopEnd)
           /\ \A u \in Variables \ {v} : sym[u] # sym[v]

-------------------------------------------------------------------------------
(* jit_copy: the iterations it does, and memory after them.                   *)

\* Mutant: the last iteration, with C over -8, is not counted
TotalShort(c) == IF c <= -W THEN (-W - c) \div W + 1 ELSE 1

\* the iterations left, the last one with C over -W
Total(c) == IF c <= -W THEN (-W - c) \div W + 2 ELSE 1

\* no word it reads or writes is one the loop changes otherwise, its code, a
\* device or translated code, and it does not run forward over itself
Safe(sym, s, d, bytes, pages) ==
  LET Clear(a) == /\ \A v \in Variables \ {"M"} : ~Overlaps(a, bytes, sym[v], W)
                  /\ ~Overlaps(a, bytes, 0, LoopEnd)
                  /\ ~Overlaps(a, bytes, HwLo, HwHi - HwLo)
  IN  /\ s + bytes <= MemSize /\ d + bytes <= MemSize
      /\ ~(d > s /\ d < s + bytes)
      /\ Clear(s) /\ Clear(d) /\ ~Overlaps(d, bytes, sym.M, W)
      /\ \A pg \in (d \div PageSize)..((d + bytes - 1) \div PageSize) : pg \notin pages

\* the words copied, then the variables and fields as the last iteration leaves them
Copied(sym, m, s, d, c, bytes) ==
  LET last == Read(m, s + bytes - W)
      dl == d + bytes - W
      moved == [b \in DOMAIN m |-> IF b \in d..(d + bytes - 1) THEN m[s + b - d] ELSE m[b]]
      word == [a \in {sym.S, sym.D, sym.C, sym.T1, sym.T2, F1, F2, F3, F4} |->
                 CASE a = sym.S -> s + bytes
                   [] a = sym.D -> d + bytes
                   [] a = sym.C -> c + bytes
                   [] a = sym.T1 -> -dl
                   [] a = sym.T2 -> -last
                   [] a = F1 -> s + bytes - W
                   [] OTHER -> dl]
  IN  [b \in DOMAIN m |->
         LET a == b - (b % W)
         IN  IF a \in DOMAIN word
             THEN (Wrap(word[a]) \div Byte^(a + W - 1 - b)) % Byte
             ELSE moved[b]]

CopyResult(sym, m, budget, pages) ==
  LET s == Read(m, sym.S)
      d == Read(m, sym.D)
      c == Signed64(Read(m, sym.C))
      fit == budget \div 19 + 1
      k == IF fit > Total(c) THEN Total(c) ELSE fit
  IN  IF /\ Signed64(Read(m, sym.M)) = -W
         /\ k >= COPY_MIN
         /\ Safe(sym, s, d, W * k, pages)
      THEN [n |-> k, done |-> k = Total(c), mem |-> Copied(sym, m, s, d, c, W * k)]
      ELSE [n |-> 0, done |-> FALSE, mem |-> m]

-------------------------------------------------------------------------------
(* The guest's memory: the loop, its variables in order, and data.            *)

VarAt == [T1 |-> LoopEnd, T2 |-> LoopEnd + W, S |-> LoopEnd + 2 * W,
          D |-> LoopEnd + 3 * W, C |-> LoopEnd + 4 * W, M |-> LoopEnd + 5 * W]
DataAt == LoopEnd + 6 * W

LoopWord(k, f) ==
  LET t == Template[k + 1][f + 1]
  IN  CASE f = 2 -> IF k = 18 THEN 0 ELSE Insn * (k + 1)
        [] t = "any" -> 0
        [] t = "SD" -> IF k = 16 THEN VarAt.S ELSE VarAt.D
        [] t = "F1" -> F1 [] t = "F2" -> F2 [] t = "F3" -> F3 [] t = "F4" -> F4
        [] OTHER -> VarAt[t]

Words0(q) ==
  [a \in {W * i : i \in 0..(DataAt \div W - 1)} |->
     CASE a \in DOMAIN q.words -> q.words[a]
       [] a < LoopEnd -> LoopWord(a \div Insn, (a \div W) % 3)
       [] a = VarAt.S -> q.s [] a = VarAt.D -> q.d
       [] a = VarAt.C -> Wrap(q.c) [] a = VarAt.M -> Wrap(q.m)
       [] OTHER -> 0]

Memory0(q) ==
  LET words == Words0(q)
  IN  [b \in 0..(MemSize - 1) |->
         IF b < DataAt THEN (words[b - (b % W)] \div Byte^(W - 1 - (b % W))) % Byte
         ELSE (3 * b + 1) % Byte]

\* translate looks for the loop once; what it found stays in the block
CopyInit ==
  \E q \in Scenarios :
    LET mem == Memory0(q)
    IN  /\ copy = [mem |-> mem, pc |-> 0, rbp |-> q.budget, pages |-> q.pages,
                   desc |-> Symbol(mem),
                   at |-> IF MatchCopy(mem, q.dyn) THEN "entry" ELSE "below"]
        /\ loop = [mem |-> mem, pc |-> 0, left |-> q.budget]

\* the block takes its 19 instructions from the budget, or leaves; jit_copy's
\* further iterations are taken once they are known, and the block goes back
\* to its entry or out; none means the loop runs below, as JitBlock has it
Enter ==
  /\ copy.at = "entry" /\ loop.left = copy.rbp
  /\ LET r == CopyResult(copy.desc, copy.mem, copy.rbp - 19, copy.pages)
     IN  copy' = IF copy.rbp < 19 THEN [copy EXCEPT !.at = "out"]
                 ELSE IF r.n = 0 THEN [copy EXCEPT !.at = "below"]
                 ELSE [copy EXCEPT !.mem = r.mem,
                                   !.rbp = @ - 19 - (19 * r.n - 19),
                                   !.pc = IF r.done THEN LoopEnd ELSE 0,
                                   !.at = IF r.done THEN "out" ELSE "entry"]
  /\ UNCHANGED loop

\* interp_step, until it has used as much of the budget
GuestStep ==
  /\ loop.left > copy.rbp
  /\ LET a == Read(loop.mem, loop.pc)
         b == Read(loop.mem, loop.pc + W)
         va == Read(loop.mem, a)
         vb == Read(loop.mem, b)
     IN  loop' = [mem |-> Write(loop.mem, b, Wrap(vb - va)),
                  pc |-> IF Signed64(vb) <= Signed64(va)
                         THEN Read(loop.mem, loop.pc + 2 * W) ELSE loop.pc + Insn,
                  left |-> loop.left - 1]
  /\ UNCHANGED copy

CopyDone ==
  /\ copy.at \in {"out", "below"} /\ loop.left = copy.rbp
  /\ UNCHANGED copyVars

CopyNext == Enter \/ GuestStep \/ CopyDone

CopySpec == CopyInit /\ [][CopyNext]_copyVars

-------------------------------------------------------------------------------
(* The copy is the loop: when the interpreter has run as many instructions as *)
(* jit_copy took from the budget, which never goes below zero, it has the     *)
(* same memory, variables and patched fields included, and goes on at the     *)
(* same place, whatever the pointers, counter and budget, and however the     *)
(* words copied lie to each other and to the loop.                            *)
CopyIsLoop ==
  /\ copy.rbp >= 0
  /\ loop.left = copy.rbp => loop.mem = copy.mem /\ loop.pc = copy.pc
===============================================================================
