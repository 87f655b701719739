-------------------------- MODULE BootMemoryProofs --------------------------
(***************************************************************************)
(* Proofs about BootMemory, for any machine: any memory map, kernel,         *)
(* devices, number of CPUs and sizes of the translator's records.            *)
(***************************************************************************)
EXTENDS BootMemory, FiniteSetTheorems, SequenceTheorems, WellFoundedInduction, TLAPS

-----------------------------------------------------------------------------
(* Numbers *)

LEMMA LeastNat ==
  ASSUME NEW T \in SUBSET Nat, T # {}
  PROVE  \E x \in T : \A y \in T : x <= y
<1> DEFINE R == OpToRel(<, Nat)
<1>1. IsWellFoundedOn(R, Nat)
  BY NatLessThanWellFounded
<1>2. PICK x \in T : \A y \in T : <<y, x>> \notin R
  <2> HIDE DEF R
  <2> QED
    BY <1>1, WFMin
<1>3. \A y \in T : ~(y < x)
  BY <1>2 DEF OpToRel
<1> QED
  BY <1>3

LEMMA MinIs ==
  ASSUME NEW S \in SUBSET Int, NEW lo \in Int, S # {}, \A x \in S : lo <= x
  PROVE  Min(S) \in S /\ \A y \in S : Min(S) <= y
<1> DEFINE T == {n \in Nat : lo + n \in S}
<1>1. T # {}
  <2>1. PICK x \in S : TRUE
    OBVIOUS
  <2>2. x - lo \in Nat /\ lo + (x - lo) = x
    BY <2>1
  <2> QED
    BY <2>2
<1>2. PICK n \in T : \A k \in T : n <= k
  BY <1>1, LeastNat
<1>3. \A y \in S : lo + n <= y
  <2> TAKE y \in S
  <2>1. y - lo \in Nat /\ lo + (y - lo) = y
    OBVIOUS
  <2> QED
    BY <1>2, <2>1
<1> QED
  BY <1>2, <1>3 DEF Min

LEMMA DivIs ==
  ASSUME NEW a \in Nat, NEW n \in Nat \ {0}
  PROVE  a \div n \in Nat /\ n * (a \div n) <= a /\ a < n * (a \div n) + n
  OBVIOUS

LEMMA ModIs ==
  ASSUME NEW a \in Nat, NEW n \in Nat \ {0}
  PROVE  a % n \in 0 .. n - 1 /\ a = n * (a \div n) + (a % n)
  OBVIOUS

LEMMA TimesMonotone ==
  ASSUME NEW n \in Nat, NEW a \in Int, NEW b \in Int, a <= b
  PROVE  n * a <= n * b
  OBVIOUS

LEMMA CeilDivIs ==
  ASSUME NEW a \in Nat, NEW n \in Nat \ {0}
  PROVE  /\ CeilDiv(a, n) \in Nat /\ a <= n * CeilDiv(a, n) /\ n * CeilDiv(a, n) < a + n
         /\ a % n = 0 => n * CeilDiv(a, n) = a
         /\ a > 0 => CeilDiv(a, n) > 0
<1> DEFINE c == (a + n - 1) \div n
           d == a \div n
<1>1. a + n - 1 \in Nat
  OBVIOUS
<1>2. c \in Nat /\ n * c <= a + n - 1 /\ a + n - 1 < n * c + n
  <2> HIDE DEF c
  <2> QED
    BY <1>1, DivIs DEF c
<1>3. d \in Nat /\ a = n * d + (a % n)
  BY DivIs, ModIs
<1> HIDE DEF c, d
<1>4. a % n = 0 => n * c = a
  <2> SUFFICES ASSUME a = n * d PROVE n * c = a
    BY <1>3
  <2>1. ~(c <= d - 1)
    <3> SUFFICES ASSUME c <= d - 1 PROVE FALSE
      OBVIOUS
    <3>1. n * c <= n * (d - 1) /\ n * (d - 1) = n * d - n
      BY <1>2, <1>3, TimesMonotone
    <3> QED
      BY <1>2, <1>3, <3>1
  <2>2. ~(c >= d + 1)
    <3> SUFFICES ASSUME c >= d + 1 PROVE FALSE
      OBVIOUS
    <3>1. n * (d + 1) <= n * c /\ n * (d + 1) = n * d + n
      BY <1>2, <1>3, TimesMonotone
    <3> QED
      BY <1>2, <1>3, <3>1
  <2> QED
    BY <1>2, <1>3, <2>1, <2>2
<1>5. a > 0 => c > 0
  <2> SUFFICES ASSUME c = 0 PROVE ~(a > 0)
    BY <1>2
  <2> QED
    BY <1>2
<1> QED
  BY <1>2, <1>4, <1>5 DEF c, CeilDiv


LEMMA GreatestNat ==
  ASSUME NEW S \in SUBSET Nat, S # {}, NEW b \in Nat, \A x \in S : x <= b
  PROVE  Max(S) \in S /\ \A y \in S : y <= Max(S)
<1> DEFINE T == {n \in Nat : b - n \in S}
<1>1. T # {}
  <2>1. PICK x \in S : TRUE
    OBVIOUS
  <2>2. b - x \in Nat /\ b - (b - x) = x
    BY <2>1
  <2> QED
    BY <2>2
<1>2. PICK n \in T : \A k \in T : n <= k
  BY <1>1, LeastNat
<1>3. ASSUME NEW y \in S PROVE y <= b - n
  <2>1. y \in Nat /\ y <= b
    OBVIOUS
  <2>2. b - y \in Nat /\ b - (b - y) = y
    BY <2>1
  <2>3. b - y \in T
    BY <2>2
  <2>4. n \in Nat /\ n <= b - y
    BY <1>2, <2>3
  <2> QED
    BY <2>1, <2>4
<1>4. b - n \in S
  BY <1>2
<1>5. \E x \in S : \A y \in S : x >= y
  <2>1. \A y \in S : b - n >= y
    BY <1>3, <1>4
  <2> QED
    BY <1>4, <2>1
<1>6. Max(S) \in S /\ \A y \in S : Max(S) >= y
  BY <1>5 DEF Max
<1> QED
  BY <1>6

(* A sequence of numbers has a bound. *)
LEMMA SequenceBounded ==
  ASSUME NEW m \in Nat, NEW f, \A i \in 1 .. m : f[i] \in Nat
  PROVE  \E b \in Nat : \A i \in 1 .. m : f[i] <= b
<1> DEFINE Bounded(n) == \E b \in Nat : \A i \in 1 .. n : f[i] <= b
           T == {n \in Nat : n <= m /\ ~Bounded(n)}
<1>1. T = {}
  <2> SUFFICES ASSUME T # {} PROVE FALSE
    OBVIOUS
  <2>1. PICK n \in T : \A k \in T : n <= k
    BY LeastNat
  <2>2. n \in Nat /\ n <= m /\ ~Bounded(n)
    BY <2>1
  <2>3. n # 0
    <3>1. CASE n = 0
      <4>1. \A i \in 1 .. 0 : f[i] <= 0
        <5>1. 1 .. 0 = {}
          OBVIOUS
        <5> QED
          BY <5>1
      <4>2. Bounded(0)
        BY <4>1
      <4> QED
        BY <2>2, <3>1, <4>2
    <3> QED
      BY <3>1
  <2>4. n - 1 \in Nat /\ n - 1 <= m /\ ~(n <= n - 1)
    BY <2>2, <2>3
  <2>5. Bounded(n - 1)
    BY <2>1, <2>4
  <2>6. PICK b \in Nat : \A i \in 1 .. n - 1 : f[i] <= b
    BY <2>5
  <2>7. f[n] \in Nat
    BY <2>2, <2>3
  <2> DEFINE c == IF f[n] <= b THEN b ELSE f[n]
  <2>8. c \in Nat /\ b <= c /\ f[n] <= c
    BY SMTT(30), <2>6, <2>7
  <2> HIDE DEF c
  <2>9. ASSUME NEW i \in 1 .. n PROVE f[i] <= c
    <3>1. CASE i = n
      BY <2>8, <3>1
    <3>2. CASE i # n
      <4>1. i \in 1 .. n - 1 /\ i \in 1 .. m
        BY <2>2, <3>2
      <4>2. f[i] \in Nat /\ f[i] <= b
        BY <2>6, <4>1
      <4> QED
        BY <2>6, <2>8, <4>2
    <3> QED
      BY <3>1, <3>2
  <2> QED
    BY <2>2, <2>8, <2>9
<1>2. m \notin T
  BY <1>1
<1>3. Bounded(m)
  BY <1>2
<1> QED
  BY <1>3

-----------------------------------------------------------------------------
(* The memory map *)

LEMMA MapIs ==
  ASSUME NEW m \in Machines
  PROVE  /\ m.map \in Seq([base : Nat, len : Nat, type : STRING])
         /\ DOMAIN m.map = 1 .. Len(m.map) /\ Len(m.map) \in Nat
         /\ \A i \in DOMAIN m.map : m.map[i].base \in Nat /\ m.map[i].len \in Nat
         /\ m.screen \in Nat /\ m.ncpus \in Nat \ {0}
<1>1. /\ m.map \in Seq([base : Nat, len : Nat, type : STRING])
      /\ m.screen \in Nat /\ m.ncpus \in Nat \ {0}
  BY BootAssumption DEF BootAssumption
<1>2. /\ Len(m.map) \in Nat /\ DOMAIN m.map = 1 .. Len(m.map)
      /\ \A i \in 1 .. Len(m.map) : m.map[i] \in [base : Nat, len : Nat, type : STRING]
  BY <1>1, LenProperties, ElementOfSeq
<1> QED
  BY <1>1, <1>2

LEMMA ConstantsAre ==
  /\ PageSize \in Nat \ {0} /\ SizeT \in Nat \ {0} /\ BITMAP_BASE \in Nat \ {0}
  /\ DawnPages \in Nat /\ JIT_CPU_BYTES \in Nat
  /\ CpuSize \in Nat \ {0} /\ HashSize \in Nat \ {0} /\ CodeSize \in Nat \ {0}
  /\ BlockSize \in Nat \ {0} /\ LinkSize \in Nat \ {0} /\ MetaSize \in Nat \ {0}
  /\ MinBlocks \in Nat \ {0} /\ MaxBlocks \in Nat \ {0} /\ JIT_MAX_CPUS \in Nat \ {0}
BY BootAssumption DEF BootAssumption

(* pmm_init's highest page is a number. *)
LEMMA NewMaxPageIs ==
  ASSUME NEW m \in Machines
  PROVE  NewMaxPage(m.map) \in Nat
<1> DEFINE map == m.map
           counted == {i \in DOMAIN map : map[i].type \in {"usable", "reclaimable"}}
           ends == [i \in 1 .. Len(map) |-> map[i].base + map[i].len]
           S == {0} \cup {map[i].base + map[i].len : i \in counted}
<1>1. Len(map) \in Nat /\ DOMAIN map = 1 .. Len(map)
  BY MapIs
<1>2. \A i \in 1 .. Len(map) : ends[i] \in Nat /\ ends[i] = map[i].base + map[i].len
  BY SMTT(30), MapIs
<1>3. PICK b \in Nat : \A i \in 1 .. Len(map) : ends[i] <= b
  <2> HIDE DEF ends, map
  <2> QED
    BY <1>1, <1>2, SequenceBounded
<1>4. S \in SUBSET Nat /\ S # {} /\ \A x \in S : x <= b
  <2>1. 0 \in S
    OBVIOUS
  <2>2. ASSUME NEW x \in S PROVE x \in Nat /\ x <= b
    <3>1. CASE x = 0
      BY <1>3, <3>1
    <3>2. CASE x # 0
      <4>1. PICK i \in 1 .. Len(map) : x = map[i].base + map[i].len
        BY <1>1, <2>2, <3>2
      <4> HIDE DEF ends, map
      <4> QED
        BY <1>2, <1>3, <4>1
    <3> QED
      BY <3>1, <3>2
  <2> HIDE DEF S
  <2> QED
    BY <2>1, <2>2
<1>5. Max(S) \in S /\ S \subseteq Nat
  <2> HIDE DEF S
  <2> QED
    BY <1>3, <1>4, GreatestNat
<1>6. Max(S) \in Nat
  BY <1>5
<1>7. NewMaxPage(m.map) = Max(S) \div PageSize
  BY DEF NewMaxPage
<1> QED
  <2> HIDE DEF S
  <2> QED
    BY <1>6, <1>7, ConstantsAre, DivIs

(* The pages of an entry lie wholly in it. *)
LEMMA EntryPagesAre ==
  ASSUME NEW e, e.base \in Nat, e.len \in Nat, NEW p \in EntryPages(e)
  PROVE  p \in Int /\ e.base <= p * PageSize /\ (p + 1) * PageSize <= e.base + e.len
<1> DEFINE P == PageSize
           base == e.base
           len == e.len
           k == len \div P
           n == IF base % P # 0 /\ k > 0 THEN k - 1 ELSE k
           first == CeilDiv(base, P)
<1>1. P \in Nat \ {0} /\ base \in Nat /\ len \in Nat
  BY ConstantsAre
<1>2. k \in Nat /\ P * k <= len
  BY <1>1, DivIs
<1>3. /\ first \in Nat /\ base <= P * first /\ P * first < base + P
      /\ base % P = 0 => P * first = base
  BY <1>1, CeilDivIs
<1>4. p \in first .. (first + n - 1)
  BY DEF EntryPages, FirstPage
<1> HIDE DEF P, base, len, k, first
<1>5. n \in Nat
  BY <1>2
<1>6. p \in Int /\ first <= p /\ p + 1 <= first + n
  BY <1>3, <1>4, <1>5
<1>7. P * first <= P * p
  BY <1>1, <1>3, <1>6, TimesMonotone
<1>8. P * (p + 1) <= P * first + P * n
  <2>1. P * (p + 1) <= P * (first + n)
    BY <1>1, <1>3, <1>5, <1>6, TimesMonotone
  <2>2. P * (first + n) = P * first + P * n
    BY <1>1, <1>3, <1>5
  <2> QED
    BY <2>1, <2>2
<1>9. P * first + P * n <= base + len
  <2>1. CASE base % P = 0
    <3>1. P * n = P * k
      BY <2>1
    <3>2. P * k \in Int /\ P * first \in Int
      BY <1>1, <1>2, <1>3
    <3> QED
      BY <1>1, <1>2, <1>3, <2>1, <3>1, <3>2
  <2>2. CASE base % P # 0 /\ k > 0
    <3>1. n = k - 1
      BY <2>2
    <3>2. P * n = P * k - P
      BY <1>1, <1>2, <3>1
    <3>3. P * n \in Int /\ P * k \in Int /\ P * first \in Int
      BY <1>1, <1>2, <1>3, <1>5
    <3>4. P * first < base + P /\ P * k <= len
      BY <1>2, <1>3
    <3> HIDE DEF n
    <3> QED
      BY <1>1, <3>2, <3>3, <3>4
  <2>3. CASE ~(k > 0)
    <3>1. n = 0
      BY <1>2, <2>3
    <3>2. FALSE
      BY <1>3, <1>6, <3>1
    <3> QED
      BY <3>2
  <2> QED
    BY <2>1, <2>2, <2>3
<1>10. /\ P * p = p * P /\ P * (p + 1) = (p + 1) * P
       /\ P * p \in Int /\ P * first \in Int /\ P * n \in Int /\ P * (p + 1) \in Int
  BY <1>1, <1>3, <1>5, <1>6
<1>11. base <= p * P /\ (p + 1) * P <= base + len
  BY <1>1, <1>3, <1>7, <1>8, <1>9, <1>10
<1> QED
  BY <1>6, <1>11 DEF P, base, len

-----------------------------------------------------------------------------
(* The allocator *)

(* A page of usable memory, above the low pages and outside the bitmap. *)
Ours(m, p, x) ==
  /\ x >= BITMAP_BASE /\ x \notin p.bitmap
  /\ \E e \in Range(m.map) :
       Usable(e) /\ e.base <= x * PageSize /\ (x + 1) * PageSize <= e.base + e.len

PmType(p) ==
  /\ DOMAIN p = {"free", "hint", "max", "bitmap", "given"}
  /\ p.max \in Int /\ p.hint \in Int /\ p.hint >= BITMAP_BASE
  /\ p.free \in SUBSET (BITMAP_BASE .. (p.max - 1))
  /\ p.given \in Seq(SUBSET Int)

(* What is free and what was given is ours, the two have no page in common,  *)
(* and no two allocations have.                                              *)
PmOwners(m, p) ==
  /\ \A x \in p.free : Ours(m, p, x)
  /\ \A i \in 1 .. Len(p.given) : \A x \in p.given[i] : Ours(m, p, x) /\ x \notin p.free
  /\ \A i, k \in 1 .. Len(p.given) : i # k => p.given[i] \cap p.given[k] = {}

(* The page before the hint is taken: no free run lies across it. *)
PmHint(p) == p.hint # BITMAP_BASE => p.hint - 1 \notin p.free

PmInv(m, p) == PmType(p) /\ PmOwners(m, p) /\ PmHint(p)

(* kmalloc takes a run of free pages or changes nothing; it fails only when  *)
(* neither side of the hint has a run.                                       *)
LEMMA KmallocIs ==
  ASSUME NEW p, PmType(p), NEW k \in Nat \ {0}
  PROVE  \/ /\ Kmalloc(p, k) = [p |-> p, page |-> Null]
            /\ RunEnds(p, p.hint, p.max, k) = {} /\ RunEnds(p, BITMAP_BASE, p.hint, k) = {}
         \/ \E i \in Int :
              /\ i - k + 1 >= BITMAP_BASE /\ ((i - k + 1) .. i) \subseteq p.free
              /\ Kmalloc(p, k) = [p |-> Taken(p, i, k), page |-> i - k + 1]
<1> DEFINE up == RunEnds(p, p.hint, p.max, k)
           low == RunEnds(p, BITMAP_BASE, p.hint, k)
<1>1. BITMAP_BASE \in Nat \ {0} /\ p.hint \in Int /\ p.hint >= BITMAP_BASE /\ p.max \in Int
  BY ConstantsAre DEF PmType
<1>2. /\ up \in SUBSET Int /\ \A x \in up : p.hint <= x
      /\ low \in SUBSET Int /\ \A x \in low : BITMAP_BASE <= x
  BY <1>1 DEF RunEnds
<1>3. CASE up = {} /\ low = {}
  BY <1>3 DEF Kmalloc
<1>4. CASE up # {}
  <2> DEFINE i == Min(up)
  <2>1. i \in up
    <3> HIDE DEF up
    <3> QED
      BY <1>1, <1>2, <1>4, MinIs
  <2>2. Kmalloc(p, k) = [p |-> Taken(p, i, k), page |-> i - k + 1]
    BY <1>4 DEF Kmalloc
  <2>3. i \in Int /\ i - k + 1 >= p.hint /\ ((i - k + 1) .. i) \subseteq p.free
    <3> HIDE DEF i
    <3> QED
      BY <1>1, <2>1 DEF RunEnds
  <2>4. i - k + 1 >= BITMAP_BASE
    <3> HIDE DEF i
    <3> QED
      BY <1>1, <2>3
  <2> QED
    BY <2>2, <2>3, <2>4
<1>5. CASE up = {} /\ low # {}
  <2> DEFINE i == Min(low)
  <2>1. i \in low
    <3> HIDE DEF low
    <3> QED
      BY <1>1, <1>2, <1>5, MinIs
  <2>2. Kmalloc(p, k) = [p |-> Taken(p, i, k), page |-> i - k + 1]
    BY <1>5 DEF Kmalloc
  <2>3. i \in Int /\ i - k + 1 >= BITMAP_BASE /\ ((i - k + 1) .. i) \subseteq p.free
    <3> HIDE DEF i
    <3> QED
      BY <1>1, <2>1 DEF RunEnds
  <2> QED
    BY <2>2, <2>3
<1> QED
  BY <1>3, <1>4, <1>5

(* kmalloc keeps every page with one owner. *)
LEMMA KmallocKeeps ==
  ASSUME NEW m, NEW p, PmInv(m, p), NEW k \in Nat \ {0}
  PROVE  PmInv(m, Kmalloc(p, k).p)
<1>1. CASE Kmalloc(p, k) = [p |-> p, page |-> Null]
  BY <1>1
<1>2. ASSUME NEW i \in Int, i - k + 1 >= BITMAP_BASE, ((i - k + 1) .. i) \subseteq p.free,
             Kmalloc(p, k) = [p |-> Taken(p, i, k), page |-> i - k + 1]
      PROVE  PmInv(m, Kmalloc(p, k).p)
  <2> DEFINE q == Taken(p, i, k)
             run == (i - k + 1) .. i
  <2>1. /\ DOMAIN q = DOMAIN p /\ q.max = p.max /\ q.bitmap = p.bitmap
        /\ q.free = p.free \ run /\ q.hint = i + 1 /\ q.given = Append(p.given, run)
    BY DEF Taken, HintAfter, PmInv, PmType
  <2>2. /\ BITMAP_BASE \in Nat /\ run \in SUBSET Int /\ run \subseteq p.free /\ i \in run
        /\ p.given \in Seq(SUBSET Int) /\ p.max \in Int
    BY <1>2, ConstantsAre DEF PmInv, PmType
  <2>3. /\ q.given \in Seq(SUBSET Int) /\ Len(q.given) = Len(p.given) + 1 /\ Len(p.given) \in Nat
        /\ \A j \in 1 .. Len(p.given) : q.given[j] = p.given[j]
        /\ q.given[Len(p.given) + 1] = run
    <3> HIDE DEF q, run
    <3> QED
      BY <2>1, <2>2, AppendProperties, LenProperties
  <2> HIDE DEF q, run
  <2>4. \A j \in 1 .. Len(q.given) : j \in 1 .. Len(p.given) \/ j = Len(p.given) + 1
    BY <2>3
  <2>5. PmType(q)
    <3>1. q.hint \in Int /\ q.hint >= BITMAP_BASE
      BY <1>2, <2>1, <2>2
    <3> QED
      BY <2>1, <2>2, <2>3, <3>1 DEF PmInv, PmType
  <2>6. \A x : Ours(m, p, x) <=> Ours(m, q, x)
    BY <2>1 DEF Ours
  <2>7. PmOwners(m, q)
    <3>1. \A x \in q.free : Ours(m, q, x)
      BY <2>1, <2>6 DEF PmInv, PmOwners
    <3>2. ASSUME NEW j \in 1 .. Len(q.given), NEW x \in q.given[j]
          PROVE  Ours(m, q, x) /\ x \notin q.free
      <4>1. CASE j \in 1 .. Len(p.given)
        BY <2>1, <2>3, <2>6, <3>2, <4>1 DEF PmInv, PmOwners
      <4>2. CASE j = Len(p.given) + 1
        BY <2>1, <2>2, <2>3, <2>6, <3>2, <4>2 DEF PmInv, PmOwners
      <4> QED
        BY <2>4, <4>1, <4>2
    <3>3. ASSUME NEW j \in 1 .. Len(q.given), NEW l \in 1 .. Len(q.given), j # l
          PROVE  q.given[j] \cap q.given[l] = {}
      <4>1. CASE j \in 1 .. Len(p.given) /\ l \in 1 .. Len(p.given)
        BY <2>3, <3>3, <4>1 DEF PmInv, PmOwners
      <4>2. CASE j \in 1 .. Len(p.given) /\ l = Len(p.given) + 1
        BY <2>2, <2>3, <4>2 DEF PmInv, PmOwners
      <4>3. CASE l \in 1 .. Len(p.given) /\ j = Len(p.given) + 1
        BY <2>2, <2>3, <4>3 DEF PmInv, PmOwners
      <4> QED
        BY <2>4, <3>3, <4>1, <4>2, <4>3
    <3> QED
      BY <3>1, <3>2, <3>3 DEF PmOwners
  <2>8. PmHint(q)
    BY <2>1, <2>2 DEF PmHint
  <2> QED
    BY <1>2, <2>5, <2>7, <2>8 DEF PmInv, q
<1> QED
  BY <1>1, <1>2, KmallocIs DEF PmInv

(* A run of free pages anywhere is found. *)
LEMMA KmallocFinds ==
  ASSUME NEW p, PmType(p), PmHint(p), NEW k \in Nat \ {0}, Kmalloc(p, k).page = Null
  PROVE  RunEnds(p, BITMAP_BASE, p.max, k) = {}
<1>1. BITMAP_BASE \in Nat \ {0} /\ p.hint \in Int /\ p.hint >= BITMAP_BASE /\ p.max \in Int
  BY ConstantsAre DEF PmType
<1>2. RunEnds(p, p.hint, p.max, k) = {} /\ RunEnds(p, BITMAP_BASE, p.hint, k) = {}
  <2>1. ASSUME NEW i \in Int, i - k + 1 >= BITMAP_BASE,
               Kmalloc(p, k) = [p |-> Taken(p, i, k), page |-> i - k + 1]
        PROVE  FALSE
    <3>1. i - k + 1 = Null
      BY <2>1
    <3> QED
      BY <1>1, <2>1, <3>1 DEF Null
  <2> QED
    BY <2>1, KmallocIs
<1>3. SUFFICES ASSUME NEW i \in RunEnds(p, BITMAP_BASE, p.max, k) PROVE FALSE
  OBVIOUS
<1>4. i \in BITMAP_BASE .. (p.max - 1) /\ i - k + 1 >= BITMAP_BASE /\ ((i - k + 1) .. i) \subseteq p.free
  BY <1>3 DEF RunEnds
<1>5. CASE i < p.hint
  <2>1. i \in RunEnds(p, BITMAP_BASE, p.hint, k)
    BY <1>1, <1>4, <1>5 DEF RunEnds
  <2> QED
    BY <1>2, <2>1
<1>6. CASE i - k + 1 >= p.hint
  <2>1. i \in RunEnds(p, p.hint, p.max, k)
    BY <1>1, <1>4, <1>6 DEF RunEnds
  <2> QED
    BY <1>2, <2>1
<1>7. CASE i >= p.hint /\ i - k + 1 < p.hint
  <2>1. p.hint - 1 \in (i - k + 1) .. i /\ p.hint # BITMAP_BASE
    BY <1>1, <1>4, <1>7
  <2> QED
    BY <1>4, <2>1 DEF PmHint
<1> QED
  BY <1>1, <1>4, <1>5, <1>6, <1>7

-----------------------------------------------------------------------------
(* What is built on it: every call keeps the pages' owners.                  *)

Call(s) == DOMAIN s = {"pm", "pt", "ok"}

LEMMA KallocKeeps ==
  ASSUME NEW m, NEW p, PmInv(m, p), NEW bytes \in Nat
  PROVE  PmInv(m, Kalloc(p, bytes))
<1>1. CeilDiv(bytes, PageSize) \in Nat
  BY ConstantsAre, CeilDivIs
<1>2. CeilDiv(bytes, PageSize) + 1 \in Nat \ {0}
  BY <1>1
<1> QED
  BY <1>2, KmallocKeeps DEF Kalloc

LEMMA TableKeeps ==
  ASSUME NEW m, NEW s, Call(s), PmInv(m, s.pm), NEW key
  PROVE  Call(Table(s, key)) /\ PmInv(m, Table(s, key).pm)
<1> DEFINE k == Kmalloc(s.pm, 1)
<1>1. PmInv(m, k.p)
  BY KmallocKeeps
<1>2. \/ Table(s, key) = s
      \/ Table(s, key) = [s EXCEPT !.ok = FALSE]
      \/ Table(s, key) = [s EXCEPT !.pm = k.p, !.pt.tables = With(@, key, k.page)]
  BY DEF Table
<1> HIDE DEF k
<1> QED
  BY <1>1, <1>2 DEF Call

LEMMA DirectoryKeeps ==
  ASSUME NEW m, NEW p, PmInv(m, p), NEW t, NEW v
  PROVE  Call(Directory(p, t, v)) /\ PmInv(m, Directory(p, t, v).pm)
<1> DEFINE s == [pm |-> p, pt |-> t, ok |-> TRUE]
           r == Table(s, <<"pdpt", v \div Fan^3>>)
<1>1. Call(s) /\ PmInv(m, s.pm)
  BY DEF Call
<1>2. Call(r) /\ PmInv(m, r.pm)
  BY <1>1, TableKeeps
<1> HIDE DEF r
<1>3. Call(Table(r, <<"pd", v \div Fan^2>>)) /\ PmInv(m, Table(r, <<"pd", v \div Fan^2>>).pm)
  BY <1>2, TableKeeps
<1> QED
  BY <1>3 DEF Directory, r

LEMMA MapPageKeeps ==
  ASSUME NEW m, NEW p, PmInv(m, p), NEW t, NEW frame, NEW v
  PROVE  PmInv(m, MapPage(p, t, frame, v).pm)
<1> DEFINE s == Directory(p, t, v)
           l == Table(s, <<"pt", v \div Fan>>)
<1>1. Call(s) /\ PmInv(m, s.pm)
  BY DirectoryKeeps
<1>2. Call(l) /\ PmInv(m, l.pm)
  <2> HIDE DEF s
  <2> QED
    BY <1>1, TableKeeps
<1>3. \/ MapPage(p, t, frame, v) = [s EXCEPT !.ok = FALSE]
      \/ MapPage(p, t, frame, v) = l
      \/ MapPage(p, t, frame, v) = [l EXCEPT !.pt.small = With(@, v, frame)]
  BY DEF MapPage
<1> HIDE DEF s, l
<1> QED
  BY <1>1, <1>2, <1>3 DEF Call

LEMMA MapPage2mKeeps ==
  ASSUME NEW m, NEW p, PmInv(m, p), NEW t, NEW frame, NEW v
  PROVE  PmInv(m, MapPage2m(p, t, frame, v).pm)
<1> DEFINE s == Directory(p, t, v)
           r == MapPage2m(p, t, frame, v)
<1>1. Call(s) /\ PmInv(m, s.pm)
  BY DirectoryKeeps
<1>2. r.pm = s.pm
  BY <1>1 DEF MapPage2m, Call
<1> QED
  BY <1>1, <1>2

(* jit_init asks for a positive number of bytes every time. *)
Asks(c) == c \in Seq([bytes : Nat \ {0}, check : BOOLEAN])

LEMMA DawnMaxIs ==
  ASSUME PmType(pm)
  PROVE  DawnMax \in Nat
<1>1. BITMAP_BASE \in Int /\ PageSize \in Nat /\ DawnPages \in Nat /\ pm.max \in Int
  BY ConstantsAre DEF PmType
<1>2. IsFiniteSet(BITMAP_BASE .. (pm.max - 1))
  BY <1>1, FS_Interval
<1>3. IsFiniteSet(pm.free)
  BY <1>2, FS_Subset DEF PmType
<1>4. Cardinality(pm.free) \in Nat
  BY <1>3, FS_CardinalityType
<1> DEFINE c == Cardinality(pm.free)
<1>5. DawnMax = (DawnPages + c) * PageSize
  BY DEF DawnMax, PmmFreePages
<1> HIDE DEF c
<1> QED
  BY <1>1, <1>4, <1>5 DEF c

LEMMA MapBytesIs ==
  ASSUME NEW n \in Nat
  PROVE  MapBytes(n) \in Nat \ {0}
<1> DEFINE b == (n \div 64) + 15
<1>1. b \in Nat /\ b >= 15
  BY DivIs
<1>2. b % 8 \in 0 .. 7
  <2> HIDE DEF b
  <2> QED
    BY <1>1, ModIs
<1>3. MapBytes(n) = b - (b % 8)
  BY DEF MapBytes
<1> HIDE DEF b
<1> QED
  BY <1>1, <1>2, <1>3

LEMMA PageBytesIs ==
  ASSUME NEW n \in Nat
  PROVE  PageBytes(n) \in Nat \ {0}
<1> DEFINE d == n \div PageSize
<1>1. d \in Nat
  BY ConstantsAre, DivIs
<1>2. PageBytes(n) = d + 1
  BY DEF PageBytes
<1> HIDE DEF d
<1> QED
  BY <1>1, <1>2

LEMMA Positive ==
  ASSUME NEW a \in Nat \ {0}, NEW b \in Nat \ {0}
  PROVE  a * b \in Nat \ {0}
<1>1. a * b \in Nat
  OBVIOUS
<1>2. a * b >= a * 1 /\ a * 1 = a
  BY TimesMonotone
<1> QED
  BY <1>1, <1>2

LEMMA BlocksInIs ==
  ASSUME PmType(pm), NEW n \in Nat \ {0}, NEW max \in Int, max > Fixed(n)
  PROVE  BlocksIn(n, max) \in Nat
<1> DEFINE fixed == Fixed(n)
           unit == CodeSize + BlockSize + 2 * LinkSize + 16 * MetaSize
           each == (max - fixed) \div n
           fit == each \div unit
<1>1. DawnMax \in Nat
  BY DawnMaxIs
<1>2. MapBytes(DawnMax) \in Nat /\ PageBytes(DawnMax) \in Nat
  BY <1>1, MapBytesIs, PageBytesIs
<1>3. n * (CpuSize + HashSize) \in Nat
  BY ConstantsAre
<1>4. fixed \in Nat
  BY <1>2, <1>3 DEF Fixed
<1>5. max - fixed \in Nat
  <2> HIDE DEF fixed
  <2>1. max > fixed
    BY DEF fixed
  <2> QED
    BY <1>4, <2>1
<1>6. each \in Nat
  <2> HIDE DEF fixed
  <2> QED
    BY <1>5, DivIs
<1>7. unit \in Nat \ {0}
  BY ConstantsAre
<1>8. fit \in Nat
  <2> HIDE DEF each, unit
  <2> QED
    BY <1>6, <1>7, DivIs
<1>9. BlocksIn(n, max) = IF fit > MaxBlocks THEN MaxBlocks ELSE fit
  BY DEF BlocksIn
<1> HIDE DEF fit
<1> QED
  BY <1>8, <1>9, ConstantsAre

LEMMA JitMaxIs ==
  ASSUME PmType(pm), NEW n \in Nat
  PROVE  JitMax(n) \in Int
<1> DEFINE most == (DawnMax - DawnPages * PageSize) \div 8
           want == 2 * (DawnMax \div 64) + n * JIT_CPU_BYTES
<1>1. DawnMax \in Nat
  BY DawnMaxIs
<1>2. DawnMax - DawnPages * PageSize \in Int
  BY <1>1, ConstantsAre
<1>3. most \in Int
  BY <1>2
<1>4. DawnMax \div 64 \in Nat /\ n * JIT_CPU_BYTES \in Nat
  BY <1>1, ConstantsAre
<1>5. want \in Int
  BY <1>4
<1>6. JitMax(n) = IF want > most THEN most ELSE want
  BY DEF JitMax
<1> HIDE DEF most, want
<1> QED
  BY <1>3, <1>5, <1>6

LEMMA JitCallsAsk ==
  ASSUME PmType(pm), NEW n \in Nat \ {0}, NEW blocks \in Nat \ {0}
  PROVE  Asks(JitCalls(n, blocks)) /\ JitCalls(n, blocks) # << >>
<1> DEFINE a == MapBytes(DawnMax)
           b == PageBytes(DawnMax)
           R == [bytes : Nat \ {0}, check : BOOLEAN]
           maps == <<Alloc(a + b, FALSE), Alloc(a, TRUE)>>
           cpu == <<Alloc(CpuSize, TRUE), Alloc(CodeSize * blocks, FALSE), Alloc(BlockSize * blocks, FALSE),
                    Alloc(2 * LinkSize * blocks, FALSE), Alloc(16 * MetaSize * blocks, FALSE),
                    Alloc(HashSize, TRUE)>>
           c == JitCalls(n, blocks)
<1>1. DawnMax \in Nat
  BY DawnMaxIs
<1>2. a \in Nat \ {0} /\ b \in Nat \ {0}
  BY <1>1, MapBytesIs, PageBytesIs
<1>3. /\ CodeSize * blocks \in Nat \ {0} /\ BlockSize * blocks \in Nat \ {0}
      /\ 2 * LinkSize * blocks \in Nat \ {0} /\ 16 * MetaSize * blocks \in Nat \ {0}
  <2>1. 2 * LinkSize \in Nat \ {0} /\ 16 * MetaSize \in Nat \ {0}
    BY ConstantsAre
  <2> QED
    BY <2>1, ConstantsAre, Positive
<1>4. a + b \in Nat \ {0}
  <2> HIDE DEF a, b
  <2> QED
    BY <1>2
<1>5. \A x \in Nat \ {0}, t \in BOOLEAN : Alloc(x, t) \in R
  BY DEF Alloc
<1>6. maps[1] \in R /\ maps[2] \in R
  <2> HIDE DEF a, b, R
  <2> QED
    BY <1>2, <1>4, <1>5
<1>7. /\ cpu[1] \in R /\ cpu[2] \in R /\ cpu[3] \in R /\ cpu[4] \in R
      /\ cpu[5] \in R /\ cpu[6] \in R
  <2> HIDE DEF R
  <2> QED
    BY <1>3, <1>5, ConstantsAre
<1>8. c = [i \in 1 .. (2 + 6 * n) |-> IF i <= 2 THEN maps[i] ELSE cpu[((i - 3) % 6) + 1]]
  BY DEF JitCalls
<1> HIDE DEF maps, cpu, R, a, b
<1>9. ASSUME NEW i \in 1 .. (2 + 6 * n)
      PROVE  (IF i <= 2 THEN maps[i] ELSE cpu[((i - 3) % 6) + 1]) \in R
  <2>1. CASE i <= 2
    <3>1. i = 1 \/ i = 2
      BY <2>1
    <3> QED
      BY <1>6, <2>1, <3>1
  <2>2. CASE ~(i <= 2)
    <3>1. i - 3 \in Nat
      BY <2>2
    <3>2. (i - 3) % 6 \in 0 .. 5
      BY <3>1, ModIs
    <3> DEFINE j == (i - 3) % 6
    <3>3. j = 0 \/ j = 1 \/ j = 2 \/ j = 3 \/ j = 4 \/ j = 5
      <4> HIDE DEF j
      <4> QED
        BY <3>2 DEF j
    <3>4. cpu[j + 1] \in R
      <4> HIDE DEF j
      <4> QED
        BY <1>7, <3>3
    <3> QED
      BY <2>2, <3>4
  <2> QED
    BY <2>1, <2>2
<1>10. 2 + 6 * n \in Nat /\ 2 + 6 * n > 0
  OBVIOUS
<1> DEFINE g == [i \in 1 .. (2 + 6 * n) |-> IF i <= 2 THEN maps[i] ELSE cpu[((i - 3) % 6) + 1]]
<1>11. g \in Seq(R) /\ g # << >>
  <2>1. g \in [1 .. (2 + 6 * n) -> R]
    BY <1>9
  <2> HIDE DEF g
  <2>2. g \in Seq(R) /\ Len(g) = 2 + 6 * n
    BY <1>10, <2>1, SeqDef, LenProperties
  <2> QED
    BY <1>10, <2>2, EmptySeq
<1> QED
  BY <1>8, <1>11 DEF Asks, R

-----------------------------------------------------------------------------
(* The boot *)

(* While jit_init runs it has an allocation to make, and of a positive size. *)
JitAsks == at = "jit" => Asks(calls) /\ calls # << >>

(* Before pmm_init nothing is free and nothing was given.                    *)
Unmade == at = "init" => pm.hint = BITMAP_BASE /\ pm.given = << >>

BootInv == machine \in Machines /\ PmInv(machine, pm) /\ JitAsks /\ Unmade

LEMMA BootInit ==
  ASSUME Init
  PROVE  BootInv
<1>1. PmType(pm)
  <2>1. /\ DOMAIN pm = {"free", "hint", "max", "bitmap", "given"}
        /\ pm.max = 0 /\ pm.hint = BITMAP_BASE /\ pm.free = {} /\ pm.given = << >>
    BY DEF Init
  <2>2. << >> \in Seq(SUBSET Int)
    BY EmptySeq
  <2> QED
    BY <2>1, <2>2, ConstantsAre DEF PmType
<1>2. PmOwners(machine, pm) /\ PmHint(pm)
  <2>1. pm.free = {} /\ pm.given = << >> /\ pm.hint = BITMAP_BASE
    BY DEF Init
  <2>2. 1 .. Len(pm.given) = {}
    BY <2>1, EmptySeq
  <2> QED
    BY <2>1, <2>2 DEF PmOwners, PmHint
<1>3. machine \in Machines /\ JitAsks /\ Unmade
  BY DEF Init, JitAsks, Unmade
<1> QED
  BY <1>1, <1>2, <1>3 DEF BootInv, PmInv

(* pmm_init: what it leaves free is in usable entries, above the low pages   *)
(* and outside the bitmap.                                                   *)
LEMMA PmmInitKeeps ==
  ASSUME BootInv, PmmInit
  PROVE  BootInv'
<1> DEFINE map == machine.map
           k == BitmapPages(map)
           fits == {i \in DOMAIN map : Holds(map[i], k)}
           start == BitmapStart(map[Min(fits)])
           bitmap == start..(start + k - 1)
           free == UNION {EntryPages(map[i]) : i \in {i \in DOMAIN map : Usable(map[i])}}
           top == NewMaxPage(map)
           left == (free \cap BITMAP_BASE..(top - 1)) \ bitmap
<1>1. /\ machine \in Machines /\ machine' = machine /\ at = "init"
      /\ pm.hint = BITMAP_BASE /\ pm.given = << >>
      /\ DOMAIN pm = {"free", "hint", "max", "bitmap", "given"}
  BY DEF BootInv, PmmInit, Unmade, PmInv, PmType
<1>2. CASE pm' = pm /\ at' = "panic"
  BY <1>1, <1>2 DEF BootInv, JitAsks, Unmade
<1>3. CASE at' = "buffers" /\ pm' = [pm EXCEPT !.max = top, !.bitmap = bitmap, !.free = left]
  <2>1. /\ DOMAIN pm' = {"free", "hint", "max", "bitmap", "given"}
        /\ pm'.max = top /\ pm'.bitmap = bitmap /\ pm'.free = left
        /\ pm'.hint = BITMAP_BASE /\ pm'.given = << >>
    <3> HIDE DEF top, bitmap, left
    <3> QED
      BY <1>1, <1>3
  <2>2. top \in Nat
    BY <1>1, NewMaxPageIs
  <2>3. ASSUME NEW x \in left PROVE Ours(machine, pm', x)
    <3>1. /\ x \in BITMAP_BASE .. (top - 1) /\ x \notin bitmap
          /\ \E i \in DOMAIN map : Usable(map[i]) /\ x \in EntryPages(map[i])
      <4> HIDE DEF bitmap, map
      <4> QED
        BY <2>3
    <3>2. PICK i \in DOMAIN map : Usable(map[i]) /\ x \in EntryPages(map[i])
      BY <3>1
    <3>3. map[i].base \in Nat /\ map[i].len \in Nat
      BY <1>1, MapIs
    <3>4. map[i].base <= x * PageSize /\ (x + 1) * PageSize <= map[i].base + map[i].len
      BY <3>2, <3>3, EntryPagesAre
    <3>5. map[i] \in Range(map)
      BY DEF Range
    <3>6. x >= BITMAP_BASE
      <4> HIDE DEF top
      <4> QED
        BY <2>2, <3>1, ConstantsAre
    <3> HIDE DEF bitmap
    <3> QED
      BY <2>1, <3>1, <3>2, <3>4, <3>5, <3>6 DEF Ours
  <2>4. left \in SUBSET (BITMAP_BASE .. (top - 1))
    OBVIOUS
  <2> HIDE DEF top, left, bitmap
  <2>5. PmType(pm')
    <3>1. << >> \in Seq(SUBSET Int)
      BY EmptySeq
    <3> QED
      BY <2>1, <2>2, <2>4, <3>1, ConstantsAre DEF PmType
  <2>6. PmOwners(machine, pm')
    <3>1. 1 .. Len(pm'.given) = {}
      BY <2>1, EmptySeq
    <3> QED
      BY <2>1, <2>3, <3>1 DEF PmOwners
  <2>7. PmHint(pm')
    BY <2>1 DEF PmHint
  <2> QED
    BY <1>1, <1>3, <2>5, <2>6, <2>7 DEF BootInv, PmInv, JitAsks, Unmade
<1> QED
  BY <1>2, <1>3 DEF PmmInit

LEMMA SetUpJitKeeps ==
  ASSUME BootInv, SetUpJit
  PROVE  BootInv'
<1> DEFINE n == IF machine.ncpus > JIT_MAX_CPUS THEN JIT_MAX_CPUS ELSE machine.ncpus
           max == JitMax(machine.ncpus)
<1>1. machine \in Machines /\ PmType(pm) /\ machine' = machine /\ pm' = pm
  BY DEF BootInv, PmInv, SetUpJit
<1>2. machine.ncpus \in Nat \ {0} /\ n \in Nat \ {0}
  BY <1>1, MapIs, ConstantsAre
<1>3. max \in Int
  BY <1>1, <1>2, JitMaxIs
<1>4. CASE at' = "grow"
  BY <1>1, <1>4 DEF BootInv, JitAsks, Unmade
<1>5. CASE ~(max <= Fixed(n) \/ BlocksIn(n, max) < MinBlocks) /\ at' = "jit"
           /\ calls' = JitCalls(n, BlocksIn(n, max))
  <2> HIDE DEF n, max
  <2>1. Fixed(n) \in Nat
    <3>1. DawnMax \in Nat
      BY <1>1, DawnMaxIs
    <3>2. MapBytes(DawnMax) \in Nat /\ PageBytes(DawnMax) \in Nat
      BY <3>1, MapBytesIs, PageBytesIs
    <3>3. n * (CpuSize + HashSize) \in Nat
      BY <1>2, ConstantsAre
    <3> QED
      BY <3>2, <3>3 DEF Fixed
  <2>2. max > Fixed(n)
    BY <1>3, <1>5, <2>1
  <2>3. BlocksIn(n, max) \in Nat
    BY <1>1, <1>2, <1>3, <2>2, BlocksInIs
  <2>4. BlocksIn(n, max) \in Nat \ {0}
    BY <1>5, <2>3, ConstantsAre
  <2>5. Asks(calls') /\ calls' # << >>
    BY <1>1, <1>2, <1>5, <2>4, JitCallsAsk
  <2> QED
    BY <1>1, <1>5, <2>5 DEF BootInv, JitAsks, Asks, Unmade
<1> QED
  BY <1>4, <1>5 DEF SetUpJit

LEMMA JitAllocKeeps ==
  ASSUME BootInv, JitAlloc
  PROVE  BootInv'
<1> DEFINE c == Head(calls)
           k == CeilDiv(c.bytes, PageSize)
<1>1. /\ machine' = machine /\ machine \in Machines /\ PmInv(machine, pm)
      /\ at = "jit" /\ Asks(calls) /\ calls # << >>
  BY DEF BootInv, JitAlloc, JitAsks
<1>2. c \in [bytes : Nat \ {0}, check : BOOLEAN] /\ Asks(Tail(calls))
  BY <1>1, HeadTailProperties DEF Asks
<1>3. k \in Nat \ {0}
  <2> HIDE DEF c
  <2>1. c.bytes \in Nat /\ c.bytes > 0
    BY <1>2
  <2>2. CeilDiv(c.bytes, PageSize) \in Nat /\ CeilDiv(c.bytes, PageSize) > 0
    BY <2>1, ConstantsAre, CeilDivIs
  <2> QED
    BY <2>2
<1>4. pm' = Kmalloc(pm, k).p
  BY DEF JitAlloc
<1>5. PmInv(machine, pm')
  <2> HIDE DEF k
  <2> QED
    BY <1>1, <1>3, <1>4, KmallocKeeps
<1>6. (calls' = << >> \/ calls' = Tail(calls)) /\ at' = IF calls' = << >> THEN "grow" ELSE "jit"
  BY DEF JitAlloc
<1>7. JitAsks' /\ Unmade'
  BY <1>2, <1>6 DEF JitAsks, Asks, Unmade
<1> QED
  BY <1>1, <1>5, <1>7 DEF BootInv

LEMMA BootNext ==
  ASSUME BootInv, [Next]_vars
  PROVE  BootInv'
<1> USE DEF BootInv
<1>1. CASE PmmInit
  BY <1>1, PmmInitKeeps
<1>2. CASE AllocBuffers
  <2>1. machine.screen \in Nat
    BY MapIs
  <2>2. PmInv(machine, Kalloc(pm, machine.screen))
    BY <2>1, KallocKeeps
  <2>3. PmInv(machine, Kalloc(Kalloc(pm, machine.screen), machine.screen))
    BY <2>1, <2>2, KallocKeeps
  <2> QED
    BY <1>2, <2>3 DEF AllocBuffers, JitAsks, Unmade
<1>3. CASE NewPagemap
  <2>1. PmInv(machine, Kmalloc(pm, 1).p)
    BY KmallocKeeps
  <2> QED
    BY <1>3, <2>1 DEF NewPagemap, JitAsks, Unmade
<1>4. CASE MapCall
  <2> DEFINE c == Head(calls)
  <2>1. PmInv(machine, MapPage2m(pm, pt, c.frame, c.v).pm)
    BY MapPage2mKeeps
  <2>2. PmInv(machine, MapPage(pm, pt, c.frame, c.v).pm)
    BY MapPageKeeps
  <2>3. /\ machine' = machine /\ at = "map" /\ at' = "map"
        /\ \/ pm' = pm
           \/ pm' = MapPage2m(pm, pt, c.frame, c.v).pm
           \/ pm' = MapPage(pm, pt, c.frame, c.v).pm
    BY <1>4 DEF MapCall
  <2> HIDE DEF c
  <2> QED
    BY <2>1, <2>2, <2>3 DEF JitAsks, Unmade
<1>5. CASE SetUpJit
  BY <1>5, SetUpJitKeeps
<1>6. CASE JitAlloc
  BY <1>6, JitAllocKeeps
<1>7. CASE GrowGuest
  <2> DEFINE k == Kmalloc(pm, 1)
  <2>1. PmInv(machine, k.p)
    BY KmallocKeeps
  <2>2. PmInv(machine, MapPage(k.p, pt, k.page, DawnPages + pg).pm)
    <3> HIDE DEF k
    <3> QED
      BY <2>1, MapPageKeeps
  <2>3. /\ machine' = machine /\ at' \in {"grow", "fill"}
        /\ pm' = pm \/ pm' = MapPage(k.p, pt, k.page, DawnPages + pg).pm
    BY <1>7 DEF GrowGuest
  <2> HIDE DEF k
  <2> QED
    BY <2>2, <2>3 DEF JitAsks, Unmade
<1>8. CASE Finish
  BY <1>8 DEF Finish, JitAsks, Unmade
<1>9. CASE UNCHANGED vars
  BY <1>9 DEF vars, JitAsks, Unmade
<1> QED
  BY <1>1, <1>2, <1>3, <1>4, <1>5, <1>6, <1>7, <1>8, <1>9 DEF Next, Done

LEMMA BootHolds == Spec => []BootInv
<1>1. Init => BootInv
  BY BootInit
<1>2. BootInv /\ [Next]_vars => BootInv'
  BY BootNext
<1> QED
  BY <1>1, <1>2, PTL DEF Spec

(* No page of the machine has two owners, whatever its memory map and        *)
(* however often the boot runs out: what kmalloc hands out (pmm.c 91-126) is *)
(* usable memory, above the low pages, outside the bitmap, and given once.   *)
THEOREM PagesHaveOneOwner == Spec => []OneOwner
<1>1. BootInv => OneOwner
  <2> SUFFICES ASSUME BootInv PROVE OneOwner
    OBVIOUS
  <2>1. DOMAIN pm.given = 1 .. Len(pm.given)
    BY LenProperties DEF BootInv, PmInv, PmType
  <2>2. \A i, k \in DOMAIN pm.given : i # k => pm.given[i] \cap pm.given[k] = {}
    BY <2>1 DEF BootInv, PmInv, PmOwners
  <2>3. \A p \in UNION Range(pm.given) : Ours(machine, pm, p)
    BY <2>1 DEF BootInv, PmInv, PmOwners, Range
  <2> QED
    BY <2>2, <2>3 DEF OneOwner, Ours
<1> QED
  BY <1>1, BootHolds, PTL

(* kmalloc's two passes are as good as one over all of memory: if the pages  *)
(* it is asked for are free in a row, they are found, though neither pass    *)
(* looks across the hint (pmm.c 96), at every point of every boot.           *)
THEOREM FreeRunsAreFound == Spec => []KmallocFindsRun
<1>1. BootInv => KmallocFindsRun
  <2> SUFFICES ASSUME BootInv, NEW k \in 1 .. (pm.max - BITMAP_BASE), Kmalloc(pm, k).page = Null
               PROVE  RunEnds(pm, BITMAP_BASE, pm.max, k) = {}
    BY DEF KmallocFindsRun
  <2>1. k \in Nat \ {0}
    OBVIOUS
  <2> QED
    BY <2>1, KmallocFinds DEF BootInv, PmInv
<1> QED
  BY <1>1, BootHolds, PTL

-----------------------------------------------------------------------------
(* The end of memory *)

Tables(t) == DOMAIN t = {"tables", "small", "large"}

(* A table more changes no mapping. *)
LEMMA TableMaps ==
  ASSUME NEW s, Call(s), Tables(s.pt), NEW key
  PROVE  LET r == Table(s, key) IN
         Call(r) /\ Tables(r.pt) /\ r.pt.small = s.pt.small /\ r.pt.large = s.pt.large
<1> DEFINE k == Kmalloc(s.pm, 1)
           more == With(s.pt.tables, key, k.page)
<1>1. \/ Table(s, key) = s
      \/ Table(s, key) = [s EXCEPT !.ok = FALSE]
      \/ Table(s, key) = [s EXCEPT !.pm = k.p, !.pt.tables = more]
  BY DEF Table
<1> HIDE DEF k, more
<1>2. CASE Table(s, key) = [s EXCEPT !.pm = k.p, !.pt.tables = more]
  <2>1. Table(s, key).pt = [s.pt EXCEPT !.tables = more] /\ DOMAIN Table(s, key) = DOMAIN s
    BY <1>2 DEF Call
  <2> QED
    BY <2>1 DEF Call, Tables
<1> QED
  BY <1>1, <1>2 DEF Call, Tables

LEMMA DirectoryMaps ==
  ASSUME NEW p, NEW t, Tables(t), NEW v
  PROVE  LET r == Directory(p, t, v) IN
         Call(r) /\ Tables(r.pt) /\ r.pt.small = t.small /\ r.pt.large = t.large
<1> DEFINE s == [pm |-> p, pt |-> t, ok |-> TRUE]
           q == Table(s, <<"pdpt", v \div Fan^3>>)
           r == Table(q, <<"pd", v \div Fan^2>>)
<1>1. Call(s) /\ Tables(s.pt) /\ s.pt.small = t.small /\ s.pt.large = t.large
  BY DEF Call
<1>2. Call(q) /\ Tables(q.pt) /\ q.pt.small = t.small /\ q.pt.large = t.large
  BY <1>1, TableMaps
<1> HIDE DEF q
<1>3. Call(r) /\ Tables(r.pt) /\ r.pt.small = t.small /\ r.pt.large = t.large
  BY <1>2, TableMaps
<1> QED
  BY <1>3 DEF Directory, q

(* map_page adds the one mapping, not below a large page, or none. *)
LEMMA MapPageMaps ==
  ASSUME NEW p, NEW t, Tables(t), NEW frame, NEW v
  PROVE  LET r == MapPage(p, t, frame, v) IN
         /\ Tables(r.pt) /\ r.pt.large = t.large
         /\ r.ok => v \div Fan \notin DOMAIN t.large /\ r.pt.small = With(t.small, v, frame)
         /\ ~r.ok => r.pt.small = t.small
<1> DEFINE s == Directory(p, t, v)
           l == Table(s, <<"pt", v \div Fan>>)
           r == MapPage(p, t, frame, v)
           more == With(t.small, v, frame)
<1>1. Call(s) /\ Tables(s.pt) /\ s.pt.small = t.small /\ s.pt.large = t.large
  BY DirectoryMaps
<1>2. Call(l) /\ Tables(l.pt) /\ l.pt.small = t.small /\ l.pt.large = t.large
  <2> HIDE DEF s
  <2> QED
    BY <1>1, TableMaps
<1>3. \/ r = [s EXCEPT !.ok = FALSE]
      \/ r = l /\ ~l.ok
      \/ r = [l EXCEPT !.pt.small = more] /\ l.ok /\ v \div Fan \notin DOMAIN t.large
  BY <1>1, <1>2 DEF MapPage
<1> HIDE DEF s, l, r, more
<1>4. CASE r = [s EXCEPT !.ok = FALSE]
  <2>1. r.pt = s.pt /\ ~r.ok
    BY <1>1, <1>4 DEF Call
  <2> QED
    BY <1>1, <2>1 DEF r
<1>5. CASE r = l /\ ~l.ok
  BY <1>2, <1>5 DEF r
<1>6. CASE r = [l EXCEPT !.pt.small = more] /\ l.ok /\ v \div Fan \notin DOMAIN t.large
  <2>1. r.pt = [l.pt EXCEPT !.small = more] /\ r.ok = l.ok
    BY <1>2, <1>6 DEF Call
  <2>2. Tables(r.pt) /\ r.pt.large = t.large /\ r.pt.small = more /\ r.ok
    BY <1>2, <1>6, <2>1 DEF Tables
  <2> QED
    BY <1>6, <2>2 DEF r, more
<1> QED
  BY <1>3, <1>4, <1>5, <1>6

LEMMA MapPage2mMaps ==
  ASSUME NEW p, NEW t, Tables(t), NEW frame, NEW v
  PROVE  Tables(MapPage2m(p, t, frame, v).pt)
<1> DEFINE s == Directory(p, t, v)
           r == MapPage2m(p, t, frame, v)
<1>1. Call(s) /\ Tables(s.pt)
  BY DirectoryMaps
<1>2. r = s \/ \E a, b, c : r = [s EXCEPT !.pt.large = a, !.pt.tables = b, !.pt.small = c]
  BY DEF MapPage2m
<1> HIDE DEF s, r
<1>3. DOMAIN r.pt = DOMAIN s.pt
  BY <1>1, <1>2 DEF Call, Tables
<1> QED
  BY <1>1, <1>3 DEF Tables, r

(* A page shifted into lastptrs comes first, the others follow. *)
LEMMA ShiftIs ==
  ASSUME last \in Seq(Int), Len(last) <= 4, NEW p \in Int
  PROVE  /\ Shift(p) \in Seq(Int)
         /\ Len(Shift(p)) = IF Len(last) < 4 THEN Len(last) + 1 ELSE 4
         /\ Shift(p)[1] = p
         /\ \A j \in 2 .. Len(Shift(p)) : Shift(p)[j] = last[j - 1]
<1> DEFINE n == IF Len(last) < 4 THEN Len(last) + 1 ELSE 4
           u == <<p>> \o last
<1>1. Len(last) \in Nat /\ <<p>> \in Seq(Int) /\ Len(<<p>>) = 1 /\ <<p>>[1] = p
  BY LenProperties
<1>2. /\ u \in Seq(Int) /\ Len(u) = 1 + Len(last) /\ u[1] = p
      /\ \A j \in 2 .. Len(u) : u[j] = last[j - 1]
  BY <1>1, ConcatProperties
<1>3. n \in 1 .. Len(u)
  <2> HIDE DEF u
  <2> QED
    BY <1>1, <1>2
<1> HIDE DEF n, u
<1>4. /\ SubSeq(u, 1, n) \in Seq(Int) /\ Len(SubSeq(u, 1, n)) = n
      /\ \A j \in 1 .. n : SubSeq(u, 1, n)[j] = u[j]
  BY <1>1, <1>2, <1>3, SubSeqProperties
<1>5. Shift(p) = SubSeq(u, 1, n)
  BY DEF Shift, n, u
<1>6. 1 \in 1 .. n /\ \A j \in 2 .. n : j \in 1 .. n /\ j \in 2 .. Len(u)
  BY <1>1, <1>2, <1>3
<1>7. Len(Shift(p)) = n /\ Shift(p)[1] = p /\ \A j \in 2 .. n : Shift(p)[j] = last[j - 1]
  BY <1>2, <1>4, <1>5, <1>6
<1> QED
  BY <1>4, <1>5, <1>7 DEF n

(* The pages in lastptrs are the newest of guest memory, newest first, each  *)
(* mapped where the guest has it and below no large page.                    *)
Newest(seq, t, n) ==
  /\ seq \in Seq(Int) /\ Len(seq) = IF n < 4 THEN n ELSE 4
  /\ \A i \in 1 .. Len(seq) :
       LET v == DawnPages + n - i
       IN  v \div Fan \notin DOMAIN t.large /\ v \in DOMAIN t.small /\ t.small[v] = seq[i]

EndInv ==
  /\ pg \in Nat /\ Tables(pt)
  /\ Newest(last, pt, pg)
  /\ at \notin {"grow", "fill", "run"} => pg = 0
  /\ at = "run" => filled = Range(last)

LEMMA EndInit ==
  ASSUME Init
  PROVE  EndInv
<1>1. pg = 0 /\ last = << >> /\ at = "init" /\ DOMAIN pt = {"tables", "small", "large"}
  BY DEF Init
<1>2. Newest(last, pt, pg)
  <2>1. << >> \in Seq(Int) /\ Len(<< >>) = 0 /\ 1 .. 0 = {}
    BY EmptySeq
  <2> QED
    BY <1>1, <2>1 DEF Newest
<1> QED
  BY <1>1, <1>2 DEF EndInv, Tables

(* While nothing was shared out the tables may change. *)
LEMMA NewestNone ==
  ASSUME NEW t, NEW u, NEW seq, Newest(seq, t, 0)
  PROVE  Newest(seq, u, 0)
<1>1. seq \in Seq(Int) /\ Len(seq) = 0
  BY DEF Newest
<1>2. 1 .. Len(seq) = {}
  BY <1>1
<1> QED
  BY <1>1, <1>2 DEF Newest

LEMMA NewestGrows ==
  ASSUME Newest(last, pt, pg), pg \in Nat, NEW f \in Int, NEW t,
         t.large = pt.large, t.small = With(pt.small, DawnPages + pg, f),
         (DawnPages + pg) \div Fan \notin DOMAIN pt.large
  PROVE  Newest(Shift(f), t, pg + 1)
<1> DEFINE w == DawnPages + pg
           s == Shift(f)
<1>1. last \in Seq(Int) /\ Len(last) = (IF pg < 4 THEN pg ELSE 4) /\ Len(last) <= 4 /\ Len(last) \in Nat
  BY DEF Newest
<1>2. /\ s \in Seq(Int) /\ Len(s) = (IF Len(last) < 4 THEN Len(last) + 1 ELSE 4)
      /\ s[1] = f /\ \A j \in 2 .. Len(s) : s[j] = last[j - 1]
  BY <1>1, ShiftIs
<1>3. DawnPages \in Nat /\ w \in Nat
  BY ConstantsAre
<1>4. t.small[w] = f /\ w \in DOMAIN t.small
  BY DEF With
<1>5. ASSUME NEW v \in DOMAIN pt.small, v # w
      PROVE  v \in DOMAIN t.small /\ t.small[v] = pt.small[v]
  BY <1>5 DEF With
<1> HIDE DEF s
<1>6. ASSUME NEW i \in 1 .. Len(s)
      PROVE  LET v == DawnPages + (pg + 1) - i
             IN  v \div Fan \notin DOMAIN t.large /\ v \in DOMAIN t.small /\ t.small[v] = s[i]
  <2> DEFINE v == DawnPages + (pg + 1) - i
  <2>1. CASE i = 1
    <3>1. v = w
      BY <1>3, <2>1
    <3> QED
      BY <1>2, <1>4, <2>1, <3>1
  <2>2. CASE i # 1
    <3>1. i \in 2 .. Len(s) /\ i - 1 \in 1 .. Len(last)
      <4> DEFINE n == Len(s)
                 l == Len(last)
      <4>1. n = (IF l < 4 THEN l + 1 ELSE 4) /\ l \in Nat /\ l <= 4 /\ i \in 1 .. n
        BY <1>1, <1>2
      <4> HIDE DEF n, l
      <4>2. i \in 2 .. n /\ i - 1 \in 1 .. l
        BY <2>2, <4>1
      <4> QED
        BY <4>2 DEF n, l
    <3>2. v = DawnPages + pg - (i - 1) /\ v # w
      BY <1>3, <2>2
    <3>3. v \div Fan \notin DOMAIN pt.large /\ v \in DOMAIN pt.small /\ pt.small[v] = last[i - 1]
      <4> HIDE DEF v
      <4> QED
        BY <3>1, <3>2 DEF Newest
    <3> HIDE DEF v, w
    <3>4. v \in DOMAIN t.small /\ t.small[v] = pt.small[v]
      BY <1>5, <3>2, <3>3
    <3>5. s[i] = last[i - 1]
      BY <1>2, <3>1
    <3> QED
      BY <3>3, <3>4, <3>5 DEF v
  <2> QED
    BY <2>1, <2>2
<1>7. Len(s) = IF pg + 1 < 4 THEN pg + 1 ELSE 4
  BY <1>1, <1>2
<1>8. Newest(s, t, pg + 1)
  BY <1>2, <1>6, <1>7 DEF Newest
<1> QED
  BY <1>8 DEF s

LEMMA GrowGuestKeepsEnd ==
  ASSUME BootInv, EndInv, GrowGuest
  PROVE  EndInv'
<1> DEFINE k == Kmalloc(pm, 1)
           s == MapPage(k.p, pt, k.page, DawnPages + pg)
<1>1. /\ at = "grow" /\ pg \in Nat /\ Tables(pt) /\ Newest(last, pt, pg) /\ filled' = filled
      /\ at' \in {"grow", "fill"}
  BY DEF EndInv, GrowGuest
<1>2. CASE k.page = Null
  <2>1. at' = "fill" /\ pt' = pt /\ pg' = pg /\ last' = last
    BY <1>2 DEF GrowGuest
  <2> QED
    BY <1>1, <2>1 DEF EndInv
<1>3. CASE k.page # Null
  <2>1. /\ Tables(s.pt) /\ s.pt.large = pt.large /\ (~s.ok => s.pt.small = pt.small)
        /\ s.ok => /\ (DawnPages + pg) \div Fan \notin DOMAIN pt.large
                   /\ s.pt.small = With(pt.small, DawnPages + pg, k.page)
    <3> HIDE DEF k
    <3> QED
      BY <1>1, MapPageMaps
  <2>2. pt' = s.pt /\ last' = Noted(s.ok, k.page) /\ pg' = IF s.ok THEN pg + 1 ELSE pg
    BY <1>3 DEF GrowGuest
  <2>3. k.page \in Int
    <3>1. PmType(pm)
      BY DEF BootInv, PmInv
    <3>2. ASSUME NEW i \in Int, k = [p |-> Taken(pm, i, 1), page |-> i - 1 + 1] PROVE k.page \in Int
      BY <3>2
    <3>3. ASSUME k = [p |-> pm, page |-> Null] PROVE k.page \in Int
      BY <3>3 DEF Null
    <3>4. 1 \in Nat \ {0}
      OBVIOUS
    <3> QED
      BY <3>1, <3>2, <3>3, <3>4, KmallocIs
  <2>4. CASE s.ok
    <3>1. last' = Shift(k.page) /\ pg' = pg + 1
      BY <2>2, <2>4 DEF Noted
    <3>2. Newest(Shift(k.page), s.pt, pg + 1)
      <4> HIDE DEF s, k
      <4> QED
        BY <1>1, <2>1, <2>3, <2>4, NewestGrows
    <3> HIDE DEF s, k
    <3> QED
      BY <1>1, <2>1, <2>2, <3>1, <3>2 DEF EndInv
  <2>5. CASE ~s.ok
    <3> HIDE DEF s, k
    <3>1. last' = last /\ pg' = pg /\ pt' = s.pt
      BY <2>2, <2>5 DEF Noted
    <3>2. Newest(last, s.pt, pg)
      BY <1>1, <2>1, <2>5 DEF Newest
    <3> QED
      BY <1>1, <2>1, <3>1, <3>2 DEF EndInv
  <2> QED
    BY <2>4, <2>5
<1> QED
  BY <1>2, <1>3

LEMMA EndNext ==
  ASSUME BootInv, EndInv, [Next]_vars
  PROVE  EndInv'
<1>1. ASSUME pg' = pg, last' = last, filled' = filled, at' # "run",
             at \notin {"grow", "fill", "run"} \/ pt' = pt, Tables(pt'),
             at' \notin {"grow", "fill"} => at \notin {"grow", "fill", "run"}
      PROVE  EndInv'
  <2>1. Newest(last, pt', pg)
    BY <1>1, NewestNone DEF EndInv
  <2> QED
    BY <1>1, <2>1 DEF EndInv
<1>2. CASE PmmInit
  BY <1>1, <1>2 DEF PmmInit, EndInv
<1>3. CASE AllocBuffers
  BY <1>1, <1>3 DEF AllocBuffers, EndInv
<1>4. CASE NewPagemap
  BY <1>1, <1>4 DEF NewPagemap, EndInv
<1>5. CASE MapCall
  <2> DEFINE c == Head(calls)
  <2>1. Tables(pt)
    BY DEF EndInv
  <2>2. Tables(MapPage2m(pm, pt, c.frame, c.v).pt) /\ Tables(MapPage(pm, pt, c.frame, c.v).pt)
    BY <2>1, MapPage2mMaps, MapPageMaps
  <2>3. /\ at = "map" /\ at' = "map" /\ pg' = pg /\ last' = last /\ filled' = filled
        /\ \/ pt' = pt
           \/ pt' = MapPage2m(pm, pt, c.frame, c.v).pt
           \/ pt' = MapPage(pm, pt, c.frame, c.v).pt
    BY <1>5 DEF MapCall
  <2>4. Tables(pt')
    <3> HIDE DEF c
    <3> QED
      BY <2>1, <2>2, <2>3
  <2> QED
    BY <1>1, <2>3, <2>4
<1>6. CASE SetUpJit
  BY <1>1, <1>6 DEF SetUpJit, EndInv
<1>7. CASE JitAlloc
  <2>1. at = "jit" /\ at' \in {"grow", "jit"} /\ pt' = pt /\ pg' = pg /\ last' = last /\ filled' = filled
    BY <1>7 DEF JitAlloc
  <2> QED
    BY <1>1, <2>1 DEF EndInv
<1>8. CASE GrowGuest
  BY <1>8, GrowGuestKeepsEnd
<1>9. CASE Finish
  BY <1>9 DEF Finish, EndInv, Range
<1>10. CASE UNCHANGED vars
  BY <1>10 DEF vars, EndInv, Range
<1> QED
  BY <1>2, <1>3, <1>4, <1>5, <1>6, <1>7, <1>8, <1>9, <1>10 DEF Next, Done

(* The pages filled with ones are the last four of the guest's memory as the *)
(* page tables have it, or all there are after the image, though the loop    *)
(* takes a page more than it can map (dawn.c 256-274).                       *)
THEOREM EndOfMemoryMarked == Spec => []EndIsMarked
<1>1. Init => EndInv
  BY EndInit
<1>2. BootInv /\ EndInv /\ [Next]_vars => EndInv'
  BY EndNext
<1>3. EndInv => EndIsMarked
  <2> SUFFICES ASSUME EndInv, at = "run" PROVE EndIsMarked
    BY DEF EndIsMarked
  <2> DEFINE V == {v \in DawnPages .. (DawnPages + pg - 1) : v >= DawnPages + pg - 4}
  <2>1. /\ pg \in Nat /\ DawnPages \in Nat /\ filled = Range(last)
        /\ last \in Seq(Int) /\ DOMAIN last = 1 .. Len(last) /\ Len(last) \in Nat
        /\ Len(last) = IF pg < 4 THEN pg ELSE 4
    BY ConstantsAre, LenProperties DEF EndInv, Newest
  <2>2. ASSUME NEW i \in 1 .. Len(last)
        PROVE  DawnPages + pg - i \in V /\ Translate(DawnPages + pg - i) = last[i]
    <3>1. DawnPages + pg - i \in V
      BY <2>1
    <3> DEFINE v == DawnPages + pg - i
    <3>2. v \div Fan \notin DOMAIN pt.large /\ v \in DOMAIN pt.small /\ pt.small[v] = last[i]
      BY DEF EndInv, Newest
    <3>3. Translate(v) = last[i]
      <4> HIDE DEF v
      <4> QED
        BY <3>2 DEF Translate
    <3> QED
      BY <3>1, <3>3
  <2>3. ASSUME NEW v \in V
        PROVE  \E i \in 1 .. Len(last) : v = DawnPages + pg - i
    <3>1. DawnPages + pg - v \in 1 .. Len(last) /\ v = DawnPages + pg - (DawnPages + pg - v)
      BY <2>1
    <3> QED
      BY <3>1
  <2>4. {Translate(v) : v \in V} = Range(last)
    <3>1. ASSUME NEW v \in V PROVE Translate(v) \in Range(last)
      <4>1. PICK i \in 1 .. Len(last) : v = DawnPages + pg - i
        BY <2>3
      <4>2. Translate(v) = last[i]
        BY <2>2, <4>1
      <4> QED
        BY <2>1, <4>2 DEF Range
    <3>2. ASSUME NEW f \in Range(last) PROVE \E v \in V : f = Translate(v)
      <4>1. PICK i \in 1 .. Len(last) : f = last[i]
        BY <2>1 DEF Range
      <4> QED
        BY <2>2, <4>1
    <3> HIDE DEF V
    <3> QED
      BY <3>1, <3>2
  <2> QED
    BY <2>1, <2>4 DEF EndIsMarked
<1>4. Spec => []EndInv
  BY <1>1, <1>2, BootHolds, PTL DEF Spec
<1> QED
  BY <1>3, <1>4, PTL

-----------------------------------------------------------------------------
(* The guest's address space *)

(* A page handed out by itself. *)
Held(p, x) == \E i \in 1 .. Len(p.given) : p.given[i] = {x}

(* After more allocations fewer pages are free, and none came back. *)
Later(p, q) == q.free \subseteq p.free /\ \A x : Held(p, x) => Held(q, x)

(* After more page tables the others are where they were, and the new ones   *)
(* have pages that were free.                                                *)
Built(p, t, q, u) ==
  /\ Later(p, q) /\ Tables(u)
  /\ \A key \in DOMAIN u.tables :
       \/ key \in DOMAIN t.tables /\ u.tables[key] = t.tables[key]
       \/ u.tables[key] \in p.free /\ Held(q, u.tables[key])

LEMMA LaterTransitive ==
  ASSUME NEW p, NEW q, NEW r, Later(p, q), Later(q, r)
  PROVE  Later(p, r)
BY DEF Later

LEMMA BuiltTransitive ==
  ASSUME NEW p, NEW t, NEW q, NEW u, NEW r, NEW w, Built(p, t, q, u), Built(q, u, r, w)
  PROVE  Built(p, t, r, w)
<1>1. Later(p, r) /\ Tables(w)
  BY LaterTransitive DEF Built
<1>2. ASSUME NEW key \in DOMAIN w.tables
      PROVE  \/ key \in DOMAIN t.tables /\ w.tables[key] = t.tables[key]
             \/ w.tables[key] \in p.free /\ Held(r, w.tables[key])
  <2>1. CASE key \in DOMAIN u.tables /\ w.tables[key] = u.tables[key]
    <3>1. CASE key \in DOMAIN t.tables /\ u.tables[key] = t.tables[key]
      BY <2>1, <3>1
    <3>2. CASE u.tables[key] \in p.free /\ Held(q, u.tables[key])
      BY <2>1, <3>2 DEF Built, Later
    <3> QED
      BY <2>1, <3>1, <3>2 DEF Built
  <2>2. CASE w.tables[key] \in q.free /\ Held(r, w.tables[key])
    BY <2>2 DEF Built, Later
  <2> QED
    BY <2>1, <2>2 DEF Built
<1> QED
  BY <1>1, <1>2 DEF Built

(* What was handed out is usable memory and no longer free. *)
LEMMA HeldIs ==
  ASSUME NEW m, NEW p, PmInv(m, p), NEW x, Held(p, x)
  PROVE  x \in Int /\ Ours(m, p, x) /\ x \notin p.free
<1>1. PICK i \in 1 .. Len(p.given) : p.given[i] = {x}
  BY DEF Held
<1>2. p.given[i] \in SUBSET Int
  BY ElementOfSeq DEF PmInv, PmType
<1> QED
  BY <1>1, <1>2 DEF PmInv, PmOwners

LEMMA FreeIs ==
  ASSUME NEW p, PmType(p)
  PROVE  /\ IsFiniteSet(p.free) /\ Cardinality(p.free) \in Nat
         /\ \A x \in p.free : x \in Int /\ x >= BITMAP_BASE /\ x < p.max
<1>1. BITMAP_BASE \in Int /\ p.max \in Int /\ p.free \subseteq BITMAP_BASE .. (p.max - 1)
  BY ConstantsAre DEF PmType
<1>2. IsFiniteSet(BITMAP_BASE .. (p.max - 1))
  BY <1>1, FS_Interval
<1>3. IsFiniteSet(p.free)
  BY <1>1, <1>2, FS_Subset
<1> QED
  BY <1>1, <1>3, FS_CardinalityType

LEMMA KmallocLater ==
  ASSUME NEW p, PmType(p), NEW k \in Nat \ {0}
  PROVE  Later(p, Kmalloc(p, k).p)
<1>1. CASE Kmalloc(p, k) = [p |-> p, page |-> Null]
  BY <1>1 DEF Later
<1>2. ASSUME NEW i \in Int, Kmalloc(p, k) = [p |-> Taken(p, i, k), page |-> i - k + 1]
      PROVE  Later(p, Kmalloc(p, k).p)
  <2> DEFINE q == Taken(p, i, k)
             run == (i - k + 1) .. i
  <2>1. q.free = p.free \ run /\ q.given = Append(p.given, run)
    BY DEF Taken, PmType
  <2>2. p.given \in Seq(SUBSET Int) /\ run \in SUBSET Int
    BY DEF PmType
  <2>3. /\ Len(q.given) = Len(p.given) + 1 /\ Len(p.given) \in Nat
        /\ \A j \in 1 .. Len(p.given) : q.given[j] = p.given[j]
    <3> HIDE DEF q, run
    <3> QED
      BY <2>1, <2>2, AppendProperties, LenProperties
  <2> HIDE DEF q, run
  <2>4. \A j \in 1 .. Len(p.given) : j \in 1 .. Len(q.given)
    BY <2>3
  <2>5. \A x : Held(p, x) => Held(q, x)
    BY <2>3, <2>4 DEF Held
  <2> QED
    BY <1>2, <2>1, <2>5 DEF Later, q
<1> QED
  BY <1>1, <1>2, KmallocIs

(* kmalloc(1) takes one free page and fails only when there is none. *)
LEMMA KmallocOne ==
  ASSUME NEW m, NEW p, PmInv(m, p)
  PROVE  LET k == Kmalloc(p, 1) IN
         /\ PmInv(m, k.p) /\ Later(p, k.p)
         /\ k.page = Null => k.p = p /\ p.free = {}
         /\ k.page # Null => /\ k.page \in p.free /\ k.p.free = p.free \ {k.page}
                             /\ Held(k.p, k.page)
<1> DEFINE k == Kmalloc(p, 1)
<1>1. 1 \in Nat \ {0} /\ PmType(p) /\ PmHint(p) /\ BITMAP_BASE \in Nat \ {0}
  BY ConstantsAre DEF PmInv
<1>2. PmInv(m, k.p) /\ Later(p, k.p)
  BY <1>1, KmallocKeeps, KmallocLater
<1>3. k.page = Null => k.p = p /\ p.free = {}
  <2> SUFFICES ASSUME k.page = Null PROVE k.p = p /\ p.free = {}
    OBVIOUS
  <2>1. RunEnds(p, BITMAP_BASE, p.max, 1) = {}
    BY <1>1, KmallocFinds
  <2>2. ASSUME NEW x \in p.free PROVE FALSE
    <3>1. x \in BITMAP_BASE .. (p.max - 1) /\ x \in Int
      BY <1>1 DEF PmType
    <3>2. x - 1 + 1 = x /\ x .. x = {x}
      BY <3>1
    <3>3. x \in RunEnds(p, BITMAP_BASE, p.max, 1)
      BY <1>1, <3>1, <3>2 DEF RunEnds
    <3> QED
      BY <2>1, <3>3
  <2>3. k.p = p
    <3>1. CASE k = [p |-> p, page |-> Null]
      BY <3>1
    <3>2. ASSUME NEW i \in Int, i - 1 + 1 >= BITMAP_BASE, ((i - 1 + 1) .. i) \subseteq p.free PROVE FALSE
      <4>1. i \in (i - 1 + 1) .. i
        OBVIOUS
      <4> QED
        BY <2>2, <3>2, <4>1
    <3> QED
      BY <1>1, <3>1, <3>2, KmallocIs
  <2> QED
    BY <2>2, <2>3
<1>4. k.page # Null => k.page \in p.free /\ k.p.free = p.free \ {k.page} /\ Held(k.p, k.page)
  <2> SUFFICES ASSUME NEW i \in Int, ((i - 1 + 1) .. i) \subseteq p.free,
                      k = [p |-> Taken(p, i, 1), page |-> i - 1 + 1]
               PROVE  k.page \in p.free /\ k.p.free = p.free \ {k.page} /\ Held(k.p, k.page)
    BY <1>1, KmallocIs
  <2> DEFINE q == Taken(p, i, 1)
  <2>1. i - 1 + 1 = i /\ i .. i = {i}
    OBVIOUS
  <2>2. k.page = i /\ k.p = q
    BY <2>1
  <2>3. q.free = p.free \ {i} /\ q.given = Append(p.given, {i})
    BY <1>1, <2>1 DEF Taken, PmType
  <2>4. p.given \in Seq(SUBSET Int) /\ {i} \in SUBSET Int
    BY <1>1 DEF PmType
  <2>5. Len(q.given) \in 1 .. Len(q.given) /\ q.given[Len(q.given)] = {i}
    <3> HIDE DEF q
    <3>1. Len(q.given) = Len(p.given) + 1 /\ Len(p.given) \in Nat /\ q.given[Len(p.given) + 1] = {i}
      BY <2>3, <2>4, AppendProperties, LenProperties
    <3> QED
      BY <3>1
  <2>6. i \in p.free
    BY <2>1
  <2> HIDE DEF q
  <2> QED
    BY <2>2, <2>3, <2>5, <2>6 DEF Held
<1> QED
  BY <1>2, <1>3, <1>4

(* A table takes a free page, or none is left. *)
LEMMA TableBuilds ==
  ASSUME NEW m, NEW s, Call(s), PmInv(m, s.pm), Tables(s.pt), ~s.ok => s.pm.free = {}, NEW key
  PROVE  LET r == Table(s, key) IN
         /\ Built(s.pm, s.pt, r.pm, r.pt) /\ PmInv(m, r.pm) /\ Call(r)
         /\ ~r.ok => r.pm.free = {}
<1> DEFINE k == Kmalloc(s.pm, 1)
           more == With(s.pt.tables, key, k.page)
           r == Table(s, key)
<1>1. /\ PmInv(m, k.p) /\ Later(s.pm, k.p)
      /\ k.page = Null => k.p = s.pm /\ s.pm.free = {}
      /\ k.page # Null => k.page \in s.pm.free /\ Held(k.p, k.page)
  BY KmallocOne
<1>2. Call(r) /\ PmInv(m, r.pm)
  BY TableKeeps
<1>3. \/ r = s
      \/ r = [s EXCEPT !.ok = FALSE] /\ k.page = Null
      \/ r = [s EXCEPT !.pm = k.p, !.pt.tables = more] /\ k.page # Null /\ s.ok
  BY DEF Table
<1>4. Later(s.pm, s.pm)
  BY DEF Later
<1> HIDE DEF k, more, r
<1>5. CASE r = s
  <2>1. r.pm = s.pm /\ r.pt = s.pt /\ (~r.ok => r.pm.free = {})
    BY <1>5
  <2>2. Built(s.pm, s.pt, s.pm, s.pt)
    BY <1>4 DEF Built
  <2>3. Built(s.pm, s.pt, r.pm, r.pt)
    BY <2>1, <2>2
  <2> QED
    BY <1>2, <2>1, <2>3 DEF r
<1>6. CASE r = [s EXCEPT !.ok = FALSE] /\ k.page = Null
  <2>1. r.pm = s.pm /\ r.pt = s.pt
    BY <1>6 DEF Call
  <2> QED
    BY <1>1, <1>2, <1>4, <1>6, <2>1 DEF Built, r
<1>7. CASE r = [s EXCEPT !.pm = k.p, !.pt.tables = more] /\ k.page # Null /\ s.ok
  <2>1. r.pm = k.p /\ r.pt = [s.pt EXCEPT !.tables = more] /\ r.ok
    BY <1>7 DEF Call
  <2>2. Tables(r.pt) /\ r.pt.tables = more
    BY <2>1 DEF Tables
  <2>3. ASSUME NEW x \in DOMAIN more
        PROVE  \/ x \in DOMAIN s.pt.tables /\ more[x] = s.pt.tables[x]
               \/ more[x] = k.page
    BY DEF more, With
  <2>4. ASSUME NEW x \in DOMAIN r.pt.tables
        PROVE  \/ x \in DOMAIN s.pt.tables /\ r.pt.tables[x] = s.pt.tables[x]
               \/ r.pt.tables[x] \in s.pm.free /\ Held(r.pm, r.pt.tables[x])
    <3>1. x \in DOMAIN more /\ r.pt.tables[x] = more[x]
      BY <2>2
    <3>2. k.page \in s.pm.free /\ Held(r.pm, k.page)
      BY <1>1, <1>7, <2>1
    <3> QED
      BY <2>3, <3>1, <3>2
  <2>5. Later(s.pm, r.pm)
    BY <1>1, <2>1
  <2>6. Built(s.pm, s.pt, r.pm, r.pt)
    BY <2>2, <2>4, <2>5 DEF Built
  <2> QED
    BY <1>2, <2>1, <2>6 DEF r
<1> QED
  BY <1>3, <1>5, <1>6, <1>7

LEMMA DirectoryBuilds ==
  ASSUME NEW m, NEW p, PmInv(m, p), NEW t, Tables(t), NEW v
  PROVE  LET r == Directory(p, t, v) IN
         /\ Built(p, t, r.pm, r.pt) /\ PmInv(m, r.pm) /\ Call(r)
         /\ ~r.ok => r.pm.free = {}
<1> DEFINE s == [pm |-> p, pt |-> t, ok |-> TRUE]
           q == Table(s, <<"pdpt", v \div Fan^3>>)
           r == Table(q, <<"pd", v \div Fan^2>>)
<1>1. Call(s) /\ PmInv(m, s.pm) /\ Tables(s.pt) /\ s.ok /\ s.pm = p /\ s.pt = t
  BY DEF Call
<1>2. Built(p, t, q.pm, q.pt) /\ PmInv(m, q.pm) /\ Call(q) /\ (~q.ok => q.pm.free = {})
  <2> HIDE DEF s
  <2> QED
    BY <1>1, TableBuilds
<1> HIDE DEF q
<1>3. Tables(q.pt)
  BY <1>2 DEF Built
<1>4. Built(q.pm, q.pt, r.pm, r.pt) /\ PmInv(m, r.pm) /\ Call(r) /\ (~r.ok => r.pm.free = {})
  BY <1>2, <1>3, TableBuilds
<1> HIDE DEF r
<1>5. Built(p, t, r.pm, r.pt)
  BY <1>2, <1>4, BuiltTransitive
<1>6. Directory(p, t, v) = r
  BY DEF Directory, q, r
<1> QED
  BY <1>4, <1>5, <1>6

(* map_page fails for want of a table or below a large page. *)
LEMMA MapPageBuilds ==
  ASSUME NEW m, NEW p, PmInv(m, p), NEW t, Tables(t), NEW frame, NEW v
  PROVE  LET r == MapPage(p, t, frame, v) IN
         /\ Built(p, t, r.pm, r.pt) /\ PmInv(m, r.pm)
         /\ ~r.ok => r.pm.free = {} \/ v \div Fan \in DOMAIN t.large
<1> DEFINE s == Directory(p, t, v)
           l == Table(s, <<"pt", v \div Fan>>)
           r == MapPage(p, t, frame, v)
           more == With(l.pt.small, v, frame)
<1>1. /\ Built(p, t, s.pm, s.pt) /\ PmInv(m, s.pm) /\ Call(s) /\ (~s.ok => s.pm.free = {})
      /\ Tables(s.pt) /\ s.pt.large = t.large
  BY DirectoryBuilds, DirectoryMaps
<1>2. Built(s.pm, s.pt, l.pm, l.pt) /\ PmInv(m, l.pm) /\ Call(l) /\ (~l.ok => l.pm.free = {})
  <2> HIDE DEF s
  <2> QED
    BY <1>1, TableBuilds
<1>3. \/ r = [s EXCEPT !.ok = FALSE] /\ (s.ok => v \div Fan \in DOMAIN t.large)
      \/ r = l /\ ~l.ok
      \/ r = [l EXCEPT !.pt.small = more] /\ l.ok
  BY <1>1 DEF MapPage
<1>4. PmInv(m, r.pm)
  BY MapPageKeeps
<1> HIDE DEF s, l, r, more
<1>5. Built(p, t, l.pm, l.pt)
  BY <1>1, <1>2, BuiltTransitive
<1>6. CASE r = [s EXCEPT !.ok = FALSE] /\ (s.ok => v \div Fan \in DOMAIN t.large)
  <2>1. r.pm = s.pm /\ r.pt = s.pt
    BY <1>1, <1>6 DEF Call
  <2> QED
    BY <1>1, <1>4, <1>6, <2>1 DEF r
<1>7. CASE r = l /\ ~l.ok
  BY <1>2, <1>4, <1>5, <1>7 DEF r
<1>8. CASE r = [l EXCEPT !.pt.small = more] /\ l.ok
  <2>1. r.pm = l.pm /\ r.pt = [l.pt EXCEPT !.small = more] /\ r.ok
    BY <1>2, <1>8 DEF Call
  <2>2. Tables(r.pt) /\ r.pt.tables = l.pt.tables
    BY <1>2, <2>1 DEF Tables, Built
  <2>3. Built(p, t, r.pm, r.pt)
    BY <1>5, <2>1, <2>2 DEF Built
  <2> QED
    BY <1>4, <2>1, <2>3 DEF r
<1> QED
  BY <1>3, <1>6, <1>7, <1>8

(* map_page_2m fails for want of a table; else its block is one large page,  *)
(* and the small pages outside it are as they were.                          *)
LEMMA MapPage2mBuilds ==
  ASSUME NEW m, NEW p, PmInv(m, p), NEW t, Tables(t), NEW frame, NEW v
  PROVE  LET r == MapPage2m(p, t, frame, v) IN
         /\ Built(p, t, r.pm, r.pt) /\ PmInv(m, r.pm)
         /\ ~r.ok => r.pm.free = {} /\ r.pt.large = t.large /\ r.pt.small = t.small
         /\ r.ok => /\ r.pt.large = With(t.large, v \div Fan, frame - (frame % Fan))
                    /\ r.pt.small = [u \in {u \in DOMAIN t.small : u \div Fan # v \div Fan} |-> t.small[u]]
<1> DEFINE s == Directory(p, t, v)
           r == MapPage2m(p, t, frame, v)
           d == v \div Fan
           kept == DOMAIN s.pt.tables \ {<<"pt", d>>}
           rest == {u \in DOMAIN s.pt.small : u \div Fan # d}
           large == With(s.pt.large, d, frame - (frame % Fan))
           tables == [key \in kept |-> s.pt.tables[key]]
           small == [u \in rest |-> s.pt.small[u]]
<1>1. /\ Built(p, t, s.pm, s.pt) /\ PmInv(m, s.pm) /\ Call(s) /\ (~s.ok => s.pm.free = {})
      /\ Tables(s.pt) /\ s.pt.large = t.large /\ s.pt.small = t.small
  BY DirectoryBuilds, DirectoryMaps
<1>2. \/ r = s /\ ~s.ok
      \/ r = [s EXCEPT !.pt.large = large, !.pt.tables = tables, !.pt.small = small] /\ s.ok
  BY DEF MapPage2m
<1>3. /\ large = With(t.large, v \div Fan, frame - (frame % Fan))
      /\ small = [u \in {u \in DOMAIN t.small : u \div Fan # v \div Fan} |-> t.small[u]]
      /\ \A key \in DOMAIN tables : key \in DOMAIN s.pt.tables /\ tables[key] = s.pt.tables[key]
  BY <1>1
<1> HIDE DEF s, r, large, tables, small
<1>4. CASE r = s /\ ~s.ok
  BY <1>1, <1>4 DEF r
<1>5. CASE r = [s EXCEPT !.pt.large = large, !.pt.tables = tables, !.pt.small = small] /\ s.ok
  <2>1. /\ r.pm = s.pm /\ r.ok
        /\ r.pt = [s.pt EXCEPT !.large = large, !.tables = tables, !.small = small]
    BY <1>1, <1>5 DEF Call
  <2>2. Tables(r.pt) /\ r.pt.large = large /\ r.pt.tables = tables /\ r.pt.small = small
    BY <1>1, <2>1 DEF Tables
  <2>3. Built(p, t, r.pm, r.pt)
    BY <1>1, <1>3, <2>1, <2>2 DEF Built
  <2> QED
    BY <1>1, <1>3, <2>1, <2>2, <2>3 DEF r
<1> QED
  BY <1>2, <1>4, <1>5

-----------------------------------------------------------------------------
(* What is to be mapped *)

LEMMA DivUnique ==
  ASSUME NEW a \in Nat, NEW n \in Nat \ {0}, NEW q \in Int, n * q <= a, a < n * q + n
  PROVE  a \div n = q
<1> DEFINE d == a \div n
<1>1. d \in Nat /\ n * d <= a /\ a < n * d + n
  BY DivIs
<1> HIDE DEF d
<1>2. ~(q <= d - 1)
  <2> SUFFICES ASSUME q <= d - 1 PROVE FALSE
    OBVIOUS
  <2>1. n * q <= n * (d - 1) /\ n * (d - 1) = n * d - n /\ n * q \in Int /\ n * d \in Int
    BY <1>1, TimesMonotone
  <2> QED
    BY <1>1, <2>1
<1>3. ~(d <= q - 1)
  <2> SUFFICES ASSUME d <= q - 1 PROVE FALSE
    OBVIOUS
  <2>1. n * d <= n * (q - 1) /\ n * (q - 1) = n * q - n /\ n * q \in Int /\ n * d \in Int
    BY <1>1, TimesMonotone
  <2> QED
    BY <1>1, <2>1
<1>4. d = q
  BY <1>1, <1>2, <1>3
<1> QED
  BY <1>4 DEF d

LEMMA DivShift ==
  ASSUME NEW n \in Nat \ {0}, NEW x \in Int, NEW b \in Nat, n * x + b \in Nat
  PROVE  (n * x + b) \div n = x + (b \div n)
<1> DEFINE d == b \div n
           a == n * x + b
<1>1. d \in Nat /\ n * d <= b /\ b < n * d + n
  BY DivIs
<1> HIDE DEF d
<1>2. n * (x + d) = n * x + n * d /\ n * x \in Int /\ n * d \in Int
  BY <1>1
<1>3. a \in Nat /\ n * (x + d) <= a /\ a < n * (x + d) + n
  BY <1>1, <1>2
<1>4. x + d \in Int
  BY <1>1
<1> HIDE DEF a
<1>5. a \div n = x + d
  BY <1>3, <1>4, DivUnique
<1> QED
  BY <1>5 DEF a, d

LEMMA DivMonotone ==
  ASSUME NEW n \in Nat \ {0}, NEW a \in Nat, NEW b \in Nat, a <= b
  PROVE  a \div n <= b \div n
<1> DEFINE d == a \div n
           e == b \div n
<1>1. d \in Nat /\ n * d <= a /\ e \in Nat /\ b < n * e + n
  BY DivIs
<1> HIDE DEF d, e
<1>2. ~(e + 1 <= d)
  <2> SUFFICES ASSUME e + 1 <= d PROVE FALSE
    OBVIOUS
  <2>1. n * (e + 1) <= n * d /\ n * (e + 1) = n * e + n /\ n * e \in Int /\ n * d \in Int
    BY <1>1, TimesMonotone
  <2> QED
    BY <1>1, <2>1
<1> QED
  BY <1>1, <1>2 DEF d, e

(* What the boot loader's layout makes of the guest's address space: the     *)
(* image, the direct map and the kernel, each page of them with one frame.   *)
KernelPage == machine.kvirt \div PageSize

FrameOf(v) ==
  IF v < DawnPages THEN machine.ramdisk + v
  ELSE IF v < KernelPage THEN v - HhdmPage
  ELSE (machine.kphys \div PageSize) + (v - KernelPage)

Span(c) == c.v .. (c.v + c.n - 1)

LoopType == [frame : Nat, v : Nat, n : Nat, large : BOOLEAN]

(* A loop maps every page to its frame, large pages only in the direct map.  *)
Lawful(c) ==
  \A v \in Span(c) :
    /\ c.frame + (v - c.v) = FrameOf(v)
    /\ v < DawnPages \/ v >= HhdmPage
    /\ c.large => HhdmPage <= v /\ v < KernelPage

Loops(s) == s \in Seq(LoopType) /\ \A i \in 1 .. Len(s) : Lawful(s[i])

LEMMA LayoutIs ==
  ASSUME machine \in Machines
  PROVE  /\ PageSize \in Nat \ {0} /\ Fan \in Nat \ {0} /\ DawnPages \in Nat /\ HhdmPage \in Nat
         /\ HhdmPage = Fan * (HhdmPage \div Fan) /\ HhdmPage \div Fan \in Nat
         /\ NewMaxPage(machine.map) \in Nat /\ DawnPages + NewMaxPage(machine.map) <= HhdmPage
         /\ KernelPage \in Nat /\ HhdmPage <= KernelPage /\ machine.kvirt = PageSize * KernelPage
         /\ machine.kphys \div PageSize \in Nat
         /\ machine.kphys = PageSize * (machine.kphys \div PageSize)
         /\ machine.kphys \in Nat /\ machine.kvirt \in Nat /\ machine.ramdisk \in Nat \ {0}
         /\ machine.segments \in Seq([vaddr : Nat, memsz : Nat]) /\ machine.apics \in Seq(Nat)
<1>1. /\ PageSize \in Nat \ {0} /\ Fan \in Nat \ {0} /\ DawnPages \in Nat /\ HhdmPage \in Nat
      /\ HhdmPage % Fan = 0
      /\ machine.kphys \in Nat /\ machine.kvirt \in Nat /\ machine.ramdisk \in Nat \ {0}
      /\ machine.kphys % PageSize = 0 /\ machine.kvirt % PageSize = 0
      /\ machine.segments \in Seq([vaddr : Nat, memsz : Nat]) /\ machine.apics \in Seq(Nat)
  BY BootAssumption DEF BootAssumption
<1>2. HhdmPage \div Fan \in Nat /\ HhdmPage = Fan * (HhdmPage \div Fan) + 0
  <2>1. HhdmPage \div Fan \in Nat
    BY <1>1, DivIs
  <2>2. HhdmPage = Fan * (HhdmPage \div Fan) + (HhdmPage % Fan)
    BY <1>1, ModIs
  <2> QED
    BY <1>1, <2>1, <2>2
<1>3. machine.kvirt \div PageSize \in Nat /\ machine.kvirt = PageSize * (machine.kvirt \div PageSize) + 0
  BY <1>1, DivIs, ModIs
<1>4. machine.kphys \div PageSize \in Nat /\ machine.kphys = PageSize * (machine.kphys \div PageSize) + 0
  BY <1>1, DivIs, ModIs
<1>5. /\ NewMaxPage(machine.map) \in Nat
      /\ DawnPages + NewMaxPage(machine.map) <= HhdmPage /\ HhdmPage <= machine.kvirt \div PageSize
  BY LayoutAssumption, NewMaxPageIs DEF LayoutAssumption
<1> DEFINE kv == machine.kvirt \div PageSize
           kp == machine.kphys \div PageSize
           h == HhdmPage \div Fan
<1>6. /\ PageSize * kv \in Nat /\ PageSize * kp \in Nat /\ Fan * h \in Nat
  <2> HIDE DEF kv, kp, h
  <2>1. kv \in Nat /\ kp \in Nat /\ h \in Nat
    BY <1>2, <1>3, <1>4 DEF kv, kp, h
  <2> QED
    BY <1>1, <2>1
<1> HIDE DEF kv, kp, h
<1>7. HhdmPage = Fan * h
  BY <1>2, <1>6 DEF h
<1>8. machine.kvirt = PageSize * kv
  BY <1>3, <1>6 DEF kv
<1>9. machine.kphys = PageSize * kp
  BY <1>4, <1>6 DEF kp
<1> QED
  BY <1>1, <1>2, <1>3, <1>4, <1>5, <1>7, <1>8, <1>9 DEF KernelPage, kv, kp, h

LEMMA SegmentLawful ==
  ASSUME machine \in Machines, NEW g \in [vaddr : Nat, memsz : Nat], machine.kvirt <= g.vaddr
  PROVE  /\ SegmentPages(g) \in LoopType /\ Lawful(SegmentPages(g))
         /\ \A a \in g.vaddr .. (g.vaddr + g.memsz - 1) :
              /\ a \div PageSize \in Span(SegmentPages(g))
              /\ (machine.kphys + (a - machine.kvirt)) \div PageSize = FrameOf(a \div PageSize)
<1> DEFINE P == PageSize
           K == KernelPage
           k == machine.kphys \div PageSize
           va == g.vaddr
           v == va \div P
           r == va % P
           n == CeilDiv(g.memsz + r, P)
           f == (machine.kphys + (va - machine.kvirt)) \div P
           c == SegmentPages(g)
<1>1. /\ P \in Nat \ {0} /\ DawnPages \in Nat /\ HhdmPage \in Nat /\ K \in Nat /\ k \in Nat
      /\ HhdmPage <= K /\ DawnPages <= HhdmPage
      /\ machine.kvirt = P * K /\ machine.kphys = P * k /\ va \in Nat /\ g.memsz \in Nat
      /\ machine.kvirt \in Nat /\ machine.kphys \in Nat
  BY LayoutIs
<1>2. v \in Nat /\ P * v <= va /\ va < P * v + P /\ r \in 0 .. P - 1 /\ va = P * v + r
  BY <1>1, DivIs, ModIs
<1>3. g.memsz + r \in Nat /\ n \in Nat /\ g.memsz + r <= P * n
  <2>1. g.memsz + r \in Nat
    <3> HIDE DEF r, P
    <3> QED
      BY <1>1, <1>2
  <2> HIDE DEF r, P
  <2> QED
    BY <1>1, <2>1, CeilDivIs
<1>4. c = [frame |-> f, v |-> v, n |-> n, large |-> FALSE]
  BY DEF SegmentPages, Pages
<1> HIDE DEF P, K, k, va, v, r, n
<1>5. ASSUME NEW a \in Nat, va <= a
      PROVE  /\ a \div P \in Nat /\ K <= a \div P
             /\ (machine.kphys + (a - machine.kvirt)) \div P = (k - K) + (a \div P)
  <2>1. P * K <= a
    BY <1>1, <1>5 DEF va
  <2>2. (P * K) \div P = K
    <3>1. P * K \in Nat /\ P * K <= P * K /\ P * K < P * K + P
      BY <1>1
    <3> QED
      BY <1>1, <3>1, DivUnique
  <2>3. K <= a \div P
    <3>1. P * K \in Nat
      BY <1>1
    <3> QED
      BY <1>1, <2>1, <2>2, <3>1, DivMonotone
  <2>4. machine.kphys + (a - machine.kvirt) = P * (k - K) + a
    <3>1. P * (k - K) = P * k - P * K /\ P * k \in Int /\ P * K \in Int
      BY <1>1
    <3> QED
      BY <1>1, <3>1
  <2>5. P * (k - K) + a \in Nat
    <3>1. machine.kphys + (a - machine.kvirt) \in Nat
      BY <1>1, <1>5, <2>1
    <3> QED
      BY <2>4, <3>1
  <2>6. (P * (k - K) + a) \div P = (k - K) + (a \div P)
    <3>1. k - K \in Int
      BY <1>1
    <3> QED
      BY <1>1, <2>5, <3>1, DivShift
  <2>7. a \div P \in Nat
    BY <1>1, DivIs
  <2> QED
    BY <2>3, <2>4, <2>6, <2>7
<1>6. va \in Nat /\ va <= va
  BY <1>1
<1>7. K <= v /\ f = (k - K) + v
  BY <1>5, <1>6 DEF v, f
<1> HIDE DEF f
<1>8. f \in Nat
  BY <1>1, <1>2, <1>7
<1>9. ASSUME NEW w \in Int, K <= w PROVE FrameOf(w) = k + (w - K) /\ w >= HhdmPage
  BY <1>1, <1>9 DEF FrameOf, K, k, P
<1>10. c \in LoopType
  BY <1>2, <1>3, <1>4, <1>8 DEF LoopType
<1>11. Lawful(c)
  <2> SUFFICES ASSUME NEW w \in Span(c)
               PROVE  c.frame + (w - c.v) = FrameOf(w) /\ w >= HhdmPage /\ ~c.large
    BY DEF Lawful
  <2>1. w \in v .. (v + n - 1) /\ c.frame = f /\ c.v = v /\ ~c.large
    BY <1>4 DEF Span
  <2> HIDE DEF c
  <2>2. w \in Int /\ K <= w
    BY <1>1, <1>2, <1>3, <1>7, <2>1
  <2>3. f + (w - v) = k + (w - K)
    BY <1>1, <1>2, <1>7, <2>2
  <2> QED
    BY <1>9, <2>1, <2>2, <2>3
<1>12. ASSUME NEW a \in va .. (va + g.memsz - 1)
       PROVE  a \div P \in Span(c) /\ (machine.kphys + (a - machine.kvirt)) \div P = FrameOf(a \div P)
  <2>1. a \in Nat /\ va <= a /\ a < va + g.memsz
    BY <1>1
  <2> DEFINE d == a \div P
  <2>2. d \in Nat /\ K <= d /\ (machine.kphys + (a - machine.kvirt)) \div P = (k - K) + d
    BY <1>5, <2>1
  <2>3. P * d <= a
    BY <1>1, <2>1, DivIs
  <2>4. v <= d
    BY <1>1, <2>1, DivMonotone DEF v
  <2> HIDE DEF d
  <2>5. d < v + n
    <3> SUFFICES ASSUME v + n <= d PROVE FALSE
      BY <1>2, <1>3, <2>2
    <3>1. P * (v + n) <= P * d /\ P * (v + n) = P * v + P * n /\ P * v \in Int /\ P * n \in Int
             /\ P * d \in Int
      BY <1>1, <1>2, <1>3, <2>2, TimesMonotone
    <3>2. a < P * v + r + g.memsz
      BY <1>1, <1>2, <2>1, <3>1
    <3>3. r \in Int
      BY <1>1, <1>2
    <3> QED
      BY <1>1, <1>3, <2>1, <2>3, <3>1, <3>2, <3>3
  <2>6. d \in Span(c)
    BY <1>2, <1>3, <1>4, <2>2, <2>4, <2>5 DEF Span
  <2>7. (k - K) + d = k + (d - K)
    BY <1>1, <2>2
  <2>8. (machine.kphys + (a - machine.kvirt)) \div P = FrameOf(d)
    BY <1>9, <2>2, <2>7
  <2> QED
    BY <2>6, <2>8 DEF d
<1> QED
  BY <1>10, <1>11, <1>12 DEF P, va

LEMMA HhdmLawful ==
  ASSUME machine \in Machines, NEW e \in Range(machine.map)
  PROVE  /\ HhdmPages(e) \in LoopType /\ Lawful(HhdmPages(e))
         /\ ShouldMap(e.type) =>
              \A p \in (e.base \div PageSize) .. (OuterEnd(e) - 1) :
                HhdmPage + p \in Span(HhdmPages(e)) /\ FrameOf(HhdmPage + p) = p
<1> DEFINE p0 == e.base \div PageSize
           end == OuterEnd(e)
           n == IF ShouldMap(e.type) THEN end - p0 ELSE 0
           c == HhdmPages(e)
<1>1. /\ PageSize \in Nat \ {0} /\ DawnPages \in Nat /\ HhdmPage \in Nat /\ KernelPage \in Nat
      /\ DawnPages <= HhdmPage
  BY LayoutIs
<1>2. e.base \in Nat /\ e.len \in Nat
  BY MapIs DEF Range
<1>3. ShouldMap(e.type) => HhdmPage + end <= KernelPage
  BY LayoutAssumption DEF LayoutAssumption, KernelPage
<1>4. p0 \in Nat /\ PageSize * p0 <= e.base
  BY <1>1, <1>2, DivIs
<1>5. end \in Nat /\ e.base + e.len <= PageSize * end
  <2>1. e.base + e.len \in Nat
    BY <1>2
  <2> QED
    BY <1>1, <2>1, CeilDivIs DEF OuterEnd
<1>6. c = [frame |-> p0, v |-> HhdmPage + p0, n |-> n, large |-> TRUE]
  BY DEF HhdmPages, Pages
<1> HIDE DEF p0, end
<1>7. ~(end + 1 <= p0)
  <2> SUFFICES ASSUME end + 1 <= p0 PROVE FALSE
    OBVIOUS
  <2>1. PageSize * (end + 1) <= PageSize * p0 /\ PageSize * (end + 1) = PageSize * end + PageSize
        /\ PageSize * end \in Int /\ PageSize * p0 \in Int
    BY <1>1, <1>4, <1>5, TimesMonotone
  <2> QED
    BY <1>1, <1>2, <1>4, <1>5, <2>1
<1>8. n \in Nat
  BY <1>4, <1>5, <1>7
<1>9. c \in LoopType
  BY <1>1, <1>4, <1>6, <1>8 DEF LoopType
<1>10. ASSUME ShouldMap(e.type), NEW v \in Int, HhdmPage + p0 <= v, v < HhdmPage + end
       PROVE  v < KernelPage /\ HhdmPage <= v /\ FrameOf(v) = v - HhdmPage
  <2>1. v < KernelPage /\ HhdmPage <= v /\ ~(v < DawnPages)
    BY <1>1, <1>3, <1>4, <1>5, <1>10
  <2> QED
    BY <2>1 DEF FrameOf
<1>11. Lawful(c)
  <2> SUFFICES ASSUME NEW v \in Span(c)
               PROVE  c.frame + (v - c.v) = FrameOf(v) /\ HhdmPage <= v /\ v < KernelPage
    BY <1>1 DEF Lawful
  <2>1. v \in (HhdmPage + p0) .. (HhdmPage + p0 + n - 1) /\ c.frame = p0 /\ c.v = HhdmPage + p0
    BY <1>6 DEF Span
  <2> HIDE DEF c
  <2>2. ShouldMap(e.type) /\ n = end - p0
    BY <1>1, <1>4, <2>1
  <2> HIDE DEF n
  <2>3. v \in Int /\ HhdmPage + p0 <= v /\ v < HhdmPage + end
    BY <1>1, <1>4, <1>5, <2>1, <2>2
  <2>4. p0 + (v - (HhdmPage + p0)) = v - HhdmPage
    BY <1>1, <1>4, <2>3
  <2> QED
    BY <1>10, <2>1, <2>2, <2>3, <2>4
<1>12. ASSUME ShouldMap(e.type), NEW p \in p0 .. (end - 1)
       PROVE  HhdmPage + p \in Span(c) /\ FrameOf(HhdmPage + p) = p
  <2>1. n = end - p0
    BY <1>12
  <2>2. HhdmPage + p \in Span(c)
    BY <1>1, <1>4, <1>5, <1>6, <2>1 DEF Span
  <2>3. HhdmPage + p \in Int /\ HhdmPage + p0 <= HhdmPage + p /\ HhdmPage + p < HhdmPage + end
    BY <1>1, <1>4, <1>5, <1>12
  <2>4. FrameOf(HhdmPage + p) = (HhdmPage + p) - HhdmPage
    BY <1>10, <1>12, <2>3
  <2> QED
    BY <1>1, <1>4, <1>12, <2>2, <2>4
<1> QED
  BY <1>9, <1>11, <1>12 DEF p0, end

LEMMA ApicLawful ==
  ASSUME machine \in Machines, NEW a \in Range(machine.apics)
  PROVE  LET c == Pages(a, HhdmPage + a, 1, FALSE) IN
         c \in LoopType /\ Lawful(c) /\ HhdmPage + a \in Span(c) /\ FrameOf(HhdmPage + a) = a
<1> DEFINE c == Pages(a, HhdmPage + a, 1, FALSE)
<1>1. /\ DawnPages \in Nat /\ HhdmPage \in Nat /\ KernelPage \in Nat /\ DawnPages <= HhdmPage
      /\ machine.apics \in Seq(Nat)
  BY LayoutIs
<1>2. a \in Nat
  BY <1>1, RangeOfSeq
<1>3. HhdmPage + a < KernelPage
  BY LayoutAssumption DEF LayoutAssumption, KernelPage
<1>4. FrameOf(HhdmPage + a) = a
  BY <1>1, <1>2, <1>3 DEF FrameOf
<1>5. c = [frame |-> a, v |-> HhdmPage + a, n |-> 1, large |-> FALSE]
  BY DEF Pages
<1> HIDE DEF c
<1>6. c \in LoopType
  BY <1>1, <1>2, <1>5 DEF LoopType
<1>7. Span(c) = {HhdmPage + a}
  BY <1>1, <1>2, <1>5 DEF Span
<1>8. Lawful(c)
  BY <1>1, <1>2, <1>4, <1>5, <1>7 DEF Lawful
<1> QED
  BY <1>4, <1>6, <1>7, <1>8 DEF c

LEMMA ImageLawful ==
  ASSUME machine \in Machines
  PROVE  LET c == Pages(machine.ramdisk, 0, DawnPages, FALSE) IN
         /\ c \in LoopType /\ Lawful(c) /\ Span(c) = 0 .. (DawnPages - 1)
         /\ \A i \in 0 .. (DawnPages - 1) : FrameOf(i) = machine.ramdisk + i
<1> DEFINE c == Pages(machine.ramdisk, 0, DawnPages, FALSE)
<1>1. DawnPages \in Nat /\ machine.ramdisk \in Nat
  BY LayoutIs
<1>2. c = [frame |-> machine.ramdisk, v |-> 0, n |-> DawnPages, large |-> FALSE]
  BY DEF Pages
<1> HIDE DEF c
<1>3. c \in LoopType
  BY <1>1, <1>2 DEF LoopType
<1>4. Span(c) = 0 .. (DawnPages - 1)
  BY <1>1, <1>2 DEF Span
<1>5. \A i \in 0 .. (DawnPages - 1) : FrameOf(i) = machine.ramdisk + i
  BY <1>1 DEF FrameOf
<1>6. Lawful(c)
  BY <1>1, <1>2, <1>4, <1>5 DEF Lawful
<1> QED
  BY <1>3, <1>4, <1>5, <1>6 DEF c

LEMMA LoopsConcat ==
  ASSUME NEW s, NEW t, Loops(s), Loops(t)
  PROVE  Loops(s \o t) /\ Range(s \o t) = Range(s) \cup Range(t)
<1>1. s \in Seq(LoopType) /\ t \in Seq(LoopType)
  BY DEF Loops
<1>2. /\ s \o t \in Seq(LoopType) /\ Len(s \o t) = Len(s) + Len(t)
      /\ Len(s) \in Nat /\ Len(t) \in Nat
      /\ \A i \in 1 .. Len(s) + Len(t) : (s \o t)[i] = IF i <= Len(s) THEN s[i] ELSE t[i - Len(s)]
  BY <1>1, ConcatProperties, LenProperties
<1>3. ASSUME NEW i \in 1 .. Len(s \o t) PROVE Lawful((s \o t)[i])
  <2>1. CASE i <= Len(s)
    BY <1>2, <1>3, <2>1 DEF Loops
  <2>2. CASE ~(i <= Len(s))
    <3>1. i - Len(s) \in 1 .. Len(t) /\ (s \o t)[i] = t[i - Len(s)]
      BY <1>2, <1>3, <2>2
    <3> QED
      BY <3>1 DEF Loops
  <2> QED
    BY <2>1, <2>2
<1>4. Range(s \o t) = Range(s) \cup Range(t)
  BY <1>1, RangeConcatenation
<1> QED
  BY <1>2, <1>3, <1>4 DEF Loops

(* All loops are lawful, and between them they come to every page.           *)
LEMMA CallsAre ==
  ASSUME machine \in Machines
  PROVE  /\ Loops(Calls)
         /\ \A g \in Range(machine.segments) : SegmentPages(g) \in Range(Calls)
         /\ \A e \in Range(machine.map) : HhdmPages(e) \in Range(Calls)
         /\ \A a \in Range(machine.apics) : Pages(a, HhdmPage + a, 1, FALSE) \in Range(Calls)
         /\ Pages(machine.ramdisk, 0, DawnPages, FALSE) \in Range(Calls)
<1> DEFINE segments == machine.segments
           map == machine.map
           apics == machine.apics
           s1 == [i \in DOMAIN segments |-> SegmentPages(segments[i])]
           s2 == [i \in DOMAIN map |-> HhdmPages(map[i])]
           s3 == [i \in DOMAIN apics |-> Pages(apics[i], HhdmPage + apics[i], 1, FALSE)]
           s4 == <<Pages(machine.ramdisk, 0, DawnPages, FALSE)>>
<1>1. /\ segments \in Seq([vaddr : Nat, memsz : Nat]) /\ apics \in Seq(Nat)
      /\ DOMAIN map = 1 .. Len(map) /\ Len(map) \in Nat
  BY LayoutIs, MapIs
<1>2. /\ DOMAIN segments = 1 .. Len(segments) /\ Len(segments) \in Nat
      /\ DOMAIN apics = 1 .. Len(apics) /\ Len(apics) \in Nat
  BY <1>1, LenProperties
<1>3. \A i \in DOMAIN segments : s1[i] \in LoopType /\ Lawful(s1[i])
  <2> TAKE i \in DOMAIN segments
  <2>1. segments[i] \in [vaddr : Nat, memsz : Nat]
    BY <1>1, <1>2, ElementOfSeq
  <2>2. machine.kvirt <= segments[i].vaddr
    BY BootAssumption DEF BootAssumption, Range
  <2> QED
    BY <2>1, <2>2, SegmentLawful
<1>4. \A i \in DOMAIN map : s2[i] \in LoopType /\ Lawful(s2[i])
  <2> TAKE i \in DOMAIN map
  <2>1. map[i] \in Range(machine.map)
    BY DEF Range
  <2> QED
    BY <2>1, HhdmLawful
<1>5. \A i \in DOMAIN apics : s3[i] \in LoopType /\ Lawful(s3[i])
  <2> TAKE i \in DOMAIN apics
  <2>1. apics[i] \in Range(machine.apics)
    BY DEF Range
  <2> QED
    BY <2>1, ApicLawful
<1>6. Loops(s4)
  <2> DEFINE c == Pages(machine.ramdisk, 0, DawnPages, FALSE)
  <2>1. c \in LoopType /\ Lawful(c)
    BY ImageLawful
  <2> HIDE DEF c
  <2>2. <<c>> \in Seq(LoopType) /\ Len(<<c>>) = 1 /\ <<c>>[1] = c
    BY <2>1
  <2>3. Loops(<<c>>)
    BY <2>1, <2>2 DEF Loops
  <2> QED
    BY <2>3 DEF c
<1>7. Loops(s1)
  <2>1. s1 \in [1 .. Len(segments) -> LoopType] /\ DOMAIN s1 = 1 .. Len(segments)
    BY <1>2, <1>3
  <2> HIDE DEF s1
  <2> QED
    BY <1>2, <1>3, <2>1 DEF Loops
<1>8. Loops(s2)
  <2>1. s2 \in [1 .. Len(map) -> LoopType] /\ DOMAIN s2 = 1 .. Len(map)
    BY <1>1, <1>4
  <2>2. Len(map) \in Nat /\ \A i \in 1 .. Len(map) : Lawful(s2[i])
    BY <1>1, <1>4
  <2> HIDE DEF s2, map
  <2> QED
    BY <2>1, <2>2 DEF Loops
<1>9. Loops(s3)
  <2>1. s3 \in [1 .. Len(apics) -> LoopType] /\ DOMAIN s3 = 1 .. Len(apics)
    BY <1>2, <1>5
  <2> HIDE DEF s3
  <2> QED
    BY <1>2, <1>5, <2>1 DEF Loops
<1>10. /\ \A g \in Range(segments) : SegmentPages(g) \in Range(s1)
       /\ \A e \in Range(map) : HhdmPages(e) \in Range(s2)
       /\ \A a \in Range(apics) : Pages(a, HhdmPage + a, 1, FALSE) \in Range(s3)
  BY DEF Range
<1>11. Pages(machine.ramdisk, 0, DawnPages, FALSE) \in Range(s4)
  <2>1. s4[1] = Pages(machine.ramdisk, 0, DawnPages, FALSE) /\ 1 \in DOMAIN s4
    OBVIOUS
  <2> HIDE DEF s4
  <2> QED
    BY <2>1 DEF Range
<1>12. Calls = s1 \o s2 \o s3 \o s4
  BY DEF Calls
<1> HIDE DEF s1, s2, s3, s4, segments, map, apics
<1>13. Loops(s1 \o s2) /\ Range(s1 \o s2) = Range(s1) \cup Range(s2)
  BY <1>7, <1>8, LoopsConcat
<1>14. Loops(s1 \o s2 \o s3) /\ Range(s1 \o s2 \o s3) = Range(s1 \o s2) \cup Range(s3)
  BY <1>9, <1>13, LoopsConcat
<1>15. Loops(Calls) /\ Range(Calls) = Range(s1 \o s2 \o s3) \cup Range(s4)
  BY <1>6, <1>12, <1>14, LoopsConcat
<1> QED
  BY <1>10, <1>11, <1>13, <1>14, <1>15 DEF segments, map, apics

-----------------------------------------------------------------------------
(* The mappings *)

(* What a tree of tables has for page v. *)
Shown(t, v) ==
  IF v \div Fan \in DOMAIN t.large THEN t.large[v \div Fan] + (v % Fan)
  ELSE IF v \in DOMAIN t.small THEN t.small[v] ELSE Null

(* Large pages are the direct map's. *)
LargeRight(t) ==
  \A d \in DOMAIN t.large :
    /\ d \in Nat /\ HhdmPage <= Fan * d /\ Fan * d + Fan <= KernelPage
    /\ t.large[d] = Fan * d - HhdmPage

(* k pages from v on are mapped as they should be, unless memory ran out; no *)
(* other page is touched.                                                    *)
Mapped(p, t, u, v, k) ==
  /\ LargeRight(u)
  /\ p.free = {} \/ \A w \in v .. (v + k - 1) : Shown(u, w) = FrameOf(w)
  /\ \A w \in Nat : w \notin v .. (v + k - 1) => Shown(u, w) = Shown(t, w)

(* A large page of the direct map shows the frames that go there. *)
LEMMA LargeShows ==
  ASSUME machine \in Machines, NEW t, LargeRight(t), NEW w \in Nat, w \div Fan \in DOMAIN t.large
  PROVE  Shown(t, w) = FrameOf(w) /\ HhdmPage <= w /\ w < KernelPage
<1> DEFINE d == w \div Fan
<1>1. /\ Fan \in Nat \ {0} /\ DawnPages \in Nat /\ HhdmPage \in Nat /\ KernelPage \in Nat
      /\ DawnPages <= HhdmPage
  BY LayoutIs
<1>2. w \in Nat /\ d \in Nat /\ w = Fan * d + (w % Fan) /\ w % Fan \in 0 .. Fan - 1
  BY <1>1, DivIs, ModIs
<1>3. HhdmPage <= Fan * d /\ Fan * d + Fan <= KernelPage /\ t.large[d] = Fan * d - HhdmPage
  BY DEF LargeRight
<1>4. Shown(t, w) = t.large[d] + (w % Fan)
  BY DEF Shown
<1> DEFINE r == w % Fan
           b == Fan * d
<1>5. b \in Nat /\ r \in Nat /\ r < Fan /\ w = b + r
  <2>1. b \in Nat
    <3> HIDE DEF d
    <3> QED
      BY <1>1, <1>2
  <2>2. w % Fan \in Nat /\ w % Fan < Fan
    BY <1>1, <1>2
  <2> QED
    BY <1>2, <2>1, <2>2
<1>6. HhdmPage <= b /\ b + Fan <= KernelPage /\ Shown(t, w) = (b - HhdmPage) + r
  BY <1>3, <1>4
<1> HIDE DEF b, r, d
<1>7. HhdmPage <= w /\ w < KernelPage /\ ~(w < DawnPages) /\ (b - HhdmPage) + r = w - HhdmPage
  BY <1>1, <1>5, <1>6
<1>8. FrameOf(w) = w - HhdmPage
  BY <1>7 DEF FrameOf
<1> QED
  BY <1>6, <1>7, <1>8

LEMMA FirstPageOf ==
  ASSUME machine \in Machines, NEW c \in LoopType, Lawful(c), c.n # 0
  PROVE  c.v \in Nat /\ c.frame \in Nat /\ c.n \in Nat \ {0} /\ FrameOf(c.v) = c.frame
         /\ c.v \in Span(c)
<1>1. c.v \in Nat /\ c.frame \in Nat /\ c.n \in Nat \ {0}
  BY DEF LoopType
<1>2. c.v \in Span(c)
  BY <1>1 DEF Span
<1>3. c.frame + (c.v - c.v) = FrameOf(c.v)
  BY <1>2 DEF Lawful
<1> QED
  BY <1>1, <1>2, <1>3

LEMMA MapPageShows ==
  ASSUME machine \in Machines, NEW p, PmInv(machine, p), NEW t, Tables(t), LargeRight(t),
         NEW v \in Nat, NEW f \in Nat, FrameOf(v) = f
  PROVE  LET r == MapPage(p, t, f, v) IN Mapped(r.pm, t, r.pt, v, 1)
<1> DEFINE r == MapPage(p, t, f, v)
<1>1. /\ Tables(r.pt) /\ r.pt.large = t.large
      /\ r.ok => v \div Fan \notin DOMAIN t.large /\ r.pt.small = With(t.small, v, f)
      /\ ~r.ok => r.pt.small = t.small
  BY MapPageMaps
<1>2. ~r.ok => r.pm.free = {} \/ v \div Fan \in DOMAIN t.large
  BY MapPageBuilds
<1> HIDE DEF r
<1>3. v .. (v + 1 - 1) = {v}
  OBVIOUS
<1>4. LargeRight(r.pt)
  BY <1>1 DEF LargeRight
<1>5. ASSUME NEW w \in Nat, w # v PROVE Shown(r.pt, w) = Shown(t, w)
  <2>1. CASE r.ok
    <3>1. /\ w \in DOMAIN r.pt.small <=> w \in DOMAIN t.small
          /\ w \in DOMAIN t.small => r.pt.small[w] = t.small[w]
      BY <1>1, <1>5, <2>1 DEF With
    <3> QED
      BY <1>1, <3>1 DEF Shown
  <2>2. CASE ~r.ok
    BY <1>1, <2>2 DEF Shown
  <2> QED
    BY <2>1, <2>2
<1>6. r.pm.free = {} \/ Shown(r.pt, v) = FrameOf(v)
  <2>1. CASE r.ok
    <3>1. v \in DOMAIN r.pt.small /\ r.pt.small[v] = f
      BY <1>1, <2>1 DEF With
    <3> QED
      BY <1>1, <2>1, <3>1 DEF Shown
  <2>2. CASE v \div Fan \in DOMAIN t.large
    BY <1>1, <1>4, <2>2, LargeShows
  <2> QED
    BY <1>2, <2>1, <2>2
<1>7. Mapped(r.pm, t, r.pt, v, 1)
  BY <1>3, <1>4, <1>5, <1>6 DEF Mapped
<1> QED
  BY <1>7 DEF r

LEMMA MapPage2mShows ==
  ASSUME machine \in Machines, NEW p, PmInv(machine, p), NEW t, Tables(t), LargeRight(t),
         NEW c \in LoopType, Lawful(c), c.n # 0, c.large, LargeHere(c.frame, c.frame + c.n)
  PROVE  LET r == MapPage2m(p, t, c.frame, c.v) IN
         Mapped(r.pm, t, r.pt, c.v, Fan) /\ Fan <= c.n
<1> DEFINE r == MapPage2m(p, t, c.frame, c.v)
           d == c.v \div Fan
           h == HhdmPage \div Fan
           e == c.frame \div Fan
<1>1. /\ Fan \in Nat \ {0} /\ DawnPages \in Nat /\ HhdmPage \in Nat /\ KernelPage \in Nat
      /\ DawnPages <= HhdmPage /\ HhdmPage = Fan * h /\ h \in Nat
  BY LayoutIs
<1>2. c.v \in Nat /\ c.frame \in Nat /\ c.n \in Nat \ {0} /\ FrameOf(c.v) = c.frame /\ c.v \in Span(c)
  BY FirstPageOf
<1>3. c.frame % Fan = 0 /\ Fan <= c.n
  <2>1. c.frame % Fan = 0 /\ (c.frame + c.n) - c.frame >= Fan
    BY DEF LargeHere
  <2> QED
    BY <1>1, <1>2, <2>1
<1>4. HhdmPage <= c.v /\ c.v < KernelPage
  BY <1>2 DEF Lawful
<1>5. c.frame = c.v - HhdmPage
  <2>1. ~(c.v < DawnPages)
    BY <1>1, <1>2, <1>4
  <2> QED
    BY <1>2, <1>4, <2>1 DEF FrameOf
<1>6. c.v + Fan <= KernelPage
  <2>1. c.v + Fan - 1 \in Span(c)
    BY <1>1, <1>2, <1>3 DEF Span
  <2>2. c.v + Fan - 1 < KernelPage
    BY <2>1 DEF Lawful
  <2> QED
    BY <1>1, <1>2, <2>2
<1>7. c.v = Fan * d /\ d \in Nat
  <2>1. e \in Nat /\ c.frame = Fan * e + (c.frame % Fan)
    BY <1>1, <1>2, DivIs, ModIs
  <2> HIDE DEF e, h
  <2>2. Fan * e \in Nat /\ Fan * h \in Nat /\ Fan * (h + e) = Fan * h + Fan * e
    BY <1>1, <2>1
  <2>3. c.frame = Fan * e
    BY <1>3, <2>1, <2>2
  <2>4. c.v = Fan * (h + e)
    BY <1>1, <1>2, <1>5, <2>2, <2>3
  <2>5. c.v < Fan * (h + e) + Fan /\ Fan * (h + e) <= c.v /\ h + e \in Int
    BY <1>1, <1>2, <2>1, <2>4
  <2>6. c.v \div Fan = h + e
    BY <1>1, <1>2, <2>5, DivUnique
  <2> QED
    BY <1>1, <2>1, <2>4, <2>6
<1>8. /\ ~r.ok => r.pm.free = {} /\ r.pt.large = t.large /\ r.pt.small = t.small
      /\ r.ok => /\ r.pt.large = With(t.large, d, c.frame - (c.frame % Fan))
                 /\ r.pt.small = [u \in {u \in DOMAIN t.small : u \div Fan # d} |-> t.small[u]]
  BY MapPage2mBuilds
<1>9. c.frame - (c.frame % Fan) = Fan * d - HhdmPage
  BY <1>1, <1>2, <1>3, <1>5, <1>7
<1>10. ASSUME NEW w \in Nat PROVE w \div Fan = d <=> w \in c.v .. (c.v + Fan - 1)
  <2>1. w \div Fan \in Nat /\ Fan * (w \div Fan) <= w /\ w < Fan * (w \div Fan) + Fan
    BY <1>1, DivIs
  <2>2. ASSUME w \div Fan = d PROVE w \in c.v .. (c.v + Fan - 1)
    <3>1. c.v <= w /\ w < c.v + Fan
      BY <1>7, <2>1, <2>2
    <3> QED
      BY <1>1, <1>2, <3>1
  <2>3. ASSUME w \in c.v .. (c.v + Fan - 1) PROVE w \div Fan = d
    <3>1. Fan * d <= w /\ w < Fan * d + Fan /\ d \in Int
      BY <1>1, <1>2, <1>7, <2>3
    <3> HIDE DEF d
    <3> QED
      BY <1>1, <3>1, DivUnique
  <2> QED
    BY <2>2, <2>3
<1> HIDE DEF r, d, h, e
<1>11. CASE r.ok
  <2>1. r.pt.large = With(t.large, d, Fan * d - HhdmPage)
    BY <1>8, <1>9, <1>11
  <2>2. /\ DOMAIN r.pt.large = DOMAIN t.large \cup {d} /\ r.pt.large[d] = Fan * d - HhdmPage
        /\ \A x \in DOMAIN t.large : x # d => r.pt.large[x] = t.large[x]
    BY <2>1 DEF With
  <2>3. LargeRight(r.pt)
    BY <1>4, <1>6, <1>7, <2>2 DEF LargeRight
  <2>4. ASSUME NEW w \in c.v .. (c.v + Fan - 1) PROVE Shown(r.pt, w) = FrameOf(w)
    <3>1. w \in Nat
      BY <1>1, <1>2
    <3>2. w \div Fan \in DOMAIN r.pt.large
      BY <1>10, <2>2, <3>1
    <3> QED
      BY <2>3, <3>1, <3>2, LargeShows
  <2>5. ASSUME NEW w \in Nat, w \notin c.v .. (c.v + Fan - 1) PROVE Shown(r.pt, w) = Shown(t, w)
    <3>1. w \div Fan # d
      BY <1>10, <2>5
    <3>2. /\ w \in DOMAIN r.pt.small <=> w \in DOMAIN t.small
          /\ w \in DOMAIN t.small => r.pt.small[w] = t.small[w]
      BY <1>8, <1>11, <3>1
    <3>3. /\ w \div Fan \in DOMAIN r.pt.large <=> w \div Fan \in DOMAIN t.large
          /\ w \div Fan \in DOMAIN t.large => r.pt.large[w \div Fan] = t.large[w \div Fan]
      BY <2>2, <3>1
    <3> QED
      BY <3>2, <3>3 DEF Shown
  <2>6. Mapped(r.pm, t, r.pt, c.v, Fan)
    BY <2>3, <2>4, <2>5 DEF Mapped
  <2> QED
    BY <1>3, <2>6 DEF r
<1>12. CASE ~r.ok
  <2>1. LargeRight(r.pt)
    BY <1>8, <1>12 DEF LargeRight
  <2>2. \A w \in Nat : Shown(r.pt, w) = Shown(t, w)
    BY <1>8, <1>12 DEF Shown
  <2>3. Mapped(r.pm, t, r.pt, c.v, Fan)
    BY <1>8, <1>12, <2>1, <2>2 DEF Mapped
  <2> QED
    BY <1>3, <2>3 DEF r
<1> QED
  BY <1>11, <1>12

Pending(s, v) == \E i \in 1 .. Len(s) : v \in Span(s[i])

(* Every page to be mapped is, or a loop is still to come to it. *)
Progress(t, s) ==
  \A c \in Range(Calls) : \A v \in Span(c) : Shown(t, v) = FrameOf(v) \/ Pending(s, v)

(* No result of map_page is looked at, but where a table could not be had,   *)
(* no page will be left for the guest.                                       *)
MapInv ==
  /\ LargeRight(pt)
  /\ at = "map" => Loops(calls)
  /\ at \in {"map", "jit", "grow", "fill", "run"} =>
       \/ pm.free = {} /\ pg = 0
       \/ Progress(pt, IF at = "map" THEN calls ELSE << >>)

(* A loop goes on with the rest of its pages. *)
LEMMA AfterIs ==
  ASSUME NEW c \in LoopType, Lawful(c), NEW k \in 1 .. c.n
  PROVE  /\ After(c, k) \in LoopType /\ Lawful(After(c, k))
         /\ \A v \in Span(c) : v \in c.v .. (c.v + k - 1) \/ v \in Span(After(c, k))
<1> DEFINE a == After(c, k)
<1>1. c.v \in Nat /\ c.frame \in Nat /\ c.n \in Nat /\ c.large \in BOOLEAN /\ k \in Nat /\ k <= c.n
  BY DEF LoopType
<1>2. a = [frame |-> c.frame + k, v |-> c.v + k, n |-> c.n - k, large |-> c.large]
  BY DEF After, Pages
<1> HIDE DEF a
<1>3. a \in LoopType
  BY <1>1, <1>2 DEF LoopType
<1>4. Span(a) = (c.v + k) .. (c.v + c.n - 1)
  <2>1. (c.v + k) + (c.n - k) - 1 = c.v + c.n - 1
    BY <1>1
  <2> QED
    BY <1>2, <2>1 DEF Span
<1>5. Lawful(a)
  <2> SUFFICES ASSUME NEW v \in Span(a)
               PROVE  /\ a.frame + (v - a.v) = FrameOf(v)
                      /\ v < DawnPages \/ v >= HhdmPage
                      /\ a.large => HhdmPage <= v /\ v < KernelPage
    BY DEF Lawful
  <2>1. v \in Int /\ v \in Span(c)
    <3>1. v \in (c.v + k) .. (c.v + c.n - 1)
      BY <1>4
    <3>2. v \in c.v .. (c.v + c.n - 1)
      BY <1>1, <3>1
    <3> QED
      BY <3>2 DEF Span
  <2>2. a.frame = c.frame + k /\ a.v = c.v + k /\ a.large = c.large
    BY <1>2
  <2>3. a.frame + (v - a.v) = c.frame + (v - c.v)
    BY <1>1, <2>1, <2>2
  <2> QED
    BY <2>1, <2>2, <2>3 DEF Lawful
<1>6. ASSUME NEW v \in Span(c) PROVE v \in c.v .. (c.v + k - 1) \/ v \in Span(a)
  <2>1. v \in c.v .. (c.v + c.n - 1)
    BY DEF Span
  <2>2. v \in c.v .. (c.v + k - 1) \/ v \in (c.v + k) .. (c.v + c.n - 1)
    BY <1>1, <2>1
  <2> QED
    BY <1>4, <2>2
<1> QED
  BY <1>3, <1>5, <1>6 DEF a

(* What a step of the loops does. *)
LEMMA MapCallIs ==
  ASSUME BootInv, EndInv, MapInv, MapCall
  PROVE  /\ machine' = machine /\ at = "map" /\ at' = "map" /\ pg' = pg /\ jit' = jit
         /\ calls \in Seq(LoopType) /\ calls # << >>
         /\ LET c == Head(calls) IN
            \/ c.n = 0 /\ pm' = pm /\ pt' = pt /\ calls' = Tail(calls)
            \/ \E k \in 1 .. c.n :
                 /\ Built(pm, pt, pm', pt') /\ Mapped(pm', pt, pt', c.v, k)
                 /\ calls' = <<After(c, k)>> \o Tail(calls)
<1> DEFINE c == Head(calls)
           large == c.large /\ LargeHere(c.frame, c.frame + c.n)
           r == MapPage(pm, pt, c.frame, c.v)
           s == MapPage2m(pm, pt, c.frame, c.v)
<1>1. /\ machine' = machine /\ at = "map" /\ at' = "map" /\ pg' = pg /\ jit' = jit /\ calls # << >>
      /\ c.n = 0 => pm' = pm /\ pt' = pt /\ calls' = Tail(calls)
      /\ c.n # 0 /\ large => pm' = s.pm /\ pt' = s.pt /\ calls' = <<After(c, Fan)>> \o Tail(calls)
      /\ c.n # 0 /\ ~large => pm' = r.pm /\ pt' = r.pt /\ calls' = <<After(c, 1)>> \o Tail(calls)
  BY DEF MapCall
<1>2. machine \in Machines /\ PmInv(machine, pm) /\ Tables(pt) /\ LargeRight(pt)
  BY DEF BootInv, EndInv, MapInv
<1>3. calls \in Seq(LoopType) /\ \A i \in 1 .. Len(calls) : Lawful(calls[i])
  BY <1>1 DEF MapInv, Loops
<1>4. c \in LoopType /\ Lawful(c)
  <2>1. 1 \in 1 .. Len(calls) /\ c = calls[1]
    BY <1>1, <1>3, EmptySeq
  <2> QED
    BY <1>3, <2>1, ElementOfSeq
<1> HIDE DEF c
<1>5. CASE c.n # 0 /\ large
  <2>1. Mapped(s.pm, pt, s.pt, c.v, Fan) /\ Fan <= c.n
    BY <1>2, <1>4, <1>5, MapPage2mShows
  <2>2. Built(pm, pt, s.pm, s.pt)
    BY <1>2, MapPage2mBuilds
  <2>3. Fan \in 1 .. c.n
    <3>1. Fan \in Nat \ {0} /\ c.n \in Nat
      BY <1>2, <1>4, LayoutIs DEF LoopType
    <3> QED
      BY <2>1, <3>1
  <2> HIDE DEF s
  <2> QED
    BY <1>1, <1>3, <1>5, <2>1, <2>2, <2>3 DEF c
<1>6. CASE c.n # 0 /\ ~large
  <2>1. c.v \in Nat /\ c.frame \in Nat /\ c.n \in Nat \ {0} /\ FrameOf(c.v) = c.frame
    BY <1>2, <1>4, <1>6, FirstPageOf
  <2>2. Mapped(r.pm, pt, r.pt, c.v, 1)
    BY <1>2, <2>1, MapPageShows
  <2>3. Built(pm, pt, r.pm, r.pt)
    BY <1>2, MapPageBuilds
  <2>4. 1 \in 1 .. c.n
    BY <2>1
  <2> HIDE DEF r
  <2> QED
    BY <1>1, <1>3, <1>6, <2>2, <2>3, <2>4 DEF c
<1>7. CASE c.n = 0
  BY <1>1, <1>3, <1>7 DEF c
<1> QED
  BY <1>5, <1>6, <1>7

LEMMA SpanNat ==
  ASSUME machine \in Machines, NEW c \in Range(Calls), NEW v \in Span(c)
  PROVE  v \in Nat /\ (v < DawnPages \/ v >= HhdmPage)
<1>1. Loops(Calls)
  BY CallsAre
<1>2. Calls \in Seq(LoopType) /\ DOMAIN Calls = 1 .. Len(Calls)
  BY <1>1, LenProperties DEF Loops
<1>3. PICK i \in 1 .. Len(Calls) : c = Calls[i]
  BY <1>2 DEF Range
<1>4. c \in LoopType /\ Lawful(c)
  BY <1>1, <1>2, <1>3, ElementOfSeq DEF Loops
<1>5. c.v \in Nat /\ c.n \in Nat
  BY <1>4 DEF LoopType
<1> QED
  BY <1>4, <1>5 DEF Span, Lawful

LEMMA MapCallKeepsMaps ==
  ASSUME BootInv, EndInv, MapInv, MapCall
  PROVE  MapInv'
<1> DEFINE c == Head(calls)
<1>1. /\ machine' = machine /\ at = "map" /\ at' = "map" /\ pg' = pg
      /\ calls \in Seq(LoopType) /\ calls # << >>
  BY MapCallIs
<1>2. machine \in Machines /\ LargeRight(pt) /\ Loops(calls)
  BY <1>1 DEF BootInv, MapInv
<1>3. /\ c \in LoopType /\ Lawful(c) /\ c = calls[1] /\ Len(calls) \in Nat \ {0}
      /\ Tail(calls) \in Seq(LoopType) /\ Len(Tail(calls)) = Len(calls) - 1
      /\ \A i \in 1 .. Len(Tail(calls)) : Tail(calls)[i] = calls[i + 1]
  <2>1. Len(calls) \in Nat \ {0}
    BY <1>1, EmptySeq
  <2>2. 1 \in 1 .. Len(calls) /\ c = calls[1]
    BY <1>1, <2>1
  <2> QED
    BY <1>1, <1>2, <2>1, <2>2, ElementOfSeq, HeadTailProperties DEF Loops
<1>4. Calls' = Calls /\ KernelPage' = KernelPage /\ \A v : FrameOf(v)' = FrameOf(v)
  BY <1>1 DEF Calls, SegmentPages, KernelPage, FrameOf
<1>5. /\ \A x : Lawful(x)' <=> Lawful(x)
      /\ \A t : LargeRight(t)' <=> LargeRight(t)
  BY <1>4 DEF Lawful, LargeRight
<1>6. (pm.free = {} /\ pg = 0) \/ Progress(pt, calls)
  BY <1>1 DEF MapInv
<1> HIDE DEF c
<1>7. CASE c.n = 0 /\ pm' = pm /\ pt' = pt /\ calls' = Tail(calls)
  <2>1. Loops(Tail(calls))
    BY <1>2, <1>3 DEF Loops
  <2>2. ASSUME NEW v, Pending(calls, v) PROVE Pending(Tail(calls), v)
    <3>1. PICK i \in 1 .. Len(calls) : v \in Span(calls[i])
      BY <2>2 DEF Pending
    <3>2. i # 1
      <4>1. Span(c) = {}
        BY <1>3, <1>7 DEF Span, LoopType
      <4> QED
        BY <1>3, <3>1, <4>1
    <3>3. i - 1 \in 1 .. Len(Tail(calls)) /\ Tail(calls)[i - 1] = calls[i]
      BY <1>3, <3>1, <3>2
    <3> QED
      BY <3>1, <3>3 DEF Pending
  <2>3. Progress(pt, calls) => Progress(pt, Tail(calls))
    BY <2>2 DEF Progress
  <2>4. Progress(pt', calls') <=> Progress(pt, Tail(calls))
    BY <1>7
  <2>5. (pm.free = {} /\ pg = 0)' \/ Progress(pt, Tail(calls))
    BY <1>1, <1>6, <1>7, <2>3
  <2>6. Progress(pt, calls)' <=> Progress(pt, Tail(calls))
    BY <1>4, <1>7 DEF Progress, Pending, Span, Shown
  <2>7. LargeRight(pt)' /\ Loops(calls)'
    BY <1>2, <1>5, <1>7, <2>1 DEF LargeRight, Loops
  <2> QED
    BY <1>1, <2>5, <2>6, <2>7 DEF MapInv
<1>8. ASSUME NEW k \in 1 .. c.n, Built(pm, pt, pm', pt'), Mapped(pm', pt, pt', c.v, k),
             calls' = <<After(c, k)>> \o Tail(calls)
      PROVE  MapInv'
  <2> DEFINE a == After(c, k)
             s == <<a>> \o Tail(calls)
  <2>1. /\ a \in LoopType /\ Lawful(a)
        /\ \A v \in Span(c) : v \in c.v .. (c.v + k - 1) \/ v \in Span(a)
    BY <1>3, AfterIs
  <2> HIDE DEF a
  <2>2. <<a>> \in Seq(LoopType) /\ Len(<<a>>) = 1 /\ <<a>>[1] = a
    BY <2>1
  <2>3. /\ s \in Seq(LoopType) /\ Len(s) = Len(calls) /\ s[1] = a
        /\ \A i \in 2 .. Len(calls) : s[i] = calls[i]
    <3>1. /\ s \in Seq(LoopType) /\ Len(s) = 1 + Len(Tail(calls))
          /\ \A i \in 1 .. 1 + Len(Tail(calls)) :
               s[i] = IF i <= 1 THEN <<a>>[i] ELSE Tail(calls)[i - 1]
      BY <1>3, <2>2, ConcatProperties
    <3>2. Len(s) = Len(calls)
      BY <1>3, <3>1
    <3>3. s[1] = a
      BY <1>3, <2>2, <3>1
    <3>4. ASSUME NEW i \in 2 .. Len(calls) PROVE s[i] = calls[i]
      <4>1. i \in 1 .. 1 + Len(Tail(calls)) /\ ~(i <= 1) /\ i - 1 \in 1 .. Len(Tail(calls)) /\ i - 1 + 1 = i
        BY <1>3, <3>4
      <4> QED
        BY <1>3, <3>1, <4>1
    <3> QED
      BY <3>1, <3>2, <3>3, <3>4
  <2>4. calls' = s
    BY <1>8 DEF a
  <2> HIDE DEF s
  <2>5. \A i \in 1 .. Len(calls) : i = 1 \/ i \in 2 .. Len(calls)
    BY <1>3
  <2>6. Loops(s)
    BY <1>2, <2>1, <2>3, <2>5 DEF Loops
  <2>7. ASSUME pm'.free # {} PROVE Progress(pt', s)
    <3>1. pm.free # {} /\ Progress(pt, calls)
      BY <1>6, <1>8, <2>7 DEF Built, Later
    <3>2. ASSUME NEW v \in Nat, Shown(pt, v) = FrameOf(v) PROVE Shown(pt', v) = FrameOf(v)
      BY <1>8, <2>7, <3>2 DEF Mapped
    <3>3. ASSUME NEW v \in Nat, Pending(calls, v) PROVE Shown(pt', v) = FrameOf(v) \/ Pending(s, v)
      <4>1. PICK i \in 1 .. Len(calls) : v \in Span(calls[i])
        BY <3>3 DEF Pending
      <4>2. CASE i = 1
        <5>1. v \in c.v .. (c.v + k - 1) \/ v \in Span(a)
          BY <1>3, <2>1, <4>1, <4>2
        <5>2. CASE v \in c.v .. (c.v + k - 1)
          BY <1>8, <2>7, <5>2 DEF Mapped
        <5>3. CASE v \in Span(a)
          BY <2>3, <4>1, <4>2, <5>3 DEF Pending
        <5> QED
          BY <5>1, <5>2, <5>3
      <4>3. CASE i \in 2 .. Len(calls)
        BY <2>3, <4>1, <4>3 DEF Pending
      <4> QED
        BY <2>5, <4>2, <4>3
    <3>4. ASSUME NEW l \in Range(Calls), NEW v \in Span(l)
          PROVE  Shown(pt', v) = FrameOf(v) \/ Pending(s, v)
      <4>1. v \in Nat
        BY <1>2, SpanNat
      <4>2. Shown(pt, v) = FrameOf(v) \/ Pending(calls, v)
        BY <3>1 DEF Progress
      <4> QED
        BY <3>2, <3>3, <4>1, <4>2
    <3> QED
      BY <3>4 DEF Progress
  <2>8. Progress(pt, calls)' <=> Progress(pt', s)
    BY <1>4, <2>4 DEF Progress, Pending, Span, Shown
  <2>9. Loops(calls)' <=> Loops(s)
    BY <1>5, <2>4 DEF Loops
  <2>10. LargeRight(pt)'
    BY <1>5, <1>8 DEF Mapped
  <2>11. (pm.free = {} /\ pg = 0)' \/ Progress(pt', s)
    <3>1. pg' = 0
      BY <1>1 DEF EndInv
    <3> QED
      BY <2>7, <3>1
  <2> QED
    BY <1>1, <2>6, <2>8, <2>9, <2>10, <2>11 DEF MapInv
<1> QED
  BY <1>7, <1>8, MapCallIs DEF c

(* Room for the guest: its pages and those still free. *)
Room(p, n) == DawnPages + n + Cardinality(p.free)

RoomInv == Room(pm, pg) <= HhdmPage

LEMMA RoomShrinks ==
  ASSUME NEW p, PmType(p), NEW q, q.free \subseteq p.free, NEW n \in Nat
  PROVE  Room(q, n) \in Nat /\ Room(p, n) \in Nat /\ Room(q, n) <= Room(p, n)
<1>1. IsFiniteSet(p.free) /\ Cardinality(p.free) \in Nat
  BY FreeIs
<1>2. IsFiniteSet(q.free) /\ Cardinality(q.free) <= Cardinality(p.free)
  BY <1>1, FS_Subset
<1>3. Cardinality(q.free) \in Nat
  BY <1>2, FS_CardinalityType
<1> DEFINE x == Cardinality(p.free)
           y == Cardinality(q.free)
<1>4. x \in Nat /\ y \in Nat /\ y <= x /\ DawnPages \in Nat
  BY <1>1, <1>2, <1>3, ConstantsAre
<1>5. Room(p, n) = DawnPages + n + x /\ Room(q, n) = DawnPages + n + y
  BY DEF Room
<1> HIDE DEF x, y
<1> QED
  BY <1>4, <1>5

LEMMA JitAllocIs ==
  ASSUME BootInv, JitAlloc
  PROVE  /\ Later(pm, pm') /\ machine' = machine /\ pt' = pt /\ pg' = pg
         /\ at = "jit" /\ at' \in {"jit", "grow"}
         /\ jit'.map = jit.map /\ jit'.pages = jit.pages
<1> DEFINE c == Head(calls)
           k == CeilDiv(c.bytes, PageSize)
<1>1. PmType(pm) /\ at = "jit" /\ Asks(calls) /\ calls # << >>
  BY DEF BootInv, JitAlloc, JitAsks, PmInv
<1>2. c \in [bytes : Nat \ {0}, check : BOOLEAN]
  BY <1>1, HeadTailProperties DEF Asks
<1>3. k \in Nat \ {0}
  <2> HIDE DEF c
  <2>1. c.bytes \in Nat /\ c.bytes > 0
    BY <1>2
  <2>2. CeilDiv(c.bytes, PageSize) \in Nat /\ CeilDiv(c.bytes, PageSize) > 0
    BY <2>1, ConstantsAre, CeilDivIs
  <2> QED
    BY <2>2
<1>4. pm' = Kmalloc(pm, k).p
  BY DEF JitAlloc
<1>5. Later(pm, pm')
  <2> HIDE DEF k
  <2> QED
    BY <1>1, <1>3, <1>4, KmallocLater
<1>6. /\ machine' = machine /\ pt' = pt /\ pg' = pg /\ at' \in {"jit", "grow"}
      /\ \E a, b : jit' = [jit EXCEPT !.ok = a, !.on = b]
  BY DEF JitAlloc
<1>7. jit'.map = jit.map /\ jit'.pages = jit.pages
  BY <1>6
<1> QED
  BY <1>1, <1>5, <1>6, <1>7

(* A page for the guest, in a place of its own, or none. *)
LEMMA GrowGuestIs ==
  ASSUME BootInv, EndInv, GrowGuest
  PROVE  /\ machine' = machine /\ jit' = jit /\ at = "grow" /\ at' \in {"grow", "fill"}
         /\ Later(pm, pm')
         /\ \/ pt' = pt /\ pg' = pg
            \/ \E x \in pm.free : \E p :
                 /\ p.free = pm.free \ {x} /\ Later(pm, p)
                 /\ Later(p, pm') /\ Held(pm', x) /\ Built(p, pt, pm', pt')
                 /\ pt'.large = pt.large
                 /\ \/ pg' = pg /\ pt'.small = pt.small
                    \/ /\ pg' = pg + 1 /\ pt'.small = With(pt.small, DawnPages + pg, x)
                       /\ (DawnPages + pg) \div Fan \notin DOMAIN pt.large
<1> DEFINE k == Kmalloc(pm, 1)
           s == MapPage(k.p, pt, k.page, DawnPages + pg)
<1>1. /\ machine' = machine /\ jit' = jit /\ at = "grow" /\ at' \in {"grow", "fill"}
      /\ PmInv(machine, pm) /\ Tables(pt)
  BY DEF GrowGuest, BootInv, EndInv
<1>2. /\ PmInv(machine, k.p) /\ Later(pm, k.p)
      /\ k.page # Null => k.page \in pm.free /\ k.p.free = pm.free \ {k.page} /\ Held(k.p, k.page)
  BY <1>1, KmallocOne
<1>3. CASE k.page = Null
  <2>1. pm' = pm /\ pt' = pt /\ pg' = pg
    BY <1>3 DEF GrowGuest
  <2>2. Later(pm, pm')
    BY <2>1 DEF Later
  <2> QED
    BY <1>1, <2>1, <2>2
<1>4. CASE k.page # Null
  <2>1. pm' = s.pm /\ pt' = s.pt /\ pg' = IF s.ok THEN pg + 1 ELSE pg
    BY <1>4 DEF GrowGuest
  <2> DEFINE x == k.page
             p == k.p
  <2> HIDE DEF k
  <2>2. /\ s.pt.large = pt.large
        /\ s.ok => (DawnPages + pg) \div Fan \notin DOMAIN pt.large /\ s.pt.small = With(pt.small, DawnPages + pg, x)
        /\ ~s.ok => s.pt.small = pt.small
    BY <1>1, MapPageMaps
  <2>3. Built(p, pt, s.pm, s.pt)
    BY <1>1, <1>2, MapPageBuilds
  <2> HIDE DEF s
  <2>4. Later(p, pm') /\ Built(p, pt, pm', pt')
    BY <2>1, <2>3 DEF Built
  <2>5. Held(pm', x) /\ x \in pm.free /\ p.free = pm.free \ {x} /\ Later(pm, p)
    BY <1>2, <1>4, <2>4 DEF Later
  <2>6. Later(pm, pm')
    BY <2>4, <2>5, LaterTransitive
  <2>7. /\ pt'.large = pt.large
        /\ \/ pg' = pg /\ pt'.small = pt.small
           \/ /\ pg' = pg + 1 /\ pt'.small = With(pt.small, DawnPages + pg, x)
              /\ (DawnPages + pg) \div Fan \notin DOMAIN pt.large
    BY <2>1, <2>2
  <2> HIDE DEF x, p
  <2> QED
    BY <1>1, <2>4, <2>5, <2>6, <2>7
<1> QED
  BY <1>3, <1>4

(* Every other step leaves the tables alone and frees nothing. *)
LEMMA QuietStep ==
  ASSUME BootInv, \/ AllocBuffers \/ NewPagemap \/ SetUpJit \/ JitAlloc \/ Finish \/ UNCHANGED vars
  PROVE  machine' = machine /\ pt' = pt /\ pg' = pg /\ Later(pm, pm')
<1>1. machine \in Machines /\ PmInv(machine, pm)
  BY DEF BootInv
<1>2. CASE AllocBuffers
  <2> DEFINE k == CeilDiv(machine.screen, PageSize) + 1
             p == Kmalloc(pm, k).p
             q == Kmalloc(p, k).p
  <2>1. k \in Nat \ {0}
    <3>1. machine.screen \in Nat
      BY <1>1, MapIs
    <3>2. CeilDiv(machine.screen, PageSize) \in Nat
      BY <3>1, ConstantsAre, CeilDivIs
    <3> QED
      BY <3>2
  <2>2. pm' = q /\ machine' = machine /\ pt' = pt /\ pg' = pg
    BY <1>2 DEF AllocBuffers, Kalloc
  <2> HIDE DEF k
  <2>3. PmInv(machine, p) /\ Later(pm, p)
    BY <1>1, <2>1, KmallocKeeps, KmallocLater DEF PmInv
  <2> HIDE DEF p
  <2>4. Later(p, q)
    BY <2>1, <2>3, KmallocLater DEF PmInv
  <2> QED
    BY <2>2, <2>3, <2>4, LaterTransitive
<1>3. CASE NewPagemap
  <2>1. Later(pm, Kmalloc(pm, 1).p) /\ Later(pm, pm)
    BY <1>1, KmallocOne DEF Later
  <2> QED
    BY <1>3, <2>1 DEF NewPagemap
<1>4. CASE JitAlloc
  BY <1>4, JitAllocIs
<1>5. CASE SetUpJit \/ Finish \/ UNCHANGED vars
  BY <1>5 DEF SetUpJit, Finish, vars, Later
<1> QED
  BY <1>2, <1>3, <1>4, <1>5

(* A page for the guest is one less for anything else. *)
LEMMA GrowGuestRoom ==
  ASSUME BootInv, EndInv, GrowGuest
  PROVE  Room(pm', pg') \in Nat /\ Room(pm, pg) \in Nat /\ Room(pm', pg') <= Room(pm, pg)
<1>1. PmType(pm) /\ pg \in Nat /\ DawnPages \in Nat
  BY ConstantsAre DEF BootInv, PmInv, EndInv
<1>2. CASE pg' = pg
  <2>1. pm'.free \subseteq pm.free
    BY GrowGuestIs DEF Later
  <2> QED
    BY <1>1, <1>2, <2>1, RoomShrinks
<1>3. ASSUME NEW x \in pm.free, pm'.free \subseteq pm.free \ {x}, pg' = pg + 1
      PROVE  Room(pm', pg') \in Nat /\ Room(pm, pg) \in Nat /\ Room(pm', pg') <= Room(pm, pg)
  <2> DEFINE f == pm.free
             g == pm'.free
  <2>1. IsFiniteSet(f) /\ Cardinality(f) \in Nat
    BY <1>1, FreeIs
  <2>2. IsFiniteSet(f \ {x}) /\ Cardinality(f \ {x}) = Cardinality(f) - 1
    BY <1>3, <2>1, FS_RemoveElement
  <2>3. IsFiniteSet(g) /\ Cardinality(g) <= Cardinality(f \ {x})
    BY <1>3, <2>2, FS_Subset
  <2>4. Cardinality(g) \in Nat
    BY <2>3, FS_CardinalityType
  <2>5. Cardinality(g) <= Cardinality(f) - 1
    BY <2>2, <2>3
  <2> DEFINE y == Cardinality(g)
             z == Cardinality(f)
  <2>6. Room(pm', pg') = DawnPages + (pg + 1) + y /\ Room(pm, pg) = DawnPages + pg + z
    BY <1>3 DEF Room
  <2>7. y \in Nat /\ z \in Nat /\ y <= z - 1
    BY <2>1, <2>4, <2>5
  <2> HIDE DEF y, z
  <2> QED
    BY <1>1, <2>6, <2>7
<1>4. \/ pg' = pg
      \/ \E x \in pm.free : pm'.free \subseteq pm.free \ {x} /\ pg' = pg + 1
  BY GrowGuestIs DEF Later
<1> QED
  BY <1>2, <1>3, <1>4

LEMMA RoomNext ==
  ASSUME BootInv, EndInv, MapInv, RoomInv, [Next]_vars
  PROVE  RoomInv'
<1>1. PmType(pm) /\ machine \in Machines /\ pg \in Nat /\ DawnPages \in Nat /\ HhdmPage \in Nat
  BY LayoutIs DEF BootInv, PmInv, EndInv
<1>2. Room(pm, pg)' = Room(pm', pg')
  BY DEF Room
<1>3. ASSUME pm'.free \subseteq pm.free, pg' = pg PROVE RoomInv'
  <2>1. Room(pm', pg) <= Room(pm, pg) /\ Room(pm', pg) \in Nat /\ Room(pm, pg) \in Nat
    BY <1>1, <1>3, RoomShrinks
  <2> QED
    BY <1>1, <1>2, <1>3, <2>1 DEF RoomInv
<1>4. CASE PmmInit
  <2>1. CASE at' = "panic" /\ pm' = pm
    BY <1>3, <1>4, <2>1 DEF PmmInit
  <2>2. CASE at' # "panic"
    <3> DEFINE top == NewMaxPage(machine.map)
    <3>1. top \in Nat /\ DawnPages + top <= HhdmPage
      BY <1>1, LayoutIs
    <3>2. pg' = 0 /\ pm'.free \subseteq BITMAP_BASE .. (top - 1)
      <4>1. pg = 0 /\ DOMAIN pm = {"free", "hint", "max", "bitmap", "given"}
        BY <1>1, <1>4 DEF EndInv, PmmInit, PmType
      <4>2. \E a, b : pm' = [pm EXCEPT !.max = top, !.bitmap = b, !.free = (a \cap BITMAP_BASE .. (top - 1)) \ b]
        BY <1>4, <2>2 DEF PmmInit
      <4> HIDE DEF top
      <4>3. pm'.free \subseteq BITMAP_BASE .. (top - 1)
        BY <4>1, <4>2
      <4> QED
        BY <1>4, <4>1, <4>3 DEF PmmInit
    <3> HIDE DEF top
    <3>3. IsFiniteSet(BITMAP_BASE .. (top - 1)) /\ Cardinality(BITMAP_BASE .. (top - 1)) <= top
      <4>1. BITMAP_BASE \in Nat \ {0} /\ top - 1 \in Int
        BY <3>1, ConstantsAre
      <4>2. /\ IsFiniteSet(BITMAP_BASE .. (top - 1))
            /\ Cardinality(BITMAP_BASE .. (top - 1)) =
                 IF BITMAP_BASE > top - 1 THEN 0 ELSE (top - 1) - BITMAP_BASE + 1
        BY <4>1, FS_Interval
      <4> QED
        BY <3>1, <4>1, <4>2
    <3>4. IsFiniteSet(pm'.free) /\ Cardinality(pm'.free) <= Cardinality(BITMAP_BASE .. (top - 1))
      BY <3>2, <3>3, FS_Subset
    <3>5. Cardinality(pm'.free) \in Nat /\ Cardinality(BITMAP_BASE .. (top - 1)) \in Nat
      BY <3>3, <3>4, FS_CardinalityType
    <3>6. Cardinality(pm'.free) <= top
      BY <3>1, <3>3, <3>4, <3>5
    <3>7. DawnPages + 0 + Cardinality(pm'.free) <= HhdmPage
      BY <1>1, <3>1, <3>5, <3>6
    <3> QED
      BY <1>2, <3>2, <3>7 DEF Room, RoomInv
  <2> QED
    BY <1>4, <2>1, <2>2 DEF PmmInit
<1>5. CASE MapCall
  <2>1. pm'.free \subseteq pm.free /\ pg' = pg
    BY <1>5, MapCallIs DEF Built, Later
  <2> QED
    BY <1>3, <2>1
<1>6. CASE GrowGuest
  BY <1>1, <1>2, <1>6, GrowGuestRoom DEF RoomInv
<1>7. CASE \/ AllocBuffers \/ NewPagemap \/ SetUpJit \/ JitAlloc \/ Finish \/ UNCHANGED vars
  BY <1>3, <1>7, QuietStep DEF Later
<1> QED
  BY <1>4, <1>5, <1>6, <1>7 DEF Next, Done

LEMMA MapInit ==
  ASSUME Init
  PROVE  MapInv /\ RoomInv
<1>1. at = "init" /\ pt = [tables |-> << >>, small |-> << >>, large |-> << >>] /\ pg = 0 /\ pm.free = {}
      /\ machine \in Machines
  BY DEF Init
<1>2. pt.large = << >> /\ DOMAIN << >> = {}
  <2>1. DOMAIN << >> = 1 .. Len(<< >>) /\ Len(<< >>) = 0
    BY EmptySeq, LenProperties
  <2>2. 1 .. 0 = {}
    OBVIOUS
  <2> QED
    BY <1>1, <2>1, <2>2
<1>3. LargeRight(pt)
  BY <1>2 DEF LargeRight
<1>4. Cardinality(pm.free) = 0 /\ DawnPages + 0 + 0 <= HhdmPage
  <2>1. DawnPages \in Nat /\ HhdmPage \in Nat /\ NewMaxPage(machine.map) \in Nat
        /\ DawnPages + NewMaxPage(machine.map) <= HhdmPage
    BY <1>1, LayoutIs
  <2> QED
    BY <1>1, <2>1, FS_EmptySet
<1>5. Room(pm, pg) <= HhdmPage
  BY <1>1, <1>4 DEF Room
<1> QED
  BY <1>1, <1>3, <1>5 DEF MapInv, RoomInv

LEMMA GrowGuestKeepsMaps ==
  ASSUME BootInv, EndInv, MapInv, RoomInv, GrowGuest
  PROVE  MapInv'
<1>1. /\ machine' = machine /\ machine \in Machines /\ at = "grow" /\ at' \in {"grow", "fill"}
      /\ pm'.free \subseteq pm.free /\ pg \in Nat
  BY GrowGuestIs DEF Later, BootInv, EndInv
<1>2. LargeRight(pt)
  BY DEF MapInv
<1>3. Calls' = Calls /\ KernelPage' = KernelPage /\ \A v : FrameOf(v)' = FrameOf(v)
  BY <1>1 DEF Calls, SegmentPages, KernelPage, FrameOf
<1>4. CASE pt' = pt /\ pg' = pg
  <2>1. LargeRight(pt)'
    BY <1>2, <1>3, <1>4 DEF LargeRight
  <2>2. Progress(pt, << >>)' <=> Progress(pt, << >>)
    BY <1>3, <1>4 DEF Progress, Pending, Span, Shown
  <2>3. (pm.free = {} /\ pg = 0) \/ Progress(pt, << >>)
    BY <1>1 DEF MapInv
  <2> QED
    BY <1>1, <1>4, <2>1, <2>2, <2>3 DEF MapInv
<1>5. ASSUME NEW x \in pm.free, pt'.large = pt.large,
             \/ pg' = pg /\ pt'.small = pt.small
             \/ /\ pg' = pg + 1 /\ pt'.small = With(pt.small, DawnPages + pg, x)
                /\ (DawnPages + pg) \div Fan \notin DOMAIN pt.large
      PROVE  MapInv'
  <2> DEFINE w == DawnPages + pg
  <2>1. LargeRight(pt)'
    BY <1>2, <1>3, <1>5 DEF LargeRight
  <2>2. Progress(pt, << >>)
    BY <1>1, <1>5 DEF MapInv
  <2>3. DawnPages <= w /\ w < HhdmPage /\ w \in Nat /\ DawnPages \in Nat /\ HhdmPage \in Nat
    <3>1. PmType(pm) /\ DawnPages \in Nat /\ HhdmPage \in Nat
      BY <1>1, LayoutIs DEF BootInv, PmInv
    <3>2. IsFiniteSet(pm.free) /\ Cardinality(pm.free) \in Nat
      BY <3>1, FreeIs
    <3>3. Cardinality(pm.free) # 0
      BY <1>5, <3>2, FS_EmptySet
    <3>4. DawnPages + pg + Cardinality(pm.free) <= HhdmPage
      BY DEF RoomInv, Room
    <3> DEFINE z == Cardinality(pm.free)
    <3>5. z \in Nat /\ z # 0 /\ DawnPages + pg + z <= HhdmPage
      BY <3>2, <3>3, <3>4
    <3> HIDE DEF z
    <3> QED
      BY <1>1, <3>1, <3>5
  <2>4. ASSUME NEW v \in Nat, v # w PROVE Shown(pt', v) = Shown(pt, v)
    <3>1. CASE pt'.small = pt.small
      BY <1>5, <3>1 DEF Shown
    <3>2. CASE pt'.small = With(pt.small, w, x)
      <4>1. /\ v \in DOMAIN pt'.small <=> v \in DOMAIN pt.small
            /\ v \in DOMAIN pt.small => pt'.small[v] = pt.small[v]
        BY <2>4, <3>2 DEF With
      <4> QED
        BY <1>5, <4>1 DEF Shown
    <3> QED
      BY <1>5, <3>1, <3>2
  <2> HIDE DEF w
  <2>5. ASSUME NEW c \in Range(Calls), NEW v \in Span(c)
        PROVE  Shown(pt', v) = FrameOf(v) \/ Pending(<< >>, v)
    <3>1. v \in Nat /\ (v < DawnPages \/ v >= HhdmPage)
      BY <1>1, SpanNat
    <3>2. v # w
      BY <2>3, <3>1
    <3> QED
      BY <2>2, <2>4, <3>1, <3>2 DEF Progress
  <2>6. Progress(pt', << >>)
    BY <2>5 DEF Progress
  <2>7. Progress(pt, << >>)' <=> Progress(pt', << >>)
    BY <1>3 DEF Progress, Pending, Span, Shown
  <2> QED
    BY <1>1, <2>1, <2>6, <2>7 DEF MapInv
<1> QED
  BY <1>4, <1>5, GrowGuestIs

LEMMA MapNext ==
  ASSUME BootInv, EndInv, MapInv, RoomInv, [Next]_vars
  PROVE  MapInv'
<1>1. machine \in Machines /\ LargeRight(pt)
  BY DEF BootInv, MapInv
<1>2. ASSUME machine' = machine, pt' = pt
      PROVE  /\ LargeRight(pt)' /\ (Progress(pt, << >>)' <=> Progress(pt, << >>))
             /\ Calls' = Calls /\ (Loops(Calls)' <=> Loops(Calls))
  <2>1. Calls' = Calls /\ KernelPage' = KernelPage /\ \A v : FrameOf(v)' = FrameOf(v)
    BY <1>2 DEF Calls, SegmentPages, KernelPage, FrameOf
  <2>2. LargeRight(pt)'
    BY <1>1, <1>2, <2>1 DEF LargeRight
  <2>3. Progress(pt, << >>)' <=> Progress(pt, << >>)
    BY <1>2, <2>1 DEF Progress, Pending, Span, Shown
  <2>4. Loops(Calls)' <=> Loops(Calls)
    BY <2>1 DEF Loops, Lawful
  <2> QED
    BY <2>1, <2>2, <2>3, <2>4
<1>3. CASE PmmInit
  <2>1. machine' = machine /\ pt' = pt /\ at' \in {"panic", "buffers"}
    BY <1>3 DEF PmmInit
  <2> QED
    BY <1>2, <2>1 DEF MapInv
<1>4. CASE AllocBuffers
  <2>1. machine' = machine /\ pt' = pt /\ at' = "pagemap"
    BY <1>4 DEF AllocBuffers
  <2> QED
    BY <1>2, <2>1 DEF MapInv
<1>5. CASE NewPagemap
  <2>1. machine' = machine /\ pt' = pt /\ (at' = "hang" \/ (at' = "map" /\ calls' = Calls))
    BY <1>5 DEF NewPagemap
  <2>2. Loops(Calls)
    BY <1>1, CallsAre
  <2>3. CASE at' = "map" /\ calls' = Calls
    <3>1. Calls' = Calls /\ LargeRight(pt)'
      BY <1>2, <2>1
    <3>2. Loops(calls)'
      BY <1>2, <2>1, <2>2, <2>3
    <3>3. Calls \in Seq(LoopType)
      BY <2>2 DEF Loops
    <3>4. DOMAIN Calls = 1 .. Len(Calls)
      BY <3>3, LenProperties
    <3>5. ASSUME NEW c \in Range(Calls), NEW v \in Span(c) PROVE Pending(Calls, v)
      <4>1. PICK i \in 1 .. Len(Calls) : c = Calls[i]
        BY <3>4 DEF Range
      <4> QED
        BY <3>5, <4>1 DEF Pending
    <3>6. Progress(pt', Calls)
      BY <3>5 DEF Progress
    <3>7. calls' = Calls' /\ (Progress(pt, calls)' <=> Progress(pt', Calls))
      <4>1. KernelPage' = KernelPage /\ \A v : FrameOf(v)' = FrameOf(v)
        BY <2>1 DEF KernelPage, FrameOf
      <4> QED
        BY <2>3, <3>1, <4>1 DEF Progress, Pending, Span, Shown
    <3> QED
      BY <2>3, <3>1, <3>2, <3>6, <3>7 DEF MapInv
  <2> QED
    BY <1>2, <2>1, <2>3 DEF MapInv
<1>6. CASE MapCall
  BY <1>6, MapCallKeepsMaps
<1>7. CASE SetUpJit
  <2>1. /\ machine' = machine /\ pt' = pt /\ pm' = pm /\ pg' = pg
        /\ at = "map" /\ calls = << >> /\ at' \in {"grow", "jit"}
    BY <1>7 DEF SetUpJit
  <2>2. (pm.free = {} /\ pg = 0) \/ Progress(pt, << >>)
    BY <2>1 DEF MapInv
  <2> QED
    BY <1>2, <2>1, <2>2 DEF MapInv
<1>8. CASE JitAlloc
  <2>1. /\ machine' = machine /\ pt' = pt /\ pg' = pg /\ pm'.free \subseteq pm.free
        /\ at = "jit" /\ at' \in {"jit", "grow"}
    BY <1>8, JitAllocIs DEF Later
  <2>2. (pm.free = {} /\ pg = 0) \/ Progress(pt, << >>)
    BY <2>1 DEF MapInv
  <2> QED
    BY <1>2, <2>1, <2>2 DEF MapInv
<1>9. CASE GrowGuest
  BY <1>9, GrowGuestKeepsMaps
<1>10. CASE Finish
  <2>1. /\ machine' = machine /\ pt' = pt /\ pg' = pg /\ pm' = pm
        /\ at = "fill" /\ at' = "run"
    BY <1>10 DEF Finish
  <2>2. (pm.free = {} /\ pg = 0) \/ Progress(pt, << >>)
    BY <2>1 DEF MapInv
  <2> QED
    BY <1>2, <2>1, <2>2 DEF MapInv
<1>11. CASE UNCHANGED vars
  <2>1. /\ machine' = machine /\ pt' = pt /\ pg' = pg /\ pm' = pm /\ at' = at /\ calls' = calls
    BY <1>11 DEF vars
  <2>2. /\ LargeRight(pt)' /\ (Progress(pt, << >>)' <=> Progress(pt, << >>))
    BY <1>2, <2>1
  <2>3. Loops(calls)' <=> Loops(calls)
    <3>1. KernelPage' = KernelPage /\ \A v : FrameOf(v)' = FrameOf(v)
      BY <2>1 DEF KernelPage, FrameOf
    <3>2. \A x : Lawful(x)' <=> Lawful(x)
      BY <3>1 DEF Lawful
    <3> QED
      BY <2>1, <3>2 DEF Loops
  <2>4. Progress(pt, calls)' <=> Progress(pt, calls)
    <3>1. KernelPage' = KernelPage /\ Calls' = Calls /\ \A v : FrameOf(v)' = FrameOf(v)
      BY <1>2, <2>1 DEF KernelPage, FrameOf
    <3> QED
      BY <2>1, <3>1 DEF Progress, Pending, Span, Shown
  <2> QED
    BY <2>1, <2>2, <2>3, <2>4 DEF MapInv
<1> QED
  BY <1>3, <1>4, <1>5, <1>6, <1>7, <1>8, <1>9, <1>10, <1>11 DEF Next, Done

LEMMA MapHolds == Spec => [](BootInv /\ EndInv /\ MapInv /\ RoomInv)
<1>1. Init => EndInv /\ MapInv /\ RoomInv
  BY EndInit, MapInit
<1>2. BootInv /\ EndInv /\ MapInv /\ RoomInv /\ [Next]_vars => (EndInv /\ MapInv /\ RoomInv)'
  BY EndNext, MapNext, RoomNext
<1> QED
  BY <1>1, <1>2, BootHolds, PTL DEF Spec

LEMMA MapInvShows ==
  ASSUME BootInv, EndInv, MapInv
  PROVE  MappingsComplete
<1> SUFFICES ASSUME at = "run", pg > 0
             PROVE  MappingsComplete
  BY DEF MappingsComplete
<1>1. machine \in Machines /\ Progress(pt, << >>)
  <2>1. pg # 0
    BY DEF EndInv
  <2> QED
    BY <2>1 DEF MapInv, BootInv
<1>2. ASSUME NEW c \in Range(Calls), NEW v \in Span(c) PROVE Translate(v) = FrameOf(v)
  <2>1. ~Pending(<< >>, v)
    <3>1. 1 .. Len(<< >>) = {}
      BY EmptySeq
    <3> QED
      BY <3>1 DEF Pending
  <2>2. Shown(pt, v) = FrameOf(v)
    BY <1>1, <2>1 DEF Progress
  <2> QED
    BY <2>2 DEF Shown, Translate
<1>3. ASSUME NEW e \in Range(machine.map), ShouldMap(e.type),
             NEW p \in (e.base \div PageSize) .. (OuterEnd(e) - 1)
      PROVE  Translate(HhdmPage + p) = p
  <2>1. HhdmPages(e) \in Range(Calls)
    BY <1>1, CallsAre
  <2>2. HhdmPage + p \in Span(HhdmPages(e)) /\ FrameOf(HhdmPage + p) = p
    BY <1>1, <1>3, HhdmLawful
  <2> QED
    BY <1>2, <2>1, <2>2
<1>4. ASSUME NEW a \in Range(machine.apics) PROVE Translate(HhdmPage + a) = a
  <2> DEFINE c == Pages(a, HhdmPage + a, 1, FALSE)
  <2>1. c \in Range(Calls)
    BY <1>1, CallsAre
  <2>2. HhdmPage + a \in Span(c) /\ FrameOf(HhdmPage + a) = a
    BY <1>1, ApicLawful
  <2> HIDE DEF c
  <2> QED
    BY <1>2, <2>1, <2>2
<1>5. ASSUME NEW g \in Range(machine.segments), NEW a \in g.vaddr .. (g.vaddr + g.memsz - 1)
      PROVE  Translate(a \div PageSize) = (machine.kphys + (a - machine.kvirt)) \div PageSize
  <2>1. SegmentPages(g) \in Range(Calls)
    BY <1>1, CallsAre
  <2>2. g \in [vaddr : Nat, memsz : Nat] /\ machine.kvirt <= g.vaddr
    <3>1. machine.segments \in Seq([vaddr : Nat, memsz : Nat])
      BY <1>1, LayoutIs
    <3>2. Range(machine.segments) \in SUBSET [vaddr : Nat, memsz : Nat]
      BY <3>1, RangeOfSeq
    <3> QED
      BY <1>1, <3>2, BootAssumption DEF BootAssumption
  <2>3. /\ a \div PageSize \in Span(SegmentPages(g))
        /\ (machine.kphys + (a - machine.kvirt)) \div PageSize = FrameOf(a \div PageSize)
    BY <1>1, <2>2, SegmentLawful
  <2> QED
    BY <1>2, <2>1, <2>3
<1>6. ASSUME NEW i \in 0 .. (DawnPages - 1) PROVE Translate(i) = machine.ramdisk + i
  <2> DEFINE c == Pages(machine.ramdisk, 0, DawnPages, FALSE)
  <2>1. c \in Range(Calls)
    BY <1>1, CallsAre
  <2>2. i \in Span(c) /\ FrameOf(i) = machine.ramdisk + i
    BY <1>1, ImageLawful
  <2> HIDE DEF c
  <2> QED
    BY <1>2, <2>1, <2>2
<1> QED
  BY <1>3, <1>4, <1>5, <1>6 DEF MappingsComplete

(* When a guest with any memory starts, all of the kernel, the direct map,   *)
(* the APICs and the image is where it should be, for every machine: a       *)
(* failed map_page (paging.c 10-66), whose result dawn_build_pagemap ignores *)
(* but for the guest's own pages, met a large page that shows the same       *)
(* frame, or had no memory left for a table and then there is none for the   *)
(* guest.                                                                    *)
THEOREM MappingsAreComplete == Spec => []MappingsComplete
BY MapInvShows, MapHolds, PTL

-----------------------------------------------------------------------------
(* The guest's pages *)

(* The bitmaps have a bit for every word and the page map a byte for every   *)
(* page of a guest of n pages.                                               *)
Covered(n) == n * PageSize <= 64 * jit.map /\ n * PageSize < PageSize * jit.pages

(* jit_init sizes its maps for all that is free then, and no more is free    *)
(* later.                                                                    *)
JitInv ==
  /\ DOMAIN jit = {"on", "ok", "map", "pages", "mem"}
  /\ at \in {"jit", "grow", "fill", "run"} =>
       jit.map \in Nat /\ jit.pages \in Nat /\ Covered(Room(pm, pg))
  /\ at = "run" /\ jit.on => jit.mem = (DawnPages + pg) * PageSize

(* The tables of t and the n pages after the image were handed out one by    *)
(* one.                                                                      *)
Owned(t, p, n) ==
  /\ \A key \in DOMAIN t.tables : Held(p, t.tables[key])
  /\ \A v \in DawnPages .. (DawnPages + n - 1) :
       /\ v \in DOMAIN t.small /\ Held(p, t.small[v])
       /\ \A key \in DOMAIN t.tables : t.small[v] # t.tables[key]
       /\ \A u \in DawnPages .. (DawnPages + n - 1) : u # v => t.small[u] # t.small[v]

OwnedInv == Owned(pt, pm, pg)

LEMMA MapCovers ==
  ASSUME NEW n \in Nat
  PROVE  MapBytes(n) \in Nat /\ n <= 64 * MapBytes(n)
<1> DEFINE d == n \div 64
           b == d + 15
           r == b % 8
<1>1. d \in Nat /\ n < 64 * d + 64
  BY DivIs
<1> HIDE DEF d
<1>2. b \in Nat
  BY <1>1
<1>3. r \in 0 .. 7
  <2> HIDE DEF b
  <2> QED
    BY <1>2, ModIs
<1>4. MapBytes(n) = b - r
  BY DEF MapBytes, d
<1> HIDE DEF r
<1> QED
  BY <1>1, <1>3, <1>4

LEMMA PageCovers ==
  ASSUME NEW n \in Nat
  PROVE  PageBytes(n) \in Nat /\ n < PageSize * PageBytes(n)
<1> DEFINE d == n \div PageSize
<1>1. d \in Nat /\ PageSize \in Nat /\ n < PageSize * d + PageSize
  BY ConstantsAre, DivIs
<1>2. PageBytes(n) = d + 1
  BY DEF PageBytes
<1> HIDE DEF d
<1>3. PageSize * (d + 1) = PageSize * d + PageSize
  BY <1>1
<1> QED
  BY <1>1, <1>2, <1>3

LEMMA CoveredLess ==
  ASSUME NEW a \in Nat, NEW b \in Nat, a <= b, Covered(b), jit.map \in Nat, jit.pages \in Nat
  PROVE  Covered(a)
<1>1. PageSize \in Nat
  BY ConstantsAre
<1>2. PageSize * a <= PageSize * b
  BY <1>1, TimesMonotone
<1>3. PageSize * a = a * PageSize /\ PageSize * b = b * PageSize
  BY <1>1
<1> DEFINE x == a * PageSize
           y == b * PageSize
           z == PageSize * jit.pages
<1>4. x \in Nat /\ y \in Nat /\ z \in Nat /\ x <= y
  BY <1>1, <1>2, <1>3
<1>5. y <= 64 * jit.map /\ y < z
  BY DEF Covered
<1>6. x <= 64 * jit.map /\ x < z
  <2> HIDE DEF x, y, z
  <2> QED
    BY <1>4, <1>5
<1> QED
  BY <1>6 DEF Covered

LEMMA JitNext ==
  ASSUME BootInv, EndInv, MapInv, RoomInv, JitInv, [Next]_vars
  PROVE  JitInv'
<1>1. PmType(pm) /\ pg \in Nat
  BY DEF BootInv, PmInv, EndInv
<1>2. Room(pm, pg)' = Room(pm', pg') /\ \A n : jit'.map = jit.map /\ jit'.pages = jit.pages => (Covered(n)' <=> Covered(n))
  BY DEF Room, Covered
<1>3. ASSUME at \in {"jit", "grow", "fill", "run"}, jit'.map = jit.map, jit'.pages = jit.pages,
             Room(pm', pg') \in Nat, Room(pm, pg) \in Nat, Room(pm', pg') <= Room(pm, pg)
      PROVE  (jit.map \in Nat /\ jit.pages \in Nat /\ Covered(Room(pm, pg)))'
  <2>1. jit.map \in Nat /\ jit.pages \in Nat /\ Covered(Room(pm, pg))
    BY <1>3 DEF JitInv
  <2>2. Covered(Room(pm', pg'))
    BY <1>3, <2>1, CoveredLess
  <2> QED
    BY <1>2, <1>3, <2>1, <2>2
<1>4. CASE PmmInit \/ AllocBuffers \/ NewPagemap \/ MapCall
  <2>1. jit' = jit /\ at' \in {"panic", "buffers", "pagemap", "hang", "map"}
    BY <1>4 DEF PmmInit, AllocBuffers, NewPagemap, MapCall
  <2> QED
    BY <2>1 DEF JitInv
<1>5. CASE SetUpJit
  <2>1. /\ at = "map" /\ pm' = pm /\ pg' = pg /\ at' \in {"grow", "jit"}
        /\ jit' = [on |-> FALSE, ok |-> TRUE, map |-> MapBytes(DawnMax), pages |-> PageBytes(DawnMax), mem |-> DawnMax]
    BY <1>5 DEF SetUpJit
  <2>2. DawnMax = Room(pm, pg) * PageSize
    <3>1. pg = 0
      BY <2>1 DEF EndInv
    <3>2. Room(pm, pg) = DawnPages + Cardinality(pm.free)
      <4> DEFINE z == Cardinality(pm.free)
      <4>1. z \in Nat /\ DawnPages \in Nat
        BY <1>1, FreeIs, ConstantsAre
      <4>2. Room(pm, pg) = DawnPages + 0 + z
        BY <3>1 DEF Room
      <4> HIDE DEF z
      <4>3. Room(pm, pg) = DawnPages + z
        BY <4>1, <4>2
      <4> QED
        BY <4>3 DEF z
    <3> QED
      BY <3>2 DEF DawnMax, PmmFreePages
  <2>3. DawnMax \in Nat
    BY <1>1, DawnMaxIs
  <2>4. /\ MapBytes(DawnMax) \in Nat /\ DawnMax <= 64 * MapBytes(DawnMax)
        /\ PageBytes(DawnMax) \in Nat /\ DawnMax < PageSize * PageBytes(DawnMax)
    BY <2>3, MapCovers, PageCovers
  <2>5. (jit.map \in Nat /\ jit.pages \in Nat /\ Covered(Room(pm, pg)))'
    <3>1. Room(pm', pg') * PageSize <= 64 * jit'.map /\ Room(pm', pg') * PageSize < PageSize * jit'.pages
      BY <2>1, <2>2, <2>4
    <3> QED
      BY <1>2, <2>1, <2>4, <3>1 DEF Covered
  <2>6. DOMAIN jit' = {"on", "ok", "map", "pages", "mem"}
    BY <2>1
  <2> QED
    BY <2>1, <2>5, <2>6 DEF JitInv
<1>6. CASE JitAlloc
  <2>1. /\ pm'.free \subseteq pm.free /\ pg' = pg /\ at = "jit" /\ at' \in {"jit", "grow"}
        /\ jit'.map = jit.map /\ jit'.pages = jit.pages
    BY <1>6, JitAllocIs DEF Later
  <2>2. DOMAIN jit' = DOMAIN jit
    <3>1. \E a, b : jit' = [jit EXCEPT !.ok = a, !.on = b]
      BY <1>6 DEF JitAlloc
    <3> QED
      BY <3>1
  <2>3. (jit.map \in Nat /\ jit.pages \in Nat /\ Covered(Room(pm, pg)))'
    BY <1>1, <1>3, <2>1, RoomShrinks
  <2> QED
    BY <2>1, <2>2, <2>3 DEF JitInv
<1>7. CASE GrowGuest
  <2>1. at = "grow" /\ at' \in {"grow", "fill"} /\ jit' = jit
    BY <1>7, GrowGuestIs
  <2>2. (jit.map \in Nat /\ jit.pages \in Nat /\ Covered(Room(pm, pg)))'
    BY <1>3, <1>7, <2>1, GrowGuestRoom
  <2> QED
    BY <2>1, <2>2 DEF JitInv
<1>8. CASE Finish
  <2>1. /\ at = "fill" /\ at' = "run" /\ pm' = pm /\ pg' = pg
        /\ jit' = [jit EXCEPT !.mem = MemSize]
    BY <1>8 DEF Finish
  <2>2. /\ DOMAIN jit' = DOMAIN jit /\ jit'.map = jit.map /\ jit'.pages = jit.pages
        /\ jit'.on = jit.on /\ jit'.mem = MemSize
    BY <2>1 DEF JitInv
  <2>3. (jit.map \in Nat /\ jit.pages \in Nat /\ Covered(Room(pm, pg)))'
    BY <1>1, <1>3, <2>1, <2>2, RoomShrinks
  <2>4. jit'.on => jit'.mem = (DawnPages + pg') * PageSize
    BY <2>1, <2>2 DEF MemSize
  <2> QED
    BY <2>1, <2>2, <2>3, <2>4 DEF JitInv
<1>9. CASE UNCHANGED vars
  BY <1>9 DEF vars, JitInv, Covered, Room
<1> QED
  BY <1>4, <1>5, <1>6, <1>7, <1>8, <1>9 DEF Next, Done

(* More tables take none of the guest's pages. *)
LEMMA OwnedLater ==
  ASSUME NEW m, NEW o, PmInv(m, o), NEW t, NEW n, Owned(t, o, n),
         NEW p, Later(o, p), NEW q, NEW u, Built(p, t, q, u),
         \A v \in DawnPages .. (DawnPages + n - 1) :
           v \in DOMAIN t.small => v \in DOMAIN u.small /\ u.small[v] = t.small[v]
  PROVE  Owned(u, q, n)
<1>1. \A x : Held(o, x) => Held(q, x) /\ x \notin p.free
  <2> SUFFICES ASSUME NEW x, Held(o, x) PROVE Held(q, x) /\ x \notin p.free
    OBVIOUS
  <2>1. x \notin o.free
    BY HeldIs
  <2> QED
    BY <2>1 DEF Later, Built
<1>2. ASSUME NEW key \in DOMAIN u.tables
      PROVE  Held(q, u.tables[key])
  BY <1>1, <1>2 DEF Built, Owned
<1>3. ASSUME NEW v \in DawnPages .. (DawnPages + n - 1)
      PROVE  /\ v \in DOMAIN u.small /\ Held(q, u.small[v]) /\ u.small[v] = t.small[v]
             /\ \A key \in DOMAIN u.tables : u.small[v] # u.tables[key]
  <2>1. v \in DOMAIN t.small /\ Held(o, t.small[v]) /\ u.small[v] = t.small[v] /\ v \in DOMAIN u.small
    BY <1>3 DEF Owned
  <2>2. ASSUME NEW key \in DOMAIN u.tables PROVE u.small[v] # u.tables[key]
    <3>1. CASE key \in DOMAIN t.tables /\ u.tables[key] = t.tables[key]
      BY <1>3, <2>1, <3>1 DEF Owned
    <3>2. CASE u.tables[key] \in p.free
      BY <1>1, <2>1, <3>2
    <3> QED
      BY <3>1, <3>2 DEF Built
  <2> QED
    BY <1>1, <2>1, <2>2
<1>4. ASSUME NEW v \in DawnPages .. (DawnPages + n - 1), NEW w \in DawnPages .. (DawnPages + n - 1), w # v
      PROVE  u.small[w] # u.small[v]
  BY <1>3, <1>4 DEF Owned
<1> QED
  BY <1>2, <1>3, <1>4 DEF Owned

(* A page more for the guest is neither one of its pages nor a table. *)
LEMMA OwnedGrows ==
  ASSUME NEW m, NEW o, PmInv(m, o), NEW t, NEW n \in Nat, Owned(t, o, n),
         NEW p, Later(o, p), NEW q, NEW u, Built(p, t, q, u),
         NEW x \in o.free, x \notin p.free, Held(q, x),
         u.small = With(t.small, DawnPages + n, x)
  PROVE  Owned(u, q, n + 1)
<1> DEFINE w == DawnPages + n
           V == DawnPages .. (DawnPages + n - 1)
<1>1. DawnPages \in Nat
  BY ConstantsAre
<1>2. w \notin V /\ DawnPages .. (DawnPages + (n + 1) - 1) = V \cup {w}
  BY <1>1
<1> HIDE DEF w, V
<1>3. /\ DOMAIN u.small = DOMAIN t.small \cup {w} /\ u.small[w] = x
      /\ \A v \in V : v \in DOMAIN t.small => u.small[v] = t.small[v]
  BY <1>2 DEF With, w
<1>4. Owned(u, q, n)
  BY <1>3, OwnedLater DEF V
<1>5. ASSUME NEW v \in V PROVE u.small[v] # x
  <2>1. v \in DOMAIN t.small /\ Held(o, t.small[v])
    BY DEF Owned, V
  <2>2. t.small[v] \notin o.free
    BY <2>1, HeldIs
  <2> QED
    BY <1>3, <2>1, <2>2
<1>6. ASSUME NEW key \in DOMAIN u.tables PROVE u.tables[key] # x
  <2>1. CASE key \in DOMAIN t.tables /\ u.tables[key] = t.tables[key]
    <3>1. Held(o, t.tables[key])
      BY <2>1 DEF Owned
    <3>2. t.tables[key] \notin o.free
      BY <3>1, HeldIs
    <3> QED
      BY <2>1, <3>2
  <2>2. CASE u.tables[key] \in p.free
    BY <2>2
  <2> QED
    BY <2>1, <2>2 DEF Built
<1>7. ASSUME NEW v \in V \cup {w}
      PROVE  /\ v \in DOMAIN u.small /\ Held(q, u.small[v])
             /\ \A key \in DOMAIN u.tables : u.small[v] # u.tables[key]
             /\ \A y \in V \cup {w} : y # v => u.small[y] # u.small[v]
  <2>1. CASE v \in V
    BY <1>3, <1>4, <1>5, <2>1 DEF Owned, V
  <2>2. CASE v = w
    BY <1>3, <1>5, <1>6, <2>2
  <2> QED
    BY <2>1, <2>2
<1>8. \A key \in DOMAIN u.tables : Held(q, u.tables[key])
  BY <1>4 DEF Owned
<1> QED
  BY <1>2, <1>7, <1>8 DEF Owned

LEMMA OwnedNext ==
  ASSUME BootInv, EndInv, MapInv, OwnedInv, [Next]_vars
  PROVE  OwnedInv'
<1>1. PmInv(machine, pm) /\ PmType(pm) /\ Tables(pt) /\ pg \in Nat /\ Owned(pt, pm, pg)
  BY DEF BootInv, PmInv, EndInv, OwnedInv
<1>2. Owned(pt, pm, pg)' <=> Owned(pt', pm', pg')
  BY DEF Owned, Held
<1>3. Later(pm, pm)
  BY DEF Later
<1>4. ASSUME Later(pm, pm'), pt' = pt, pg' = pg PROVE OwnedInv'
  <2>1. Built(pm, pt, pm', pt)
    BY <1>1, <1>4 DEF Built
  <2>2. Owned(pt, pm', pg)
    BY <1>1, <1>3, <2>1, OwnedLater
  <2> QED
    BY <1>2, <1>4, <2>2 DEF OwnedInv
<1>5. CASE PmmInit
  <2>1. pt' = pt /\ pg' = pg /\ pm'.given = pm.given
    <3>1. \/ pm' = pm
          \/ \E a, b, c : pm' = [pm EXCEPT !.max = a, !.bitmap = b, !.free = c]
      BY <1>5 DEF PmmInit
    <3> QED
      BY <1>1, <1>5, <3>1 DEF PmmInit, PmType
  <2>2. Owned(pt, pm', pg)
    BY <1>1, <2>1 DEF Owned, Held
  <2> QED
    BY <1>2, <2>1, <2>2 DEF OwnedInv
<1>6. CASE MapCall
  <2>1. pg' = 0 /\ pg = 0 /\ at = "map"
    BY <1>6, MapCallIs DEF EndInv
  <2>2. CASE pm' = pm /\ pt' = pt
    BY <1>3, <1>4, <2>1, <2>2
  <2>3. CASE Built(pm, pt, pm', pt')
    <3>1. DawnPages .. (DawnPages + pg - 1) = {}
      BY <2>1, ConstantsAre
    <3>2. Owned(pt', pm', pg)
      BY <1>1, <1>3, <2>3, <3>1, OwnedLater
    <3> QED
      BY <1>2, <2>1, <3>2 DEF OwnedInv
  <2> QED
    BY <1>6, <2>2, <2>3, MapCallIs
<1>7. CASE GrowGuest
  <2>1. CASE pt' = pt /\ pg' = pg
    BY <1>4, <1>7, <2>1, GrowGuestIs
  <2>2. ASSUME NEW x \in pm.free, NEW p, p.free = pm.free \ {x}, Later(pm, p),
               Held(pm', x), Built(p, pt, pm', pt'),
               \/ pg' = pg /\ pt'.small = pt.small
               \/ pg' = pg + 1 /\ pt'.small = With(pt.small, DawnPages + pg, x)
        PROVE  OwnedInv'
    <3>1. CASE pg' = pg /\ pt'.small = pt.small
      <4>1. Owned(pt', pm', pg)
        BY <1>1, <2>2, <3>1, OwnedLater
      <4> QED
        BY <1>2, <3>1, <4>1 DEF OwnedInv
    <3>2. CASE pg' = pg + 1 /\ pt'.small = With(pt.small, DawnPages + pg, x)
      <4>1. Owned(pt', pm', pg + 1)
        BY <1>1, <2>2, <3>2, OwnedGrows
      <4> QED
        BY <1>2, <3>2, <4>1 DEF OwnedInv
    <3> QED
      BY <2>2, <3>1, <3>2
  <2> QED
    BY <1>7, <2>1, <2>2, GrowGuestIs
<1>8. CASE \/ AllocBuffers \/ NewPagemap \/ SetUpJit \/ JitAlloc \/ Finish \/ UNCHANGED vars
  BY <1>4, <1>8, QuietStep
<1> QED
  BY <1>5, <1>6, <1>7, <1>8 DEF Next, Done

LEMMA GuestInit ==
  ASSUME Init
  PROVE  JitInv /\ OwnedInv
<1>1. /\ pt.tables = << >> /\ pg = 0 /\ at = "init"
      /\ jit = [on |-> FALSE, ok |-> TRUE, map |-> 0, pages |-> 0, mem |-> 0]
  BY DEF Init
<1>2. DOMAIN << >> = {}
  <2>1. DOMAIN << >> = 1 .. Len(<< >>) /\ Len(<< >>) = 0
    BY EmptySeq, LenProperties
  <2>2. 1 .. 0 = {}
    OBVIOUS
  <2> QED
    BY <2>1, <2>2
<1>3. DawnPages .. (DawnPages + 0 - 1) = {}
  BY ConstantsAre
<1>4. OwnedInv
  BY <1>1, <1>2, <1>3 DEF OwnedInv, Owned
<1>5. DOMAIN jit = {"on", "ok", "map", "pages", "mem"} /\ at \notin {"jit", "grow", "fill", "run"} /\ at # "run"
  BY <1>1
<1> QED
  BY <1>4, <1>5 DEF JitInv

LEMMA GuestHolds == Spec => [](BootInv /\ EndInv /\ MapInv /\ RoomInv /\ JitInv /\ OwnedInv)
<1>1. BootInv /\ EndInv /\ MapInv /\ RoomInv /\ JitInv /\ OwnedInv /\ [Next]_vars => (JitInv /\ OwnedInv)'
  BY JitNext, OwnedNext
<1> QED
  BY <1>1, GuestInit, MapHolds, PTL DEF Spec

(* What a running guest has at each of its pages. *)
LEMMA GuestPages ==
  ASSUME BootInv, EndInv, MapInv, RoomInv, OwnedInv, at = "run", pg > 0
  PROVE  /\ \A v \in 0 .. (DawnPages - 1) :
              /\ Translate(v) = machine.ramdisk + v /\ Translate(v) # Null
              /\ \A p : ~Ours(machine, p, Translate(v))
         /\ \A v \in DawnPages .. (DawnPages + pg - 1) :
              /\ v \in DOMAIN pt.small /\ Translate(v) = pt.small[v] /\ Translate(v) # Null
              /\ Ours(machine, pm, Translate(v)) /\ Held(pm, Translate(v))
<1>1. /\ machine \in Machines /\ PmInv(machine, pm) /\ pg \in Nat /\ Owned(pt, pm, pg) /\ LargeRight(pt)
  BY DEF BootInv, EndInv, OwnedInv, MapInv
<1>2. DawnPages \in Nat /\ HhdmPage \in Nat /\ machine.ramdisk \in Nat \ {0} /\ Fan \in Nat \ {0}
  BY <1>1, LayoutIs
<1>3. ASSUME NEW v \in 0 .. (DawnPages - 1)
      PROVE  /\ Translate(v) = machine.ramdisk + v /\ Translate(v) # Null
             /\ \A p : ~Ours(machine, p, Translate(v))
  <2>1. Translate(v) = machine.ramdisk + v
    BY MapInvShows DEF MappingsComplete
  <2>2. machine.ramdisk + v # Null
    BY <1>2 DEF Null
  <2>3. machine.ramdisk + v \in machine.ramdisk .. (machine.ramdisk + DawnPages - 1)
    BY <1>2
  <2>4. ASSUME NEW p PROVE ~Ours(machine, p, machine.ramdisk + v)
    BY <1>1, <2>3, LayoutAssumption DEF LayoutAssumption, Ours
  <2> QED
    BY <2>1, <2>2, <2>4
<1>4. ASSUME NEW v \in DawnPages .. (DawnPages + pg - 1)
      PROVE  /\ v \in DOMAIN pt.small /\ Translate(v) = pt.small[v] /\ Translate(v) # Null
             /\ Ours(machine, pm, Translate(v)) /\ Held(pm, Translate(v))
  <2>1. v \in Nat /\ v < HhdmPage
    <3>1. Cardinality(pm.free) \in Nat
      BY <1>1, FreeIs DEF PmInv
    <3>2. DawnPages + pg + Cardinality(pm.free) <= HhdmPage
      BY DEF RoomInv, Room
    <3> DEFINE z == Cardinality(pm.free)
    <3>3. z \in Nat /\ DawnPages + pg + z <= HhdmPage
      BY <3>1, <3>2
    <3> HIDE DEF z
    <3> QED
      BY <1>1, <1>2, <3>3
  <2>2. v \div Fan \notin DOMAIN pt.large
    <3> SUFFICES ASSUME v \div Fan \in DOMAIN pt.large PROVE FALSE
      OBVIOUS
    <3>1. HhdmPage <= v
      BY ONLY <1>1, <2>1, LargeShows, v \div Fan \in DOMAIN pt.large
    <3> QED
      BY <1>2, <2>1, <3>1
  <2>3. v \in DOMAIN pt.small /\ Held(pm, pt.small[v])
    BY <1>1 DEF Owned
  <2>4. Translate(v) = pt.small[v]
    BY <2>2, <2>3 DEF Translate
  <2>5. pt.small[v] \in Int /\ Ours(machine, pm, pt.small[v])
    BY <1>1, <2>3, HeldIs
  <2>6. pt.small[v] # Null
    BY <2>5, ConstantsAre DEF Ours, Null
  <2> QED
    BY <2>3, <2>4, <2>5, <2>6
<1> QED
  BY <1>3, <1>4

(* A frame is at one page of the guest. *)
LEMMA GuestFramesDiffer ==
  ASSUME BootInv, EndInv, MapInv, RoomInv, OwnedInv, at = "run", pg > 0,
         NEW u \in 0 .. (DawnPages + pg - 1), NEW v \in 0 .. (DawnPages + pg - 1),
         Translate(u) = Translate(v)
  PROVE  u = v
<1>1. DawnPages \in Nat /\ pg \in Nat /\ machine.ramdisk \in Nat /\ Owned(pt, pm, pg)
  BY LayoutIs DEF BootInv, EndInv, OwnedInv
<1>2. \A w \in 0 .. (DawnPages + pg - 1) :
        w \in 0 .. (DawnPages - 1) \/ w \in DawnPages .. (DawnPages + pg - 1)
  BY <1>1
<1>3. CASE u \in 0 .. (DawnPages - 1) /\ v \in 0 .. (DawnPages - 1)
  <2>1. machine.ramdisk + u = machine.ramdisk + v
    BY <1>3, GuestPages
  <2> QED
    BY <1>1, <2>1
<1>4. CASE u \in DawnPages .. (DawnPages + pg - 1) /\ v \in DawnPages .. (DawnPages + pg - 1)
  <2>1. pt.small[u] = pt.small[v]
    BY <1>4, GuestPages
  <2> QED
    BY <1>1, <1>4, <2>1 DEF Owned
<1>5. CASE u \in 0 .. (DawnPages - 1) /\ v \in DawnPages .. (DawnPages + pg - 1)
  BY <1>5, GuestPages
<1>6. CASE v \in 0 .. (DawnPages - 1) /\ u \in DawnPages .. (DawnPages + pg - 1)
  BY <1>6, GuestPages
<1> QED
  BY <1>2, <1>3, <1>4, <1>5, <1>6

LEMMA GuestCount ==
  ASSUME BootInv, EndInv, MapInv, RoomInv, OwnedInv, at = "run", pg > 0
  PROVE  Cardinality(GuestFrames) = DawnPages + pg
<1> DEFINE S == 0 .. (DawnPages + pg - 1)
           f == [v \in S |-> Translate(v)]
<1>1. DawnPages \in Nat /\ pg \in Nat
  BY ConstantsAre DEF EndInv
<1>2. IsFiniteSet(S) /\ Cardinality(S) = DawnPages + pg
  <2>1. 0 \in Int /\ DawnPages + pg - 1 \in Int
    BY <1>1
  <2>2. /\ IsFiniteSet(S)
        /\ Cardinality(S) = IF 0 > DawnPages + pg - 1 THEN 0 ELSE (DawnPages + pg - 1) - 0 + 1
    BY <2>1, FS_Interval
  <2> HIDE DEF S
  <2> QED
    BY <1>1, <2>2
<1>3. GuestFrames = {Translate(v) : v \in S}
  BY DEF GuestFrames
<1>4. f \in Injection(S, GuestFrames)
  <2>1. \A u, v \in S : f[u] = f[v] => u = v
    BY GuestFramesDiffer
  <2>2. f \in [S -> GuestFrames]
    BY <1>3
  <2> HIDE DEF f, S
  <2> QED
    BY <2>1, <2>2 DEF Injection, IsInjective
<1>5. f \in Surjection(S, GuestFrames)
  <2>1. \A x \in GuestFrames : \E v \in S : f[v] = x
    BY <1>3
  <2>2. f \in [S -> GuestFrames]
    BY <1>3
  <2> HIDE DEF f, S
  <2> QED
    BY <2>1, <2>2 DEF Surjection
<1> HIDE DEF f, S
<1>6. Cardinality(GuestFrames) = Cardinality(S)
  BY <1>2, <1>4, <1>5, FS_Surjection
<1> QED
  BY <1>2, <1>6

(* The maps cover what the guest got. *)
LEMMA GuestCovered ==
  ASSUME BootInv, EndInv, JitInv, at = "run", pg > 0, jit.on
  PROVE  /\ jit.mem = (DawnPages + pg) * PageSize
         /\ (jit.mem - 1) \div 64 < jit.map /\ (jit.mem - 1) \div PageSize < jit.pages
<1> DEFINE n == DawnPages + pg
           b == n * PageSize
           z == Cardinality(pm.free)
<1>1. PageSize \in Nat \ {0} /\ DawnPages \in Nat /\ pg \in Nat /\ z \in Nat
  BY ConstantsAre, FreeIs DEF BootInv, PmInv, EndInv
<1>2. n \in Nat \ {0} /\ b \in Nat \ {0}
  <2>1. n \in Nat \ {0}
    <3> HIDE DEF z
    <3> QED
      BY <1>1
  <2> HIDE DEF n
  <2> QED
    BY <1>1, <2>1, Positive
<1>3. jit.map \in Nat /\ jit.pages \in Nat /\ Covered(Room(pm, pg)) /\ jit.mem = b
  BY DEF JitInv
<1>4. Room(pm, pg) \in Nat /\ n <= Room(pm, pg)
  <2>1. Room(pm, pg) = DawnPages + pg + z
    BY DEF Room
  <2> HIDE DEF z
  <2> QED
    BY <1>1, <2>1
<1>5. b <= 64 * jit.map /\ b < PageSize * jit.pages
  <2>1. Covered(n)
    <3> HIDE DEF n
    <3> QED
      BY <1>2, <1>3, <1>4, CoveredLess
  <2> QED
    BY <2>1 DEF Covered
<1> HIDE DEF b, n, z
<1>6. ASSUME NEW k \in Nat \ {0}, NEW m \in Nat, b <= k * m PROVE (b - 1) \div k < m
  <2> DEFINE d == (b - 1) \div k
  <2>1. b - 1 \in Nat
    BY <1>2
  <2>2. d \in Nat /\ k * d <= b - 1
    BY <2>1, DivIs
  <2> HIDE DEF d
  <2>3. ~(m <= d)
    <3> SUFFICES ASSUME m <= d PROVE FALSE
      OBVIOUS
    <3>1. k * m <= k * d
      BY <2>2, TimesMonotone
    <3>2. k * m \in Nat /\ k * d \in Nat
      BY <2>2
    <3> DEFINE x == k * m
               y == k * d
    <3>3. x \in Nat /\ y \in Nat /\ x <= y /\ y <= b - 1 /\ b <= x
      BY <1>6, <2>2, <3>1, <3>2
    <3> HIDE DEF x, y
    <3> QED
      BY <1>2, <3>3
  <2>4. d < m
    BY <2>2, <2>3
  <2> QED
    BY <2>4 DEF d
<1>7. (b - 1) \div 64 < jit.map
  BY <1>3, <1>5, <1>6
<1>8. (b - 1) \div PageSize < jit.pages
  <2> DEFINE x == PageSize * jit.pages
  <2>1. x \in Nat /\ b < x
    BY <1>1, <1>3, <1>5
  <2>2. b <= x
    <3> HIDE DEF x
    <3> QED
      BY <1>2, <2>1
  <2> QED
    BY <1>1, <1>3, <1>6, <2>2
<1> QED
  BY <1>3, <1>7, <1>8 DEF b, n

(* When the guest starts it has the image and then pages of its own, without *)
(* a hole and no frame twice, none of them a page table, and a translator    *)
(* that is on has that size and maps for it, for every machine: jit_init     *)
(* (jit.c) sizes them before dawn_init has shared out the memory, and the    *)
(* page tables of the guest's pages are taken from what it would have got    *)
(* (dawn.c).                                                                 *)
THEOREM GuestMemoryIsWhole == Spec => []GuestMemoryWhole
<1>1. BootInv /\ EndInv /\ MapInv /\ RoomInv /\ JitInv /\ OwnedInv => GuestMemoryWhole
  <2> SUFFICES ASSUME BootInv, EndInv, MapInv, RoomInv, JitInv, OwnedInv, at = "run", pg > 0
               PROVE  GuestMemoryWhole
    BY DEF GuestMemoryWhole
  <2>1. DawnPages \in Nat /\ pg \in Nat /\ PmInv(machine, pm) /\ PmType(pm) /\ Owned(pt, pm, pg)
    BY ConstantsAre DEF BootInv, EndInv, PmInv, OwnedInv
  <2>2. \A v \in 0 .. (DawnPages + pg - 1) :
          v \in 0 .. (DawnPages - 1) \/ v \in DawnPages .. (DawnPages + pg - 1)
    BY <2>1
  <2>3. Null \notin GuestFrames
    BY <2>2, GuestPages DEF GuestFrames
  <2>4. ASSUME NEW v \in DawnPages .. (DawnPages + pg - 1)
        PROVE  {Translate(v)} \in Range(pm.given)
    <3>1. PICK i \in 1 .. Len(pm.given) : pm.given[i] = {Translate(v)}
      BY GuestPages DEF Held
    <3>2. DOMAIN pm.given = 1 .. Len(pm.given)
      BY <2>1, LenProperties DEF PmType
    <3> QED
      BY <3>1, <3>2 DEF Range
  <2>5. ASSUME NEW v \in 0 .. (DawnPages + pg - 1), NEW key \in DOMAIN pt.tables
        PROVE  Translate(v) # pt.tables[key]
    <3>1. Held(pm, pt.tables[key])
      BY <2>1 DEF Owned
    <3>2. Ours(machine, pm, pt.tables[key])
      BY <2>1, <3>1, HeldIs
    <3>3. CASE v \in 0 .. (DawnPages - 1)
      BY <3>2, <3>3, GuestPages
    <3>4. CASE v \in DawnPages .. (DawnPages + pg - 1)
      BY <2>1, <3>4, GuestPages DEF Owned
    <3> QED
      BY <2>2, <3>3, <3>4
  <2>6. GuestFrames \cap Range(pt.tables) = {}
    BY <2>5 DEF GuestFrames, Range
  <2>7. Cardinality(GuestFrames) = DawnPages + pg
    BY GuestCount
  <2>8. jit.on => /\ jit.mem = (DawnPages + pg) * PageSize
                  /\ (jit.mem - 1) \div 64 < jit.map /\ (jit.mem - 1) \div PageSize < jit.pages
    BY GuestCovered
  <2> QED
    BY <2>3, <2>4, <2>6, <2>7, <2>8 DEF GuestMemoryWhole
<1> QED
  BY <1>1, GuestHolds, PTL

=============================================================================
