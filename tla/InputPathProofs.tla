--------------------------- MODULE InputPathProofs ---------------------------
(***************************************************************************)
(* Proofs about InputPath, for any ring and array sizes, keys, movements and *)
(* numbers of ticks.                                                         *)
(***************************************************************************)
EXTENDS InputPath, SequenceTheorems, TLAPS

-----------------------------------------------------------------------------
(* The ring *)

LEMMA ModSmall ==
  ASSUME NEW n \in Nat \ {0}, NEW i \in 0 .. n - 1
  PROVE  i % n = i
  OBVIOUS

LEMMA ModWrap ==
  ASSUME NEW n \in Nat \ {0}, NEW i \in n .. n + n - 1
  PROVE  i % n = i - n
  OBVIOUS

LEMMA RemoveAtIs ==
  ASSUME NEW S, NEW s \in Seq(S), NEW k \in 1 .. Len(s)
  PROVE  /\ RemoveAt(s, k) \in Seq(S)
         /\ Len(RemoveAt(s, k)) = Len(s) - 1
         /\ \A i \in 1 .. Len(s) - 1 :
              RemoveAt(s, k)[i] = IF i < k THEN s[i] ELSE s[i + 1]
<1> DEFINE a == SubSeq(s, 1, k - 1)
           b == SubSeq(s, k + 1, Len(s))
<1>1. Len(s) \in Nat /\ \A i \in 1 .. Len(s) : s[i] \in S
  BY LenProperties, ElementOfSeq
<1>2. /\ a \in Seq(S) /\ Len(a) = k - 1
      /\ \A i \in 1 .. k - 1 : a[i] = s[i]
  BY <1>1, SubSeqProperties
<1>3. /\ b \in Seq(S) /\ Len(b) = Len(s) - k
      /\ \A i \in 1 .. Len(s) - k : b[i] = s[k + i]
  BY <1>1, SubSeqProperties
<1> HIDE DEF a, b
<1>4. Len(a) + Len(b) = Len(s) - 1
  BY <1>1, <1>2, <1>3
<1>5. /\ a \o b \in Seq(S) /\ Len(a \o b) = Len(a) + Len(b)
      /\ \A i \in 1 .. Len(a) + Len(b) :
           (a \o b)[i] = IF i <= Len(a) THEN a[i] ELSE b[i - Len(a)]
  BY <1>2, <1>3, ConcatProperties
<1>6. RemoveAt(s, k) = a \o b
  BY DEF RemoveAt, a, b
<1>7. ASSUME NEW i \in 1 .. Len(s) - 1
      PROVE  (a \o b)[i] = IF i < k THEN s[i] ELSE s[i + 1]
  <2>1. CASE i < k
    BY <1>1, <1>2, <1>4, <1>5, <2>1
  <2>2. CASE i >= k
    <3>1. i - (k - 1) \in 1 .. Len(s) - k /\ k + (i - (k - 1)) = i + 1
      BY <1>1, <2>2
    <3>2. (a \o b)[i] = b[i - (k - 1)]
      BY <1>1, <1>2, <1>4, <1>5, <2>2
    <3> QED
      BY <1>1, <1>3, <2>2, <3>1, <3>2
  <2>3. i < k \/ i >= k
    BY <1>1
  <2> QED
    BY <2>1, <2>2, <2>3
<1> QED
  BY <1>4, <1>5, <1>6, <1>7

(* What the keyboard puts into the ring *)
Vals == Int \cup Garbage
Writes == [by : {"ring", "none"}, reg : RingRegs, val : Vals]

(* The entries of a ring r from h to before t *)
RingSeq(r, h, t) == [i \in 1 .. (t + IoMax - h) % IoMax |-> r[(h + i - 1) % IoMax]]

Slots == 0 .. IoMax - 1

(* How many entries these are, and where the one with number i is *)
Ahead(h, t) == IF h <= t THEN t - h ELSE t + IoMax - h
Place(h, i) == IF h + i <= IoMax THEN h + i - 1 ELSE h + i - 1 - IoMax

LEMMA SlotsAre == IoMax \in Nat \ {0} /\ IoMax >= 2 /\ Slots = 0 .. IoMax - 1
BY InputAssumption DEF Slots

LEMMA AheadIs ==
  ASSUME NEW h \in Slots, NEW t \in Slots
  PROVE  (t + IoMax - h) % IoMax = Ahead(h, t) /\ Ahead(h, t) \in 0 .. IoMax - 1
<1> DEFINE x == t + IoMax - h
<1>1. CASE h <= t
  <2>1. x \in IoMax .. IoMax + IoMax - 1 /\ x - IoMax = t - h
    BY SlotsAre, <1>1
  <2> HIDE DEF x
  <2>2. x % IoMax = t - h
    BY SlotsAre, <2>1, ModWrap
  <2> QED
    BY SlotsAre, <1>1, <2>2 DEF x, Ahead
<1>2. CASE h > t
  <2>1. x \in 0 .. IoMax - 1
    BY SlotsAre, <1>2
  <2> HIDE DEF x
  <2>2. x % IoMax = x
    BY SlotsAre, <2>1, ModSmall
  <2> QED
    BY SlotsAre, <1>2, <2>1, <2>2 DEF x, Ahead
<1> QED
  BY SlotsAre, <1>1, <1>2

LEMMA PlaceIs ==
  ASSUME NEW h \in Slots, NEW i \in 1 .. IoMax
  PROVE  (h + i - 1) % IoMax = Place(h, i) /\ Place(h, i) \in Slots
<1> DEFINE x == h + i - 1
<1>1. CASE h + i <= IoMax
  <2>1. x \in 0 .. IoMax - 1
    BY SlotsAre, <1>1
  <2> HIDE DEF x
  <2>2. x % IoMax = x
    BY SlotsAre, <2>1, ModSmall
  <2> QED
    BY SlotsAre, <1>1, <2>1, <2>2 DEF x, Place
<1>2. CASE h + i > IoMax
  <2>1. x \in IoMax .. IoMax + IoMax - 1
    BY SlotsAre, <1>2
  <2> HIDE DEF x
  <2>2. x % IoMax = x - IoMax
    BY SlotsAre, <2>1, ModWrap
  <2> QED
    BY SlotsAre, <1>2, <2>1, <2>2 DEF x, Place
<1> QED
  BY SlotsAre, <1>1, <1>2

LEMMA RingSeqIs ==
  ASSUME NEW r \in [Slots -> Writes], NEW h \in Slots, NEW t \in Slots
  PROVE  /\ RingSeq(r, h, t) \in Seq(Writes)
         /\ Len(RingSeq(r, h, t)) = Ahead(h, t)
         /\ \A i \in 1 .. Len(RingSeq(r, h, t)) :
              Place(h, i) \in Slots /\ RingSeq(r, h, t)[i] = r[Place(h, i)]
<1> DEFINE n == Ahead(h, t)
           q == [i \in 1 .. n |-> r[(h + i - 1) % IoMax]]
<1>1. n \in 0 .. IoMax - 1 /\ RingSeq(r, h, t) = q
  BY AheadIs DEF RingSeq
<1> HIDE DEF n
<1>2. ASSUME NEW i \in 1 .. n
      PROVE  (h + i - 1) % IoMax = Place(h, i) /\ Place(h, i) \in Slots
  <2>1. i \in 1 .. IoMax
    BY <1>1, SlotsAre
  <2> QED
    BY <2>1, PlaceIs
<1>3. n \in Nat /\ q \in [1 .. n -> Writes]
  BY <1>1, <1>2, SlotsAre
<1>4. q \in Seq(Writes) /\ Len(q) = n
  BY <1>3, SeqDef, LenProperties
<1> QED
  BY <1>1, <1>2, <1>4 DEF n

LEMMA IoNextIs ==
  ASSUME NEW i \in Slots
  PROVE  IoNext(i) = (IF i = IoMax - 1 THEN 0 ELSE i + 1) /\ IoNext(i) \in Slots
<1>1. CASE i = IoMax - 1
  <2>1. IoNext(i) = IoMax % IoMax
    BY <1>1, SlotsAre DEF IoNext
  <2>2. IoMax % IoMax = 0
    BY SlotsAre, ModWrap
  <2> QED
    BY <1>1, <2>1, <2>2, SlotsAre
<1>2. CASE i # IoMax - 1
  <2>1. i + 1 \in 0 .. IoMax - 1
    BY <1>2, SlotsAre
  <2>2. (i + 1) % IoMax = i + 1
    BY <2>1, SlotsAre, ModSmall
  <2> QED
    BY <1>2, <2>1, <2>2, SlotsAre DEF IoNext
<1> QED
  BY <1>1, <1>2

(* An entry that is shown by moving the tail comes last. *)
LEMMA RingSeqAppend ==
  ASSUME NEW r \in [Slots -> Writes], NEW h \in Slots, NEW t \in Slots, IoNext(t) # h
  PROVE  RingSeq(r, h, IoNext(t)) = Append(RingSeq(r, h, t), r[t])
<1> DEFINE a == RingSeq(r, h, t)
           k == IoNext(t)
           b == RingSeq(r, h, k)
<1>1. IoMax \in Nat /\ IoMax >= 2 /\ k \in Slots /\ k # h
      /\ k = (IF t = IoMax - 1 THEN 0 ELSE t + 1)
  BY InputAssumption, IoNextIs
<1> HIDE DEF k
<1>2. /\ a \in Seq(Writes) /\ Len(a) = Ahead(h, t)
      /\ \A i \in 1 .. Len(a) :
           a[i] = r[Place(h, i)]
  BY RingSeqIs
<1>3. /\ b \in Seq(Writes)
      /\ Len(b) = Ahead(h, k)
      /\ \A i \in 1 .. Len(b) :
           b[i] = r[Place(h, i)]
  BY SMTT(30), <1>1, RingSeqIs
<1> HIDE DEF a, b
<1>4. Len(a) \in Nat /\ Len(b) = Len(a) + 1
  BY SMTT(30), <1>1, <1>2, <1>3 DEF Slots, Ahead
<1>5. t = Place(h, Len(b))
  BY <1>1, <1>2, <1>4 DEF Slots, Ahead, Place
<1>6. b[Len(b)] = r[t]
  BY <1>3, <1>4, <1>5
<1>7. \A i \in 1 .. Len(a) : b[i] = a[i]
  BY <1>2, <1>3, <1>4
<1>8. r[t] \in Writes
  OBVIOUS
<1>9. /\ Append(a, r[t]) \in Seq(Writes) /\ Len(Append(a, r[t])) = Len(a) + 1
      /\ \A i \in 1 .. Len(a) : Append(a, r[t])[i] = a[i]
      /\ Append(a, r[t])[Len(a) + 1] = r[t]
  BY <1>2, <1>8
<1>10. \A i \in 1 .. Len(b) : b[i] = Append(a, r[t])[i]
  BY <1>4, <1>6, <1>7, <1>9
<1>11. b = Append(a, r[t])
  BY <1>3, <1>4, <1>9, <1>10, SeqEqual
<1> QED
  BY <1>11 DEF a, b, k

(* The entry at the head comes first, and goes by moving the head. *)
LEMMA RingSeqTail ==
  ASSUME NEW r \in [Slots -> Writes], NEW h \in Slots, NEW t \in Slots, h # t
  PROVE  /\ RingSeq(r, h, t) # <<>>
         /\ Head(RingSeq(r, h, t)) = r[h]
         /\ RingSeq(r, IoNext(h), t) = Tail(RingSeq(r, h, t))
<1> DEFINE a == RingSeq(r, h, t)
           k == IoNext(h)
           b == RingSeq(r, k, t)
<1>1. IoMax \in Nat /\ IoMax >= 2 /\ k \in Slots
      /\ k = (IF h = IoMax - 1 THEN 0 ELSE h + 1)
  BY InputAssumption, IoNextIs
<1> HIDE DEF k
<1>2. /\ a \in Seq(Writes) /\ Len(a) = Ahead(h, t)
      /\ \A i \in 1 .. Len(a) :
           a[i] = r[Place(h, i)]
  BY RingSeqIs
<1>3. /\ b \in Seq(Writes) /\ Len(b) = Ahead(k, t)
      /\ \A i \in 1 .. Len(b) :
           b[i] = r[Place(k, i)]
  BY ZenonT(60), <1>1, RingSeqIs
<1> HIDE DEF a, b
<1>4. Len(a) \in Nat \ {0} /\ Len(b) = Len(a) - 1
  BY SMTT(30), <1>1, <1>2, <1>3 DEF Slots, Ahead
<1>5. a # <<>> /\ a[1] = r[h]
  BY <1>1, <1>2, <1>4 DEF Slots, Ahead, Place
<1>6. ASSUME NEW i \in 1 .. Len(b) PROVE b[i] = a[i + 1]
  <2>1. i + 1 \in 1 .. Len(a)
    BY <1>4
  <2>2. Place(k, i)
          = Place(h, i + 1)
    BY <1>1, <1>2, <1>4 DEF Slots, Ahead, Place
  <2> QED
    BY <1>2, <1>3, <2>1, <2>2
<1>7. /\ Tail(a) \in Seq(Writes) /\ Len(Tail(a)) = Len(a) - 1
      /\ \A i \in 1 .. Len(a) - 1 : Tail(a)[i] = a[i + 1]
  BY <1>2, <1>5, HeadTailProperties
<1>8. b = Tail(a)
  BY <1>3, <1>4, <1>6, <1>7, SeqEqual
<1>9. Head(a) = a[1]
  BY <1>2, <1>5
<1> QED
  BY <1>5, <1>8, <1>9 DEF a, b, k

(* An entry beyond the tail is not seen. *)
LEMMA RingSeqBeyond ==
  ASSUME NEW r \in [Slots -> Writes], NEW h \in Slots, NEW t \in Slots, NEW w \in Writes
  PROVE  RingSeq([r EXCEPT ![t] = w], h, t) = RingSeq(r, h, t)
<1> DEFINE q == [r EXCEPT ![t] = w]
           a == RingSeq(r, h, t)
           b == RingSeq(q, h, t)
<1>0. IoMax \in Nat /\ IoMax >= 2
  BY InputAssumption
<1>1. q \in [Slots -> Writes] /\ \A i \in Slots : i # t => q[i] = r[i]
  OBVIOUS
<1>2. /\ a \in Seq(Writes) /\ Len(a) = Ahead(h, t)
      /\ \A i \in 1 .. Len(a) :
           /\ Place(h, i) \in Slots
           /\ a[i] = r[Place(h, i)]
  BY RingSeqIs
<1> HIDE DEF q
<1>3. /\ b \in Seq(Writes) /\ Len(b) = Ahead(h, t)
      /\ \A i \in 1 .. Len(b) :
           b[i] = q[Place(h, i)]
  BY <1>1, RingSeqIs
<1> HIDE DEF a, b
<1>4. ASSUME NEW i \in 1 .. Len(a) PROVE b[i] = a[i]
  <2> DEFINE p == Place(h, i)
  <2>1. p \in Slots /\ p # t
    BY <1>0, <1>2 DEF Slots, Ahead, Place
  <2>2. a[i] = r[p] /\ b[i] = q[p]
    BY <1>2, <1>3
  <2> HIDE DEF p
  <2> QED
    BY <1>1, <2>1, <2>2
<1>5. b = a
  BY <1>2, <1>3, <1>4, SeqEqual
<1> QED
  BY <1>5 DEF a, b, q


-----------------------------------------------------------------------------
(* What is owed, what is left to write, and the registers *)

(* WritesArriveInOrder, of any such writes o, entries t and registers g *)
FirstArrived(n, o, t, g) ==
  /\ n >= 0
  /\ \A i \in 1 .. Len(t) : o[n + i] = t[i]
  /\ \A i \in 1 .. n : o[i].val # 0 /\ g[o[i].reg] = o[i].val
  /\ \A i, j \in 1 .. n : o[i].reg = o[j].reg => i = j
  /\ \A r \in RingRegs : g[r] # 0 => \E i \in 1 .. n : o[i].reg = r

Arrived(o, t, g) == FirstArrived(Len(o) - Len(t), o, t, g)

Registers == [RingRegs -> Vals]

LEMMA WithoutAt ==
  ASSUME NEW S, NEW s \in Seq(S), NEW r, NEW k \in 1 .. Len(s), s[k].reg = r,
         \A j \in 1 .. Len(s) : j < k => s[j].reg # r
  PROVE  Without(s, r) = RemoveAt(s, k)
<1> DEFINE mine == {i \in 1 .. Len(s) : s[i].reg = r}
           m == CHOOSE i \in mine : \A j \in mine : i <= j
<1>1. Len(s) \in Nat
  BY LenProperties
<1>2. k \in mine /\ \A j \in mine : k <= j
  BY <1>1
<1>3. \A i \in mine : (\A j \in mine : i <= j) => i = k
  BY <1>1, <1>2
<1>4. m \in mine /\ \A j \in mine : m <= j
  <2> HIDE DEF mine
  <2> QED
    BY <1>2
<1>5. m = k
  BY <1>3, <1>4
<1>6. mine # {}
  BY <1>2
<1> QED
  BY <1>5, <1>6 DEF Without

LEMMA FirstSame ==
  ASSUME NEW n \in Nat, NEW o, NEW t, NEW p, NEW u, NEW g, FirstArrived(n, o, t, g),
         \A i \in 1 .. n : p[i] = o[i], \A i \in 1 .. Len(u) : p[n + i] = u[i]
  PROVE  FirstArrived(n, p, u, g)
<1>1. ASSUME NEW i \in 1 .. n PROVE p[i].val # 0 /\ g[p[i].reg] = p[i].val
  <2>1. p[i] = o[i]
    OBVIOUS
  <2>2. o[i].val # 0 /\ g[o[i].reg] = o[i].val
    BY DEF FirstArrived
  <2> QED
    BY <2>1, <2>2
<1>2. ASSUME NEW i \in 1 .. n, NEW j \in 1 .. n, p[i].reg = p[j].reg PROVE i = j
  <2>1. o[i].reg = o[j].reg
    BY <1>2
  <2> QED
    BY <2>1 DEF FirstArrived
<1>3. ASSUME NEW r \in RingRegs, g[r] # 0 PROVE \E i \in 1 .. n : p[i].reg = r
  <2>1. PICK i \in 1 .. n : o[i].reg = r
    BY <1>3 DEF FirstArrived
  <2>2. p[i] = o[i]
    OBVIOUS
  <2> QED
    BY <2>1, <2>2
<1> QED
  BY <1>1, <1>2, <1>3 DEF FirstArrived

LEMMA ArrivedAppend ==
  ASSUME NEW o \in Seq(Writes), NEW t \in Seq(Writes), NEW g \in Registers,
         NEW w \in Writes, Arrived(o, t, g)
  PROVE  Arrived(Append(o, w), Append(t, w), g)
<1> DEFINE n == Len(o) - Len(t)
           p == Append(o, w)
           u == Append(t, w)
<1>1. Len(o) \in Nat /\ Len(t) \in Nat
  BY LenProperties
<1>2. /\ Len(p) = Len(o) + 1 /\ p[Len(o) + 1] = w
      /\ \A i \in 1 .. Len(o) : p[i] = o[i]
  BY AppendProperties
<1>3. /\ Len(u) = Len(t) + 1 /\ u[Len(t) + 1] = w
      /\ \A i \in 1 .. Len(t) : u[i] = t[i]
  BY AppendProperties
<1> HIDE DEF p, u
<1>4. n \in Nat /\ Len(p) - Len(u) = n
  BY <1>1, <1>2, <1>3 DEF Arrived, FirstArrived
<1>5. ASSUME NEW i \in 1 .. Len(u) PROVE p[n + i] = u[i]
  <2>1. CASE i = Len(t) + 1
    BY <1>1, <1>2, <1>3, <2>1
  <2>2. CASE i # Len(t) + 1
    <3>1. i \in 1 .. Len(t) /\ n + i \in 1 .. Len(o)
      BY <1>1, <1>3, <1>4, <2>2
    <3>2. o[n + i] = t[i]
      BY <3>1 DEF Arrived, FirstArrived
    <3> QED
      BY <1>2, <1>3, <3>1, <3>2
  <2> QED
    BY <2>1, <2>2
<1>6. \A i \in 1 .. n : p[i] = o[i]
  BY <1>1, <1>2, <1>4
<1>7. FirstArrived(n, o, t, g)
  BY DEF Arrived
<1> HIDE DEF n
<1>8. FirstArrived(n, p, u, g)
  BY <1>4, <1>5, <1>6, <1>7, FirstSame
<1> QED
  BY <1>4, <1>8 DEF Arrived, p, u

LEMMA ArrivedWrite ==
  ASSUME NEW o \in Seq(Writes), NEW t \in Seq(Writes), NEW g \in Registers,
         NEW w \in Writes, t # <<>>, w = Head(t), w.val # 0, g[w.reg] = 0,
         Arrived(o, t, g)
  PROVE  Arrived(o, Tail(t), [g EXCEPT ![w.reg] = w.val])
<1> DEFINE n == Len(o) - Len(t)
           u == Tail(t)
           h == [g EXCEPT ![w.reg] = w.val]
<1>1. Len(o) \in Nat /\ Len(t) \in Nat \ {0} /\ t[1] = w /\ n \in Nat
  BY LenProperties, EmptySeq DEF Arrived, FirstArrived
<1>2. Len(u) = Len(t) - 1 /\ \A i \in 1 .. Len(u) : u[i] = t[i + 1]
  BY HeadTailProperties
<1>3. /\ w.reg \in RingRegs /\ h[w.reg] = w.val
      /\ \A r \in RingRegs : r # w.reg => h[r] = g[r]
  BY DEF Writes, Registers
<1> HIDE DEF u, h
<1>4. Len(o) - Len(u) = n + 1
  BY <1>1, <1>2
<1>5. o[n + 1] = w
  BY <1>1 DEF Arrived, FirstArrived
<1>6. \A i \in 1 .. Len(u) : o[(n + 1) + i] = u[i]
  <2> TAKE i \in 1 .. Len(u)
  <2>1. i + 1 \in 1 .. Len(t) /\ n + (i + 1) = (n + 1) + i
    BY <1>1, <1>2
  <2> QED
    BY <1>2, <2>1 DEF Arrived, FirstArrived
<1>7. ASSUME NEW i \in 1 .. n PROVE o[i].reg \in RingRegs /\ o[i].reg # w.reg
  <2>1. o[i] \in Writes
    BY <1>1, ElementOfSeq
  <2>2. o[i].val # 0 /\ g[o[i].reg] = o[i].val
    BY <1>1 DEF Arrived, FirstArrived
  <2> QED
    BY <2>1, <2>2 DEF Writes
<1>8. \A i \in 1 .. n + 1 : i \in 1 .. n \/ i = n + 1
  BY <1>1
<1>9. \A i \in 1 .. n + 1 : o[i].val # 0 /\ h[o[i].reg] = o[i].val
  BY <1>3, <1>5, <1>7, <1>8 DEF Arrived, FirstArrived
<1>10. \A i, j \in 1 .. n + 1 : o[i].reg = o[j].reg => i = j
  BY <1>5, <1>7, <1>8 DEF Arrived, FirstArrived
<1>11. \A r \in RingRegs : h[r] # 0 => \E i \in 1 .. n + 1 : o[i].reg = r
  <2> TAKE r \in RingRegs
  <2>1. CASE r = w.reg
    BY <1>1, <1>5, <2>1
  <2>2. CASE r # w.reg /\ h[r] # 0
    <3>1. PICK i \in 1 .. n : o[i].reg = r
      BY <1>3, <2>2 DEF Arrived, FirstArrived
    <3> QED
      BY <1>1, <3>1
  <2> QED
    BY <2>1, <2>2
<1> HIDE DEF n
<1>12. FirstArrived(n + 1, o, u, h)
  BY <1>1, <1>6, <1>9, <1>10, <1>11 DEF FirstArrived
<1> QED
  BY <1>4, <1>12 DEF Arrived, u, h

LEMMA ArrivedZero ==
  ASSUME NEW o \in Seq(Writes), NEW t \in Seq(Writes), NEW g \in Registers,
         NEW w \in Writes, t # <<>>, w = Head(t), w.val = 0, g[w.reg] = 0,
         Arrived(o, t, g)
  PROVE  Without(o, w.reg) \in Seq(Writes) /\ Arrived(Without(o, w.reg), Tail(t), g)
<1> DEFINE n == Len(o) - Len(t)
           u == Tail(t)
           k == n + 1
           p == RemoveAt(o, k)
<1>1. Len(o) \in Nat /\ Len(t) \in Nat \ {0} /\ t[1] = w /\ n \in Nat
  BY LenProperties, EmptySeq DEF Arrived, FirstArrived
<1>2. Len(u) = Len(t) - 1 /\ \A i \in 1 .. Len(u) : u[i] = t[i + 1]
  BY HeadTailProperties
<1>3. k \in 1 .. Len(o) /\ o[k] = w
  BY <1>1 DEF Arrived, FirstArrived
<1>4. \A i \in 1 .. Len(o) : i < k => o[i].reg # w.reg
  BY <1>1 DEF Arrived, FirstArrived
<1>5. Without(o, w.reg) = p
  <2> HIDE DEF p, k
  <2> QED
    BY <1>3, <1>4, WithoutAt DEF p
<1>6. /\ p \in Seq(Writes) /\ Len(p) = Len(o) - 1
      /\ \A i \in 1 .. Len(o) - 1 : p[i] = IF i < k THEN o[i] ELSE o[i + 1]
  <2> HIDE DEF k
  <2> QED
    BY <1>3, RemoveAtIs
<1> HIDE DEF p, u
<1>7. Len(p) - Len(u) = n
  BY <1>1, <1>2, <1>6
<1>8. \A i \in 1 .. Len(u) : p[n + i] = u[i]
  <2> TAKE i \in 1 .. Len(u)
  <2>1. i + 1 \in 1 .. Len(t) /\ n + (i + 1) = (n + i) + 1
        /\ n + i \in 1 .. Len(o) - 1 /\ ~(n + i < k)
    BY <1>1, <1>2
  <2>2. o[(n + i) + 1] = t[i + 1]
    BY <2>1 DEF Arrived, FirstArrived
  <2>3. p[n + i] = o[(n + i) + 1]
    BY <1>6, <2>1
  <2> QED
    BY <1>2, <2>2, <2>3
<1>9. \A i \in 1 .. n : p[i] = o[i]
  BY <1>1, <1>6
<1>10. FirstArrived(n, o, t, g)
  BY DEF Arrived
<1> HIDE DEF n
<1>11. FirstArrived(n, p, u, g)
  BY <1>1, <1>8, <1>9, <1>10, FirstSame
<1> QED
  BY <1>5, <1>6, <1>7, <1>11 DEF Arrived, p, u

LEMMA ArrivedTake ==
  ASSUME NEW o \in Seq(Writes), NEW t \in Seq(Writes), NEW g \in Registers,
         NEW r \in RingRegs, g[r] # 0, Arrived(o, t, g)
  PROVE  /\ Without(o, r) \in Seq(Writes)
         /\ Arrived(Without(o, r), t, [g EXCEPT ![r] = 0])
<1> DEFINE n == Len(o) - Len(t)
           h == [g EXCEPT ![r] = 0]
<1>1. Len(o) \in Nat /\ Len(t) \in Nat /\ n \in Nat
  BY LenProperties DEF Arrived, FirstArrived
<1>2. PICK k \in 1 .. n : o[k].reg = r
  BY DEF Arrived, FirstArrived
<1> DEFINE p == RemoveAt(o, k)
<1>3. k \in 1 .. Len(o)
  BY <1>1
<1>4. \A i \in 1 .. n : i # k => o[i].reg # r
  BY <1>2 DEF Arrived, FirstArrived
<1>5. \A i \in 1 .. Len(o) : i < k => o[i].reg # r
  BY <1>1, <1>4
<1>6. Without(o, r) = p
  <2> HIDE DEF p
  <2> QED
    BY <1>2, <1>3, <1>5, WithoutAt DEF p
<1>7. /\ p \in Seq(Writes) /\ Len(p) = Len(o) - 1
      /\ \A i \in 1 .. Len(o) - 1 : p[i] = IF i < k THEN o[i] ELSE o[i + 1]
  BY <1>3, RemoveAtIs
<1>8. h[r] = 0 /\ \A q \in RingRegs : q # r => h[q] = g[q]
  BY DEF Registers
<1> HIDE DEF p, h
<1>9. Len(p) - Len(t) = n - 1
  BY <1>1, <1>7
<1>10. \A i \in 1 .. Len(t) : p[(n - 1) + i] = t[i]
  <2> TAKE i \in 1 .. Len(t)
  <2>1. (n - 1) + i \in 1 .. Len(o) - 1 /\ ~((n - 1) + i < k) /\ ((n - 1) + i) + 1 = n + i
    BY <1>1, <1>2
  <2>2. p[(n - 1) + i] = o[n + i]
    BY <1>7, <2>1
  <2> QED
    BY <2>2 DEF Arrived, FirstArrived
(* where the write with number i was before *)
<1> DEFINE was(i) == IF i < k THEN i ELSE i + 1
<1>11. /\ \A i \in 1 .. n - 1 : was(i) \in 1 .. n /\ was(i) # k /\ p[i] = o[was(i)]
       /\ \A i, j \in 1 .. n - 1 : was(i) = was(j) => i = j
       /\ \A i \in 1 .. n : i # k => \E j \in 1 .. n - 1 : was(j) = i
  <2>1. ASSUME NEW i \in 1 .. n - 1 PROVE was(i) \in 1 .. n /\ was(i) # k /\ p[i] = o[was(i)]
    <3>1. i \in 1 .. Len(o) - 1
      BY <1>1
    <3>2. was(i) \in 1 .. n /\ was(i) # k
      BY <1>1
    <3>3. p[i] = o[was(i)]
      BY <1>7, <3>1
    <3> QED
      BY <3>2, <3>3
  <2>2. ASSUME NEW i \in 1 .. n - 1, NEW j \in 1 .. n - 1, was(i) = was(j) PROVE i = j
    BY <1>1, <2>2
  <2>3. ASSUME NEW i \in 1 .. n, i # k PROVE \E j \in 1 .. n - 1 : was(j) = i
    <3>1. CASE i < k
      BY <1>1, <3>1
    <3>2. CASE i > k
      <4>1. i - 1 \in 1 .. n - 1 /\ was(i - 1) = i
        BY <1>1, <3>2
      <4> QED
        BY <4>1
    <3> QED
      BY <1>1, <2>3, <3>1, <3>2
  <2> QED
    BY <2>1, <2>2, <2>3
<1> HIDE DEF was
<1>12. \A i \in 1 .. n : o[i] \in Writes /\ o[i].reg \in RingRegs
  <2> TAKE i \in 1 .. n
  <2>1. o[i] \in Writes
    BY <1>1, ElementOfSeq
  <2> QED
    BY <2>1 DEF Writes
<1>13. \A i \in 1 .. n - 1 : p[i].val # 0 /\ h[p[i].reg] = p[i].val
  <2> TAKE i \in 1 .. n - 1
  <2>1. was(i) \in 1 .. n /\ p[i] = o[was(i)] /\ o[was(i)].reg # r
    BY <1>4, <1>11
  <2>2. o[was(i)].val # 0 /\ g[o[was(i)].reg] = o[was(i)].val
    BY <2>1 DEF Arrived, FirstArrived
  <2> QED
    BY <1>8, <1>12, <2>1, <2>2
<1>14. \A i, j \in 1 .. n - 1 : p[i].reg = p[j].reg => i = j
  <2> TAKE i, j \in 1 .. n - 1
  <2> HAVE p[i].reg = p[j].reg
  <2>1. /\ was(i) \in 1 .. n /\ p[i] = o[was(i)]
        /\ was(j) \in 1 .. n /\ p[j] = o[was(j)]
    BY <1>11
  <2>2. o[was(i)].reg = o[was(j)].reg
    BY <2>1
  <2>3. \A a, b \in 1 .. n : o[a].reg = o[b].reg => a = b
    BY DEF Arrived, FirstArrived
  <2>4. was(i) = was(j)
    BY <2>1, <2>2, <2>3
  <2> QED
    BY <1>11, <2>4
<1>15. \A q \in RingRegs : h[q] # 0 => \E i \in 1 .. n - 1 : p[i].reg = q
  <2> TAKE q \in RingRegs
  <2> HAVE h[q] # 0
  <2>1. q # r /\ g[q] # 0
    BY <1>8
  <2>2. PICK i \in 1 .. n : o[i].reg = q
    BY <2>1 DEF Arrived, FirstArrived
  <2>3. PICK j \in 1 .. n - 1 : was(j) = i
    BY <1>2, <1>11, <2>1, <2>2
  <2> QED
    BY <1>11, <2>2, <2>3
<1>16. n - 1 >= 0
  BY <1>1, <1>2
<1> HIDE DEF n
<1>17. FirstArrived(n - 1, p, t, h)
  BY <1>10, <1>13, <1>14, <1>15, <1>16 DEF FirstArrived
<1> QED
  BY <1>6, <1>7, <1>9, <1>17 DEF Arrived, h

-----------------------------------------------------------------------------
(* The ring, filled by CPU 0 and emptied by the last CPU *)

RingTyped ==
  /\ ring \in [Slots -> Writes] /\ head \in Slots /\ tail \in Slots
  /\ out \in Writes
  /\ reg \in Registers
  /\ owed \in Seq(Writes)

(* What holds between two steps of the same handler: the tail has a place to *)
(* go to, the entry behind it is the one sent, and there is one to take.     *)
BetweenSteps ==
  /\ at0 \in {"slot", "tail"} => IoNext(tail) # head
  /\ at0 = "tail" => ring[tail] = out
  /\ work = "advance" => head # tail

RingInv == RingTyped /\ BetweenSteps /\ Arrived(owed, ToWrite, reg)

LEMMA NothingIsAWrite == Nothing \in Writes /\ 0 \in Vals
BY DEF Nothing, Sent, Writes, Vals, RingRegs

LEMMA CodesAreVals ==
  ASSUME NEW k, NEW b, NEW g \in Garbage
  PROVE  CodeOf(k, Ascii(k, b, g)) \in Vals
<1>1. Ascii(k, b, g) \in Vals
  BY DEF Ascii, Letters, Fixed, Vals
<1> QED
  BY <1>1 DEF CodeOf, Vals

LEMMA SentIsAWrite ==
  ASSUME NEW k, NEW b, NEW g \in Garbage, SentBy(k, b, g).by = "ring"
  PROVE  SentBy(k, b, g) \in Writes
<1>1. \A v \in Vals : Key(v) \in Writes
  BY DEF Key, Sent, Writes, RingRegs
<1>2. ExtraKey(k, b) \in Writes
  BY <1>1, NothingIsAWrite DEF ExtraKey, Vals
<1>3. \/ KeypadKey(b) \in Writes
      \/ KeypadKey(b).by = "direct"
  <2>1. \A v \in Int : Sent("ring", "relx", v) \in Writes /\ Sent("ring", "rely", v) \in Writes
    BY DEF Sent, Writes, RingRegs, RelRegs, Vals
  <2>2. \A r, v : Sent("direct", r, v).by = "direct"
    BY DEF Sent
  <2> QED
    BY <2>1, <2>2 DEF KeypadKey
<1>4. Key(CodeOf(k, Ascii(k, b, g))) \in Writes
  BY <1>1, CodesAreVals
<1> QED
  BY <1>2, <1>3, <1>4, NothingIsAWrite DEF SentBy

LEMMA RingedIs == Ringed = RingSeq(ring, head, tail)
BY DEF Ringed, RingSeq

LEMMA ToWriteIs ==
  ASSUME RingTyped, BetweenSteps
  PROVE  ToWrite \in Seq(Writes)
<1>1. Ringed \in Seq(Writes)
  BY RingedIs, RingSeqIs DEF RingTyped
<1>2. work = "advance" => Ringed # <<>>
  BY RingedIs, RingSeqTail DEF RingTyped, BetweenSteps
<1>3. work = "advance" => Tail(Ringed) \in Seq(Writes)
  BY <1>1, <1>2, HeadTailProperties
<1> QED
  BY <1>1, <1>3 DEF ToWrite

LEMMA RingInit == Init => RingInv
<1> SUFFICES ASSUME Init PROVE RingInv
  OBVIOUS
<1>1. /\ ring \in [Slots -> Writes] /\ head = 0 /\ tail = 0 /\ 0 \in Slots
      /\ out \in Writes /\ owed = <<>> /\ at0 = "idle" /\ work = "idle"
  BY NothingIsAWrite, SlotsAre DEF Init, Slots
<1>2. reg \in Registers /\ \A r \in RingRegs : reg[r] = 0
  BY NothingIsAWrite DEF Init, Registers
<1>3. RingTyped /\ BetweenSteps
  BY <1>1, <1>2, EmptySeq DEF RingTyped, BetweenSteps
<1>4. ToWrite \in Seq(Writes) /\ Len(ToWrite) = 0
  BY <1>1, <1>3, SlotsAre, ToWriteIs, RingedIs, RingSeqIs DEF RingTyped, ToWrite, Ahead
<1>5. Arrived(owed, ToWrite, reg)
  BY <1>1, <1>2, <1>4 DEF Arrived, FirstArrived
<1> QED
  BY <1>3, <1>5 DEF RingInv

(* Every step but those of the ring *)
LEMMA RingOthers ==
  ASSUME RingInv, UNCHANGED <<ring, head, tail, out, reg, owed>>,
         at0' \in {"slot", "tail"} => at0' = at0, work' = "advance" <=> work = "advance"
  PROVE  RingInv'
<1>1. RingTyped' /\ BetweenSteps'
  BY DEF RingInv, RingTyped, BetweenSteps, IoNext
<1>2. Ringed' = Ringed
  BY DEF Ringed
<1>3. ToWrite' = ToWrite
  BY <1>2 DEF ToWrite
<1> QED
  BY <1>1, <1>3 DEF RingInv, Arrived, FirstArrived

LEMMA RingKey ==
  ASSUME RingInv, NEW b \in KeyBytes, KeyInterrupt(b)
  PROVE  RingInv'
<1>1. UNCHANGED <<ring, head, tail, reg, owed, work>>
  BY DEF KeyInterrupt, ghosts
<1>2. CASE UNCHANGED <<at0, out>>
  BY <1>1, <1>2, RingOthers
<1>3. CASE ~IoFull /\ at0' = "slot" /\ out' \in Writes
  <2>1. RingTyped' /\ BetweenSteps'
    BY <1>1, <1>3 DEF RingInv, RingTyped, BetweenSteps, IoFull, IoNext
  <2>2. ToWrite' = ToWrite
    BY <1>1 DEF ToWrite, Ringed
  <2> QED
    BY <1>1, <2>1, <2>2 DEF RingInv, Arrived, FirstArrived
<1> QED
  BY <1>2, <1>3, SentIsAWrite DEF KeyInterrupt

LEMMA RingSlot ==
  ASSUME RingInv, IoSlot
  PROVE  RingInv'
<1>1. /\ at0 = "slot" /\ at0' = "tail" /\ ring' = [ring EXCEPT ![tail] = out]
      /\ UNCHANGED <<head, tail, out, reg, owed, work>>
  BY DEF IoSlot, Cpu0At, ghosts
<1>2. RingTyped' /\ BetweenSteps'
  BY <1>1 DEF RingInv, RingTyped, BetweenSteps, IoNext
<1>3. Ringed' = Ringed
  BY <1>1, RingSeqBeyond DEF RingInv, RingTyped, Ringed, RingSeq
<1>4. ToWrite' = ToWrite
  BY <1>1, <1>3 DEF ToWrite
<1> QED
  BY <1>1, <1>2, <1>4 DEF RingInv, Arrived, FirstArrived

LEMMA RingTail ==
  ASSUME RingInv, IoTail
  PROVE  RingInv'
<1>1. /\ at0 = "tail" /\ at0' = "idle" /\ tail' = IoNext(tail) /\ owed' = Append(owed, out)
      /\ out' = Nothing /\ UNCHANGED <<ring, head, reg, work>>
  BY DEF IoTail, Cpu0At
<1>2. IoNext(tail) \in Slots /\ IoNext(tail) # head /\ ring[tail] = out
  BY <1>1, IoNextIs DEF RingInv, RingTyped, BetweenSteps
<1>3. RingTyped' /\ BetweenSteps'
  BY <1>1, <1>2, NothingIsAWrite, AppendProperties DEF RingInv, RingTyped, BetweenSteps
<1>4. Ringed \in Seq(Writes) /\ (work = "advance" => Ringed # <<>>)
  BY RingedIs, RingSeqIs, RingSeqTail DEF RingInv, RingTyped, BetweenSteps
<1>5. Ringed' = Append(Ringed, out)
  <2>1. Ringed' = RingSeq(ring, head, IoNext(tail))
    BY <1>1 DEF Ringed, RingSeq
  <2>2. RingSeq(ring, head, IoNext(tail)) = Append(RingSeq(ring, head, tail), out)
    BY <1>2, RingSeqAppend DEF RingInv, RingTyped
  <2> QED
    BY <2>1, <2>2, RingedIs
<1>6. ToWrite' = Append(ToWrite, out)
  BY <1>1, <1>4, <1>5, HeadTailAppend DEF ToWrite
<1>7. Arrived(Append(owed, out), Append(ToWrite, out), reg)
  BY ToWriteIs, ArrivedAppend DEF RingInv, RingTyped
<1>8. Arrived(owed, ToWrite, reg)'
  BY <1>1, <1>6, <1>7 DEF Arrived, FirstArrived
<1> QED
  BY <1>3, <1>8 DEF RingInv

LEMMA RingFlushWrite ==
  ASSUME RingInv, FlushWrite
  PROVE  RingInv'
<1> DEFINE w == ring[head]
<1>1. /\ work = "flush" /\ work' = "advance" /\ head # tail /\ reg[w.reg] = 0
      /\ reg' = [reg EXCEPT ![w.reg] = w.val]
      /\ owed' = (IF w.val = 0 THEN Without(owed, w.reg) ELSE owed)
      /\ UNCHANGED <<ring, head, tail, out, at0>>
  BY DEF FlushWrite, Working, Empty, keyv
<1>2. /\ w \in Writes /\ w.reg \in RingRegs /\ w.val \in Vals
      /\ owed \in Seq(Writes) /\ reg \in Registers
  BY DEF RingInv, RingTyped, Writes
<1>3. ToWrite = Ringed /\ ToWrite \in Seq(Writes) /\ ToWrite # <<>> /\ Head(ToWrite) = w
  BY <1>1, ToWriteIs, RingedIs, RingSeqTail DEF RingInv, RingTyped, ToWrite
<1>4. ToWrite' = Tail(ToWrite)
  BY <1>1, <1>3 DEF ToWrite, Ringed
<1> HIDE DEF w
<1>5. reg' \in Registers
  BY <1>1, <1>2 DEF Registers
<1>6. owed' \in Seq(Writes) /\ Arrived(owed', Tail(ToWrite), reg')
  <2>1. CASE w.val = 0
    <3>1. reg' = reg
      BY <1>1, <1>2, <2>1 DEF Registers
    <3> QED
      BY <1>1, <1>2, <1>3, <2>1, <3>1, ArrivedZero DEF RingInv
  <2>2. CASE w.val # 0
    BY <1>1, <1>2, <1>3, <2>2, ArrivedWrite DEF RingInv
  <2> QED
    BY <2>1, <2>2
<1>7. RingTyped' /\ BetweenSteps'
  BY <1>1, <1>5, <1>6 DEF RingInv, RingTyped, BetweenSteps, IoNext
<1>8. Arrived(owed, ToWrite, reg)'
  BY <1>4, <1>6 DEF Arrived, FirstArrived
<1> QED
  BY <1>7, <1>8 DEF RingInv

LEMMA RingFlushAdvance ==
  ASSUME RingInv, FlushAdvance
  PROVE  RingInv'
<1>1. /\ work = "advance" /\ work' = "flush" /\ head' = IoNext(head) /\ head # tail
      /\ UNCHANGED <<ring, tail, out, at0, reg, owed>>
  BY DEF FlushAdvance, Working, keyv, ghosts, RingInv, BetweenSteps
<1>2. IoNext(head) \in Slots
  BY IoNextIs DEF RingInv, RingTyped
<1>3. IoNext(tail) # IoNext(head)
  <2>1. head \in Slots /\ tail \in Slots
    BY DEF RingInv, RingTyped
  <2>2. /\ IoNext(head) = (IF head = IoMax - 1 THEN 0 ELSE head + 1)
        /\ IoNext(tail) = (IF tail = IoMax - 1 THEN 0 ELSE tail + 1)
    BY <2>1, IoNextIs
  <2> HIDE DEF IoNext
  <2> QED
    BY <1>1, <2>1, <2>2, SlotsAre
<1>4. RingTyped' /\ BetweenSteps'
  BY <1>1, <1>2, <1>3 DEF RingInv, RingTyped, BetweenSteps, IoNext
<1>5. Ringed' = Tail(Ringed)
  <2>1. Ringed' = RingSeq(ring, IoNext(head), tail)
    BY <1>1 DEF Ringed, RingSeq
  <2>2. RingSeq(ring, IoNext(head), tail) = Tail(RingSeq(ring, head, tail))
    BY <1>1, RingSeqTail DEF RingInv, RingTyped
  <2> QED
    BY <2>1, <2>2, RingedIs
<1>6. ToWrite' = ToWrite
  BY <1>1, <1>5 DEF ToWrite
<1> QED
  BY <1>1, <1>4, <1>6 DEF RingInv, Arrived, FirstArrived

LEMMA RingTake ==
  ASSUME RingInv, NEW r \in RingRegs, GuestTake(r)
  PROVE  RingInv'
<1>1. /\ reg[r] # 0 /\ reg' = [reg EXCEPT ![r] = 0] /\ owed' = Without(owed, r)
      /\ UNCHANGED <<ring, head, tail, out, at0, work>>
  BY DEF GuestTake, keyv
<1>2. ToWrite' = ToWrite /\ ToWrite \in Seq(Writes)
  BY <1>1, ToWriteIs DEF RingInv, ToWrite, Ringed
<1>3. owed' \in Seq(Writes) /\ Arrived(owed', ToWrite, reg')
  BY <1>1, <1>2, ArrivedTake DEF RingInv, RingTyped
<1>4. reg' \in Registers
  BY <1>1, NothingIsAWrite DEF RingInv, RingTyped, Registers
<1>5. RingTyped' /\ BetweenSteps'
  BY <1>1, <1>3, <1>4 DEF RingInv, RingTyped, BetweenSteps, IoNext
<1>6. Arrived(owed, ToWrite, reg)'
  BY <1>2, <1>3 DEF Arrived, FirstArrived
<1> QED
  BY <1>5, <1>6 DEF RingInv

LEMMA RingNext == RingInv /\ [Next]_vars => RingInv'
<1> SUFFICES ASSUME RingInv, [Next]_vars PROVE RingInv'
  OBVIOUS
<1>1. CASE Isr
  <2>1. CASE MouseClassify
    BY <2>1, RingOthers DEF MouseClassify, ghosts
  <2>2. CASE MousePut
    BY <2>2, RingOthers DEF MousePut, ghosts
  <2> QED
    BY <1>1, <2>1, <2>2, RingSlot, RingTail DEF Isr
<1>2. CASE Devices
  <2>1. ASSUME NEW b, NEW bad, MouseFlags(b, bad) PROVE RingInv'
    BY <2>1, RingOthers DEF MouseFlags, keyv, ghosts
  <2>2. ASSUME NEW x, MouseX(x) PROVE RingInv'
    BY <2>2, RingOthers DEF MouseX, keyv, ghosts
  <2>3. ASSUME NEW y, MouseY(y) PROVE RingInv'
    BY <2>3, RingOthers DEF MouseY
  <2> QED
    BY <1>2, <2>1, <2>2, <2>3, RingKey DEF Devices
<1>3. CASE Tick
  BY <1>3, RingOthers DEF Tick, Cpu0Free, keyv, ghosts
<1>4. CASE TakeIpi
  BY <1>4, RingOthers DEF TakeIpi, keyv, ghosts
<1>5. CASE Work
  <2>1. CASE FlushDone
    BY <2>1, RingOthers DEF FlushDone, Working, keyv, ghosts
  <2>2. CASE UpdateTest
    BY <2>2, RingOthers DEF UpdateTest, Working, keyv, ghosts
  <2>3. CASE UpdatePop
    BY <2>3, RingOthers DEF UpdatePop, Working, keyv, ghosts
  <2>4. CASE UpdateLoad
    BY <2>4, RingOthers DEF UpdateLoad, Working, keyv, ghosts
  <2>5. CASE UpdateStore
    BY <2>5, RingOthers DEF UpdateStore, Working, keyv, ghosts
  <2>6. CASE UpdateWrite
    BY <2>6, RingOthers DEF UpdateWrite, Working, keyv, ghosts
  <2> QED
    BY <1>5, <2>1, <2>2, <2>3, <2>4, <2>5, <2>6, RingFlushWrite, RingFlushAdvance DEF Work
<1>6. CASE Guest
  <2>1. CASE GuestMouse
    BY <2>1, RingOthers DEF GuestMouse, keyv
  <2> QED
    BY <1>6, <2>1, RingTake DEF Guest
<1>7. CASE UNCHANGED vars
  BY <1>7, RingOthers DEF vars, keyv, ghosts
<1> QED
  BY <1>1, <1>2, <1>3, <1>4, <1>5, <1>6, <1>7 DEF Next

(* However the steps of CPU 0, of the last CPU and of the guest fall, the    *)
(* ring of deferred writes loses, repeats and reorders nothing.              *)
THEOREM RingKeepsOrder == Spec => []WritesArriveInOrder
<1>1. RingInv => WritesArriveInOrder
  BY DEF RingInv, Arrived, FirstArrived, WritesArriveInOrder
<1> QED
  BY <1>1, RingInit, RingNext, PTL DEF Spec

-----------------------------------------------------------------------------
(* The bounds of the packets *)

BoundsInv == PacketsInBounds /\ popped \in 0 .. MaxPackets

LEMMA BoundsInit == Init => BoundsInv
BY InputAssumption DEF Init, BoundsInv, PacketsInBounds

LEMMA BoundsOthers ==
  ASSUME BoundsInv, UNCHANGED <<packet_i, slot, popped>>,
         work' \in {"pop", "load", "store"} => work' = work
  PROVE  BoundsInv'
BY DEF BoundsInv, PacketsInBounds

LEMMA BoundsNext == BoundsInv /\ [Next]_vars => BoundsInv'
<1> SUFFICES ASSUME BoundsInv, [Next]_vars PROVE BoundsInv'
  OBVIOUS
<1>0. MaxPackets \in Nat \ {0}
  BY InputAssumption
<1>1. CASE Isr
  <2>1. CASE IoSlot
    BY <2>1, BoundsOthers DEF IoSlot, mousev
  <2>2. CASE IoTail
    BY <2>2, BoundsOthers DEF IoTail, mousev
  <2>3. CASE MouseClassify
    <3>1. slot' = slot \/ (slot' = packet_i /\ packet_i # MaxPackets)
      BY <2>3 DEF MouseClassify, PacketsFull
    <3>2. UNCHANGED <<packet_i, work, popped>>
      BY <2>3 DEF MouseClassify
    <3> QED
      BY <1>0, <3>1, <3>2 DEF BoundsInv, PacketsInBounds
  <2>4. CASE MousePut
    <3>1. packet_i' = slot + 1 /\ slot' = 0 /\ UNCHANGED <<work, popped>>
      BY <2>4 DEF MousePut
    <3> QED
      BY <1>0, <3>1 DEF BoundsInv, PacketsInBounds
  <2> QED
    BY <1>1, <2>1, <2>2, <2>3, <2>4 DEF Isr
<1>2. CASE Devices
  <2>1. ASSUME NEW b, KeyInterrupt(b) PROVE BoundsInv'
    BY <2>1, BoundsOthers DEF KeyInterrupt, mousev
  <2>2. ASSUME NEW b, NEW bad, MouseFlags(b, bad) PROVE BoundsInv'
    BY <2>2, BoundsOthers DEF MouseFlags
  <2>3. ASSUME NEW x, MouseX(x) PROVE BoundsInv'
    BY <2>3, BoundsOthers DEF MouseX
  <2>4. ASSUME NEW y, MouseY(y) PROVE BoundsInv'
    BY <2>4, BoundsOthers DEF MouseY
  <2> QED
    BY <1>2, <2>1, <2>2, <2>3, <2>4 DEF Devices
<1>3. CASE Tick
  BY <1>3, BoundsOthers DEF Tick, mousev
<1>4. CASE TakeIpi
  BY <1>4, BoundsOthers DEF TakeIpi, mousev
<1>5. CASE Work
  <2>1. CASE FlushWrite
    BY <2>1, BoundsOthers DEF FlushWrite, mousev
  <2>2. CASE FlushAdvance
    BY <2>2, BoundsOthers DEF FlushAdvance, mousev
  <2>3. CASE FlushDone
    BY <2>3, BoundsOthers DEF FlushDone, mousev
  <2>4. CASE UpdateTest
    BY <2>4 DEF UpdateTest, mousev, BoundsInv, PacketsInBounds
  <2>5. CASE UpdatePop
    BY <2>5 DEF UpdatePop, Working, mousev, BoundsInv, PacketsInBounds
  <2>6. CASE UpdateLoad
    BY <2>6 DEF UpdateLoad, Working, mousev, BoundsInv, PacketsInBounds
  <2>7. CASE UpdateStore
    BY <1>0, <2>7 DEF UpdateStore, Working, mousev, BoundsInv, PacketsInBounds
  <2>8. CASE UpdateWrite
    BY <2>8, BoundsOthers DEF UpdateWrite, mousev
  <2> QED
    BY <1>5, <2>1, <2>2, <2>3, <2>4, <2>5, <2>6, <2>7, <2>8 DEF Work
<1>6. CASE Guest
  <2>1. ASSUME NEW r, GuestTake(r) PROVE BoundsInv'
    BY <2>1, BoundsOthers DEF GuestTake, mousev
  <2>2. CASE GuestMouse
    BY <2>2, BoundsOthers DEF GuestMouse, mousev
  <2> QED
    BY <1>6, <2>1, <2>2 DEF Guest
<1>7. CASE UNCHANGED vars
  BY <1>7, BoundsOthers DEF vars, mousev
<1> QED
  BY <1>1, <1>2, <1>3, <1>4, <1>5, <1>6, <1>7 DEF Next

(* packet_i, which two CPUs change without a lock, stays within the array,   *)
(* as do the places they keep of it between two steps.                       *)
THEOREM PacketsStayInArray == Spec => []PacketsInBounds
<1>1. BoundsInv => PacketsInBounds
  BY DEF BoundsInv
<1> QED
  BY <1>1, BoundsInit, BoundsNext, PTL DEF Spec

-----------------------------------------------------------------------------
(* The clicks, on one CPU *)

Presses == SUBSET ClickRegs
Corner == <<0, 0>>

(* 1 if the registers show a change the guest has not read *)
Shown == IF regs.unread /\ regs.buttons # seen THEN 1 ELSE 0

(* 1 if the packet made changes the buttons and has no place yet *)
Pending ==
  IF at0 = "put" \/ (at0 = "classify" /\ dp.buttons # LastButtons) THEN 1 ELSE 0

(* 1 if the registers will show a change once they are written *)
ToShow == IF dawn.buttons # seen THEN 1 ELSE 0

MouseTyped ==
  /\ clicks \in Seq(Presses) /\ seen \in Presses /\ last \in Presses
  /\ cur \in [buttons : Presses, x : {0} \cup {m[1] : m \in Moves}]
  /\ dp.buttons \in Presses /\ dawn.buttons \in Presses /\ regs.buttons \in Presses
  /\ DOMAIN packets = 0 .. MaxPackets - 1
  /\ \A i \in 0 .. MaxPackets - 1 : packets[i].buttons \in Presses

(* Interrupts are not nested. *)
OneAtATime == (at0 = "idle" \/ work = "idle") /\ ~ipi

(* Each change differs from the one before, the first from what the guest    *)
(* read, and the last packet had the last one.                               *)
Chain ==
  /\ clicks # <<>> => clicks[1] # seen
  /\ \A i \in 1 .. Len(clicks) - 1 : clicks[i] # clicks[i + 1]
  /\ last = IF clicks = <<>> THEN seen ELSE clicks[Len(clicks)]
  /\ Shown = 1 => clicks # <<>> /\ clicks[1] = regs.buttons

(* The packets hold the changes but for the first a and the last z. *)
Held(a, z) ==
  /\ Len(clicks) = a + packet_i + z
  /\ \A i \in 1 .. packet_i : clicks[a + i] = packets[i - 1].buttons

Waiting ==
  work \notin {"load", "store", "write"} =>
    /\ Held(Shown, Pending)
    /\ packet_i = 0 => dawn.buttons = IF Shown = 1 THEN regs.buttons ELSE seen
    /\ at0 \in {"classify", "put"} => last = dp.buttons
    /\ at0 = "put" => slot = packet_i

Popping ==
  work \in {"load", "store"} =>
    /\ Len(clicks) = packet_i /\ clicks[1] = dawn.buttons
    /\ \A i \in 1 .. packet_i - 1 : clicks[i + 1] = packets[i - 1].buttons
    /\ work = "store" => popped = packet_i

Writing ==
  work = "write" => Held(ToShow, 0) /\ (ToShow = 1 => clicks[1] = dawn.buttons)

(* The registers are clear when they are about to be written. *)
Cleared == work \in {"pop", "load", "store", "write"} => ~regs.unread

OutOfCorner ==
  /\ dp.pos # Corner /\ dawn.pos # Corner
  /\ \A i \in 0 .. packet_i - 1 : packets[i].pos # Corner
  /\ regs.unread => regs.pos # Corner

ClickState ==
  /\ MouseTyped /\ OneAtATime /\ Chain /\ Waiting /\ Popping /\ Writing /\ Cleared
  /\ OutOfCorner

ClickInv == cpu_count = 1 => ClickState

NotInCorner == pos # Corner

LEMMA ClickInit == Init /\ NotInCorner => ClickInv
<1> SUFFICES ASSUME Init, NotInCorner PROVE ClickState
  BY DEF ClickInv
<1>1. /\ at0 = "idle" /\ work = "idle" /\ ~ipi /\ packet_i = 0
      /\ clicks = <<>> /\ Len(clicks) = 0 /\ last = {} /\ seen = {}
      /\ dawn.buttons = {} /\ dp.buttons = {} /\ regs.buttons = {} /\ ~regs.unread
      /\ dawn.pos = pos /\ dp.pos = pos
  BY DEF Init
<1>2. MouseTyped
  BY <1>1, EmptySeq DEF MouseTyped, Init, Presses
<1>3. Shown = 0 /\ Pending = 0
  BY <1>1 DEF Shown, Pending
<1>4. Held(0, 0)
  BY <1>1 DEF Held
<1> QED
  BY <1>1, <1>2, <1>3, <1>4
     DEF ClickState, OneAtATime, Chain, Waiting, Popping, Writing, Cleared,
         OutOfCorner, NotInCorner

(* A step that leaves the mouse alone *)
LEMMA ClickOthers ==
  ASSUME ClickState,
         UNCHANGED <<clicks, seen, last, cur, dp, slot, dawn, regs, packets, packet_i,
                     popped>>,
         at0' = at0 \/ (at0 \notin {"classify", "put"} /\ at0' \notin {"classify", "put"}),
         \/ work' = work
         \/ /\ work \notin {"pop", "load", "store", "write"}
            /\ work' \notin {"pop", "load", "store", "write"},
         OneAtATime'
  PROVE  ClickState'
<1>1. MouseTyped' /\ OutOfCorner'
  BY DEF ClickState, MouseTyped, OutOfCorner
<1>2. Shown' = Shown /\ ToShow' = ToShow /\ LastButtons' = LastButtons
  BY DEF Shown, ToShow, LastButtons
<1>3. Chain'
  BY <1>2 DEF ClickState, Chain
<1>4. Pending' = Pending
  BY <1>2 DEF Pending
<1>5. \A a, z : Held(a, z)' <=> Held(a, z)
  BY DEF Held
<1>6. Held(Shown, Pending)' <=> Held(Shown, Pending)
  BY <1>2, <1>4 DEF Held
<1>7. Held(ToShow, 0)' <=> Held(ToShow, 0)
  BY <1>2 DEF Held
<1>8. Waiting'
  BY <1>2, <1>6 DEF ClickState, Waiting
<1>9. Popping'
  BY DEF ClickState, Popping
<1>10. Writing'
  BY <1>2, <1>7 DEF ClickState, Writing
<1>11. Cleared'
  BY DEF ClickState, Cleared
<1> QED
  BY <1>1, <1>3, <1>8, <1>9, <1>10, <1>11 DEF ClickState

(* No key of the keypad is a button *)
KeypadButtons == {\h47, \hC7, \h49, \hC9, \h4C, \hCC}

LEMMA SentToRing ==
  ASSUME NEW k, NEW b, b \notin KeypadButtons, NEW g
  PROVE  SentBy(k, b, g).by # "direct"
<1>1. \A v : Key(v).by = "ring"
  BY DEF Key, Sent
<1>2. Nothing.by = "none"
  BY DEF Nothing, Sent
<1>3. ExtraKey(k, b).by # "direct"
  BY <1>1, <1>2 DEF ExtraKey
<1>4. b \in KeypadBytes => KeypadKey(b).by # "direct"
  BY DEF KeypadBytes, KeypadButtons, KeypadKey, Sent
<1> QED
  BY <1>1, <1>2, <1>3, <1>4 DEF SentBy

LEMMA ClickKey ==
  ASSUME KeyBytes \cap KeypadButtons = {}, cpu_count = 1, ClickState,
         NEW b \in KeyBytes, KeyInterrupt(b)
  PROVE  ClickState'
<1>1. /\ at0 = "idle" /\ work = "idle" /\ work' = work /\ ipi' = ipi
      /\ UNCHANGED <<clicks, seen, last, cur, dp, slot, dawn, packets, packet_i, popped>>
  BY DEF KeyInterrupt, Cpu0Free, LastAP, mousev, ghosts
<1>2. regs' = regs /\ at0' \in {"idle", "slot"}
  <2>1. PICK g \in Garbage :
          \/ SentBy(kb, b, g).by = "direct"
          \/ UNCHANGED <<at0, regs>>
          \/ at0' = "slot" /\ UNCHANGED regs
    BY DEF KeyInterrupt
  <2>2. SentBy(kb, b, g).by # "direct"
    BY SentToRing
  <2> QED
    BY <1>1, <2>1, <2>2
<1> QED
  BY <1>1, <1>2, ClickOthers DEF ClickState, OneAtATime

LEMMA ClickFlags ==
  ASSUME cpu_count = 1, ClickState, NEW b \in Buttons, NEW bad, MouseFlags(b, bad)
  PROVE  ClickState'
<1>1. /\ UNCHANGED <<clicks, seen, last, dp, slot, dawn, regs, packets, packet_i,
                     popped, at0, work, ipi>>
      /\ cur' = [cur EXCEPT !.buttons = b]
  BY DEF MouseFlags, keyv, ghosts
<1>2. b \in Presses
  BY InputAssumption DEF Presses
<1>3. MouseTyped'
  BY <1>1, <1>2 DEF ClickState, MouseTyped
<1> QED
  BY <1>1, <1>3
     DEF ClickState, OneAtATime, Chain, Waiting, Popping, Writing, Cleared,
         OutOfCorner, Held, Shown, Pending, ToShow, LastButtons

LEMMA ClickX ==
  ASSUME cpu_count = 1, ClickState, NEW m \in Moves, MouseX(m[1])
  PROVE  ClickState'
<1>1. /\ UNCHANGED <<clicks, seen, last, dp, slot, dawn, regs, packets, packet_i,
                     popped, at0, work, ipi>>
      /\ cur' = [cur EXCEPT !.x = m[1]]
  BY DEF MouseX, keyv, ghosts
<1>2. MouseTyped'
  BY <1>1 DEF ClickState, MouseTyped
<1> QED
  BY <1>1, <1>2
     DEF ClickState, OneAtATime, Chain, Waiting, Popping, Writing, Cleared,
         OutOfCorner, Held, Shown, Pending, ToShow, LastButtons

LEMMA ChainLen ==
  ASSUME MouseTyped
  PROVE  /\ Len(clicks) \in Nat /\ (clicks = <<>> <=> Len(clicks) = 0)
         /\ \A i \in 1 .. Len(clicks) : clicks[i] \in Presses
BY LenProperties, EmptySeq, ElementOfSeq DEF MouseTyped

(* Between two packets, the last one's buttons are those of the next place. *)
LEMMA LastIs ==
  ASSUME ClickState, packet_i \in Nat, at0 = "idle", work = "idle"
  PROVE  last = LastButtons
<1>1. /\ Len(clicks) = Shown + packet_i
      /\ \A i \in 1 .. packet_i : clicks[Shown + i] = packets[i - 1].buttons
      /\ packet_i = 0 => dawn.buttons = IF Shown = 1 THEN regs.buttons ELSE seen
  <2>1. Pending = 0 /\ Shown \in {0, 1}
    BY DEF Pending, Shown
  <2> QED
    BY <2>1 DEF ClickState, Waiting, Held
<1>2. Shown \in {0, 1} /\ Chain /\ Len(clicks) \in Nat /\ (clicks = <<>> <=> Len(clicks) = 0)
  BY ChainLen DEF ClickState, Shown
<1>3. CASE packet_i = 0
  BY <1>1, <1>2, <1>3 DEF Chain, LastButtons
<1>4. CASE packet_i # 0
  <2>1. Len(clicks) # 0 /\ packet_i \in 1 .. packet_i
    BY <1>1, <1>2, <1>4
  <2>2. last = clicks[Shown + packet_i]
    BY <1>1, <1>2, <2>1 DEF Chain
  <2> QED
    BY <1>1, <1>4, <2>1, <2>2 DEF LastButtons
<1> QED
  BY <1>3, <1>4

LEMMA ClickY ==
  ASSUME cpu_count = 1, ClickState, BoundsInv, NotInCorner', NEW y, MouseY(y)
  PROVE  ClickState'
<1>1. /\ at0 = "idle" /\ work = "idle" /\ work' = "idle" /\ ipi' = ipi
      /\ UNCHANGED <<seen, cur, slot, dawn, regs, packets, packet_i, popped>>
  BY DEF MouseY, Cpu0Free, LastAP
<1>2. CASE discard
  BY <1>1, <1>2, ClickOthers DEF MouseY, ClickState, OneAtATime
<1>3. CASE ~discard
  <2>1. /\ at0' = "classify" /\ dp' = [buttons |-> cur.buttons, pos |-> pos']
        /\ last' = cur.buttons
        /\ clicks' = IF last' = last THEN clicks ELSE Append(clicks, last')
    BY <1>3 DEF MouseY
  <2>2. packet_i \in Nat
    BY InputAssumption DEF BoundsInv, PacketsInBounds
  <2>3. last = LastButtons /\ LastButtons' = LastButtons
    BY <1>1, <2>2, LastIs DEF LastButtons
  <2>4. last' \in Presses /\ dp'.buttons = last'
    BY <2>1 DEF ClickState, MouseTyped
  <2>5. Len(clicks) \in Nat /\ (clicks = <<>> <=> Len(clicks) = 0) /\ clicks \in Seq(Presses)
    BY ChainLen DEF ClickState, MouseTyped
  <2>6. Shown' = Shown /\ Shown \in {0, 1} /\ Pending = 0
    BY <1>1 DEF Shown, Pending
  <2>7. /\ Len(clicks) = Shown + packet_i
        /\ \A i \in 1 .. packet_i : clicks[Shown + i] = packets[i - 1].buttons
    BY <1>1, <2>2, <2>6 DEF ClickState, Waiting, Held
  <2>8. OneAtATime' /\ OutOfCorner' /\ Popping' /\ Writing' /\ Cleared'
    BY <1>1, <2>1
       DEF ClickState, OneAtATime, OutOfCorner, Popping, Writing, Cleared, NotInCorner
  <2>9. packet_i = 0 => dawn.buttons = IF Shown = 1 THEN regs.buttons ELSE seen
    BY <1>1 DEF ClickState, Waiting
  <2>10. CASE last' = last
    <3>1. clicks' = clicks /\ Pending' = 0
      BY <2>1, <2>3, <2>4, <2>10 DEF Pending
    <3>2. MouseTyped' /\ Chain'
      BY <1>1, <2>4, <2>6, <2>10, <3>1 DEF ClickState, MouseTyped, Chain
    <3>3. Waiting'
      BY <1>1, <2>1, <2>2, <2>4, <2>6, <2>7, <2>9, <3>1 DEF Waiting, Held
    <3> QED
      BY <2>8, <3>2, <3>3 DEF ClickState
  <2>11. CASE last' # last
    <3>1. /\ clicks' \in Seq(Presses) /\ Len(clicks') = Len(clicks) + 1 /\ clicks' # <<>>
          /\ \A i \in 1 .. Len(clicks) : clicks'[i] = clicks[i]
          /\ clicks'[Len(clicks) + 1] = last'
      BY <2>1, <2>4, <2>5, <2>11, AppendProperties
    <3>2. Pending' = 1
      BY <2>1, <2>3, <2>4, <2>11 DEF Pending
    <3>3. MouseTyped'
      BY <1>1, <2>4, <3>1 DEF ClickState, MouseTyped
    <3>4. clicks'[1] # seen
      BY <2>5, <2>11, <3>1 DEF ClickState, Chain
    <3>5. ASSUME NEW i \in 1 .. Len(clicks') - 1 PROVE clicks'[i] # clicks'[i + 1]
      <4>1. CASE i = Len(clicks)
        BY <2>5, <2>11, <3>1, <4>1 DEF ClickState, Chain
      <4>2. CASE i # Len(clicks)
        <5>1. i \in 1 .. Len(clicks) - 1 /\ i \in 1 .. Len(clicks) /\ i + 1 \in 1 .. Len(clicks)
          BY <2>5, <3>1, <4>2
        <5> QED
          BY <3>1, <5>1 DEF ClickState, Chain
      <4> QED
        BY <4>1, <4>2
    <3>6. Shown = 1 => clicks'[1] = regs.buttons
      BY <2>5, <3>1 DEF ClickState, Chain
    <3>7. Chain'
      BY <1>1, <2>6, <3>1, <3>4, <3>5, <3>6 DEF Chain
    <3>8. Held(Shown, Pending)'
      <4>1. \A i \in 1 .. packet_i : Shown + i \in 1 .. Len(clicks)
        BY <2>2, <2>6, <2>7
      <4> QED
        BY <1>1, <2>2, <2>6, <2>7, <3>1, <3>2, <4>1 DEF Held
    <3>9. Waiting'
      BY <1>1, <2>1, <2>4, <2>6, <2>9, <3>8 DEF Waiting
    <3> QED
      BY <2>8, <3>3, <3>7, <3>9 DEF ClickState
  <2> QED
    BY <2>10, <2>11
<1> QED
  BY <1>2, <1>3

LEMMA ClickClassify ==
  ASSUME cpu_count = 1, ClickState, BoundsInv, MouseClassify
  PROVE  ClickState'
<1>1. /\ at0 = "classify" /\ work = "idle" /\ work' = "idle" /\ ipi' = ipi
      /\ UNCHANGED <<clicks, seen, last, cur, dp, regs, packets, packet_i, popped>>
  BY DEF MouseClassify, Cpu0At, ghosts, ClickState, OneAtATime
<1>2. MouseTyped' /\ OneAtATime' /\ Popping' /\ Writing' /\ Cleared' /\ OutOfCorner'
  BY <1>1 DEF MouseClassify, ClickState, MouseTyped, OneAtATime, Popping, Writing,
              Cleared, OutOfCorner
<1>3. Shown' = Shown
  BY <1>1 DEF Shown
<1>4. Chain'
  BY <1>1, <1>3 DEF ClickState, Chain
<1>5. /\ Held(Shown, Pending)
      /\ packet_i = 0 => dawn.buttons = IF Shown = 1 THEN regs.buttons ELSE seen
      /\ last = dp.buttons
  BY <1>1 DEF ClickState, Waiting
<1>6. CASE dp.buttons = LastButtons
  <2>1. dawn' = dp /\ at0' = "idle"
    BY <1>6 DEF MouseClassify
  <2>2. Pending = 0 /\ Pending' = 0
    BY <1>1, <1>6, <2>1 DEF Pending
  <2>3. Held(Shown, Pending)'
    BY <1>1, <1>3, <1>5, <2>2 DEF Held
  <2>4. packet_i = 0 => dawn'.buttons = dawn.buttons
    BY <1>6, <2>1 DEF LastButtons
  <2>5. Waiting'
    BY <1>1, <1>3, <1>5, <2>1, <2>3, <2>4 DEF Waiting
  <2> QED
    BY <1>2, <1>4, <2>5 DEF ClickState
<1>7. CASE dp.buttons # LastButtons
  <2>1. /\ dawn' = dawn
        /\ at0' = "classify" \/ (at0' = "put" /\ slot' = packet_i)
    BY <1>1, <1>7 DEF MouseClassify
  <2>2. LastButtons' = LastButtons
    BY <1>1, <2>1 DEF LastButtons
  <2>3. Pending = 1 /\ Pending' = 1
    BY <1>1, <1>7, <2>1, <2>2 DEF Pending
  <2>4. Held(Shown, Pending)'
    BY <1>1, <1>3, <1>5, <2>3 DEF Held
  <2>5. Waiting'
    BY <1>1, <1>3, <1>5, <2>1, <2>4 DEF Waiting
  <2> QED
    BY <1>2, <1>4, <2>5 DEF ClickState
<1> QED
  BY <1>6, <1>7

LEMMA ClickPut ==
  ASSUME cpu_count = 1, ClickState, BoundsInv, MousePut
  PROVE  ClickState'
<1>1. /\ at0 = "put" /\ at0' = "idle" /\ work = "idle" /\ work' = "idle" /\ ipi' = ipi
      /\ packets' = [packets EXCEPT ![slot] = dp] /\ packet_i' = slot + 1
      /\ UNCHANGED <<clicks, seen, last, cur, dp, dawn, regs, popped>>
  BY DEF MousePut, Cpu0At, ghosts, ClickState, OneAtATime
<1>2. /\ slot = packet_i /\ packet_i \in 0 .. MaxPackets - 1
      /\ packet_i \in Nat /\ packet_i' = packet_i + 1 /\ last = dp.buttons
  BY <1>1, InputAssumption DEF ClickState, Waiting, BoundsInv, PacketsInBounds
<1>3. /\ packets'[packet_i] = dp /\ DOMAIN packets' = 0 .. MaxPackets - 1
      /\ \A i \in 0 .. MaxPackets - 1 : i # packet_i => packets'[i] = packets[i]
  BY <1>1, <1>2 DEF ClickState, MouseTyped
<1>4. MouseTyped'
  BY <1>1, <1>2, <1>3 DEF ClickState, MouseTyped
<1>5. Shown' = Shown /\ Shown \in {0, 1} /\ Pending = 1 /\ Pending' = 0
  BY <1>1 DEF Shown, Pending
<1>6. Chain'
  BY <1>1, <1>5 DEF ClickState, Chain
<1>7. OneAtATime' /\ Popping' /\ Writing' /\ Cleared'
  BY <1>1 DEF ClickState, OneAtATime, Popping, Writing, Cleared
<1>8. OutOfCorner'
  <2>1. ASSUME NEW i \in 0 .. packet_i PROVE packets'[i].pos # Corner
    <3>1. CASE i = packet_i
      BY <1>3, <3>1 DEF ClickState, OutOfCorner
    <3>2. CASE i # packet_i
      <4>1. i \in 0 .. packet_i - 1 /\ i \in 0 .. MaxPackets - 1
        BY <1>2, <3>2, InputAssumption
      <4> QED
        BY <1>3, <3>2, <4>1 DEF ClickState, OutOfCorner
    <3> QED
      BY <3>1, <3>2
  <2>2. packet_i' - 1 = packet_i
    BY <1>2
  <2> QED
    BY <1>1, <2>1, <2>2 DEF ClickState, OutOfCorner
<1>9. Len(clicks) = Shown + packet_i + 1
      /\ \A i \in 1 .. packet_i : clicks[Shown + i] = packets[i - 1].buttons
  BY <1>1, <1>5 DEF ClickState, Waiting, Held
<1>10. ASSUME NEW i \in 1 .. packet_i + 1
       PROVE  clicks[Shown + i] = packets'[i - 1].buttons
  <2>1. CASE i = packet_i + 1
    <3>1. clicks # <<>>
      BY <1>2, <1>5, <1>9, ChainLen DEF ClickState
    <3>2. clicks[Len(clicks)] = last
      BY <3>1 DEF ClickState, Chain
    <3> QED
      BY <1>2, <1>3, <1>5, <1>9, <2>1, <3>2
  <2>2. CASE i # packet_i + 1
    <3>1. i \in 1 .. packet_i /\ i - 1 \in 0 .. MaxPackets - 1 /\ i - 1 # packet_i
      BY <1>2, <2>2, InputAssumption
    <3> QED
      BY <1>3, <1>9, <3>1
  <2> QED
    BY <2>1, <2>2
<1>11. Held(Shown, Pending)'
  BY <1>1, <1>2, <1>5, <1>9, <1>10 DEF Held
<1>12. Waiting'
  BY <1>1, <1>2, <1>11 DEF Waiting
<1> QED
  BY <1>4, <1>6, <1>7, <1>8, <1>12 DEF ClickState

(* What a step of the work leaves alone *)
LEMMA ClickWork ==
  ASSUME ClickState, work # "idle", at0' = at0, ipi' = ipi,
         UNCHANGED <<clicks, seen, last, cur, dp, slot>>
  PROVE  at0 = "idle" /\ OneAtATime' /\ Pending = 0 /\ Pending' = 0
BY DEF ClickState, OneAtATime, Pending

LEMMA ClickTest ==
  ASSUME cpu_count = 1, ClickState, BoundsInv, UpdateTest
  PROVE  ClickState'
<1>1. /\ work = "update" /\ at0' = at0 /\ ipi' = ipi
      /\ UNCHANGED <<clicks, seen, last, cur, dp, slot, dawn, regs, packets, packet_i,
                     popped>>
      /\ work' = IF ~MayUpdate THEN "idle" ELSE IF packet_i = 0 THEN "write" ELSE "pop"
  BY DEF UpdateTest, Working, keyv, mousev, ghosts
<1>2. at0 = "idle" /\ OneAtATime' /\ Pending = 0 /\ Pending' = 0
  BY <1>1, ClickWork
<1>3. CASE ~MayUpdate
  BY <1>1, <1>2, <1>3, ClickOthers
<1>4. CASE MayUpdate
  <2>1. ~regs.unread /\ Shown = 0 /\ Shown' = 0
    BY <1>1, <1>4 DEF MayUpdate, ClickState, OutOfCorner, Corner, Shown
  <2>2. MouseTyped' /\ OutOfCorner' /\ Chain' /\ Cleared'
    BY <1>1, <2>1 DEF ClickState, MouseTyped, OutOfCorner, Chain, Cleared
  <2>3. Held(0, 0) /\ Held(0, 0)' /\ (packet_i = 0 => dawn.buttons = seen)
    BY <1>1, <1>2, <2>1 DEF ClickState, Waiting, Held
  <2>4. CASE packet_i = 0
    <3>1. ToShow' = 0 /\ work' = "write"
      BY <1>1, <1>4, <2>3, <2>4 DEF ToShow
    <3>2. Waiting' /\ Popping' /\ Writing'
      BY <2>3, <3>1 DEF Waiting, Popping, Writing
    <3> QED
      BY <1>2, <2>2, <3>2 DEF ClickState
  <2>5. CASE packet_i # 0
    <3>1. work' = "pop"
      BY <1>1, <1>4, <2>5
    <3>2. Waiting' /\ Popping' /\ Writing'
      BY <1>1, <1>2, <2>1, <2>3, <2>5, <3>1 DEF Waiting, Popping, Writing
    <3> QED
      BY <1>2, <2>2, <3>2 DEF ClickState
  <2> QED
    BY <2>4, <2>5
<1> QED
  BY <1>3, <1>4

LEMMA ClickPop ==
  ASSUME cpu_count = 1, ClickState, BoundsInv, UpdatePop
  PROVE  ClickState'
<1>1. /\ work = "pop" /\ work' = "load" /\ at0' = at0 /\ ipi' = ipi
      /\ UNCHANGED <<clicks, seen, last, cur, dp, slot, regs, packet_i, popped>>
      /\ dawn' = packets[0]
      /\ packets' = [i \in 0 .. MaxPackets - 1 |->
                       IF i + 1 < packet_i THEN packets[i + 1] ELSE packets[i]]
  BY DEF UpdatePop, Working, keyv, mousev, ghosts
<1>2. at0 = "idle" /\ OneAtATime' /\ Pending = 0
  BY <1>1, ClickWork
<1>3. packet_i \in 1 .. MaxPackets /\ MaxPackets \in Nat \ {0}
  BY <1>1, InputAssumption DEF BoundsInv, PacketsInBounds
<1>4. ~regs.unread /\ Shown = 0 /\ Shown' = 0
  BY <1>1 DEF ClickState, Cleared, Shown
<1>5. /\ Len(clicks) = packet_i
      /\ \A i \in 1 .. packet_i : clicks[i] = packets[i - 1].buttons
  BY <1>1, <1>2, <1>3, <1>4 DEF ClickState, Waiting, Held
<1>6. /\ DOMAIN packets' = 0 .. MaxPackets - 1
      /\ \A i \in 0 .. packet_i - 2 : packets'[i] = packets[i + 1]
      /\ \A i \in 0 .. MaxPackets - 1 : \E j \in 0 .. MaxPackets - 1 :
           packets'[i] = packets[j] /\ (i < packet_i => j < packet_i)
  <2>1. \A i \in 0 .. packet_i - 2 : i \in 0 .. MaxPackets - 1 /\ i + 1 < packet_i
    BY <1>3
  <2>2. ASSUME NEW i \in 0 .. MaxPackets - 1
        PROVE  \E j \in 0 .. MaxPackets - 1 :
                 packets'[i] = packets[j] /\ (i < packet_i => j < packet_i)
    <3>1. CASE i + 1 < packet_i
      <4>1. i + 1 \in 0 .. MaxPackets - 1 /\ packets'[i] = packets[i + 1]
        BY <1>1, <1>3, <3>1
      <4> QED
        BY <3>1, <4>1
    <3>2. CASE ~(i + 1 < packet_i)
      BY <1>1, <3>2
    <3> QED
      BY <3>1, <3>2
  <2> QED
    BY <1>1, <2>1, <2>2
<1>7. MouseTyped'
  <2>1. 0 \in 0 .. MaxPackets - 1
    BY <1>3
  <2> QED
    BY <1>1, <1>6, <2>1 DEF ClickState, MouseTyped
<1>8. OutOfCorner'
  <2>1. ASSUME NEW i \in 0 .. packet_i - 1 PROVE packets'[i].pos # Corner
    <3>1. i \in 0 .. MaxPackets - 1 /\ i < packet_i
      BY <1>3
    <3>2. PICK j \in 0 .. MaxPackets - 1 : packets'[i] = packets[j] /\ j < packet_i
      BY <1>6, <3>1
    <3>3. j \in 0 .. packet_i - 1
      BY <1>3, <3>2
    <3> QED
      BY <3>2, <3>3 DEF ClickState, OutOfCorner
  <2>2. 0 \in 0 .. packet_i - 1
    BY <1>3
  <2> QED
    BY <1>1, <2>1, <2>2 DEF ClickState, OutOfCorner
<1>9. Chain' /\ Cleared'
  BY <1>1, <1>4 DEF ClickState, Chain, Cleared
<1>10. Popping'
  <2>1. 1 \in 1 .. packet_i /\ clicks[1] = packets[0].buttons
    BY <1>3, <1>5
  <2>2. ASSUME NEW i \in 1 .. packet_i - 1 PROVE clicks[i + 1] = packets'[i - 1].buttons
    <3>1. i - 1 \in 0 .. packet_i - 2 /\ (i - 1) + 1 = i /\ i + 1 \in 1 .. packet_i
          /\ (i + 1) - 1 = i
      BY <1>3
    <3>2. packets'[i - 1] = packets[i]
      BY <1>6, <3>1
    <3> QED
      BY <1>5, <3>1, <3>2
  <2> QED
    BY <1>1, <1>5, <2>1, <2>2 DEF Popping
<1>11. Waiting' /\ Writing'
  BY <1>1 DEF Waiting, Writing
<1> QED
  BY <1>2, <1>7, <1>8, <1>9, <1>10, <1>11 DEF ClickState

LEMMA ClickLoad ==
  ASSUME cpu_count = 1, ClickState, BoundsInv, UpdateLoad
  PROVE  ClickState'
<1>1. /\ work = "load" /\ work' = "store" /\ at0' = at0 /\ ipi' = ipi
      /\ UNCHANGED <<clicks, seen, last, cur, dp, slot, dawn, regs, packets, packet_i>>
      /\ popped' = packet_i
  BY DEF UpdateLoad, Working, keyv, mousev, ghosts
<1>2. OneAtATime'
  BY <1>1, ClickWork
<1>3. MouseTyped' /\ OutOfCorner' /\ Waiting' /\ Popping' /\ Writing' /\ Cleared'
  BY <1>1 DEF ClickState, MouseTyped, OutOfCorner, Waiting, Popping, Writing, Cleared
<1>4. Chain'
  BY <1>1 DEF ClickState, Chain, Shown
<1> QED
  BY <1>2, <1>3, <1>4 DEF ClickState

LEMMA ClickStore ==
  ASSUME cpu_count = 1, ClickState, BoundsInv, UpdateStore
  PROVE  ClickState'
<1>1. /\ work = "store" /\ work' = "write" /\ at0' = at0 /\ ipi' = ipi
      /\ UNCHANGED <<clicks, seen, last, cur, dp, slot, dawn, regs, packets>>
      /\ packet_i' = popped - 1
  BY DEF UpdateStore, Working, keyv, mousev, ghosts
<1>2. at0 = "idle" /\ OneAtATime'
  BY <1>1, ClickWork
<1>3. /\ popped = packet_i /\ packet_i \in 1 .. MaxPackets /\ MaxPackets \in Nat
      /\ packet_i' = packet_i - 1
  BY <1>1, InputAssumption DEF BoundsInv, PacketsInBounds, ClickState, Popping
<1>4. /\ Len(clicks) = packet_i /\ clicks[1] = dawn.buttons
      /\ \A i \in 1 .. packet_i - 1 : clicks[i + 1] = packets[i - 1].buttons
  BY <1>1 DEF ClickState, Popping
<1>5. MouseTyped' /\ Cleared' /\ Waiting' /\ Popping'
  BY <1>1 DEF ClickState, MouseTyped, Cleared, Waiting, Popping
<1>6. Chain'
  BY <1>1 DEF ClickState, Chain, Shown
<1>7. OutOfCorner'
  <2>1. \A i \in 0 .. packet_i - 1 - 1 : i \in 0 .. packet_i - 1
    BY <1>3
  <2> QED
    BY <1>1, <1>3, <2>1 DEF ClickState, OutOfCorner
<1>8. ToShow' = 1
  <2>1. clicks # <<>>
    BY <1>3, <1>4, ChainLen DEF ClickState
  <2> QED
    BY <1>1, <1>4, <2>1 DEF ClickState, Chain, ToShow
<1>9. \A i \in 1 .. packet_i - 1 : 1 + i = i + 1
  BY <1>3
<1>10. Held(ToShow, 0)'
  BY <1>1, <1>3, <1>4, <1>8, <1>9 DEF Held
<1>11. Writing'
  BY <1>1, <1>4, <1>10 DEF Writing
<1> QED
  BY <1>2, <1>5, <1>6, <1>7, <1>11 DEF ClickState

LEMMA ClickWrite ==
  ASSUME cpu_count = 1, ClickState, BoundsInv, UpdateWrite
  PROVE  ClickState'
<1>1. /\ work = "write" /\ work' = "idle" /\ at0' = at0 /\ ipi' = ipi
      /\ UNCHANGED <<clicks, seen, last, cur, dp, slot, dawn, packets, packet_i, popped>>
      /\ regs' = [buttons |-> dawn.buttons, pos |-> dawn.pos, unread |-> TRUE]
  BY DEF UpdateWrite, Working, keyv, mousev, ghosts
<1>2. at0 = "idle" /\ OneAtATime' /\ Pending' = 0
  BY <1>1, ClickWork
<1>3. regs'.buttons = dawn.buttons /\ regs'.pos = dawn.pos /\ regs'.unread
  BY <1>1
<1>4. Shown' = ToShow /\ ToShow \in {0, 1} /\ (ToShow = 0 => dawn.buttons = seen)
  BY <1>1, <1>3 DEF Shown, ToShow
<1>5. Held(ToShow, 0) /\ (ToShow = 1 => clicks[1] = dawn.buttons)
  BY <1>1 DEF ClickState, Writing
<1>6. MouseTyped' /\ OutOfCorner' /\ Popping' /\ Writing' /\ Cleared'
  BY <1>1, <1>3 DEF ClickState, MouseTyped, OutOfCorner, Popping, Writing, Cleared
<1>7. Chain'
  <2>1. ToShow = 1 => clicks # <<>>
    <3>1. packet_i \in Nat
      BY InputAssumption DEF BoundsInv, PacketsInBounds
    <3> QED
      BY <1>5, <3>1, ChainLen DEF ClickState, Held
  <2> QED
    BY <1>1, <1>3, <1>4, <1>5, <2>1 DEF ClickState, Chain
<1>8. Held(Shown, Pending)'
  BY <1>1, <1>2, <1>4, <1>5 DEF Held
<1>9. Waiting'
  BY <1>1, <1>2, <1>3, <1>4, <1>8 DEF Waiting
<1> QED
  BY <1>2, <1>6, <1>7, <1>9 DEF ClickState

LEMMA ClickRead ==
  ASSUME cpu_count = 1, ClickState, BoundsInv, GuestMouse
  PROVE  ClickState'
<1>1. /\ at0 = "idle" /\ work = "idle" /\ at0' = "idle" /\ work' = "idle" /\ ipi' = ipi
      /\ UNCHANGED <<last, cur, dp, slot, dawn, packets, packet_i, popped>>
      /\ regs.unread /\ seen' = regs.buttons
      /\ clicks' = IF clicks # <<>> /\ regs.buttons = Head(clicks) THEN Tail(clicks)
                   ELSE clicks
      /\ regs' = [buttons |-> {}, pos |-> <<0, 0>>, unread |-> FALSE]
  BY DEF GuestMouse, Cpu0Free, LastAP, keyv, mousev
<1>2. packet_i \in Nat
  BY InputAssumption DEF BoundsInv, PacketsInBounds
<1>3. Len(clicks) \in Nat /\ (clicks = <<>> <=> Len(clicks) = 0) /\ clicks \in Seq(Presses)
  BY ChainLen DEF ClickState, MouseTyped
<1>4. /\ Shown = (IF regs.buttons # seen THEN 1 ELSE 0)
      /\ Pending = 0 /\ Shown' = 0 /\ Pending' = 0
  BY <1>1 DEF Shown, Pending
<1>5. /\ Len(clicks) = Shown + packet_i
      /\ \A i \in 1 .. packet_i : clicks[Shown + i] = packets[i - 1].buttons
      /\ packet_i = 0 => dawn.buttons = regs.buttons
  BY <1>1, <1>2, <1>4 DEF ClickState, Waiting, Held
<1>6. OneAtATime' /\ Popping' /\ Writing' /\ Cleared' /\ OutOfCorner'
  BY <1>1 DEF ClickState, OneAtATime, Popping, Writing, Cleared, OutOfCorner
<1>7. regs.buttons \in Presses /\ {} \in Presses
  BY DEF ClickState, MouseTyped, Presses
<1>8. CASE regs.buttons = seen
  <2>1. clicks # <<>> => Head(clicks) # regs.buttons
    BY <1>3, <1>8 DEF ClickState, Chain
  <2>2. clicks' = clicks /\ Shown = 0
    BY <1>1, <1>4, <1>8, <2>1
  <2>3. MouseTyped' /\ Chain'
    BY <1>1, <1>4, <1>7, <1>8, <2>2 DEF ClickState, MouseTyped, Chain
  <2>4. Waiting'
    BY <1>1, <1>2, <1>4, <1>5, <2>2 DEF Waiting, Held
  <2> QED
    BY <1>6, <2>3, <2>4 DEF ClickState
<1>9. CASE regs.buttons # seen
  <2>1. clicks # <<>> /\ clicks[1] = regs.buttons /\ Head(clicks) = regs.buttons
    BY <1>3, <1>4, <1>9 DEF ClickState, Chain
  <2>2. /\ clicks' = Tail(clicks) /\ clicks' \in Seq(Presses)
        /\ Len(clicks') = Len(clicks) - 1
        /\ \A i \in 1 .. Len(clicks) - 1 : clicks'[i] = clicks[i + 1]
    BY <1>1, <1>3, <2>1, HeadTailProperties
  <2>3. clicks' = <<>> <=> Len(clicks') = 0
    BY <2>2, EmptySeq
  <2>4. MouseTyped'
    BY <1>1, <1>7, <2>2 DEF ClickState, MouseTyped
  <2>5. clicks' # <<>> => clicks'[1] # seen'
    <3>1. ASSUME clicks' # <<>> PROVE clicks'[1] # seen'
      <4>1. 1 \in 1 .. Len(clicks) - 1
        BY <1>3, <2>1, <2>2, <2>3, <3>1
      <4>2. clicks[1] # clicks[2] /\ clicks'[1] = clicks[2]
        BY <2>2, <4>1 DEF ClickState, Chain
      <4> QED
        BY <1>1, <2>1, <4>2
    <3> QED
      BY <3>1
  <2>6. ASSUME NEW i \in 1 .. Len(clicks') - 1 PROVE clicks'[i] # clicks'[i + 1]
    <3>1. i \in 1 .. Len(clicks) - 1 /\ i + 1 \in 1 .. Len(clicks) - 1
      BY <1>3, <2>2
    <3>2. clicks'[i] = clicks[i + 1] /\ clicks'[i + 1] = clicks[(i + 1) + 1]
      BY <2>2, <3>1
    <3>3. clicks[i + 1] # clicks[(i + 1) + 1]
      BY <3>1 DEF ClickState, Chain
    <3> QED
      BY <3>2, <3>3
  <2>7. last' = IF clicks' = <<>> THEN seen' ELSE clicks'[Len(clicks')]
    <3>1. last = clicks[Len(clicks)]
      BY <2>1 DEF ClickState, Chain
    <3>2. CASE Len(clicks) = 1
      BY <1>1, <2>1, <2>2, <2>3, <3>1, <3>2
    <3>3. CASE Len(clicks) # 1
      <4>1. Len(clicks') \in 1 .. Len(clicks) - 1 /\ Len(clicks') + 1 = Len(clicks)
        BY <1>3, <2>1, <2>2, <3>3
      <4>2. clicks'[Len(clicks')] = clicks[Len(clicks)] /\ clicks' # <<>>
        BY <2>2, <2>3, <4>1
      <4> QED
        BY <1>1, <3>1, <4>2
    <3> QED
      BY <3>2, <3>3
  <2>8. Chain'
    BY <1>4, <2>5, <2>6, <2>7 DEF Chain
  <2>9. \A i \in 1 .. packet_i : clicks'[i] = packets[i - 1].buttons
    <3> TAKE i \in 1 .. packet_i
    <3>1. i \in 1 .. Len(clicks) - 1 /\ 1 + i = i + 1
      BY <1>2, <1>4, <1>5, <1>9
    <3> QED
      BY <1>4, <1>5, <1>9, <2>2, <3>1
  <2>10. Waiting'
    BY <1>1, <1>2, <1>4, <1>5, <1>9, <2>2, <2>9 DEF Waiting, Held
  <2> QED
    BY <1>6, <2>4, <2>8, <2>10 DEF ClickState
<1> QED
  BY <1>8, <1>9

LEMMA ClickNext ==
  ASSUME KeyBytes \cap KeypadButtons = {}
  PROVE  ClickInv /\ BoundsInv /\ NotInCorner' /\ [Next]_vars => ClickInv'
<1> SUFFICES ASSUME ClickInv, BoundsInv, NotInCorner', [Next]_vars, cpu_count' = 1
             PROVE  ClickState'
  BY DEF ClickInv
<1>1. cpu_count = 1 /\ ClickState
  <2>1. cpu_count' = cpu_count
    BY DEF Next, Isr, IoSlot, IoTail, MouseClassify, MousePut, Devices, KeyInterrupt,
           MouseFlags, MouseX, MouseY, Tick, TakeIpi, Work, FlushWrite, FlushAdvance,
           FlushDone, UpdateTest, UpdatePop, UpdateLoad, UpdateStore, UpdateWrite,
           Guest, GuestTake, GuestMouse, vars, clock
  <2> QED
    BY <2>1 DEF ClickInv
<1>2. CASE Isr
  <2>1. CASE IoSlot
    BY <1>1, <2>1, ClickOthers
       DEF IoSlot, Cpu0At, mousev, ghosts, ClickState, OneAtATime
  <2>2. CASE IoTail
    BY <1>1, <2>2, ClickOthers DEF IoTail, Cpu0At, mousev, ClickState, OneAtATime
  <2> QED
    BY <1>1, <1>2, <2>1, <2>2, ClickClassify, ClickPut DEF Isr
<1>3. CASE Devices
  BY <1>1, <1>3, ClickKey, ClickFlags, ClickX, ClickY DEF Devices
<1>4. CASE Tick
  BY <1>1, <1>4, ClickOthers
     DEF Tick, Cpu0Free, LastAP, keyv, mousev, ghosts, ClickState, OneAtATime
<1>5. CASE TakeIpi
  BY <1>1, <1>5 DEF TakeIpi, ClickState, OneAtATime
<1>6. CASE Work
  <2>1. CASE FlushWrite
    BY <1>1, <2>1, ClickOthers
       DEF FlushWrite, Working, keyv, mousev, ghosts, ClickState, OneAtATime
  <2>2. CASE FlushAdvance
    BY <1>1, <2>2, ClickOthers
       DEF FlushAdvance, Working, keyv, mousev, ghosts, ClickState, OneAtATime
  <2>3. CASE FlushDone
    BY <1>1, <2>3, ClickOthers
       DEF FlushDone, Working, keyv, mousev, ghosts, ClickState, OneAtATime
  <2> QED
    BY <1>1, <1>6, <2>1, <2>2, <2>3, ClickTest, ClickPop, ClickLoad, ClickStore,
       ClickWrite DEF Work
<1>7. CASE Guest
  <2>1. ASSUME NEW r \in RingRegs, GuestTake(r) PROVE ClickState'
    BY <1>1, <2>1, ClickOthers DEF GuestTake, keyv, mousev, ClickState, OneAtATime
  <2> QED
    BY <1>1, <1>7, <2>1, ClickRead DEF Guest
<1>8. CASE UNCHANGED vars
  BY <1>1, <1>8, ClickOthers DEF vars, keyv, mousev, ghosts, ClickState, OneAtATime
<1> QED
  BY <1>2, <1>3, <1>4, <1>5, <1>6, <1>7, <1>8 DEF Next

LEMMA ClickKept ==
  ASSUME ClickInv, BoundsInv
  PROVE  NoClickLost
<1> SUFFICES ASSUME cpu_count = 1, at0 = "idle", work = "idle" PROVE clicks = Unread \o Queued
  BY DEF NoClickLost
<1>1. ClickState /\ MouseTyped
  BY DEF ClickInv, ClickState
<1>2. packet_i \in 0 .. MaxPackets /\ packet_i \in Nat /\ MaxPackets \in Nat
  BY InputAssumption DEF BoundsInv, PacketsInBounds
<1>3. /\ Len(clicks) = Shown + packet_i
      /\ \A i \in 1 .. packet_i : clicks[Shown + i] = packets[i - 1].buttons
      /\ Shown = 1 => clicks[1] = regs.buttons
  <2>1. Pending = 0 /\ Shown \in {0, 1}
    BY DEF Pending, Shown
  <2>2. Held(Shown, 0) /\ (Shown = 1 => clicks[1] = regs.buttons)
    BY <1>1, <2>1 DEF ClickState, Waiting, Chain
  <2> QED
    BY <1>2, <2>1, <2>2 DEF Held
<1>4. Queued \in Seq(Presses) /\ Len(Queued) = packet_i
      /\ \A i \in 1 .. packet_i : Queued[i] = packets[i - 1].buttons
  <2>1. \A i \in 1 .. packet_i : packets[i - 1].buttons \in Presses
    BY <1>1, <1>2 DEF MouseTyped
  <2>2. Queued \in [1 .. packet_i -> Presses]
    BY <2>1 DEF Queued
  <2>3. Queued \in Seq(Presses) /\ Len(Queued) = packet_i
    BY <1>2, <2>2, SeqDef, LenProperties
  <2> QED
    BY <2>3 DEF Queued
<1>5. Unread \in Seq(Presses) /\ Len(Unread) = Shown /\ (Shown = 1 => Unread[1] = regs.buttons)
  <2>1. regs.buttons \in Presses
    BY <1>1 DEF MouseTyped
  <2>2. CASE regs.unread /\ regs.buttons # seen
    BY <2>1, <2>2 DEF Unread, Shown
  <2>3. CASE ~(regs.unread /\ regs.buttons # seen)
    BY <2>3, EmptySeq DEF Unread, Shown
  <2> QED
    BY <2>2, <2>3
<1>6. /\ Unread \o Queued \in Seq(Presses) /\ Len(Unread \o Queued) = Shown + packet_i
      /\ \A i \in 1 .. Shown + packet_i :
           (Unread \o Queued)[i] = IF i <= Shown THEN Unread[i] ELSE Queued[i - Shown]
  BY <1>4, <1>5, ConcatProperties
<1>7. ASSUME NEW i \in 1 .. Len(clicks) PROVE clicks[i] = (Unread \o Queued)[i]
  <2>1. CASE Shown = 1 /\ i = 1
    BY <1>3, <1>5, <1>6, <2>1
  <2>2. CASE ~(Shown = 1 /\ i = 1)
    <3>1. Shown \in {0, 1} /\ i - Shown \in 1 .. packet_i /\ Shown + (i - Shown) = i
      BY <1>2, <1>3, <2>2 DEF Shown
    <3>2. clicks[i] = packets[(i - Shown) - 1].buttons
      BY <1>3, <3>1
    <3>3. i \in 1 .. Shown + packet_i /\ ~(i <= Shown)
      BY <1>2, <1>3, <3>1
    <3>4. (Unread \o Queued)[i] = Queued[i - Shown]
      BY <1>6, <3>3
    <3> QED
      BY <1>4, <3>1, <3>2, <3>4
  <2> QED
    BY <2>1, <2>2
<1>8. clicks \in Seq(Presses)
  BY <1>1 DEF MouseTyped
<1> QED
  BY <1>3, <1>6, <1>7, <1>8, SeqEqual

(* On one CPU every change of the buttons reaches the guest, in order, as    *)
(* long as the pointer keeps out of the upper left corner, where the         *)
(* position registers read as if the guest had cleared them, and the keypad  *)
(* presses no button.                                                        *)
THEOREM ClicksReachGuest ==
  ASSUME KeyBytes \cap KeypadButtons = {}
  PROVE  Spec /\ []NotInCorner => []NoClickLost
<1>1. ClickInv /\ BoundsInv => NoClickLost
  BY ClickKept
<1> QED
  BY <1>1, ClickInit, ClickNext, BoundsInit, BoundsNext, PTL DEF Spec
=============================================================================
