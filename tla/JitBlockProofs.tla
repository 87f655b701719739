--------------------------- MODULE JitBlockProofs ---------------------------
(***************************************************************************)
(* Proofs about JitBlock, for any block: any instructions, any number of     *)
(* them, words of any length and a register cache of any size.               *)
(*                                                                          *)
(* The argument: every word the cache knows has its value in a view of        *)
(* memory, and so has the word held back (Fits); memory with that word stored *)
(* (Whole) is the guest's, before and after each instruction.  Every helper   *)
(* keeps both while it moves values about (Keeps), or changes the one word    *)
(* it is for; and of each place in an instruction IInv says what the fields,  *)
(* operands and result the translator has there stand for.                    *)
(***************************************************************************)
EXTENDS JitBlock, FiniteSetTheorems, WellFoundedInduction, TLAPS

-----------------------------------------------------------------------------
(* Numbers *)

LEMMA LeastNat ==
  ASSUME NEW T \in SUBSET Nat, T # {}
  PROVE  \E u \in T : \A y \in T : u <= y
<1> DEFINE R == OpToRel(<, Nat)
<1>1. IsWellFoundedOn(R, Nat)
  BY NatLessThanWellFounded, Zenon
<1>2. PICK u \in T : \A y \in T : <<y, u>> \notin R
  <2> HIDE DEF R
  <2> QED
    BY <1>1, WFMin
<1>3. \A y \in T : ~(y < u)
  BY <1>2 DEF OpToRel
<1> HIDE DEF R
<1>4. \A y \in T : u <= y
  <2> TAKE y \in T
  <2>1. y \in Nat /\ u \in Nat
    BY <1>2
  <2> QED
    BY <1>3, <2>1
<1> QED
  BY <1>4

LEMMA MinIn ==
  ASSUME NEW S \in SUBSET Nat, S # {}
  PROVE  Min(S) \in S
<1>1. \E u \in S : \A y \in S : u <= y
  BY LeastNat
<1> QED
  BY <1>1 DEF Min

LEMMA DivIs ==
  ASSUME NEW a \in Nat, NEW t \in Nat \ {0}
  PROVE  /\ a \div t \in Nat /\ t * (a \div t) <= a /\ a < t * (a \div t) + t
         /\ a % t \in 0 .. t - 1 /\ a = t * (a \div t) + (a % t)
<1>1. a \div t \in Nat /\ t * (a \div t) <= a /\ a < t * (a \div t) + t
  OBVIOUS
<1>2. a % t \in 0 .. t - 1 /\ a = t * (a \div t) + (a % t)
  OBVIOUS
<1> QED
  BY <1>1, <1>2

LEMMA TimesMonotone ==
  ASSUME NEW t \in Nat, NEW a \in Int, NEW b \in Int, a <= b
  PROVE  t * a <= t * b
  OBVIOUS

LEMMA DivUnique ==
  ASSUME NEW a \in Nat, NEW t \in Nat \ {0}, NEW q \in Int, t * q <= a, a < t * q + t
  PROVE  a \div t = q
<1> DEFINE d == a \div t
<1>1. d \in Nat /\ t * d <= a /\ a < t * d + t
  BY DivIs
<1> HIDE DEF d
<1>2. ~(q <= d - 1)
  <2> SUFFICES ASSUME q <= d - 1 PROVE FALSE
    OBVIOUS
  <2>1. t * q <= t * (d - 1) /\ t * (d - 1) = t * d - t /\ t * q \in Int /\ t * d \in Int
    BY <1>1, TimesMonotone
  <2> QED
    BY <1>1, <2>1
<1>3. ~(d <= q - 1)
  <2> SUFFICES ASSUME d <= q - 1 PROVE FALSE
    OBVIOUS
  <2>1. t * d <= t * (q - 1) /\ t * (q - 1) = t * q - t /\ t * q \in Int /\ t * d \in Int
    BY <1>1, TimesMonotone
  <2> QED
    BY <1>1, <2>1
<1>4. d = q
  BY <1>1, <1>2, <1>3
<1> QED
  BY <1>4 DEF d

(* Quotient and remainder of a number in two parts. *)
LEMMA Parts ==
  ASSUME NEW t \in Nat \ {0}, NEW q \in Nat, NEW r \in Nat, r < t
  PROVE  /\ (q * t + r) \div t = q /\ (q * t + r) % t = r
         /\ q * t \in Nat
<1>1. t * q \in Nat /\ q * t = t * q
  OBVIOUS
<1> DEFINE a == q * t + r
<1>2. a \in Nat /\ t * q <= a /\ a < t * q + t /\ a = t * q + r
  BY <1>1
<1> HIDE DEF a
<1>3. a \div t = q
  BY <1>2, DivUnique
<1>4. a = t * q + (a % t) /\ a % t \in Nat
  <2>1. a % t \in 0 .. t - 1 /\ a = t * (a \div t) + (a % t)
    BY <1>2, DivIs
  <2> QED
    BY <1>3, <2>1
<1>5. a % t = r
  BY <1>1, <1>2, <1>4
<1> QED
  BY <1>1, <1>3, <1>5 DEF a

(* Dividing twice is dividing by the product. *)
LEMMA DivTwice ==
  ASSUME NEW a \in Nat, NEW t \in Nat \ {0}, NEW k \in Nat \ {0}
  PROVE  a \div (k * t) = (a \div t) \div k
<1> DEFINE d == a \div t
           e == d \div k
<1>1. d \in Nat /\ t * d <= a /\ a < t * d + t
  BY DivIs
<1>2. e \in Nat /\ k * e <= d /\ d < k * e + k
  <2> HIDE DEF d
  <2> QED
    BY <1>1, DivIs
<1> HIDE DEF d, e
<1>3. t * (k * e) <= t * d /\ t * (d + 1) <= t * (k * e + k)
  <2>1. k * e \in Nat /\ d + 1 <= k * e + k
    BY <1>1, <1>2
  <2> QED
    BY <1>1, <1>2, <2>1, TimesMonotone
<1>4. /\ k * t \in Nat \ {0} /\ (k * t) * e = t * (k * e)
      /\ (k * t) * e + k * t = t * (k * e + k)
      /\ t * (d + 1) = t * d + t /\ t * d \in Nat /\ t * (k * e) \in Nat
  BY <1>1, <1>2
<1>5. (k * t) * e <= a /\ a < (k * t) * e + k * t
  BY <1>1, <1>3, <1>4
<1>6. a \div (k * t) = e
  <2> DEFINE p == k * t
  <2>1. p \in Nat \ {0} /\ p * e <= a /\ a < p * e + p
    BY <1>4, <1>5
  <2> HIDE DEF p
  <2>2. a \div p = e
    BY <1>2, <2>1, DivUnique
  <2> QED
    BY <2>2 DEF p
<1> QED
  BY <1>6 DEF d, e

-----------------------------------------------------------------------------
(* Words and bytes *)

Size == MemWords * WordBytes

LEMMA ConstantsAre ==
  /\ NCONST \in Nat \ {0} /\ NALIAS \in Nat \ {0} /\ MemWords \in Nat \ {0}
  /\ NREGS \in Nat /\ NREGS >= 3
  /\ WordBytes \in Nat /\ WordBytes >= 2 /\ Radix \in Nat /\ Radix >= 2
  /\ Size \in Nat /\ (MemWords - 1) * WordBytes = Size - WordBytes /\ WordBytes <= Size
<1>1. /\ NCONST \in Nat \ {0} /\ NALIAS \in Nat \ {0} /\ MemWords \in Nat \ {0}
      /\ NREGS \in Nat \ 0 .. 2
      /\ WordBytes \in Nat \ {0, 1} /\ Radix \in Nat \ {0, 1}
  BY BlockAssumption
<1>2. NREGS >= 3 /\ WordBytes >= 2 /\ Radix >= 2
  BY <1>1
<1>3. Size \in Nat /\ (MemWords - 1) * WordBytes = Size - WordBytes
  BY <1>1 DEF Size
<1>4. (MemWords - 1) * WordBytes \in Nat
  <2>1. MemWords - 1 \in Nat
    BY <1>1
  <2> QED
    BY <1>1, <2>1
<1> QED
  BY <1>1, <1>2, <1>3, <1>4

(* A function defined by what it is at 0 and from one number to the next. *)
Recurs(f, c, d) == f = [i \in 0 .. WordBytes |-> IF i = 0 THEN c ELSE Radix * f[i - 1] + d[i]]

LEMMA Recurrence ==
  ASSUME NEW c, NEW d
  PROVE  \E f : Recurs(f, c, d)
<1> DEFINE Step(f, t) == f = [i \in 0 .. t |-> IF i = 0 THEN c ELSE Radix * f[i - 1] + d[i]]
           T == {t \in Nat : ~\E f : Step(f, t)}
<1>1. T = {}
  <2> SUFFICES ASSUME T # {} PROVE FALSE
    OBVIOUS
  <2>1. PICK t \in T : \A k \in T : t <= k
    BY LeastNat
  <2>2. t # 0
    <3> SUFFICES \E f : Step(f, 0)
      BY <2>1
    <3> DEFINE g == [i \in 0 .. 0 |-> c]
    <3>1. Step(g, 0)
      OBVIOUS
    <3> HIDE DEF g, Step
    <3> QED
      BY <3>1
  <2>3. t - 1 \in Nat /\ t - 1 \notin T
    BY <2>1, <2>2
  <2>4. PICK f : Step(f, t - 1)
    BY <2>3
  <2> DEFINE g == [i \in 0 .. t |-> IF i < t THEN f[i] ELSE Radix * f[t - 1] + d[t]]
  <2>5. Step(g, t)
    <3>1. ASSUME NEW i \in 0 .. t PROVE g[i] = IF i = 0 THEN c ELSE Radix * g[i - 1] + d[i]
      <4>1. CASE i = 0
        BY <2>1, <2>2, <2>4, <4>1
      <4>2. CASE i # 0 /\ i < t
        <5>1. i \in 0 .. (t - 1) /\ i - 1 \in 0 .. t /\ i - 1 < t
          BY <2>1, <4>2
        <5>2. f[i] = Radix * f[i - 1] + d[i]
          BY <2>4, <4>2, <5>1
        <5> QED
          BY <4>2, <5>1, <5>2
      <4>3. CASE i = t
        <5>1. t - 1 \in 0 .. t /\ t - 1 < t
          BY <2>1, <2>2
        <5> QED
          BY <2>2, <4>3, <5>1
      <4> QED
        BY <2>1, <4>1, <4>2, <4>3
    <3>2. g = [i \in 0 .. t |-> IF i = 0 THEN c ELSE Radix * g[i - 1] + d[i]]
      <4> HIDE DEF g
      <4>1. g = [i \in 0 .. t |-> g[i]]
        BY DEF g
      <4> QED
        BY <3>1, <4>1
    <3> QED
      BY <3>2
  <2> HIDE DEF g, Step
  <2> QED
    BY <2>1, <2>5
<1>2. WordBytes \in Nat
  BY ConstantsAre
<1>3. PICK f : Step(f, WordBytes)
  <2> HIDE DEF Step
  <2> QED
    BY <1>1, <1>2
<1>4. Recurs(f, c, d)
  BY <1>3 DEF Recurs
<1> QED
  BY <1>4

LEMMA PowIs ==
  /\ Pow[0] = 1
  /\ \A k \in 1 .. WordBytes : Pow[k] = Radix * Pow[k - 1]
<1> DEFINE d == [i \in 1 .. WordBytes |-> 0]
<1>1. PICK f : f = [i \in 0 .. WordBytes |-> IF i = 0 THEN 1 ELSE Radix * f[i - 1] + d[i]]
  <2>1. PICK f : Recurs(f, 1, d)
    BY Recurrence
  <2>2. f = [i \in 0 .. WordBytes |-> IF i = 0 THEN 1 ELSE Radix * f[i - 1] + d[i]]
    BY <2>1 DEF Recurs
  <2> HIDE DEF d
  <2> QED
    BY <2>2, Zenon
<1>2. WordBytes \in Nat /\ Radix \in Nat
  BY ConstantsAre
<1>3. \A i \in 0 .. WordBytes : f[i] \in Nat
  <2> DEFINE T == {i \in Nat : i <= WordBytes /\ f[i] \notin Nat}
  <2>1. T = {}
    <3> SUFFICES ASSUME T # {} PROVE FALSE
      OBVIOUS
    <3>1. PICK t \in T : \A k \in T : t <= k
      BY LeastNat
    <3>2. t # 0
      BY <1>1, <3>1
    <3>3. t - 1 \in Nat /\ t - 1 \notin T /\ t - 1 <= WordBytes
      BY <1>2, <3>1, <3>2
    <3>4. f[t - 1] \in Nat /\ d[t] = 0 /\ f[t] = Radix * f[t - 1] + d[t]
      BY <1>1, <1>2, <3>1, <3>2, <3>3
    <3>5. f[t] \in Nat
      BY <1>2, <3>4
    <3> QED
      BY <3>1, <3>5
  <2> QED
    BY <1>2, <2>1
<1>4. \A i \in 1 .. WordBytes : f[i] = Radix * f[i - 1]
  <2> TAKE i \in 1 .. WordBytes
  <2>1. i \in 0 .. WordBytes /\ i - 1 \in 0 .. WordBytes /\ i # 0 /\ d[i] = 0
    BY <1>2
  <2>2. f[i] = Radix * f[i - 1] + 0
    BY <1>1, <2>1
  <2> QED
    BY <1>2, <1>3, <2>1, <2>2
<1>5. f = [k \in 0 .. WordBytes |-> IF k = 0 THEN 1 ELSE Radix * f[k - 1]]
  <2>1. ASSUME NEW k \in 0 .. WordBytes PROVE f[k] = IF k = 0 THEN 1 ELSE Radix * f[k - 1]
    <3>1. CASE k = 0
      BY <1>1, <3>1
    <3>2. CASE k # 0
      BY <1>2, <1>4, <3>2
    <3> QED
      BY <3>1, <3>2
  <2>2. f = [k \in 0 .. WordBytes |-> f[k]]
    BY <1>1
  <2> QED
    BY <2>1, <2>2
<1>6. Pow = [k \in 0 .. WordBytes |-> IF k = 0 THEN 1 ELSE Radix * Pow[k - 1]]
  <2> HIDE DEF d
  <2> QED
    BY <1>5 DEF Pow
<1> QED
  BY <1>2, <1>6

LEMMA PowNat == \A k \in 0 .. WordBytes : Pow[k] \in Nat \ {0}
<1> DEFINE T == {i \in Nat : i <= WordBytes /\ Pow[i] \notin Nat \ {0}}
<1>1. WordBytes \in Nat /\ Radix \in Nat \ {0}
  BY ConstantsAre
<1>2. T = {}
  <2> SUFFICES ASSUME T # {} PROVE FALSE
    OBVIOUS
  <2>1. PICK t \in T : \A k \in T : t <= k
    BY LeastNat
  <2>2. t # 0
    BY <2>1, PowIs
  <2>3. t - 1 \in Nat /\ t - 1 \notin T /\ t - 1 <= WordBytes
    BY <1>1, <2>1, <2>2
  <2>4. Pow[t - 1] \in Nat \ {0} /\ Pow[t] = Radix * Pow[t - 1]
    BY <1>1, <2>1, <2>2, <2>3, PowIs
  <2>5. Pow[t] \in Nat \ {0}
    BY <1>1, <2>4
  <2> QED
    BY <2>1, <2>5
<1> QED
  BY <1>1, <1>2

LEMMA PowPlus ==
  \A i \in 0 .. WordBytes : \A k \in 0 .. (WordBytes - i) : Pow[i + k] = Pow[i] * Pow[k]
<1> SUFFICES ASSUME NEW i \in 0 .. WordBytes PROVE \A k \in 0 .. (WordBytes - i) : Pow[i + k] = Pow[i] * Pow[k]
  OBVIOUS
<1> DEFINE T == {k \in Nat : k <= WordBytes - i /\ Pow[i + k] # Pow[i] * Pow[k]}
<1>1. WordBytes \in Nat /\ Radix \in Nat /\ i \in Nat /\ i <= WordBytes /\ Pow[i] \in Nat
  BY ConstantsAre, PowNat
<1>2. T = {}
  <2> SUFFICES ASSUME T # {} PROVE FALSE
    OBVIOUS
  <2>1. PICK t \in T : \A k \in T : t <= k
    BY LeastNat
  <2>2. t # 0
    <3>1. Pow[i + 0] = Pow[i] * Pow[0]
      BY <1>1, PowIs
    <3> QED
      BY <2>1, <3>1
  <2>3. t - 1 \in Nat /\ t - 1 \notin T /\ t - 1 <= WordBytes - i /\ i + (t - 1) = (i + t) - 1
    BY <1>1, <2>1, <2>2
  <2>4. Pow[(i + t) - 1] = Pow[i] * Pow[t - 1]
    BY <2>3
  <2>5. t \in 1 .. WordBytes /\ i + t \in 1 .. WordBytes /\ t - 1 \in 0 .. WordBytes
    BY <1>1, <2>1, <2>2
  <2>6. Pow[t] = Radix * Pow[t - 1] /\ Pow[i + t] = Radix * Pow[(i + t) - 1] /\ Pow[t - 1] \in Nat
    BY <2>5, PowIs, PowNat
  <2>7. Radix * (Pow[i] * Pow[t - 1]) = Pow[i] * (Radix * Pow[t - 1])
    BY <1>1, <2>6
  <2> QED
    BY <2>1, <2>4, <2>6, <2>7
<1>3. ASSUME NEW k \in 0 .. (WordBytes - i) PROVE Pow[i + k] = Pow[i] * Pow[k]
  <2>1. k \in Nat /\ k <= WordBytes - i
    BY <1>1
  <2> QED
    BY <1>2, <2>1
<1> QED
  BY <1>3

LEMMA NumIs ==
  ASSUME NEW m, NEW a
  PROVE  /\ Num(m, a, 0) = 0
         /\ \A k \in 1 .. WordBytes : Num(m, a, k) = Radix * Num(m, a, k - 1) + m[a + k - 1]
<1> DEFINE d == [i \in 1 .. WordBytes |-> m[a + i - 1]]
           F(f) == f = [i \in 0 .. WordBytes |-> IF i = 0 THEN 0 ELSE Radix * f[i - 1] + m[a + i - 1]]
           sum == CHOOSE f : F(f)
<1>0. WordBytes \in Nat
  BY ConstantsAre
<1>1. PICK f : f = [i \in 0 .. WordBytes |-> IF i = 0 THEN 0 ELSE Radix * f[i - 1] + d[i]]
  <2>1. PICK f : Recurs(f, 0, d)
    BY Recurrence
  <2>2. f = [i \in 0 .. WordBytes |-> IF i = 0 THEN 0 ELSE Radix * f[i - 1] + d[i]]
    BY <2>1 DEF Recurs
  <2> HIDE DEF d
  <2> QED
    BY <2>2, Zenon
<1>2. F(f)
  <2>1. ASSUME NEW i \in 0 .. WordBytes
        PROVE  f[i] = IF i = 0 THEN 0 ELSE Radix * f[i - 1] + m[a + i - 1]
    <3>1. CASE i = 0
      BY <1>1, <3>1
    <3>2. CASE i # 0
      <4>1. i \in 1 .. WordBytes
        BY <1>0, <3>2
      <4>2. d[i] = m[a + i - 1]
        BY <4>1
      <4> HIDE DEF d
      <4> QED
        BY <1>1, <3>2, <4>2
    <3> QED
      BY <3>1, <3>2
  <2>2. f = [i \in 0 .. WordBytes |-> f[i]]
    BY <1>1
  <2> QED
    BY <2>1, <2>2
<1>3. F(sum)
  <2> HIDE DEF F
  <2> QED
    BY <1>2
<1>4. \A k : Num(m, a, k) = sum[k]
  BY DEF Num
<1>5. \A k \in 0 .. WordBytes : sum[k] = IF k = 0 THEN 0 ELSE Radix * sum[k - 1] + m[a + k - 1]
  <2> HIDE DEF sum
  <2> QED
    BY <1>3
<1> QED
  <2> HIDE DEF sum, F
  <2> QED
    BY <1>0, <1>4, <1>5

LEMMA NumNat ==
  ASSUME NEW m \in Memories, NEW a \in Nat, NEW k \in 0 .. WordBytes, a + k <= Size
  PROVE  Num(m, a, k) \in Nat /\ Num(m, a, k) < Pow[k]
<1> DEFINE T == {i \in Nat : i <= k /\ ~(Num(m, a, i) \in Nat /\ Num(m, a, i) < Pow[i])}
<1>1. WordBytes \in Nat /\ Radix \in Nat /\ Size \in Nat /\ k \in Nat /\ k <= WordBytes
  BY ConstantsAre
<1>2. T = {}
  <2> SUFFICES ASSUME T # {} PROVE FALSE
    OBVIOUS
  <2>1. PICK t \in T : \A i \in T : t <= i
    BY LeastNat
  <2>2. t # 0
    BY <2>1, NumIs, PowIs
  <2>3. t - 1 \in Nat /\ t - 1 \notin T /\ t - 1 <= k /\ t \in 1 .. WordBytes /\ t <= k
    BY <1>1, <2>1, <2>2
  <2>4. Num(m, a, t - 1) \in Nat /\ Num(m, a, t - 1) < Pow[t - 1]
    BY <2>3
  <2>5. Num(m, a, t) = Radix * Num(m, a, t - 1) + m[a + t - 1] /\ Pow[t] = Radix * Pow[t - 1]
    BY <2>3, NumIs, PowIs
  <2>6. m[a + t - 1] \in 0 .. (Radix - 1)
    <3>1. a + t - 1 \in 0 .. (Size - 1)
      BY <1>1, <2>3
    <3> QED
      BY <3>1 DEF Memories, Bytes, Size
  <2>7. Pow[t - 1] \in Nat
    <3>1. t - 1 \in 0 .. WordBytes
      BY <1>1, <2>3
    <3> QED
      BY <3>1, PowNat
  <2>8. /\ Radix * Num(m, a, t - 1) <= Radix * (Pow[t - 1] - 1)
        /\ Radix * (Pow[t - 1] - 1) = Radix * Pow[t - 1] - Radix
        /\ Radix * Num(m, a, t - 1) \in Nat /\ Radix * Pow[t - 1] \in Nat
    BY <1>1, <2>4, <2>7, TimesMonotone
  <2>9. Num(m, a, t) \in Nat /\ Num(m, a, t) < Pow[t]
    BY <1>1, <2>5, <2>6, <2>8
  <2> QED
    BY <2>1, <2>9
<1>3. k \notin T
  BY <1>2
<1> QED
  BY <1>1, <1>3

(* A number of i + k bytes is the one of the first i and the one of the rest. *)
LEMMA Split ==
  ASSUME NEW m \in Memories, NEW a \in Nat, NEW i \in Nat, NEW k \in Nat,
         i + k <= WordBytes, a + i + k <= Size
  PROVE  /\ Num(m, a, i + k) = Num(m, a, i) * Pow[k] + Num(m, a + i, k)
         /\ Num(m, a, i) \in Nat /\ Num(m, a, i) < Pow[i]
         /\ Num(m, a + i, k) \in Nat /\ Num(m, a + i, k) < Pow[k]
         /\ Pow[k] \in Nat \ {0} /\ Pow[i] \in Nat \ {0}
<1> DEFINE T == {j \in Nat : j <= k /\ Num(m, a, i + j) # Num(m, a, i) * Pow[j] + Num(m, a + i, j)}
<1>1. WordBytes \in Nat /\ Radix \in Nat /\ Size \in Nat
  BY ConstantsAre
<1>2. Num(m, a, i) \in Nat /\ Num(m, a, i) < Pow[i]
  <2>1. i \in 0 .. WordBytes /\ a + i <= Size
    BY <1>1
  <2> QED
    BY <2>1, NumNat
<1>3. ASSUME NEW j \in 0 .. k
      PROVE  /\ Num(m, a + i, j) \in Nat /\ Num(m, a + i, j) < Pow[j]
             /\ Pow[j] \in Nat \ {0}
  <2>1. j \in 0 .. WordBytes /\ (a + i) + j <= Size /\ a + i \in Nat
    BY <1>1
  <2> QED
    BY <2>1, NumNat, PowNat
<1>4. T = {}
  <2> SUFFICES ASSUME T # {} PROVE FALSE
    OBVIOUS
  <2>1. PICK t \in T : \A j \in T : t <= j
    BY LeastNat
  <2>2. t # 0
    <3>1. i + 0 = i /\ Num(m, a, i) * 1 + 0 = Num(m, a, i)
      BY <1>2
    <3>2. Num(m, a, i + 0) = Num(m, a, i) * Pow[0] + Num(m, a + i, 0)
      BY <3>1, NumIs, PowIs
    <3> QED
      BY <2>1, <3>2
  <2>3. /\ t - 1 \in Nat /\ t - 1 \notin T /\ t - 1 <= k /\ t \in 1 .. WordBytes
        /\ i + t \in 1 .. WordBytes /\ i + (t - 1) = (i + t) - 1
        /\ (a + i) + t - 1 = a + (i + t) - 1 /\ t - 1 \in 0 .. k
    BY <1>1, <2>1, <2>2
  <2>4. Num(m, a, (i + t) - 1) = Num(m, a, i) * Pow[t - 1] + Num(m, a + i, t - 1)
    BY <2>3
  <2>5. /\ Num(m, a, i + t) = Radix * Num(m, a, (i + t) - 1) + m[a + (i + t) - 1]
        /\ Num(m, a + i, t) = Radix * Num(m, a + i, t - 1) + m[(a + i) + t - 1]
        /\ Pow[t] = Radix * Pow[t - 1]
    <3>1. Num(m, a, i + t) = Radix * Num(m, a, (i + t) - 1) + m[a + (i + t) - 1]
      BY ZenonT(60), <2>3, NumIs
    <3>2. Num(m, a + i, t) = Radix * Num(m, a + i, t - 1) + m[(a + i) + t - 1]
      BY ZenonT(60), <2>3, NumIs
    <3> QED
      BY <2>3, <3>1, <3>2, PowIs
  <2>6. m[a + (i + t) - 1] \in Int
    <3>1. a + (i + t) - 1 \in 0 .. (Size - 1)
      BY <1>1, <2>1, <2>3
    <3>2. m[a + (i + t) - 1] \in 0 .. (Radix - 1)
      BY <3>1 DEF Memories, Bytes, Size
    <3> QED
      BY <1>1, <3>2
  <2>7. /\ Radix * (Num(m, a, i) * Pow[t - 1] + Num(m, a + i, t - 1))
             = Num(m, a, i) * (Radix * Pow[t - 1]) + Radix * Num(m, a + i, t - 1)
        /\ Num(m, a, i) * (Radix * Pow[t - 1]) \in Int /\ Radix * Num(m, a + i, t - 1) \in Int
    BY <1>1, <1>2, <1>3, <2>3
  <2>8. Num(m, a, i + t) = Num(m, a, i) * Pow[t] + Num(m, a + i, t)
    BY <2>3, <2>4, <2>5, <2>6, <2>7
  <2> QED
    BY <2>1, <2>8
<1>5. k \notin T /\ k \in 0 .. k /\ i \in 0 .. WordBytes
  BY <1>1, <1>4
<1> QED
  BY <1>2, <1>3, <1>5, PowNat

LEMMA Agree ==
  ASSUME NEW m, NEW m2, NEW a \in Nat, NEW k \in 0 .. WordBytes,
         \A b \in a .. (a + k - 1) : m2[b] = m[b]
  PROVE  Num(m2, a, k) = Num(m, a, k)
<1> DEFINE T == {i \in Nat : i <= k /\ Num(m2, a, i) # Num(m, a, i)}
<1>1. WordBytes \in Nat /\ k \in Nat /\ k <= WordBytes
  BY ConstantsAre
<1>2. T = {}
  <2> SUFFICES ASSUME T # {} PROVE FALSE
    OBVIOUS
  <2>1. PICK t \in T : \A i \in T : t <= i
    BY LeastNat
  <2>2. t # 0
    BY <2>1, NumIs
  <2>3. /\ t - 1 \in Nat /\ t - 1 \notin T /\ t - 1 <= k /\ t \in 1 .. WordBytes
        /\ a + t - 1 \in a .. (a + k - 1)
    BY <1>1, <2>1, <2>2
  <2>4. /\ Num(m, a, t) = Radix * Num(m, a, t - 1) + m[a + t - 1]
        /\ Num(m2, a, t) = Radix * Num(m2, a, t - 1) + m2[a + t - 1]
    BY <2>3, NumIs
  <2>5. m2[a + t - 1] = m[a + t - 1]
    BY <2>3
  <2> QED
    BY <2>1, <2>3, <2>4, <2>5
<1>3. k \notin T
  BY <1>2
<1> QED
  BY <1>1, <1>3

LEMMA WordIs == Word \in Nat \ {0} /\ Word = Pow[WordBytes]
<1>1. WordBytes \in 0 .. WordBytes
  BY ConstantsAre
<1> QED
  BY <1>1, PowNat DEF Word

LEMMA AddressesAre ==
  /\ Addresses = 0 .. (Size - WordBytes) /\ Bytes = 0 .. (Size - 1)
  /\ Value = 0 .. (Word - 1)
  BY ConstantsAre DEF Addresses, Bytes, Size, Value

LEMMA RdType ==
  ASSUME NEW m \in Memories, NEW a \in Addresses
  PROVE  Rd(m, a) \in Value
<1>1. a \in Nat /\ a + WordBytes <= Size /\ WordBytes \in 0 .. WordBytes
  BY ConstantsAre, AddressesAre
<1>2. Num(m, a, WordBytes) \in Nat /\ Num(m, a, WordBytes) < Pow[WordBytes]
  BY <1>1, NumNat
<1> QED
  BY <1>2, WordIs DEF Rd, Value

LEMMA WrIs ==
  ASSUME NEW m \in Memories, NEW a \in Addresses, NEW v \in Value
  PROVE  /\ Wr(m, a, v) \in Memories
         /\ \A b \in Bytes : b \notin a .. (a + WordBytes - 1) => Wr(m, a, v)[b] = m[b]
         /\ \A b \in a .. (a + WordBytes - 1) :
              /\ Wr(m, a, v)[b] = (v \div Pow[a + WordBytes - 1 - b]) % Radix
              /\ b \in Bytes
<1>1. /\ DOMAIN m = Bytes /\ a \in Nat /\ a + WordBytes <= Size /\ WordBytes \in Nat /\ v \in Nat
      /\ Radix \in Nat /\ Radix >= 2 /\ Size \in Nat
  BY ConstantsAre, AddressesAre, WordIs DEF Memories
<1>2. ASSUME NEW b \in a .. (a + WordBytes - 1)
      PROVE  b \in Bytes /\ (v \div Pow[a + WordBytes - 1 - b]) % Radix \in 0 .. (Radix - 1)
  <2>1. a + WordBytes - 1 - b \in 0 .. WordBytes /\ b \in 0 .. (Size - 1)
    BY <1>1
  <2>2. Pow[a + WordBytes - 1 - b] \in Nat \ {0}
    BY <2>1, PowNat
  <2> DEFINE d == v \div Pow[a + WordBytes - 1 - b]
  <2>3. d \in Nat
    BY <1>1, <2>2, DivIs
  <2> HIDE DEF d
  <2>4. d % Radix \in 0 .. (Radix - 1)
    BY <1>1, <2>3, DivIs
  <2> QED
    BY <2>1, <2>4, AddressesAre DEF d
<1> DEFINE w == [b \in Bytes |-> IF b \in a .. (a + WordBytes - 1)
                                 THEN (v \div Pow[a + WordBytes - 1 - b]) % Radix ELSE m[b]]
<1>3. Wr(m, a, v) = w
  BY <1>1 DEF Wr
<1>4. w \in Memories
  <2>1. ASSUME NEW b \in Bytes PROVE w[b] \in 0 .. (Radix - 1)
    <3>1. CASE b \in a .. (a + WordBytes - 1)
      BY <1>2, <3>1
    <3>2. CASE b \notin a .. (a + WordBytes - 1)
      BY <3>2 DEF Memories
    <3> QED
      BY <3>1, <3>2
  <2> QED
    BY <2>1 DEF Memories
<1>5. \A b \in Bytes : b \notin a .. (a + WordBytes - 1) => w[b] = m[b]
  OBVIOUS
<1>6. \A b \in a .. (a + WordBytes - 1) : w[b] = (v \div Pow[a + WordBytes - 1 - b]) % Radix
  BY <1>2
<1> HIDE DEF w
<1> QED
  BY <1>2, <1>3, <1>4, <1>5, <1>6

(* What the first k bytes of a stored word are. *)
LEMMA WrNum ==
  ASSUME NEW m \in Memories, NEW a \in Addresses, NEW v \in Value, NEW k \in 0 .. WordBytes
  PROVE  Num(Wr(m, a, v), a, k) = v \div Pow[WordBytes - k]
<1> DEFINE w == Wr(m, a, v)
           T == {i \in Nat : i <= k /\ Num(w, a, i) # v \div Pow[WordBytes - i]}
<1>1. /\ WordBytes \in Nat /\ Radix \in Nat /\ Radix >= 2 /\ k \in Nat /\ k <= WordBytes
      /\ v \in Nat /\ v < Word /\ a \in Nat
  BY ConstantsAre, AddressesAre, WordIs
<1>2. T = {}
  <2> SUFFICES ASSUME T # {} PROVE FALSE
    OBVIOUS
  <2>1. PICK t \in T : \A i \in T : t <= i
    BY LeastNat
  <2>2. t # 0
    <3>1. v \div Pow[WordBytes] = 0
      <4>1. Pow[WordBytes] * 0 <= v /\ v < Pow[WordBytes] * 0 + Pow[WordBytes]
        BY <1>1, WordIs
      <4> QED
        BY <1>1, <4>1, WordIs, DivUnique
    <3>2. WordBytes - 0 = WordBytes
      BY <1>1
    <3> QED
      BY <2>1, <3>1, <3>2, NumIs
  <2>3. /\ t - 1 \in Nat /\ t - 1 \notin T /\ t - 1 <= k /\ t \in 1 .. WordBytes
        /\ a + t - 1 \in a .. (a + WordBytes - 1)
        /\ a + WordBytes - 1 - (a + t - 1) = WordBytes - t
        /\ WordBytes - (t - 1) \in 1 .. WordBytes /\ (WordBytes - (t - 1)) - 1 = WordBytes - t
        /\ WordBytes - t \in 0 .. WordBytes
    BY <1>1, <2>1, <2>2
  <2> DEFINE p == Pow[WordBytes - t]
             d == v \div p
  <2>4. p \in Nat \ {0} /\ Pow[WordBytes - (t - 1)] = Radix * p
    BY <2>3, PowIs, PowNat
  <2>5. Num(w, a, t - 1) = v \div (Radix * p)
    BY <2>3, <2>4
  <2>6. v \div (Radix * p) = d \div Radix
    <3>1. Radix \in Nat \ {0}
      BY <1>1
    <3> HIDE DEF p
    <3> QED
      BY <1>1, <2>4, <3>1, DivTwice
  <2>7. d \in Nat
    <3> HIDE DEF p
    <3> QED
      BY <1>1, <2>4, DivIs
  <2>8. Num(w, a, t) = Radix * Num(w, a, t - 1) + w[a + t - 1]
    BY <2>3, NumIs
  <2>9. w[a + t - 1] = d % Radix
    BY <2>3, WrIs
  <2> HIDE DEF w, d, p
  <2>10. d = Radix * (d \div Radix) + (d % Radix)
    BY <1>1, <2>7, DivIs
  <2>11. Num(w, a, t) = d
    BY <2>5, <2>6, <2>8, <2>9, <2>10
  <2> QED
    BY <2>1, <2>11 DEF d, p
<1>3. k \notin T
  BY <1>2
<1> QED
  BY <1>1, <1>3

LEMMA RdWr ==
  ASSUME NEW m \in Memories, NEW a \in Addresses, NEW v \in Value
  PROVE  Rd(Wr(m, a, v), a) = v
<1>1. WordBytes \in 0 .. WordBytes /\ WordBytes - WordBytes = 0 /\ v \in Nat
  BY ConstantsAre, AddressesAre, WordIs
<1>2. Num(Wr(m, a, v), a, WordBytes) = v \div Pow[WordBytes - WordBytes]
  BY <1>1, WrNum
<1>3. v \div 1 = v
  BY <1>1
<1> QED
  BY <1>1, <1>2, <1>3, PowIs DEF Rd

(* Words are equal where their bytes are. *)
LEMMA RdAgree ==
  ASSUME NEW m, NEW m2, NEW a \in Addresses, \A b \in a .. (a + WordBytes - 1) : m2[b] = m[b]
  PROVE  Rd(m2, a) = Rd(m, a)
<1>1. WordBytes \in 0 .. WordBytes /\ a \in Nat
  BY ConstantsAre, AddressesAre
<1> QED
  BY <1>1, Agree DEF Rd

LEMMA RdFrame ==
  ASSUME NEW m \in Memories, NEW a \in Addresses, NEW v \in Value, NEW b \in Addresses,
         a + WordBytes <= b \/ b + WordBytes <= a
  PROVE  Rd(Wr(m, a, v), b) = Rd(m, b)
<1>1. a \in Nat /\ b \in Nat /\ WordBytes \in Nat /\ b + WordBytes <= Size /\ Size \in Nat
  BY ConstantsAre, AddressesAre
<1>2. ASSUME NEW c \in b .. (b + WordBytes - 1) PROVE Wr(m, a, v)[c] = m[c]
  <2>1. c \in Bytes /\ c \notin a .. (a + WordBytes - 1)
    BY <1>1, AddressesAre
  <2> QED
    BY <2>1, WrIs
<1> QED
  BY <1>2, RdAgree

(* A byte is a digit of the word it is in. *)
LEMMA Digit ==
  ASSUME NEW m \in Memories, NEW a \in Addresses, NEW b \in a .. (a + WordBytes - 1)
  PROVE  m[b] = (Rd(m, a) \div Pow[a + WordBytes - 1 - b]) % Radix
<1> DEFINE i == b - a
           k == WordBytes - 1 - i
<1>1. /\ a \in Nat /\ WordBytes \in Nat /\ a + WordBytes <= Size /\ i \in Nat /\ k \in Nat
      /\ (i + 1) + k = WordBytes /\ i + 1 \in Nat /\ a + WordBytes - 1 - b = k /\ i + 1 \in 1 .. WordBytes
      /\ a + (i + 1) - 1 = b /\ (i + 1) - 1 = i /\ a + (i + 1) + k <= Size
      /\ Radix \in Nat \ {0} /\ b \in 0 .. (Size - 1) /\ i \in 0 .. WordBytes /\ a + i <= Size
  BY ConstantsAre, AddressesAre
<1> HIDE DEF i, k
<1>2. /\ Num(m, a, (i + 1) + k) = Num(m, a, i + 1) * Pow[k] + Num(m, a + (i + 1), k)
      /\ Num(m, a, i + 1) \in Nat
      /\ Num(m, a + (i + 1), k) \in Nat /\ Num(m, a + (i + 1), k) < Pow[k] /\ Pow[k] \in Nat \ {0}
  BY <1>1, Split
<1>3. Num(m, a, (i + 1) + k) \div Pow[k] = Num(m, a, i + 1)
  BY <1>2, Parts
<1>4. Num(m, a, i + 1) = Radix * Num(m, a, i) + m[b]
  BY ZenonT(60), <1>1, NumIs
<1>5. m[b] \in Nat /\ m[b] < Radix
  <2>1. m[b] \in 0 .. (Radix - 1)
    BY <1>1, AddressesAre DEF Memories
  <2> QED
    BY <1>1, <2>1
<1>6. Num(m, a, i) \in Nat
  BY <1>1, NumNat
<1>7. Radix * Num(m, a, i) = Num(m, a, i) * Radix
  BY <1>1, <1>6
<1>8. Num(m, a, i + 1) % Radix = m[b]
  <2>1. (Num(m, a, i) * Radix + m[b]) % Radix = m[b]
    BY <1>1, <1>5, <1>6, Parts
  <2> QED
    BY <1>4, <1>7, <2>1
<1> QED
  BY <1>1, <1>3, <1>8 DEF Rd

(* A memory that has what another has, but for one word, has it all once     *)
(* that word is stored.                                                      *)
LEMMA WrRest ==
  ASSUME NEW m \in Memories, NEW m2 \in Memories, NEW a \in Addresses,
         \A b \in Bytes : b \notin a .. (a + WordBytes - 1) => m2[b] = m[b]
  PROVE  Wr(m2, a, Rd(m, a)) = m
<1>1. Rd(m, a) \in Value
  BY RdType
<1>2. ASSUME NEW b \in Bytes PROVE Wr(m2, a, Rd(m, a))[b] = m[b]
  <2>1. CASE b \in a .. (a + WordBytes - 1)
    BY <1>1, <2>1, Digit, WrIs
  <2>2. CASE b \notin a .. (a + WordBytes - 1)
    BY <1>1, <2>2, WrIs
  <2> QED
    BY <2>1, <2>2
<1>3. Wr(m2, a, Rd(m, a)) \in Memories
  BY <1>1, WrIs
<1> QED
  BY <1>2, <1>3 DEF Memories

-----------------------------------------------------------------------------
(* Words in memory *)

LEMMA DownIs ==
  ASSUME NEW b \in Bytes
  PROVE  Down(b) \in Words /\ Down(b) \in Nat /\ Down(b) <= b /\ b < Down(b) + WordBytes
<1>1. /\ b \in Nat /\ b <= MemWords * WordBytes - 1 /\ WordBytes \in Nat \ {0} /\ MemWords \in Nat \ {0}
  BY ConstantsAre, AddressesAre DEF Size
<1> DEFINE q == b \div WordBytes
           r == b % WordBytes
<1>2. q \in Nat /\ r \in Nat /\ r < WordBytes /\ b = WordBytes * q + r
  <2>1. q \in Nat /\ r \in 0 .. WordBytes - 1 /\ b = WordBytes * q + r
    BY <1>1, DivIs
  <2> HIDE DEF q, r
  <2> QED
    BY <1>1, <2>1
<1>3. Down(b) = b - r
  BY DEF Down
<1> HIDE DEF q, r
<1>4. WordBytes * q \in Nat /\ q * WordBytes = WordBytes * q
  BY <1>1, <1>2
<1>5. Down(b) = q * WordBytes
  BY <1>1, <1>2, <1>3, <1>4
<1>6. q <= MemWords - 1
  <2>1. SUFFICES ASSUME MemWords <= q PROVE FALSE
    BY <1>1, <1>2
  <2>2. WordBytes * MemWords <= WordBytes * q /\ WordBytes * MemWords = MemWords * WordBytes
        /\ MemWords * WordBytes \in Nat
    BY <1>1, <1>2, <2>1, TimesMonotone
  <2> QED
    BY <1>1, <1>2, <1>4, <2>2
<1>7. q \in 0 .. (MemWords - 1)
  BY <1>1, <1>2, <1>6
<1>8. Down(b) \in Words
  BY <1>5, <1>7 DEF Words
<1>9. Down(b) \in Nat /\ Down(b) <= b /\ b < Down(b) + WordBytes
  <2> DEFINE d == WordBytes * q
  <2>1. d \in Nat /\ b = d + r /\ Down(b) = b - r
    BY <1>2, <1>3, <1>4
  <2> HIDE DEF d
  <2> QED
    BY <1>1, <1>2, <2>1
<1> QED
  BY <1>8, <1>9

LEMMA WordsAre ==
  ASSUME NEW w \in Words
  PROVE  w \in Addresses /\ w \in Nat /\ w + WordBytes <= Size /\ Aligned(w)
<1>1. PICK q \in 0 .. (MemWords - 1) : w = q * WordBytes
  BY DEF Words
<1>2. /\ q \in Nat /\ q <= MemWords - 1 /\ WordBytes \in Nat \ {0} /\ MemWords \in Nat \ {0}
      /\ Size \in Nat /\ (MemWords - 1) * WordBytes = Size - WordBytes
  BY ConstantsAre
<1>3. w \in Nat /\ w = WordBytes * q /\ w = q * WordBytes + 0
  BY <1>1, <1>2
<1>4. WordBytes * q <= WordBytes * (MemWords - 1) /\ WordBytes * (MemWords - 1) = (MemWords - 1) * WordBytes
  BY <1>2, TimesMonotone
<1>5. (q * WordBytes + 0) % WordBytes = 0
  BY <1>2, Parts
<1> QED
  BY <1>2, <1>3, <1>4, <1>5, AddressesAre DEF Aligned

LEMMA AlignedIs ==
  ASSUME NEW a \in Addresses
  PROVE  a \in Bytes /\ (Aligned(a) <=> a \in Words) /\ (Aligned(a) => Down(a) = a)
<1>1. a \in Bytes /\ a \in Nat
  BY ConstantsAre, AddressesAre
<1>2. Aligned(a) => Down(a) = a
  BY <1>1 DEF Aligned, Down
<1> QED
  BY <1>1, <1>2, DownIs, WordsAre

LEMMA WordsApart ==
  ASSUME NEW w \in Words, NEW p \in Words, w # p
  PROVE  w + WordBytes <= p \/ p + WordBytes <= w
<1>1. PICK i \in 0 .. (MemWords - 1) : w = i * WordBytes
  BY DEF Words
<1>2. PICK k \in 0 .. (MemWords - 1) : p = k * WordBytes
  BY DEF Words
<1>3. i \in Nat /\ k \in Nat /\ WordBytes \in Nat
  BY ConstantsAre
<1>4. CASE i < k
  <2>1. WordBytes * (i + 1) <= WordBytes * k /\ WordBytes * (i + 1) = i * WordBytes + WordBytes
        /\ WordBytes * k = k * WordBytes
    BY <1>3, <1>4, TimesMonotone
  <2> QED
    BY <1>1, <1>2, <2>1
<1>5. CASE k < i
  <2>1. WordBytes * (k + 1) <= WordBytes * i /\ WordBytes * (k + 1) = k * WordBytes + WordBytes
        /\ WordBytes * i = i * WordBytes
    BY <1>3, <1>5, TimesMonotone
  <2> QED
    BY <1>1, <1>2, <2>1
<1> QED
  BY <1>1, <1>2, <1>3, <1>4, <1>5

LEMMA DownUnique ==
  ASSUME NEW b \in Bytes, NEW w \in Words
  PROVE  Down(b) = w <=> b \in w .. (w + WordBytes - 1)
<1>1. /\ Down(b) \in Words /\ Down(b) \in Nat /\ Down(b) <= b /\ b < Down(b) + WordBytes
      /\ w \in Nat /\ b \in Nat /\ WordBytes \in Nat
  BY ConstantsAre, AddressesAre, DownIs, WordsAre
<1>2. Down(b) # w => w + WordBytes <= Down(b) \/ Down(b) + WordBytes <= w
  BY <1>1, WordsApart
<1> QED
  BY <1>1, <1>2

(* An unaligned address lies k bytes into a word, and spans the next.        *)
LEMMA Unaligned ==
  ASSUME NEW a \in Addresses, ~Aligned(a)
  PROVE  /\ a % WordBytes \in 1 .. (WordBytes - 1) /\ a = Down(a) + (a % WordBytes)
         /\ Down(a) \in Words /\ Down(a) + WordBytes \in Words
         /\ SpanOf(a) = {Down(a), Down(a) + WordBytes}
<1> DEFINE k == a % WordBytes
           b == a + WordBytes - 1
<1>1. /\ a \in Bytes /\ b \in Bytes /\ a \in Nat /\ WordBytes \in Nat \ {0} /\ k \in 0 .. WordBytes - 1
      /\ Down(a) = a - k /\ k # 0
  <2>1. a \in Bytes /\ b \in Bytes /\ a \in Nat /\ WordBytes \in Nat \ {0}
    BY ConstantsAre, AddressesAre
  <2>2. k \in 0 .. WordBytes - 1
    BY <2>1, DivIs
  <2> QED
    BY <2>1, <2>2 DEF Aligned, Down
<1> HIDE DEF k
<1>2. Down(a) \in Words /\ Down(b) \in Words /\ Down(b) <= b /\ b < Down(b) + WordBytes
      /\ Down(a) \in Nat /\ Down(b) \in Nat
  BY <1>1, DownIs
<1>3. Down(a) # Down(b)
  BY <1>1, <1>2
<1>4. Down(a) + WordBytes <= Down(b)
  <2>1. Down(a) + WordBytes <= Down(b) \/ Down(b) + WordBytes <= Down(a)
    BY <1>2, <1>3, WordsApart
  <2> QED
    BY <1>1, <1>2, <2>1
<1>5. Down(b) = Down(a) + WordBytes
  <2>1. PICK i \in 0 .. (MemWords - 1) : Down(a) = i * WordBytes
    BY <1>2 DEF Words
  <2>2. i < MemWords - 1
    <3>1. SUFFICES ASSUME i = MemWords - 1 PROVE FALSE
      BY ConstantsAre
    <3> QED
      BY <1>1, <1>2, <1>4, <2>1, <3>1, ConstantsAre, AddressesAre
  <2>3. i + 1 \in 0 .. (MemWords - 1) /\ (i + 1) * WordBytes = i * WordBytes + WordBytes
    BY <2>2, ConstantsAre
  <2>4. Down(a) + WordBytes \in Words
    BY <2>1, <2>3 DEF Words
  <2>5. b \in (Down(a) + WordBytes) .. (Down(a) + WordBytes + WordBytes - 1)
    BY <1>1, <1>2, <1>4
  <2> QED
    BY <1>1, <2>4, <2>5, DownUnique
<1> HIDE DEF b
<1>6. SpanOf(a) = {Down(a), Down(b)}
  BY DEF SpanOf, b
<1>7. k \in 1 .. (WordBytes - 1) /\ a = Down(a) + k
  BY <1>1
<1> QED
  BY <1>2, <1>5, <1>6, <1>7 DEF k

LEMMA SpanIs ==
  ASSUME NEW a \in Addresses
  PROVE  /\ SpanOf(a) \subseteq Words
         /\ Aligned(a) => SpanOf(a) = {a}
         /\ \A b \in a .. (a + WordBytes - 1) : b \in Bytes /\ Down(b) \in SpanOf(a)
<1>1. /\ a \in Nat /\ WordBytes \in Nat \ {0} /\ a + WordBytes <= Size /\ Size \in Nat
  BY ConstantsAre, AddressesAre
<1>2. \A b \in a .. (a + WordBytes - 1) : b \in Bytes
  BY <1>1, AddressesAre
<1>3. CASE Aligned(a)
  <2>1. a \in Words /\ Down(a) = a
    BY <1>3, AlignedIs
  <2>2. \A b \in a .. (a + WordBytes - 1) : Down(b) = a
    BY <1>2, <2>1, DownUnique
  <2>3. a + WordBytes - 1 \in a .. (a + WordBytes - 1)
    BY <1>1
  <2>4. SpanOf(a) = {a}
    BY <2>1, <2>2, <2>3 DEF SpanOf
  <2> QED
    BY <1>2, <2>1, <2>2, <2>4
<1>4. CASE ~Aligned(a)
  <2>1. /\ SpanOf(a) = {Down(a), Down(a) + WordBytes}
        /\ Down(a) \in Words /\ Down(a) + WordBytes \in Words
        /\ a % WordBytes \in 1 .. (WordBytes - 1) /\ a = Down(a) + (a % WordBytes)
    BY <1>4, Unaligned
  <2>2. Down(a) \in Nat
    BY <2>1, WordsAre
  <2>3. ASSUME NEW b \in a .. (a + WordBytes - 1) PROVE Down(b) \in SpanOf(a)
    <3>1. b \in Down(a) .. (Down(a) + WordBytes - 1)
          \/ b \in (Down(a) + WordBytes) .. (Down(a) + WordBytes + WordBytes - 1)
      BY <1>1, <2>1, <2>2
    <3> QED
      BY <1>2, <2>1, <3>1, DownUnique
  <2> QED
    BY <1>2, <1>4, <2>1, <2>3
<1> QED
  BY <1>3, <1>4

(* The word a store reaches is in the page of its first byte or in the next. *)
LEMMA PageOfSpan ==
  ASSUME NEW a \in Addresses, NEW w \in SpanOf(a)
  PROVE  Page(a) \in {Page(w), Page(w) - 1}
<1> DEFINE P == PageBytes
           k == P \div WordBytes
           p == w \div P
           e == P * p
<1>1. /\ a \in Nat /\ WordBytes \in Nat \ {0}
      /\ w \in Words /\ w \in Nat
  BY ConstantsAre, AddressesAre, SpanIs, WordsAre
<1>2. w <= a + WordBytes - 1 /\ a < w + WordBytes
  <2> DEFINE b == a + WordBytes - 1
  <2>1. a \in Bytes /\ b \in Bytes /\ b \in Nat
    BY <1>1, SpanIs
  <2>2. Down(a) \in Nat /\ Down(a) <= a /\ a < Down(a) + WordBytes
        /\ Down(b) \in Nat /\ Down(b) <= b /\ b < Down(b) + WordBytes
    BY <2>1, DownIs
  <2>3. CASE w = Down(a)
    BY <1>1, <2>2, <2>3
  <2>4. CASE w = Down(b)
    BY <1>1, <2>2, <2>4
  <2> QED
    BY <2>3, <2>4 DEF SpanOf
<1>3. /\ P \in Nat \ {0} /\ k \in Nat /\ P = WordBytes * k /\ WordBytes <= P
  <2>1. P \in Nat \ {0} /\ P % WordBytes = 0
    BY BlockAssumption
  <2>2. k \in Nat /\ P = WordBytes * k + (P % WordBytes)
    BY <1>1, <2>1, DivIs
  <2> HIDE DEF P, k
  <2>3. P = WordBytes * k /\ k # 0
    BY <1>1, <2>1, <2>2
  <2>4. WordBytes * 1 <= WordBytes * k
    BY <1>1, <2>2, <2>3, TimesMonotone
  <2>5. WordBytes <= P
    BY <1>1, <2>3, <2>4
  <2> QED
    BY <2>1, <2>2, <2>3, <2>5
<1>4. /\ p \in Nat /\ e \in Nat /\ e <= w /\ w < e + P
  <2>1. P \in Nat \ {0} /\ w \in Nat
    BY <1>1, <1>3
  <2> HIDE DEF P
  <2>2. w \div P \in Nat /\ P * (w \div P) <= w /\ w < P * (w \div P) + P
    BY <2>1, DivIs
  <2> HIDE DEF p
  <2>3. p \in Nat
    BY <2>2 DEF p
  <2>4. e \in Nat
    BY <2>1, <2>3
  <2> QED
    BY <2>2, <2>3, <2>4 DEF p
<1>5. w + WordBytes <= e + P
  <2>1. PICK i \in 0 .. (MemWords - 1) : w = i * WordBytes
    BY <1>1 DEF Words
  <2>2. i \in Nat /\ w = WordBytes * i
    BY <1>1, <2>1, ConstantsAre
  <2> HIDE DEF P, k, p
  <2>3. PICK c \in Nat : e + P = WordBytes * c
    <3>1. k * p + k \in Nat
      BY <1>3, <1>4
    <3>2. e + P = WordBytes * (k * p + k)
      BY <1>1, <1>3, <1>4
    <3> QED
      BY <3>1, <3>2
  <2> HIDE DEF e
  <2>4. i < c
    <3> SUFFICES ASSUME c <= i PROVE FALSE
      BY <2>2, <2>3
    <3>1. WordBytes * c <= WordBytes * i
      BY <1>1, <2>2, <2>3, TimesMonotone
    <3> QED
      BY <1>1, <1>3, <1>4, <2>2, <2>3, <3>1
  <2>5. WordBytes * (i + 1) <= WordBytes * c /\ WordBytes * (i + 1) = WordBytes * i + WordBytes
    BY <1>1, <2>2, <2>3, <2>4, TimesMonotone
  <2> QED
    BY <2>2, <2>3, <2>5
<1>6. P * (p - 1) = e - P
  <2> HIDE DEF P, p
  <2> QED
    BY <1>3, <1>4
<1> HIDE DEF P, k, p, e
<1>7. CASE e <= a
  <2>1. a < e + P
    BY <1>1, <1>2, <1>3, <1>4, <1>5
  <2>2. a \div P = p
    BY <1>1, <1>3, <1>4, <1>7, <2>1, DivUnique DEF e
  <2> QED
    BY <2>2 DEF Page, P, p
<1>8. CASE a < e
  <2>1. e - P <= a
    BY <1>1, <1>2, <1>3, <1>4
  <2>2. P * (p - 1) <= a /\ a < P * (p - 1) + P /\ p - 1 \in Int
    BY <1>1, <1>3, <1>4, <1>6, <1>8, <2>1
  <2>3. a \div P = p - 1
    BY <1>1, <1>3, <2>2, DivUnique
  <2> QED
    BY <2>3 DEF Page, P, p
<1> QED
  BY <1>1, <1>4, <1>7, <1>8

(* A store changes no word it does not span. *)
LEMMA RdApart ==
  ASSUME NEW m \in Memories, NEW a \in Addresses, NEW v \in Value, NEW b \in Addresses,
         SpanOf(a) \cap SpanOf(b) = {}
  PROVE  Rd(Wr(m, a, v), b) = Rd(m, b)
<1>1. ASSUME NEW c \in b .. (b + WordBytes - 1) PROVE Wr(m, a, v)[c] = m[c]
  <2>1. c \in Bytes /\ Down(c) \in SpanOf(b)
    BY SpanIs
  <2>2. c \notin a .. (a + WordBytes - 1)
    BY <2>1, SpanIs
  <2> QED
    BY <2>1, <2>2, WrIs
<1> QED
  BY <1>1, RdAgree

LEMMA PowParts ==
  ASSUME NEW k \in 0 .. WordBytes
  PROVE  /\ WordBytes - k \in 0 .. WordBytes
         /\ Pow[k] \in Nat \ {0} /\ Pow[WordBytes - k] \in Nat \ {0}
         /\ Pow[WordBytes - k] * Pow[k] = Word
<1>1. /\ WordBytes \in Nat /\ WordBytes - k \in 0 .. WordBytes /\ k \in 0 .. (WordBytes - (WordBytes - k))
      /\ (WordBytes - k) + k = WordBytes
  BY ConstantsAre
<1>2. Pow[(WordBytes - k) + k] = Pow[WordBytes - k] * Pow[k]
  BY <1>1, PowPlus
<1> QED
  BY <1>1, <1>2, PowNat, WordIs

LEMMA ShiftType ==
  ASSUME NEW v \in Value, NEW k \in 0 .. WordBytes
  PROVE  Shl(v, k) \in Value /\ Shr(v, k) \in Value
<1>1. /\ v \in Nat /\ v < Word /\ Word \in Nat \ {0} /\ Pow[k] \in Nat \ {0}
  BY AddressesAre, PowParts, WordIs
<1>2. v * Pow[k] \in Nat
  BY <1>1
<1>3. Shl(v, k) \in Value
  BY <1>1, <1>2, DivIs DEF Shl, Value
<1> DEFINE d == v \div Pow[k]
<1>4. d \in Nat /\ Pow[k] * d <= v
  BY <1>1, DivIs
<1> HIDE DEF d
<1>5. d * 1 <= d * Pow[k] /\ d * Pow[k] = Pow[k] * d
  BY <1>1, <1>4, TimesMonotone
<1>6. d \in Value
  BY <1>1, <1>4, <1>5 DEF Value
<1> QED
  BY <1>3, <1>6 DEF Shr, d

(* What is shifted out on the left is lost. *)
LEMMA ShlIs ==
  ASSUME NEW k \in 0 .. WordBytes, NEW q \in Nat, NEW r \in Nat, r < Pow[WordBytes - k]
  PROVE  /\ Shl(q * Pow[WordBytes - k] + r, k) = r * Pow[k]
         /\ r * Pow[k] \in Nat /\ r * Pow[k] + Pow[k] <= Word
<1> DEFINE p == Pow[WordBytes - k]
           u == Pow[k]
<1>1. p \in Nat \ {0} /\ u \in Nat \ {0} /\ p * u = Word /\ Word \in Nat \ {0}
  BY PowParts, WordIs
<1>2. Shl(q * p + r, k) = ((q * p + r) * u) % Word
  BY DEF Shl
<1>3. r < p
  OBVIOUS
<1> HIDE DEF p, u
<1>4. (q * p + r) * u = q * (p * u) + r * u /\ r * u \in Nat /\ q * (p * u) \in Nat
  BY <1>1
<1>5. u * (r + 1) <= u * p /\ u * (r + 1) = r * u + u /\ u * p = p * u
  BY <1>1, <1>3, TimesMonotone
<1>6. r * u < Word /\ r * u + u <= Word
  BY <1>1, <1>4, <1>5
<1>7. (q * Word + r * u) % Word = r * u
  BY <1>1, <1>4, <1>6, Parts
<1>8. Shl(q * p + r, k) = r * u
  BY <1>1, <1>2, <1>4, <1>7
<1> QED
  BY <1>4, <1>6, <1>8 DEF p, u

(* The parts of a word before and after its first k bytes. *)
LEMMA Halves ==
  ASSUME NEW m \in Memories, NEW a \in Addresses, NEW k \in 0 .. WordBytes
  PROVE  /\ Rd(m, a) = Num(m, a, k) * Pow[WordBytes - k] + Num(m, a + k, WordBytes - k)
         /\ Num(m, a, k) \in Nat /\ Num(m, a, k) < Pow[k]
         /\ Num(m, a + k, WordBytes - k) \in Nat
         /\ Num(m, a + k, WordBytes - k) < Pow[WordBytes - k]
<1>1. /\ a \in Nat /\ k \in Nat /\ WordBytes - k \in Nat /\ k + (WordBytes - k) = WordBytes
      /\ k + (WordBytes - k) <= WordBytes /\ a + k + (WordBytes - k) <= Size
  BY ConstantsAre, AddressesAre
<1> QED
  BY <1>1, Split DEF Rd

(* An unaligned word is put together from the two it spans. *)
LEMMA JoinIs ==
  ASSUME NEW m \in Memories, NEW a \in Addresses, ~Aligned(a), NEW k, k = a % WordBytes
  PROVE  LET l == Shl(Rd(m, Down(a)), k)
             h == Shr(Rd(m, Down(a) + WordBytes), WordBytes - k)
         IN  Rd(m, a) = l + h /\ l + h \in Value
<1> DEFINE lo == Down(a)
           hi == Down(a) + WordBytes
           r == WordBytes - k
<1>1. /\ k \in 0 .. WordBytes /\ r \in 0 .. WordBytes /\ WordBytes - r = k
      /\ lo \in Addresses /\ hi \in Addresses /\ a = lo + k /\ a + r = hi /\ Rd(m, a) \in Value
  BY Unaligned, WordsAre, RdType, ConstantsAre
<1> HIDE DEF lo, hi, r
<1>2. /\ Rd(m, lo) = Num(m, lo, k) * Pow[WordBytes - k] + Num(m, lo + k, WordBytes - k)
      /\ Num(m, lo, k) \in Nat /\ Num(m, lo + k, WordBytes - k) \in Nat
      /\ Num(m, lo + k, WordBytes - k) < Pow[WordBytes - k]
  BY <1>1, Halves
<1>3. Shl(Rd(m, lo), k) = Num(m, lo + k, WordBytes - k) * Pow[k]
  <2>1. Shl(Num(m, lo, k) * Pow[WordBytes - k] + Num(m, lo + k, WordBytes - k), k)
          = Num(m, lo + k, WordBytes - k) * Pow[k]
    BY <1>1, <1>2, ShlIs
  <2> QED
    BY <1>2, <2>1
<1>4. /\ Rd(m, hi) = Num(m, hi, k) * Pow[WordBytes - k] + Num(m, hi + k, WordBytes - k)
      /\ Num(m, hi, k) \in Nat /\ Num(m, hi + k, WordBytes - k) \in Nat
      /\ Num(m, hi + k, WordBytes - k) < Pow[WordBytes - k]
  BY <1>1, Halves
<1>5. Shr(Rd(m, hi), r) = Num(m, hi, k)
  <2>1. (Num(m, hi, k) * Pow[WordBytes - k] + Num(m, hi + k, WordBytes - k)) \div Pow[WordBytes - k]
          = Num(m, hi, k)
    BY <1>1, <1>4, Parts, PowParts
  <2> QED
    BY <1>4, <2>1 DEF Shr, r
<1>6. Rd(m, a) = Num(m, a, r) * Pow[WordBytes - r] + Num(m, a + r, WordBytes - r)
  BY <1>1, Halves
<1>7. Rd(m, a) = Shl(Rd(m, lo), k) + Shr(Rd(m, hi), r)
  BY <1>1, <1>3, <1>5, <1>6 DEF r
<1> QED
  BY <1>1, <1>7 DEF lo, hi, r

Kept(v, first, k) == IF first THEN v - (v % Pow[WordBytes - k]) ELSE v % Pow[WordBytes - k]

LEMMA KeptIs ==
  ASSUME NEW k \in 0 .. WordBytes, NEW q \in Nat, NEW r \in Nat, r < Pow[WordBytes - k]
  PROVE  /\ Kept(q * Pow[WordBytes - k] + r, TRUE, k) = q * Pow[WordBytes - k]
         /\ Kept(q * Pow[WordBytes - k] + r, FALSE, k) = r
<1>1. Pow[WordBytes - k] \in Nat \ {0}
  BY PowParts
<1>2. (q * Pow[WordBytes - k] + r) % Pow[WordBytes - k] = r /\ q * Pow[WordBytes - k] \in Nat
  BY <1>1, Parts
<1>3. (q * Pow[WordBytes - k] + r) - r = q * Pow[WordBytes - k]
  BY <1>2
<1> QED
  BY <1>2, <1>3 DEF Kept

LEMMA KeptType ==
  ASSUME NEW v \in Value, NEW first \in BOOLEAN, NEW k \in 0 .. WordBytes
  PROVE  Kept(v, first, k) \in Value
<1> DEFINE p == Pow[WordBytes - k]
<1>1. p \in Nat \ {0} /\ v \in Nat /\ v < Word /\ Word \in Nat
  BY PowParts, AddressesAre, WordIs
<1> HIDE DEF p
<1>2. v \div p \in Nat /\ v % p \in 0 .. p - 1 /\ v = p * (v \div p) + (v % p)
  BY <1>1, DivIs
<1>3. p * (v \div p) \in Nat
  BY <1>1, <1>2
<1>4. v % p \in Nat /\ v - (v % p) \in Nat
  <2> DEFINE d == p * (v \div p)
             e == v % p
  <2>1. d \in Nat /\ e \in 0 .. p - 1 /\ v = d + e
    BY <1>2, <1>3
  <2> HIDE DEF d, e
  <2>2. e \in Nat /\ v - e \in Nat
    BY <1>1, <2>1
  <2> QED
    BY <2>2 DEF e
<1>5. v % p < Word /\ v - (v % p) < Word
  BY <1>1, <1>4
<1>6. Kept(v, first, k) = IF first THEN v - (v % p) ELSE v % p
  BY DEF Kept, p
<1> QED
  BY <1>1, <1>4, <1>5, <1>6 DEF Value

(* The words an unaligned store spans, after it. *)
LEMMA StoreLow ==
  ASSUME NEW m \in Memories, NEW a \in Addresses, NEW v \in Value, ~Aligned(a),
         NEW k, k = a % WordBytes
  PROVE  /\ Rd(Wr(m, a, v), Down(a)) = Kept(Rd(m, Down(a)), TRUE, k) + Shr(v, k)
         /\ Kept(Rd(m, Down(a)), TRUE, k) + Shr(v, k) \in Value
<1> DEFINE lo == Down(a)
           w == Wr(m, a, v)
           r == WordBytes - k
<1>1. /\ k \in 0 .. WordBytes /\ r \in 0 .. WordBytes /\ WordBytes - r = k /\ WordBytes \in Nat
      /\ lo \in Addresses /\ lo \in Nat /\ a = lo + k /\ a + WordBytes <= Size /\ k \in Nat
      /\ lo + WordBytes <= Size /\ Size \in Nat
  BY Unaligned, WordsAre, ConstantsAre, AddressesAre
<1>2. w \in Memories /\ \A b \in Bytes : b \notin a .. (a + WordBytes - 1) => w[b] = m[b]
  BY WrIs
<1> HIDE DEF lo, w, r
<1>3. /\ Rd(m, lo) = Num(m, lo, k) * Pow[WordBytes - k] + Num(m, lo + k, WordBytes - k)
      /\ Num(m, lo, k) \in Nat /\ Num(m, lo + k, WordBytes - k) \in Nat
      /\ Num(m, lo + k, WordBytes - k) < Pow[WordBytes - k]
  BY <1>1, Halves
<1>4. Kept(Rd(m, lo), TRUE, k) = Num(m, lo, k) * Pow[WordBytes - k]
  <2>1. Kept(Num(m, lo, k) * Pow[WordBytes - k] + Num(m, lo + k, WordBytes - k), TRUE, k)
          = Num(m, lo, k) * Pow[WordBytes - k]
    BY <1>1, <1>3, KeptIs
  <2> QED
    BY <1>3, <2>1
<1>5. Rd(w, lo) = Num(w, lo, k) * Pow[WordBytes - k] + Num(w, lo + k, WordBytes - k)
  BY <1>1, <1>2, Halves
<1>6. Num(w, lo, k) = Num(m, lo, k)
  <2>1. \A b \in lo .. (lo + k - 1) : w[b] = m[b]
    <3> TAKE b \in lo .. (lo + k - 1)
    <3>1. b \in Bytes /\ b \notin a .. (a + WordBytes - 1)
      BY <1>1, AddressesAre
    <3> QED
      BY <1>2, <3>1
  <2>2. k \in 0 .. WordBytes /\ lo \in Nat
    BY <1>1
  <2> QED
    BY <2>1, <2>2, Agree
<1>7. Num(w, a, r) = v \div Pow[WordBytes - r]
  BY <1>1, WrNum DEF w
<1>8. Rd(w, lo) = Kept(Rd(m, lo), TRUE, k) + Shr(v, k)
  BY <1>1, <1>4, <1>5, <1>6, <1>7 DEF Shr, r
<1>9. Rd(w, lo) \in Value
  BY <1>1, <1>2, RdType
<1> QED
  BY <1>8, <1>9 DEF lo, w

LEMMA StoreHigh ==
  ASSUME NEW m \in Memories, NEW a \in Addresses, NEW v \in Value, ~Aligned(a),
         NEW k, k = a % WordBytes
  PROVE  LET hi == Down(a) + WordBytes
         IN  /\ Rd(Wr(m, a, v), hi) = Kept(Rd(m, hi), FALSE, k) + Shl(v, WordBytes - k)
             /\ Kept(Rd(m, hi), FALSE, k) + Shl(v, WordBytes - k) \in Value
<1> DEFINE lo == Down(a)
           hi == Down(a) + WordBytes
           w == Wr(m, a, v)
           r == WordBytes - k
<1>1. /\ k \in 0 .. WordBytes /\ r \in 0 .. WordBytes /\ WordBytes - r = k /\ WordBytes \in Nat
      /\ lo \in Nat /\ hi \in Addresses /\ hi \in Nat /\ a = lo + k /\ a + r = hi /\ k \in Nat
      /\ hi + WordBytes <= Size /\ Size \in Nat /\ hi = lo + WordBytes /\ hi + k \in Nat
  <2>1. lo \in Words /\ hi \in Words /\ k \in 1 .. (WordBytes - 1) /\ a = lo + k
    BY Unaligned
  <2>2. /\ lo \in Nat /\ hi \in Addresses /\ hi \in Nat /\ hi + WordBytes <= Size
        /\ WordBytes \in Nat /\ Size \in Nat
    BY <2>1, WordsAre, ConstantsAre
  <2> QED
    BY <2>1, <2>2
<1>2. w \in Memories /\ \A b \in Bytes : b \notin a .. (a + WordBytes - 1) => w[b] = m[b]
  BY WrIs
<1> HIDE DEF lo, hi, w, r
<1>3. /\ Rd(m, hi) = Num(m, hi, k) * Pow[WordBytes - k] + Num(m, hi + k, WordBytes - k)
      /\ Num(m, hi, k) \in Nat /\ Num(m, hi + k, WordBytes - k) \in Nat
      /\ Num(m, hi + k, WordBytes - k) < Pow[WordBytes - k]
  BY <1>1, Halves
<1>4. Kept(Rd(m, hi), FALSE, k) = Num(m, hi + k, WordBytes - k)
  <2> DEFINE q == Num(m, hi, k)
             l == Num(m, hi + k, WordBytes - k)
  <2>0. k \in 0 .. WordBytes /\ q \in Nat /\ l \in Nat /\ l < Pow[WordBytes - k]
    BY <1>1, <1>3
  <2> HIDE DEF q, l
  <2>1. Kept(q * Pow[WordBytes - k] + l, FALSE, k) = l
    BY <2>0, KeptIs
  <2> USE DEF q, l
  <2> QED
    BY <1>3, <2>1
<1>5. Rd(w, hi) = Num(w, hi, k) * Pow[WordBytes - k] + Num(w, hi + k, WordBytes - k)
  BY <1>1, <1>2, Halves
<1>6. Num(w, hi + k, WordBytes - k) = Num(m, hi + k, WordBytes - k)
  <2>1. \A b \in (hi + k) .. ((hi + k) + r - 1) : w[b] = m[b]
    <3> TAKE b \in (hi + k) .. ((hi + k) + r - 1)
    <3>1. k + r = WordBytes /\ a + WordBytes = hi + k /\ r \in Nat
          /\ a \in Nat /\ WordBytes \in Nat /\ hi + k \in Nat
      BY <1>1
    <3>2. b \in Nat /\ hi + k <= b /\ b <= hi + WordBytes - 1
      BY <1>1, <3>1
    <3>3. b \in Bytes
      <4>1. b <= Size - 1
        BY <1>1, <3>2
      <4> QED
        BY <3>2, <4>1, AddressesAre
    <3>4. b \notin a .. (a + WordBytes - 1)
      BY <3>1, <3>2
    <3> QED
      BY <1>2, <3>3, <3>4
  <2>2. r \in 0 .. WordBytes /\ hi + k \in Nat
    BY <1>1
  <2>3. Num(w, hi + k, r) = Num(m, hi + k, r)
    BY <2>1, <2>2, Agree
  <2> QED
    BY <2>3 DEF r
<1>7. /\ Rd(w, a) = Num(w, a, r) * Pow[WordBytes - r] + Num(w, a + r, WordBytes - r)
      /\ Num(w, a, r) \in Nat /\ Num(w, a + r, WordBytes - r) \in Nat
      /\ Num(w, a + r, WordBytes - r) < Pow[WordBytes - r]
  BY <1>1, <1>2, Halves
<1>8. Rd(w, a) = v
  BY RdWr DEF w
<1>9. Shl(v, r) = Num(w, a + r, WordBytes - r) * Pow[r]
  <2>1. Shl(Num(w, a, r) * Pow[WordBytes - r] + Num(w, a + r, WordBytes - r), r)
          = Num(w, a + r, WordBytes - r) * Pow[r]
    BY <1>1, <1>7, ShlIs
  <2> QED
    BY <1>7, <1>8, <2>1
<1>10. Shl(v, r) \in Nat /\ Kept(Rd(m, hi), FALSE, k) \in Nat
  <2>1. Shl(v, r) \in Value
    BY <1>1, ShiftType
  <2>2. Shl(v, r) \in Nat
    BY <2>1, AddressesAre, WordIs
  <2> QED
    BY <1>3, <1>4, <2>2
<1>11. Rd(w, hi) = Shl(v, r) + Kept(Rd(m, hi), FALSE, k)
  <2>1. Num(w, hi, k) * Pow[r] = Shl(v, r)
    BY <1>1, <1>9
  <2> QED
    BY <1>4, <1>5, <1>6, <2>1 DEF r
<1>12. Rd(w, hi) = Kept(Rd(m, hi), FALSE, k) + Shl(v, r)
  <2> DEFINE c == Kept(Rd(m, hi), FALSE, k)
  <2>1. c \in Nat /\ Shl(v, r) \in Nat /\ Rd(w, hi) = Shl(v, r) + c
    BY <1>10, <1>11
  <2> HIDE DEF c
  <2>2. Rd(w, hi) = c + Shl(v, r)
    BY <2>1
  <2> QED
    BY <2>2 DEF c
<1>13. Rd(w, hi) \in Value
  BY <1>1, <1>2, RdType
<1> QED
  BY <1>12, <1>13 DEF hi, w, r

LEMMA NegIs ==
  ASSUME NEW v \in Value
  PROVE  /\ Neg(v) \in Value /\ Neg(Neg(v)) = v /\ (0 + Neg(v)) % Word = Neg(v)
         /\ (v + Neg(v)) % Word = 0 /\ (v + Neg(0)) % Word = v /\ 0 \in Value
<1>1. v \in Nat /\ v < Word /\ Word \in Nat \ {0}
  BY AddressesAre, WordIs
<1>2. \A u \in Nat : u < Word => u % Word = u
  BY <1>1, Parts
<1>3. Word % Word = 0
  <2>1. (1 * Word + 0) % Word = 0
    BY <1>1, Parts
  <2> QED
    BY <1>1, <2>1
<1>4. Neg(0) = 0
  BY <1>1, <1>3 DEF Neg
<1>5. CASE v = 0
  BY <1>1, <1>2, <1>4, <1>5 DEF Value
<1>6. CASE v # 0
  <2>1. Neg(v) = Word - v /\ Word - v \in Nat /\ Word - v < Word
    BY <1>1, <1>2, <1>6 DEF Neg
  <2>2. Neg(Neg(v)) = v
    <3>1. Word - (Word - v) = v
      BY <1>1
    <3> QED
      BY <1>1, <1>2, <2>1, <3>1 DEF Neg
  <2>3. v + Neg(v) = Word /\ 0 + Neg(v) = Neg(v) /\ v + 0 = v
    BY <1>1, <2>1
  <2>4. (0 + Neg(v)) % Word = Neg(v) /\ (v + Neg(v)) % Word = 0 /\ (v + Neg(0)) % Word = v
    BY <1>1, <1>2, <1>3, <1>4, <2>1, <2>3
  <2> QED
    BY <1>1, <2>1, <2>2, <2>4 DEF Value
<1> QED
  BY <1>5, <1>6

LEMMA SumType == \A a, b \in Value : (a + b) % Word \in Value
<1>1. Word \in Nat \ {0} /\ Value = 0 .. (Word - 1)
  BY AddressesAre, WordIs
<1> QED
  BY <1>1, DivIs

-----------------------------------------------------------------------------
(* What the cache knows *)

CWords == Words \ HW
Views == [CWords -> Value]
View(m) == [w \in CWords |-> Rd(m, w)]

(* The cached words and what stands for them. *)
Names(j, w, v) ==
  \/ \E i \in 1 .. NCONST : j.consts[i].addr = w /\ v = ConstVal(j.consts[i].val)
  \/ \E r \in Regs : j.regs[r] = w /\ v = RegVal(r)
  \/ \E i \in 1 .. NALIAS :
       /\ j.aliases[i].addr = w
       /\ v = IF j.aliases[i].neg THEN NegVal(j.aliases[i].reg) ELSE RegVal(j.aliases[i].reg)

(* A cval that stands for a value. *)
IsCval(v) ==
  \/ \E c \in Value : v = ConstVal(c)
  \/ \E r \in Regs : v = RegVal(r) \/ v = NegVal(r)

Made(j) == "out" \in DOMAIN j

Typed(j) ==
  /\ DOMAIN j = {"regs", "lru", "pinned", "consts", "cnext", "aliases", "anext", "pend", "live",
                 "out", "reg", "mem", "flags"}
  /\ j.regs \in [Regs -> CWords \cup {None}]
  /\ j.lru \in [Regs -> Nat] /\ j.pinned \subseteq Regs
  /\ j.consts \in [1 .. NCONST -> [addr : CWords \cup {None}, val : Value]]
  /\ j.cnext \in 1 .. NCONST
  /\ j.aliases \in [1 .. NALIAS -> [addr : CWords \cup {None}, reg : Regs \cup {None}, neg : BOOLEAN]]
  /\ \A i \in 1 .. NALIAS : j.aliases[i].addr # None => j.aliases[i].reg \in Regs
  /\ j.anext \in 1 .. NALIAS
  /\ j.pend \in CWords \cup {None}
  /\ j.live \in BOOLEAN
  /\ j.reg \in [Regs -> Value] /\ j.mem \in Memories

(* What stands for a word has the value K gives it, and something stands for *)
(* the one that is held back.                                                *)
Fits(j, K) ==
  /\ Typed(j)
  /\ \A w \in CWords : \A v : Names(j, w, v) => ValueOf(j, v) = K[w]
  /\ j.pend # None => \E v : Names(j, j.pend, v)

(* Memory with what is held back. *)
Whole(j, K) == IF j.pend = None THEN j.mem ELSE Wr(j.mem, j.pend, K[j.pend])

(* From j to k nothing that is pinned changes, nothing new stands for a word *)
(* in a pinned register and nothing that did goes, but for the words of A.   *)
Stays(j, k, K, A) ==
  /\ Fits(k, K)
  /\ j.pinned \subseteq k.pinned
  /\ \A r \in j.pinned : k.reg[r] = j.reg[r]
  /\ \A w \in CWords : \A v : InReg(v) /\ v.reg \in j.pinned =>
       /\ Names(k, w, v) => Names(j, w, v)
       /\ w \notin A /\ Names(j, w, v) => Names(k, w, v)
  /\ k.live = j.live /\ (j.live => k.flags = j.flags)

(* Memory changes only when what is held back is stored. *)
Keeps(j, k, K, A) ==
  /\ Stays(j, k, K, A)
  /\ \/ k.pend = j.pend /\ k.mem = j.mem
     \/ k.pend = None /\ k.mem = Whole(j, K)

NoNew(j, k) == \A w \in CWords : \A v : Names(k, w, v) => Names(j, w, v)

Firm(j, k, K) == Stays(j, k, K, {}) /\ NoNew(j, k)
Tight(j, k, K) == Keeps(j, k, K, {}) /\ NoNew(j, k)

(* Nothing is known to be in register r. *)
Bare(j, r) == \A w \in CWords : \A v : Names(j, w, v) => ~(InReg(v) /\ v.reg = r)

(* What differs is no more than what is pinned, and the order of use. *)
Alike(j, k) ==
  /\ DOMAIN k = DOMAIN j
  /\ k.regs = j.regs /\ k.consts = j.consts /\ k.cnext = j.cnext
  /\ k.aliases = j.aliases /\ k.anext = j.anext /\ k.pend = j.pend /\ k.live = j.live
  /\ k.out = j.out /\ k.reg = j.reg /\ k.mem = j.mem /\ k.flags = j.flags
  /\ k.lru \in [Regs -> Nat] /\ k.pinned \subseteq Regs

LEMMA CvalIs ==
  /\ \A c : /\ ConstVal(c).kind = "const" /\ ConstVal(c).val = c /\ ~InReg(ConstVal(c))
            /\ ConstVal(c).reg = None /\ ConstVal(c) # NoVal
            /\ \A j : ValueOf(j, ConstVal(c)) = c
  /\ \A r : /\ RegVal(r).kind = "reg" /\ RegVal(r).reg = r /\ InReg(RegVal(r)) /\ RegVal(r) # NoVal
            /\ \A j : ValueOf(j, RegVal(r)) = j.reg[r]
  /\ \A r : /\ NegVal(r).kind = "neg" /\ NegVal(r).reg = r /\ InReg(NegVal(r)) /\ NegVal(r) # NoVal
            /\ \A j : ValueOf(j, NegVal(r)) = Neg(j.reg[r])
  /\ NoVal.kind = "none" /\ ~InReg(NoVal) /\ NoVal.reg = None
  BY DEF ConstVal, RegVal, NegVal, NoVal, InReg, ValueOf

LEMMA CvalCases ==
  ASSUME NEW v, IsCval(v)
  PROVE  /\ v # NoVal
         /\ \/ v.kind = "const" /\ v.val \in Value /\ v = ConstVal(v.val) /\ ~InReg(v) /\ v.reg = None
            \/ v.kind = "reg" /\ v.reg \in Regs /\ v = RegVal(v.reg) /\ InReg(v)
            \/ v.kind = "neg" /\ v.reg \in Regs /\ v = NegVal(v.reg) /\ InReg(v)
  BY CvalIs DEF IsCval

LEMMA ValueOfIs ==
  ASSUME NEW j, NEW v, IsCval(v)
  PROVE  /\ v.kind = "const" => ValueOf(j, v) = v.val
         /\ v.kind = "reg" => ValueOf(j, v) = j.reg[v.reg]
         /\ v.kind = "neg" => ValueOf(j, v) = Neg(j.reg[v.reg])
  BY CvalCases DEF ValueOf

LEMMA NoneIs == None \notin CWords /\ None \notin Regs /\ None \notin Words
  BY WordsAre, ConstantsAre DEF CWords, None, Regs

LEMMA CacheableIs ==
  ASSUME NEW a \in Addresses
  PROVE  Cacheable(a) <=> a \in CWords
  BY AlignedIs DEF Cacheable, CWords

LEMMA ViewIs ==
  ASSUME NEW m \in Memories
  PROVE  View(m) \in Views /\ \A w \in CWords : View(m)[w] = Rd(m, w)
<1>1. \A w \in CWords : Rd(m, w) \in Value
  BY WordsAre, RdType DEF CWords
<1> QED
  BY <1>1 DEF View, Views

LEMMA ValueType ==
  ASSUME NEW j, Typed(j), NEW v, IsCval(v)
  PROVE  ValueOf(j, v) \in Value
<1>1. CASE v.kind = "const"
  BY <1>1, CvalCases, ValueOfIs
<1>2. ASSUME v.kind # "const" PROVE ValueOf(j, v) \in Value
  <2>1. v.reg \in Regs /\ j.reg[v.reg] \in Value /\ (v.kind = "reg" \/ v.kind = "neg")
    BY <1>2, CvalCases DEF Typed
  <2> QED
    BY <2>1, ValueOfIs, NegIs
<1> QED
  BY <1>1, <1>2

LEMMA NamesType ==
  ASSUME NEW j, Typed(j), NEW w \in CWords, NEW v, Names(j, w, v)
  PROVE  IsCval(v)
<1>1. CASE \E i \in 1 .. NCONST : j.consts[i].addr = w /\ v = ConstVal(j.consts[i].val)
  <2>1. PICK i \in 1 .. NCONST : v = ConstVal(j.consts[i].val)
    BY <1>1
  <2>2. j.consts[i].val \in Value
    BY DEF Typed
  <2> QED
    BY <2>1, <2>2 DEF IsCval
<1>2. CASE \E r \in Regs : j.regs[r] = w /\ v = RegVal(r)
  BY <1>2 DEF IsCval
<1>3. CASE \E i \in 1 .. NALIAS :
             /\ j.aliases[i].addr = w
             /\ v = IF j.aliases[i].neg THEN NegVal(j.aliases[i].reg) ELSE RegVal(j.aliases[i].reg)
  <2>1. PICK i \in 1 .. NALIAS :
             /\ j.aliases[i].addr = w
             /\ v = IF j.aliases[i].neg THEN NegVal(j.aliases[i].reg) ELSE RegVal(j.aliases[i].reg)
    BY <1>3
  <2>2. j.aliases[i].reg \in Regs
    BY <2>1, NoneIs DEF Typed
  <2> QED
    BY <2>1, <2>2 DEF IsCval
<1> QED
  BY <1>1, <1>2, <1>3 DEF Names

LEMMA AlikeIs ==
  ASSUME NEW j, NEW k, Alike(j, k)
  PROVE  /\ \A w, v : Names(k, w, v) <=> Names(j, w, v)
         /\ \A v : ValueOf(k, v) = ValueOf(j, v)
         /\ \A K : Whole(k, K) = Whole(j, K)
<1>1. k.regs = j.regs /\ k.consts = j.consts /\ k.aliases = j.aliases /\ k.reg = j.reg
      /\ k.mem = j.mem /\ k.pend = j.pend
  BY DEF Alike
<1>2. \A w, v : Names(k, w, v) <=> Names(j, w, v)
  BY <1>1 DEF Names
<1>3. \A v : ValueOf(k, v) = ValueOf(j, v)
  BY <1>1 DEF ValueOf
<1>4. \A K : Whole(k, K) = Whole(j, K)
  BY <1>1 DEF Whole
<1> QED
  BY <1>2, <1>3, <1>4

LEMMA AlikeKeeps ==
  ASSUME NEW j, NEW k, NEW K, Fits(j, K), Alike(j, k), j.pinned \subseteq k.pinned
  PROVE  Tight(j, k, K) /\ Fits(k, K)
<1>1. Typed(k)
  BY DEF Fits, Typed, Alike
<1>2. Fits(k, K)
  BY <1>1, AlikeIs DEF Fits, Alike
<1>3. k.reg = j.reg /\ k.live = j.live /\ k.flags = j.flags /\ k.pend = j.pend /\ k.mem = j.mem
  BY DEF Alike
<1> QED
  BY <1>2, <1>3, AlikeIs DEF Tight, Keeps, Stays, NoNew

LEMMA KeepsWhole ==
  ASSUME NEW j, NEW k, NEW K, NEW A, Keeps(j, k, K, A)
  PROVE  Whole(k, K) = Whole(j, K)
  BY DEF Keeps, Whole

LEMMA StaysTrans ==
  ASSUME NEW j, NEW k, NEW l, NEW K, NEW A, NEW B, NEW C, Stays(j, k, K, A), Stays(k, l, K, B),
         A \subseteq C, B \subseteq C
  PROVE  Stays(j, l, K, C)
<1>1. Fits(l, K) /\ j.pinned \subseteq l.pinned
  BY DEF Stays
<1>2. \A r \in j.pinned : l.reg[r] = j.reg[r]
  BY DEF Stays
<1>3. ASSUME NEW w \in CWords, NEW v, InReg(v), v.reg \in j.pinned
      PROVE  /\ Names(l, w, v) => Names(j, w, v)
             /\ w \notin C /\ Names(j, w, v) => Names(l, w, v)
  <2>1. v.reg \in k.pinned
    BY <1>3 DEF Stays
  <2>2. (Names(k, w, v) => Names(j, w, v)) /\ (w \notin A /\ Names(j, w, v) => Names(k, w, v))
    BY <1>3 DEF Stays
  <2>3. (Names(l, w, v) => Names(k, w, v)) /\ (w \notin B /\ Names(k, w, v) => Names(l, w, v))
    BY <1>3, <2>1 DEF Stays
  <2> QED
    BY <2>2, <2>3
<1>4. l.live = j.live /\ (j.live => l.flags = j.flags)
  BY DEF Stays
<1> QED
  BY <1>1, <1>2, <1>3, <1>4 DEF Stays

LEMMA KeepsTrans ==
  ASSUME NEW j, NEW k, NEW l, NEW K, NEW A, NEW B, NEW C, Keeps(j, k, K, A), Keeps(k, l, K, B),
         A \subseteq C, B \subseteq C
  PROVE  Keeps(j, l, K, C)
<1>1. Stays(j, l, K, C)
  BY StaysTrans DEF Keeps
<1>2. Whole(k, K) = Whole(j, K)
  BY KeepsWhole
<1>3. \/ k.pend = j.pend /\ k.mem = j.mem
      \/ k.pend = None /\ k.mem = Whole(j, K)
  BY DEF Keeps
<1>4. \/ l.pend = k.pend /\ l.mem = k.mem
      \/ l.pend = None /\ l.mem = Whole(j, K)
  BY <1>2 DEF Keeps
<1> QED
  BY <1>1, <1>3, <1>4 DEF Keeps

LEMMA NoNewTrans ==
  ASSUME NEW j, NEW k, NEW l, NoNew(j, k), NoNew(k, l)
  PROVE  NoNew(j, l)
  BY DEF NoNew

LEMMA TightTrans ==
  ASSUME NEW j, NEW k, NEW l, NEW K, Tight(j, k, K), Tight(k, l, K)
  PROVE  Tight(j, l, K)
  BY KeepsTrans, NoNewTrans DEF Tight

LEMMA FirmTrans ==
  ASSUME NEW j, NEW k, NEW l, NEW K, Firm(j, k, K), Firm(k, l, K)
  PROVE  Firm(j, l, K)
  BY StaysTrans, NoNewTrans DEF Firm

LEMMA TightIs ==
  ASSUME NEW j, NEW k, NEW K, Tight(j, k, K)
  PROVE  /\ Firm(j, k, K) /\ Fits(k, K) /\ Typed(k) /\ Whole(k, K) = Whole(j, K)
         /\ j.pinned \subseteq k.pinned /\ k.live = j.live
         /\ j.pend = None => k.pend = None /\ k.mem = j.mem
<1>1. Keeps(j, k, K, {}) /\ Firm(j, k, K)
  BY DEF Tight, Firm, Keeps
<1>2. Fits(k, K) /\ Typed(k) /\ j.pinned \subseteq k.pinned /\ k.live = j.live
  BY <1>1 DEF Keeps, Stays, Fits
<1>3. j.pend = None => k.pend = None /\ k.mem = j.mem
  BY <1>1 DEF Keeps, Whole
<1> QED
  BY <1>1, <1>2, <1>3, KeepsWhole

(* cache_find finds what stands for a word, if anything does. *)
LEMMA FindIs ==
  ASSUME NEW j, Typed(j), NEW a \in Addresses
  PROVE  /\ Find(j, a) # NoVal => a \in CWords /\ Names(j, a, Find(j, a)) /\ IsCval(Find(j, a))
         /\ Find(j, a) = NoVal /\ a \in CWords => \A v : ~Names(j, a, v)
<1> DEFINE First(S, v) == IF S = {} THEN v ELSE CHOOSE e \in S : TRUE
           S1 == {ConstVal(e.val) : e \in {e \in Range(j.consts) : e.addr = a}}
           S2 == {RegVal(r) : r \in {r \in Regs : j.regs[r] = a}}
           S3 == {IF e.neg THEN NegVal(e.reg) ELSE RegVal(e.reg) :
                    e \in {e \in Range(j.aliases) : e.addr = a}}
<1>1. Find(j, a) = IF ~Cacheable(a) THEN NoVal ELSE First(S1, First(S2, First(S3, NoVal)))
  BY DEF Find
<1>2. DOMAIN j.consts = 1 .. NCONST /\ DOMAIN j.aliases = 1 .. NALIAS
  BY DEF Typed
<1>3. \A v : v \in S1 <=> \E i \in 1 .. NCONST : j.consts[i].addr = a /\ v = ConstVal(j.consts[i].val)
  BY <1>2 DEF Range
<1>4. \A v : v \in S2 <=> \E r \in Regs : j.regs[r] = a /\ v = RegVal(r)
  OBVIOUS
<1>5. \A v : v \in S3 <=> \E i \in 1 .. NALIAS :
                            /\ j.aliases[i].addr = a
                            /\ v = IF j.aliases[i].neg THEN NegVal(j.aliases[i].reg) ELSE RegVal(j.aliases[i].reg)
  BY <1>2 DEF Range
<1> HIDE DEF S1, S2, S3
<1>6. \A v : Names(j, a, v) <=> v \in S1 \cup S2 \cup S3
  BY <1>3, <1>4, <1>5 DEF Names
<1>7. \A S, v : S # {} => First(S, v) \in S
  OBVIOUS
<1>8. \A S, v : S = {} => First(S, v) = v
  OBVIOUS
<1> HIDE DEF First
<1>9. CASE a \in CWords
  <2>1. Find(j, a) = First(S1, First(S2, First(S3, NoVal)))
    BY <1>1, <1>9, CacheableIs
  <2>2. CASE S1 \cup S2 \cup S3 = {}
    BY <1>6, <1>8, <1>9, <2>1, <2>2
  <2>3. CASE S1 \cup S2 \cup S3 # {}
    <3>1. Find(j, a) \in S1 \cup S2 \cup S3
      BY <1>7, <1>8, <2>1, <2>3
    <3>2. Names(j, a, Find(j, a))
      BY <1>6, <3>1
    <3>3. IsCval(Find(j, a))
      BY <1>9, <3>2, NamesType
    <3> QED
      BY <1>9, <3>2, <3>3, CvalCases
  <2> QED
    BY <2>2, <2>3
<1>10. CASE a \notin CWords
  BY <1>1, <1>10, CacheableIs
<1> QED
  BY <1>9, <1>10

-----------------------------------------------------------------------------
(* Once the registers have run out, they have for good. *)

Runs(j, k) == Made(k) /\ (j.out => k.out)
OfReg(s) == DOMAIN s = {"j", "r"}
OfVal(s) == DOMAIN s = {"j", "v"}

LEMMA RunsTrans ==
  ASSUME NEW j, NEW k, NEW l, Runs(j, k), Runs(k, l)
  PROVE  Runs(j, l)
  BY DEF Runs

LEMMA RunsMarks ==
  ASSUME NEW j, Made(j)
  PROVE  /\ Runs(j, j)
         /\ \A r : Runs(j, Use(j, r)) /\ Runs(j, Unpin(j, r)) /\ Runs(j, Forget(j, r))
         /\ \A v : Runs(j, Touch(j, v)) /\ Runs(j, Pin(j, v))
         /\ \A v : Runs(j, [j EXCEPT !.pinned = v]) /\ Runs(j, [j EXCEPT !.pend = v])
                   /\ Runs(j, [j EXCEPT !.mem = v]) /\ Runs(j, [j EXCEPT !.live = v])
                   /\ Runs(j, [j EXCEPT !.reg = v]) /\ Runs(j, [j EXCEPT !.flags = v])
         /\ \A r, v : Runs(j, [j EXCEPT !.reg[r] = v])
         /\ \A a : Runs(j, CacheDrop(j, a))
         /\ Runs(j, CacheDropAll(j))
  BY DEF Runs, Made, Use, Unpin, Forget, Touch, Pin, CacheDrop, CacheDropAll

LEMMA RunsGive ==
  ASSUME NEW s, OfReg(s), Made(s.j), NEW w
  PROVE  /\ OfReg(Give(s, w)) /\ Runs(s.j, Give(s, w).j) /\ Give(s, w).r = s.r
         /\ OfReg(Clobber(s)) /\ Runs(s.j, Clobber(s).j) /\ Clobber(s).r = s.r
  BY DEF Give, Clobber, OfReg, Runs, Made

LEMMA RunsScratchPlain ==
  ASSUME NEW j, Made(j)
  PROVE  OfReg(ScratchPlain(j)) /\ Runs(j, ScratchPlain(j).j)
<1>1. \A r : OfReg(TakePlain(j, r)) /\ Runs(j, TakePlain(j, r).j)
  BY DEF TakePlain, Forget, OfReg, Runs, Made
<1>2. OfReg(OutOfRegs(j)) /\ Runs(j, OutOfRegs(j).j)
  BY DEF OutOfRegs, OfReg, Runs, Made
<1> QED
  BY <1>1, <1>2 DEF ScratchPlain

LEMMA RunsNegated ==
  ASSUME NEW s, OfReg(s), Made(s.j), NEW v
  PROVE  OfReg(Negated(s, v)) /\ Runs(s.j, Negated(s, v).j) /\ Negated(s, v).r = s.r
<1> DEFINE g == Give(s, ValueOf(s.j, v))
<1>1. OfReg(g) /\ Runs(s.j, g.j) /\ g.r = s.r
  BY RunsGive
<1>2. OfReg(Clobber(g)) /\ Runs(g.j, Clobber(g).j) /\ Clobber(g).r = g.r
  BY <1>1, RunsGive DEF Runs
<1> QED
  BY <1>1, <1>2, RunsTrans DEF Negated

LEMMA RunsToRegPlain ==
  ASSUME NEW j, Made(j), NEW v
  PROVE  OfReg(ToRegWith(ScratchPlain, j, v)) /\ Runs(j, ToRegWith(ScratchPlain, j, v).j)
<1> DEFINE s == ScratchPlain(Pin(j, v))
<1>1. Runs(j, Pin(j, v)) /\ Made(Pin(j, v))
  BY RunsMarks DEF Runs
<1>2. OfReg(s) /\ Runs(Pin(j, v), s.j)
  BY <1>1, RunsScratchPlain
<1>3. OfReg(Negated(s, v)) /\ Runs(s.j, Negated(s, v).j)
  BY <1>2, RunsNegated DEF Runs
<1>4. ToRegWith(ScratchPlain, j, v) = IF v.kind = "reg" THEN [j |-> j, r |-> v.reg] ELSE Negated(s, v)
  BY DEF ToRegWith
<1> QED
  BY <1>1, <1>2, <1>3, <1>4, RunsTrans, RunsMarks DEF OfReg

LEMMA RunsStoreReg ==
  ASSUME NEW j, Made(j), NEW r, NEW a
  PROVE  Runs(j, StoreReg(j, r, a))
<1> DEFINE s == Give(ScratchPlain(j), j.reg[r])
<1>1. OfReg(s) /\ Runs(j, s.j)
  BY RunsScratchPlain, RunsGive, RunsTrans DEF Runs
<1>2. Runs(s.j, [s.j EXCEPT !.mem = Wr(@, a, s.j.reg[s.r])])
  BY <1>1, RunsMarks DEF Runs
<1>3. Runs(j, [j EXCEPT !.mem = Wr(@, a, j.reg[r])])
  BY RunsMarks
<1>4. StoreReg(j, r, a) = [j EXCEPT !.mem = Wr(@, a, j.reg[r])]
      \/ StoreReg(j, r, a) = [s.j EXCEPT !.mem = Wr(@, a, s.j.reg[s.r])]
  BY DEF StoreReg
<1> QED
  BY <1>1, <1>2, <1>3, <1>4, RunsTrans

LEMMA RunsStoreConst ==
  ASSUME NEW j, Made(j), NEW v, NEW dyn, NEW a
  PROVE  Runs(j, StoreConst(j, v, dyn, a))
<1> DEFINE s == Give(ScratchPlain(j), v)
<1>1. Runs(j, s.j)
  BY RunsScratchPlain, RunsGive, RunsTrans DEF Runs
<1>2. \A k : Made(k) => Runs(k, [k EXCEPT !.mem = Wr(@, a, v)])
  BY RunsMarks
<1>3. \E k \in {j, s.j} : StoreConst(j, v, dyn, a) = [k EXCEPT !.mem = Wr(@, a, v)]
  BY DEF StoreConst
<1>4. \A k \in {j, s.j} : Runs(j, k)
  BY <1>1, RunsMarks
<1> QED
  BY <1>2, <1>3, <1>4, RunsTrans DEF Runs

LEMMA RunsFlushValue ==
  ASSUME NEW j, Made(j), NEW a, NEW v
  PROVE  Runs(j, FlushValue(j, a, v))
<1> DEFINE s == ToRegWith(ScratchPlain, Pin(j, v), v)
           m == StoreReg(s.j, s.r, a)
           p == [m EXCEPT !.pinned = @ \ ({s.r} \ {v.reg})]
           q == [p EXCEPT !.pinned = @ \ ({v.reg} \ j.pinned)]
<1>1. Runs(j, Pin(j, v))
  BY RunsMarks
<1>2. Runs(Pin(j, v), s.j)
  BY <1>1, RunsToRegPlain DEF Runs
<1>3. Runs(s.j, m)
  BY <1>2, RunsStoreReg DEF Runs
<1>4. Runs(m, p)
  BY <1>3, RunsMarks DEF Runs
<1>5. Runs(p, q)
  BY <1>4, RunsMarks DEF Runs
<1>6. FlushValue(j, a, v) = IF v.kind = "const" THEN StoreConst(j, v.val, FALSE, a) ELSE q
  BY DEF FlushValue
<1>7. Runs(j, StoreConst(j, v.val, FALSE, a))
  BY RunsStoreConst
<1> HIDE DEF s, m, p, q
<1> QED
  BY <1>1, <1>2, <1>3, <1>4, <1>5, <1>6, <1>7, RunsTrans

LEMMA RunsFlushPending ==
  ASSUME NEW j, Made(j)
  PROVE  Runs(j, FlushPending(j))
<1> DEFINE v == HeldBack(j)
           d == [j EXCEPT !.pend = None]
<1>1. Runs(j, d)
  BY RunsMarks
<1>2. Runs(d, Touch(d, v))
  BY <1>1, RunsMarks DEF Runs
<1>3. Runs(Touch(d, v), FlushValue(Touch(d, v), j.pend, v))
  BY <1>2, RunsFlushValue DEF Runs
<1>4. FlushPending(j) = IF j.pend = None THEN j ELSE FlushValue(Touch(d, v), j.pend, v)
  BY DEF FlushPending
<1> HIDE DEF v, d
<1> QED
  BY <1>1, <1>2, <1>3, <1>4, RunsTrans, RunsMarks

LEMMA RunsTake ==
  ASSUME NEW j, Made(j), NEW r
  PROVE  OfReg(Take(j, r)) /\ Runs(j, Take(j, r).j)
<1> DEFINE p == [j EXCEPT !.pinned = @ \cup {r}]
           v == HeldBack(p)
           l == IF InReg(v) /\ v.reg = r THEN FlushPending(Touch(p, v)) ELSE Touch(p, v)
<1>1. Runs(j, p)
  BY RunsMarks
<1>2. Runs(p, Touch(p, v))
  BY <1>1, RunsMarks DEF Runs
<1>3. Runs(p, l)
  BY <1>2, RunsFlushPending, RunsTrans DEF Runs
<1>4. Runs(l, Forget(l, r))
  BY <1>3, RunsMarks DEF Runs
<1>5. Take(j, r) = [j |-> Forget(l, r), r |-> r]
  BY DEF Take, Release
<1> HIDE DEF l, p, v
<1> QED
  BY <1>1, <1>3, <1>4, <1>5, RunsTrans DEF OfReg

LEMMA RunsScratch ==
  ASSUME NEW j, Made(j)
  PROVE  OfReg(Scratch(j)) /\ Runs(j, Scratch(j).j)
<1>1. OfReg(OutOfRegs(j)) /\ Runs(j, OutOfRegs(j).j)
  BY DEF OutOfRegs, OfReg, Runs, Made
<1> QED
  BY <1>1, RunsTake DEF Scratch

LEMMA RunsToReg ==
  ASSUME NEW j, Made(j), NEW v
  PROVE  OfReg(ToReg(j, v)) /\ Runs(j, ToReg(j, v).j)
<1> DEFINE s == Scratch(Pin(j, v))
<1>1. Runs(j, Pin(j, v)) /\ Made(Pin(j, v))
  BY RunsMarks DEF Runs
<1>2. OfReg(s) /\ Runs(Pin(j, v), s.j)
  BY <1>1, RunsScratch
<1>3. OfReg(Negated(s, v)) /\ Runs(s.j, Negated(s, v).j)
  BY <1>2, RunsNegated DEF Runs
<1>4. ToReg(j, v) = IF v.kind = "reg" THEN [j |-> j, r |-> v.reg] ELSE Negated(s, v)
  BY DEF ToReg, ToRegWith
<1> HIDE DEF s
<1> QED
  BY <1>1, <1>2, <1>3, <1>4, RunsTrans, RunsMarks DEF OfReg

LEMMA RunsNaming ==
  ASSUME NEW j, Made(j), NEW a
  PROVE  /\ \A v : Runs(j, SetConst(j, a, v))
         /\ \A r, neg : Runs(j, SetAlias(j, a, r, neg))
         /\ \A r : Runs(j, Bind(j, r, a))
<1> DEFINE d == CacheDrop(j, a)
           f == IF d.pend # None /\ d.pend = d.aliases[d.anext].addr THEN FlushPending(d) ELSE d
<1>1. Runs(j, d) /\ Made(d)
  BY RunsMarks DEF Runs
<1>2. Runs(j, f) /\ Made(f)
  BY <1>1, RunsFlushPending, RunsTrans DEF Runs
<1> HIDE DEF d, f
<1>3. \A v : Runs(j, SetConst(j, a, v))
  <2> TAKE v
  <2>1. \A i, u : Runs(d, [d EXCEPT !.consts[i] = u]) /\ Runs(d, [d EXCEPT !.consts[i] = u, !.cnext = (@ % NCONST) + 1])
    BY <1>1 DEF Runs, Made
  <2>2. SetConst(j, a, v) = d
        \/ \E i, u : SetConst(j, a, v) = [d EXCEPT !.consts[i] = u]
                     \/ SetConst(j, a, v) = [d EXCEPT !.consts[i] = u, !.cnext = (@ % NCONST) + 1]
    BY DEF SetConst, d
  <2> QED
    BY <1>1, <2>1, <2>2, RunsTrans
<1>4. \A r, neg : Runs(j, SetAlias(j, a, r, neg))
  <2> TAKE r, neg
  <2>1. /\ \A i, u : Runs(d, [d EXCEPT !.aliases[i] = u])
        /\ \A i, u : Runs(f, [f EXCEPT !.aliases[i] = u, !.anext = (@ % NALIAS) + 1])
    BY <1>1, <1>2 DEF Runs, Made
  <2>2. SetAlias(j, a, r, neg) = d
        \/ \E i, u : SetAlias(j, a, r, neg) = [d EXCEPT !.aliases[i] = u]
                     \/ SetAlias(j, a, r, neg) = [f EXCEPT !.aliases[i] = u, !.anext = (@ % NALIAS) + 1]
    BY DEF SetAlias, d, f
  <2> QED
    BY <1>1, <1>2, <2>1, <2>2, RunsTrans
<1>5. \A r : Runs(j, Bind(j, r, a))
  <2> TAKE r
  <2>1. \A u : Runs(d, [d EXCEPT !.regs[r] = u]) /\ Made([d EXCEPT !.regs[r] = u])
    BY <1>1 DEF Runs, Made
  <2>2. Bind(j, r, a) = j \/ Bind(j, r, a) = Use([d EXCEPT !.regs[r] = a], r)
    BY DEF Bind, d
  <2> QED
    BY <1>1, <2>1, <2>2, RunsTrans, RunsMarks
<1> QED
  BY <1>3, <1>4, <1>5

LEMMA RunsOrVal ==
  ASSUME NEW j, Made(j), NEW r, NEW v
  PROVE  Runs(j, OrVal(j, r, v))
<1> DEFINE t == ToReg(j, v)
           u == [t EXCEPT !.j.reg[r] = (@ + t.j.reg[t.r]) % Word]
           o == Clobber(u).j
<1>1. OfReg(t) /\ Runs(j, t.j)
  BY RunsToReg
<1>2. OfReg(u) /\ Runs(t.j, u.j)
  BY <1>1 DEF OfReg, Runs, Made
<1>3. Runs(u.j, o)
  BY <1>2, RunsGive DEF Runs
<1>4. Runs(o, Unpin(o, t.r))
  BY <1>3, RunsMarks DEF Runs
<1>5. OrVal(j, r, v) \in {j, o, Unpin(o, t.r)}
  BY DEF OrVal
<1> HIDE DEF t, u, o
<1> QED
  BY <1>1, <1>2, <1>3, <1>4, <1>5, RunsTrans, RunsMarks

LEMMA RunsShifted ==
  ASSUME NEW j, Made(j), NEW v, NEW left, NEW k
  PROVE  OfVal(Shifted(j, v, left, k)) /\ Runs(j, Shifted(j, v, left, k).j)
<1> DEFINE Sh(w) == IF left THEN Shl(w, k) ELSE Shr(w, k)
           p == ToReg(j, v)
           s == Scratch(p.j)
           g == Give(s, Sh(s.j.reg[p.r]))
<1>1. OfReg(p) /\ Runs(j, p.j)
  BY RunsToReg
<1>2. OfReg(s) /\ Runs(p.j, s.j)
  BY <1>1, RunsScratch DEF Runs
<1>3. OfReg(g) /\ Runs(s.j, g.j)
  BY <1>2, RunsGive DEF Runs
<1>4. OfReg(Clobber(g)) /\ Runs(g.j, Clobber(g).j)
  BY <1>3, RunsGive DEF Runs
<1>5. Shifted(j, v, left, k) = IF v.kind = "const" THEN [j |-> j, v |-> ConstVal(Sh(v.val))] ELSE Of(Clobber(g))
  BY DEF Shifted
<1>6. OfVal(Of(Clobber(g))) /\ Of(Clobber(g)).j = Clobber(g).j
  BY DEF Of, OfVal
<1> HIDE DEF p, s, g
<1> QED
  BY <1>1, <1>2, <1>3, <1>4, <1>5, <1>6, RunsTrans, RunsMarks DEF OfVal

LEMMA RunsLoadWord ==
  ASSUME NEW s, OfReg(s), Made(s.j), NEW a
  PROVE  OfReg(LoadWord(s, a)) /\ Runs(s.j, LoadWord(s, a).j) /\ LoadWord(s, a).r = s.r
<1> DEFINE g == Give(s, Rd(s.j.mem, a))
<1>1. OfReg(g) /\ Runs(s.j, g.j)
  BY RunsGive
<1>2. Runs(g.j, Bind(g.j, s.r, a))
  BY <1>1, RunsNaming DEF Runs
<1>3. LoadWord(s, a) = [s EXCEPT !.j = Bind(g.j, s.r, a)]
  BY DEF LoadWord
<1> HIDE DEF g
<1> QED
  BY <1>1, <1>2, <1>3, RunsTrans DEF OfReg

LEMMA RunsGetWord ==
  ASSUME NEW j, Made(j), NEW a
  PROVE  OfVal(GetWord(j, a)) /\ Runs(j, GetWord(j, a).j)
<1> DEFINE v == Find(j, a)
           covered == j.pend # None /\ ~Aligned(a) /\ j.pend \in SpanOf(a)
           f == IF covered THEN FlushPending(j) ELSE j
           s == Scratch(f)
           w == LoadWord(s, a)
<1>1. Runs(j, Touch(j, v))
  BY RunsMarks
<1>2. Runs(Touch(j, v), Pin(Touch(j, v), v))
  BY <1>1, RunsMarks DEF Runs
<1>3. Runs(j, f)
  BY RunsMarks, RunsFlushPending
<1>4. OfReg(s) /\ Runs(f, s.j)
  BY <1>3, RunsScratch DEF Runs
<1>5. OfReg(w) /\ Runs(s.j, w.j)
  BY <1>4, RunsLoadWord DEF Runs
<1>6. GetWord(j, a) = IF v # NoVal THEN [j |-> Pin(Touch(j, v), v), v |-> v] ELSE Of(w)
  BY DEF GetWord
<1>7. OfVal(Of(w)) /\ Of(w).j = w.j
  BY DEF Of, OfVal
<1> HIDE DEF v, f, s, w
<1> QED
  BY <1>1, <1>2, <1>3, <1>4, <1>5, <1>6, <1>7, RunsTrans DEF OfVal

LEMMA RunsMerged ==
  ASSUME NEW s, NEW h, OfVal(s), OfVal(h), Made(h.j)
  PROVE  OfVal(Merged(s, h)) /\ Runs(h.j, Merged(s, h).j)
<1>1. \A r, v : Runs(h.j, OrVal(h.j, r, v))
  BY RunsOrVal
<1>2. Runs(h.j, h.j)
  BY RunsMarks
<1>3. \/ Merged(s, h) = [j |-> h.j, v |-> ConstVal(s.v.val + h.v.val)]
      \/ Merged(s, h) = [j |-> OrVal(h.j, h.v.reg, s.v), v |-> h.v]
      \/ Merged(s, h) = [j |-> OrVal(h.j, s.v.reg, h.v), v |-> s.v]
  BY DEF Merged
<1> QED
  BY <1>1, <1>2, <1>3 DEF OfVal

(* The parts of Joined, each from the one before. *)
JoinPart(i, v, w) == IF v = NoVal THEN GetWord(i, w) ELSE [j |-> i, v |-> v]

LEMMA JoinedIs ==
  ASSUME NEW j, NEW a, NEW lo, NEW hi
  PROVE  LET k == a % WordBytes
             b == Pin(Pin(Touch(Touch(j, lo), hi), lo), hi)
             l == JoinPart(b, lo, Down(a))
             h == JoinPart(l.j, hi, Down(a) + WordBytes)
             s == Shifted(h.j, l.v, TRUE, k)
         IN  Joined(j, a, lo, hi) = Merged(s, Shifted(s.j, h.v, FALSE, WordBytes - k))
  BY DEF Joined, JoinPart

LEMMA RunsJoined ==
  ASSUME NEW j, Made(j), NEW a, NEW lo, NEW hi
  PROVE  OfVal(Joined(j, a, lo, hi)) /\ Runs(j, Joined(j, a, lo, hi).j)
<1> DEFINE k == a % WordBytes
           b == Pin(Pin(Touch(Touch(j, lo), hi), lo), hi)
           l == JoinPart(b, lo, Down(a))
           h == JoinPart(l.j, hi, Down(a) + WordBytes)
           s == Shifted(h.j, l.v, TRUE, k)
           g == Shifted(s.j, h.v, FALSE, WordBytes - k)
<1>1. \A i, v : Made(i) => Runs(i, Touch(i, v)) /\ Runs(i, Pin(i, v))
  BY RunsMarks
<1>2. Runs(j, b)
  BY <1>1, RunsTrans DEF Runs
<1>3. \A i, v, w : Made(i) => OfVal(JoinPart(i, v, w)) /\ Runs(i, JoinPart(i, v, w).j)
  BY RunsGetWord, RunsMarks DEF JoinPart, OfVal
<1>4. OfVal(l) /\ Runs(b, l.j)
  BY <1>2, <1>3 DEF Runs
<1>5. OfVal(h) /\ Runs(l.j, h.j)
  BY <1>3, <1>4 DEF Runs
<1>6. OfVal(s) /\ Runs(h.j, s.j)
  BY <1>5, RunsShifted DEF Runs
<1>7. OfVal(g) /\ Runs(s.j, g.j)
  BY <1>6, RunsShifted DEF Runs
<1>8. OfVal(Merged(s, g)) /\ Runs(g.j, Merged(s, g).j)
  BY <1>6, <1>7, RunsMerged DEF Runs
<1>9. Joined(j, a, lo, hi) = Merged(s, g)
  BY JoinedIs
<1> HIDE DEF b, l, h, s, g
<1> QED
  BY <1>2, <1>4, <1>5, <1>6, <1>7, <1>8, <1>9, RunsTrans

LEMMA RunsGetStatic ==
  ASSUME NEW j, Made(j), NEW a
  PROVE  OfVal(GetStatic(j, a)) /\ Runs(j, GetStatic(j, a).j)
  BY RunsJoined, RunsGetWord DEF GetStatic

(* The register MaskedOr masks w's copy in. *)
Masked(j, r, first, k) ==
  LET s == Scratch(j)
  IN  Clobber(Give([s EXCEPT !.j = GiveBack(Scratch(s.j))], Kept(s.j.reg[r], first, k)))

LEMMA MaskedOrIs ==
  ASSUME NEW j, NEW w, NEW first, NEW k, NEW part
  PROVE  LET p == ToReg(j, w)
             s == IF w.kind = "const" THEN Clobber(Give(Scratch(j), Kept(w.val, first, k)))
                  ELSE Masked(p.j, p.r, first, k)
         IN  MaskedOr(j, w, first, k, part) =
               IF w.kind = "const" /\ part.kind = "const"
               THEN [j |-> j, v |-> ConstVal(Kept(w.val, first, k) + part.val)]
               ELSE IF w.kind = "const" /\ Kept(w.val, first, k) = 0 THEN [j |-> j, v |-> part]
               ELSE [j |-> OrVal(s.j, s.r, part), v |-> RegVal(s.r)]
  BY DEF MaskedOr, Masked, Kept

LEMMA RunsMasked ==
  ASSUME NEW j, Made(j), NEW r, NEW first, NEW k
  PROVE  OfReg(Masked(j, r, first, k)) /\ Runs(j, Masked(j, r, first, k).j)
<1> DEFINE s == Scratch(j)
           m == Scratch(s.j)
           u == [s EXCEPT !.j = GiveBack(m)]
           g == Give(u, Kept(s.j.reg[r], first, k))
<1>1. OfReg(s) /\ Runs(j, s.j)
  BY RunsScratch
<1>2. OfReg(m) /\ Runs(s.j, m.j)
  BY <1>1, RunsScratch DEF Runs
<1>3. Runs(m.j, GiveBack(m))
  BY <1>2, RunsMarks DEF GiveBack, Runs
<1>4. OfReg(u) /\ u.j = GiveBack(m)
  BY <1>1 DEF OfReg
<1>5. OfReg(g) /\ Runs(u.j, g.j)
  BY <1>3, <1>4, RunsGive DEF Runs
<1>6. OfReg(Clobber(g)) /\ Runs(g.j, Clobber(g).j)
  BY <1>5, RunsGive DEF Runs
<1>7. Masked(j, r, first, k) = Clobber(g)
  BY DEF Masked
<1> HIDE DEF s, m, u, g
<1> QED
  BY <1>1, <1>2, <1>3, <1>4, <1>5, <1>6, <1>7, RunsTrans

LEMMA RunsMaskedOr ==
  ASSUME NEW j, Made(j), NEW w, NEW first, NEW k, NEW part
  PROVE  OfVal(MaskedOr(j, w, first, k, part)) /\ Runs(j, MaskedOr(j, w, first, k, part).j)
<1> DEFINE p == ToReg(j, w)
           c == Give(Scratch(j), Kept(w.val, first, k))
           m == Masked(p.j, p.r, first, k)
           s == IF w.kind = "const" THEN Clobber(c) ELSE m
<1>1. OfReg(c) /\ Runs(j, c.j)
  BY RunsScratch, RunsGive, RunsTrans DEF Runs
<1>2. OfReg(Clobber(c)) /\ Runs(j, Clobber(c).j)
  BY <1>1, RunsGive, RunsTrans DEF Runs
<1>3. OfReg(m) /\ Runs(j, m.j)
  BY RunsToReg, RunsMasked, RunsTrans DEF Runs
<1>4. OfReg(s) /\ Runs(j, s.j)
  BY <1>2, <1>3
<1>5. Runs(s.j, OrVal(s.j, s.r, part))
  BY <1>4, RunsOrVal DEF Runs
<1>6. \/ MaskedOr(j, w, first, k, part) = [j |-> j, v |-> ConstVal(Kept(w.val, first, k) + part.val)]
      \/ MaskedOr(j, w, first, k, part) = [j |-> j, v |-> part]
      \/ MaskedOr(j, w, first, k, part) = [j |-> OrVal(s.j, s.r, part), v |-> RegVal(s.r)]
  BY MaskedOrIs
<1> HIDE DEF s
<1> QED
  BY <1>4, <1>5, <1>6, RunsTrans, RunsMarks DEF OfVal

LEMMA RunsSetWord ==
  ASSUME NEW s, Made(s.j), NEW a
  PROVE  Runs(s.j, SetWord(s, a))
  BY RunsNaming DEF SetWord
-----------------------------------------------------------------------------
(* Taking registers *)

LEMMA Marks ==
  ASSUME NEW j, Typed(j)
  PROVE  /\ \A r \in Regs : Alike(j, Use(j, r)) /\ Use(j, r).pinned = j.pinned
         /\ \A r : Alike(j, Unpin(j, r)) /\ Unpin(j, r).pinned = j.pinned \ {r}
         /\ \A S \in SUBSET Regs :
              Alike(j, [j EXCEPT !.pinned = S]) /\ [j EXCEPT !.pinned = S].pinned = S
<1>1. ASSUME NEW r \in Regs PROVE Alike(j, Use(j, r)) /\ Use(j, r).pinned = j.pinned
  <2> DEFINE l == [q \in Regs |-> IF q = r THEN NREGS ELSE IF j.lru[q] > j.lru[r] THEN j.lru[q] - 1 ELSE j.lru[q]]
  <2>1. Use(j, r) = [j EXCEPT !.lru = l]
    BY DEF Use
  <2>2. l \in [Regs -> Nat]
    BY ConstantsAre DEF Typed
  <2> HIDE DEF l
  <2> QED
    BY <2>1, <2>2 DEF Alike, Typed
<1>2. ASSUME NEW r PROVE Alike(j, Unpin(j, r)) /\ Unpin(j, r).pinned = j.pinned \ {r}
  BY DEF Alike, Unpin, Typed
<1>3. ASSUME NEW S \in SUBSET Regs
      PROVE  Alike(j, [j EXCEPT !.pinned = S]) /\ [j EXCEPT !.pinned = S].pinned = S
  BY DEF Alike, Typed
<1> QED
  BY <1>1, <1>2, <1>3

LEMMA MarksOf ==
  ASSUME NEW j, Typed(j), NEW v, InReg(v) => v.reg \in Regs
  PROVE  /\ Alike(j, Touch(j, v)) /\ Touch(j, v).pinned = j.pinned
         /\ Alike(j, Pin(j, v))
         /\ Pin(j, v).pinned = IF InReg(v) THEN j.pinned \cup {v.reg} ELSE j.pinned
<1>1. Alike(j, j)
  BY DEF Alike, Typed
<1>2. Alike(j, Touch(j, v)) /\ Touch(j, v).pinned = j.pinned
  BY <1>1, Marks DEF Touch
<1>3. CASE InReg(v)
  <2>1. j.pinned \cup {v.reg} \in SUBSET Regs
    BY <1>3 DEF Typed
  <2>2. Pin(j, v) = [j EXCEPT !.pinned = j.pinned \cup {v.reg}]
    BY <1>3 DEF Pin
  <2> QED
    BY <1>2, <1>3, <2>1, <2>2, Marks
<1>4. CASE ~InReg(v)
  BY <1>1, <1>2, <1>4 DEF Pin
<1> QED
  BY <1>3, <1>4

LEMMA AlikeTrans ==
  ASSUME NEW j, NEW k, NEW l, Alike(j, k), Alike(k, l)
  PROVE  Alike(j, l)
  BY DEF Alike

LEMMA AlikeFits ==
  ASSUME NEW j, NEW k, NEW K, Fits(j, K), Alike(j, k)
  PROVE  Fits(k, K)
<1>1. Typed(k)
  BY DEF Fits, Typed, Alike
<1> QED
  BY <1>1, AlikeIs DEF Fits, Alike

(* What is held back is cached. *)
LEMMA Held ==
  ASSUME NEW j, NEW K, Fits(j, K), j.pend # None
  PROVE  /\ j.pend \in CWords /\ IsCval(HeldBack(j)) /\ Names(j, j.pend, HeldBack(j))
         /\ ValueOf(j, HeldBack(j)) = K[j.pend]
<1>1. j.pend \in CWords /\ j.pend \in Addresses
  BY WordsAre DEF Fits, Typed, CWords
<1>2. Find(j, j.pend) # NoVal
  BY <1>1, FindIs DEF Fits
<1> QED
  BY <1>1, <1>2, FindIs DEF Fits, HeldBack

LEMMA ForgetIs ==
  ASSUME NEW j, Typed(j), NEW r \in Regs
  PROVE  LET k == Forget(j, r)
         IN  /\ Typed(k) /\ k.reg = j.reg /\ k.mem = j.mem /\ k.pend = j.pend /\ k.live = j.live
             /\ k.flags = j.flags /\ k.pinned = j.pinned
             /\ NoNew(j, k) /\ Bare(k, r)
             /\ \A w \in CWords : \A v : Names(j, w, v) /\ ~(InReg(v) /\ v.reg = r) => Names(k, w, v)
<1> DEFINE k == Forget(j, r)
           al == [i \in 1 .. NALIAS |-> IF j.aliases[i].reg = r THEN NoAlias ELSE j.aliases[i]]
           rs == [j.regs EXCEPT ![r] = None]
<1>1. k = [j EXCEPT !.regs = rs, !.aliases = al]
  BY DEF Forget
<1>2. rs \in [Regs -> CWords \cup {None}] /\ rs[r] = None /\ \A q \in Regs : q # r => rs[q] = j.regs[q]
  BY DEF Typed
<1>3. al \in [1 .. NALIAS -> [addr : CWords \cup {None}, reg : Regs \cup {None}, neg : BOOLEAN]]
  BY DEF Typed, NoAlias
<1>4. \A i \in 1 .. NALIAS : \/ j.aliases[i].reg = r /\ al[i].addr = None /\ al[i].reg = None
                             \/ j.aliases[i].reg # r /\ al[i] = j.aliases[i]
  BY DEF NoAlias
<1> HIDE DEF rs, al
<1>5. /\ DOMAIN k = DOMAIN j /\ k.regs = rs /\ k.aliases = al /\ k.lru = j.lru /\ k.pinned = j.pinned
      /\ k.consts = j.consts /\ k.cnext = j.cnext /\ k.anext = j.anext /\ k.pend = j.pend
      /\ k.live = j.live /\ k.out = j.out /\ k.reg = j.reg /\ k.mem = j.mem /\ k.flags = j.flags
  BY <1>1 DEF Typed
<1> HIDE DEF k
<1>6. Typed(k)
  BY <1>2, <1>3, <1>4, <1>5 DEF Typed
<1>7. NoNew(j, k)
  <2> SUFFICES ASSUME NEW w \in CWords, NEW v, Names(k, w, v) PROVE Names(j, w, v)
    BY DEF NoNew
  <2> QED
    BY <1>2, <1>4, <1>5, NoneIs DEF Names
<1>8. Bare(k, r)
  <2> SUFFICES ASSUME NEW w \in CWords, NEW v, Names(k, w, v), InReg(v), v.reg = r PROVE FALSE
    BY DEF Bare
  <2>1. CASE \E i \in 1 .. NCONST : k.consts[i].addr = w /\ v = ConstVal(k.consts[i].val)
    BY <2>1, CvalIs
  <2>2. CASE \E q \in Regs : k.regs[q] = w /\ v = RegVal(q)
    BY <1>2, <1>5, <2>2, CvalIs, NoneIs
  <2>3. CASE \E i \in 1 .. NALIAS :
               /\ k.aliases[i].addr = w
               /\ v = IF k.aliases[i].neg THEN NegVal(k.aliases[i].reg) ELSE RegVal(k.aliases[i].reg)
    BY <1>4, <1>5, <2>3, CvalIs, NoneIs
  <2> QED
    BY <2>1, <2>2, <2>3 DEF Names
<1>9. ASSUME NEW w \in CWords, NEW v, Names(j, w, v), ~(InReg(v) /\ v.reg = r)
      PROVE  Names(k, w, v)
  <2>1. CASE \E i \in 1 .. NCONST : j.consts[i].addr = w /\ v = ConstVal(j.consts[i].val)
    BY <1>5, <2>1 DEF Names
  <2>2. CASE \E q \in Regs : j.regs[q] = w /\ v = RegVal(q)
    <3>1. PICK q \in Regs : j.regs[q] = w /\ v = RegVal(q)
      BY <2>2
    <3>2. q # r
      BY <1>9, <3>1, CvalIs
    <3> QED
      BY <1>2, <1>5, <3>1, <3>2 DEF Names
  <2>3. CASE \E i \in 1 .. NALIAS :
               /\ j.aliases[i].addr = w
               /\ v = IF j.aliases[i].neg THEN NegVal(j.aliases[i].reg) ELSE RegVal(j.aliases[i].reg)
    <3>1. PICK i \in 1 .. NALIAS :
               /\ j.aliases[i].addr = w
               /\ v = IF j.aliases[i].neg THEN NegVal(j.aliases[i].reg) ELSE RegVal(j.aliases[i].reg)
      BY <2>3
    <3>2. j.aliases[i].reg # r
      BY <1>9, <3>1, CvalIs
    <3> QED
      BY <1>4, <1>5, <3>1, <3>2 DEF Names
  <2> QED
    BY <1>9, <2>1, <2>2, <2>3 DEF Names
<1> QED
  BY <1>5, <1>6, <1>7, <1>8, <1>9 DEF k

(* A register that was taken: nothing stands in it. *)
Fresh(j, s, K) ==
  /\ OfReg(s) /\ Tight(j, s.j, K)
  /\ s.r \in Regs /\ s.r \notin j.pinned /\ s.r \in s.j.pinned /\ Bare(s.j, s.r)

LEMMA VictimIs ==
  ASSUME NEW j, Typed(j), ~Spent(j)
  PROVE  Victim(j) \in Regs /\ Victim(j) \notin j.pinned
<1> DEFINE open == Regs \ j.pinned
           free == {r \in open : j.regs[r] = None /\ ~Aliased(j, r)}
<1>1. open # {} /\ open \subseteq Nat
  BY DEF Spent, Regs
<1>2. free \in SUBSET Nat /\ (free # {} => Min(free) \in free)
  BY <1>1, MinIn
<1>3. \E r \in open : \A q \in open : j.lru[r] <= j.lru[q]
  <2> DEFINE T == {j.lru[r] : r \in open}
  <2>1. T \in SUBSET Nat /\ T # {}
    BY <1>1 DEF Typed
  <2>2. PICK u \in T : \A y \in T : u <= y
    BY <2>1, LeastNat
  <2> QED
    BY <2>2
<1>4. Victim(j) = IF free # {} THEN Min(free)
                  ELSE CHOOSE r \in open : \A q \in open : j.lru[r] <= j.lru[q]
  BY DEF Victim
<1>5. Victim(j) \in open
  BY <1>2, <1>3, <1>4
<1> QED
  BY <1>5

(* A pinned register whose value nothing more depends on is forgotten. *)
LEMMA TakeRest ==
  ASSUME NEW j, NEW K, Fits(j, K), NEW r \in Regs, r \notin j.pinned, NEW k,
         Tight([j EXCEPT !.pinned = @ \cup {r}], k, K),
         k.pend # None => \E v : Names(k, k.pend, v) /\ ~(InReg(v) /\ v.reg = r)
  PROVE  Fresh(j, [j |-> Forget(k, r), r |-> r], K)
<1> DEFINE p == [j EXCEPT !.pinned = @ \cup {r}]
           l == Forget(k, r)
<1>1. Typed(j) /\ j.pinned \cup {r} \in SUBSET Regs
  BY DEF Fits, Typed
<1>2. Alike(j, p) /\ p.pinned = j.pinned \cup {r}
  BY <1>1, Marks
<1>3. Tight(j, p, K)
  BY <1>2, AlikeKeeps
<1>10. Tight(p, k, K)
  OBVIOUS
<1> HIDE DEF p
<1>11. Tight(j, k, K)
  BY <1>3, <1>10, TightTrans
<1>4. Tight(j, k, K) /\ Typed(k) /\ r \in k.pinned /\ Fits(k, K)
  BY <1>2, <1>10, <1>11, TightIs
<1>5. /\ Typed(l) /\ l.reg = k.reg /\ l.mem = k.mem /\ l.pend = k.pend /\ l.live = k.live
      /\ l.flags = k.flags /\ l.pinned = k.pinned
      /\ NoNew(k, l) /\ Bare(l, r)
      /\ \A w \in CWords : \A v : Names(k, w, v) /\ ~(InReg(v) /\ v.reg = r) => Names(l, w, v)
  BY <1>4, ForgetIs
<1> HIDE DEF l
<1>6. \A v : ValueOf(l, v) = ValueOf(k, v)
  BY <1>5 DEF ValueOf
<1>7. Fits(l, K)
  BY <1>4, <1>5, <1>6 DEF Fits, Typed, NoNew
<1>8. Tight(j, l, K)
  BY <1>4, <1>5, <1>7 DEF Tight, Keeps, Stays, NoNew
<1> QED
  BY <1>4, <1>5, <1>8 DEF Fresh, OfReg, l

LEMMA ScratchPlainIs ==
  ASSUME NEW j, NEW K, Fits(j, K), j.pend = None, ~ScratchPlain(j).j.out
  PROVE  Fresh(j, ScratchPlain(j), K)
<1> DEFINE r == Victim(j)
           p == [j EXCEPT !.pinned = @ \cup {r}]
<1>1. Typed(j) /\ OutOfRegs(j).j.out = TRUE
  BY DEF Fits, Typed, OutOfRegs
<1>2. ~Spent(j) /\ ScratchPlain(j) = TakePlain(j, r)
  BY <1>1 DEF ScratchPlain
<1>3. r \in Regs /\ r \notin j.pinned
  BY <1>1, <1>2, VictimIs
<1>4. Alike(j, p) /\ p.pend = None
  BY <1>1, <1>3, Marks DEF Typed, Alike
<1>8. Fits(p, K)
  BY <1>4, AlikeFits
<1>9. Alike(p, p)
  BY <1>4 DEF Alike
<1>5. Tight(p, p, K)
  BY <1>8, <1>9, AlikeKeeps
<1>6. TakePlain(j, r) = [j |-> Forget(p, r), r |-> r]
  BY DEF TakePlain
<1> HIDE DEF p, r
<1>7. Fresh(j, [j |-> Forget(p, r), r |-> r], K)
  BY <1>3, <1>4, <1>5, TakeRest DEF p
<1> QED
  BY <1>2, <1>6, <1>7

(* A register nothing stands in may be written. *)
LEMMA PutReg ==
  ASSUME NEW j, NEW K, Fits(j, K), NEW r \in Regs, Bare(j, r), NEW w \in Value
  PROVE  LET k == [j EXCEPT !.reg[r] = w]
         IN  /\ Fits(k, K) /\ Bare(k, r) /\ k.reg[r] = w /\ k.pinned = j.pinned /\ k.live = j.live
             /\ k.flags = j.flags /\ k.pend = j.pend /\ k.mem = j.mem /\ k.regs = j.regs
             /\ k.aliases = j.aliases /\ k.anext = j.anext
             /\ \A q \in Regs : q # r => k.reg[q] = j.reg[q]
             /\ \A a, v : Names(k, a, v) <=> Names(j, a, v)
             /\ \A i, A : Keeps(i, j, K, A) /\ r \notin i.pinned => Keeps(i, k, K, A)
             /\ \A i : Tight(i, j, K) /\ r \notin i.pinned => Tight(i, k, K)
<1> DEFINE rs == [j.reg EXCEPT ![r] = w]
           k == [j EXCEPT !.reg = rs]
<1>1. Typed(j)
  BY DEF Fits
<1>2. rs \in [Regs -> Value] /\ rs[r] = w /\ \A q \in Regs : q # r => rs[q] = j.reg[q]
  BY <1>1 DEF Typed
<1> HIDE DEF rs
<1>3. /\ DOMAIN k = DOMAIN j /\ k.reg = rs /\ k.regs = j.regs /\ k.aliases = j.aliases
      /\ k.lru = j.lru /\ k.pinned = j.pinned
      /\ k.consts = j.consts /\ k.cnext = j.cnext /\ k.anext = j.anext /\ k.pend = j.pend
      /\ k.live = j.live /\ k.out = j.out /\ k.mem = j.mem /\ k.flags = j.flags
  BY <1>1 DEF Typed
<1> HIDE DEF k
<1>4. Typed(k)
  BY <1>1, <1>2, <1>3 DEF Typed
<1>5. \A a, v : Names(k, a, v) <=> Names(j, a, v)
  BY <1>3 DEF Names
<1>6. Bare(k, r)
  BY <1>5 DEF Bare
<1>7. Fits(k, K)
  <2>1. ASSUME NEW a \in CWords, NEW v, Names(k, a, v) PROVE ValueOf(k, v) = K[a]
    <3>1. Names(j, a, v) /\ IsCval(v) /\ ~(InReg(v) /\ v.reg = r)
      BY <1>1, <1>5, <2>1, NamesType DEF Bare
    <3>2. ValueOf(j, v) = K[a]
      BY <3>1 DEF Fits
    <3>3. InReg(v) => v.reg \in Regs /\ k.reg[v.reg] = j.reg[v.reg]
      BY <1>2, <1>3, <3>1, CvalCases
    <3> QED
      BY <3>1, <3>2, <3>3, ValueOfIs, CvalCases
  <2> QED
    BY <1>3, <1>4, <1>5, <2>1 DEF Fits
<1>8. ASSUME NEW i, NEW A, Keeps(i, j, K, A), r \notin i.pinned PROVE Keeps(i, k, K, A)
  <2>1. \A q \in i.pinned : k.reg[q] = i.reg[q]
    BY <1>1, <1>2, <1>3, <1>8 DEF Keeps, Stays, Typed
  <2> QED
    BY <1>3, <1>5, <1>7, <1>8, <2>1 DEF Keeps, Stays
<1>9. ASSUME NEW i, Tight(i, j, K), r \notin i.pinned PROVE Tight(i, k, K)
  BY <1>5, <1>8, <1>9 DEF Tight, NoNew
<1>10. k = [j EXCEPT !.reg[r] = w]
  BY DEF k, rs
<1> QED
  BY <1>2, <1>3, <1>5, <1>6, <1>7, <1>8, <1>9, <1>10

LEMMA PutFlags ==
  ASSUME NEW j, NEW K, Fits(j, K), NEW f
  PROVE  LET k == [j EXCEPT !.flags = f]
         IN  /\ Fits(k, K) /\ k.flags = f /\ k.reg = j.reg /\ k.pinned = j.pinned
             /\ k.live = j.live /\ k.pend = j.pend /\ k.mem = j.mem /\ k.regs = j.regs
             /\ k.aliases = j.aliases /\ k.anext = j.anext
             /\ \A a, v : Names(k, a, v) <=> Names(j, a, v)
             /\ \A v : ValueOf(k, v) = ValueOf(j, v)
             /\ \A i, A : Keeps(i, j, K, A) /\ ~j.live => Keeps(i, k, K, A)
             /\ \A i : Tight(i, j, K) /\ ~j.live => Tight(i, k, K)
<1> DEFINE k == [j EXCEPT !.flags = f]
<1>1. Typed(j)
  BY DEF Fits
<1>2. /\ DOMAIN k = DOMAIN j /\ k.reg = j.reg /\ k.regs = j.regs /\ k.aliases = j.aliases
      /\ k.lru = j.lru /\ k.pinned = j.pinned /\ k.flags = f
      /\ k.consts = j.consts /\ k.cnext = j.cnext /\ k.anext = j.anext /\ k.pend = j.pend
      /\ k.live = j.live /\ k.out = j.out /\ k.mem = j.mem
  BY <1>1 DEF Typed
<1> HIDE DEF k
<1>3. Typed(k)
  BY <1>1, <1>2 DEF Typed
<1>4. (\A a, v : Names(k, a, v) <=> Names(j, a, v)) /\ \A v : ValueOf(k, v) = ValueOf(j, v)
  BY <1>2 DEF Names, ValueOf
<1>5. Fits(k, K)
  BY <1>2, <1>3, <1>4 DEF Fits
<1>6. ASSUME NEW i, NEW A, Keeps(i, j, K, A), ~j.live PROVE Keeps(i, k, K, A)
  BY <1>2, <1>4, <1>5, <1>6 DEF Keeps, Stays
<1>7. ASSUME NEW i, Tight(i, j, K), ~j.live PROVE Tight(i, k, K)
  BY <1>4, <1>6, <1>7 DEF Tight, NoNew
<1> QED
  BY <1>2, <1>4, <1>5, <1>6, <1>7 DEF k

LEMMA DropPin ==
  ASSUME NEW j, NEW K, Fits(j, K), NEW r
  PROVE  LET k == Unpin(j, r)
         IN  /\ Fits(k, K) /\ k.reg = j.reg /\ k.pinned = j.pinned \ {r} /\ k.live = j.live
             /\ k.flags = j.flags /\ k.pend = j.pend /\ k.mem = j.mem
             /\ \A a, v : Names(k, a, v) <=> Names(j, a, v)
             /\ \A i, A : Keeps(i, j, K, A) /\ r \notin i.pinned => Keeps(i, k, K, A)
             /\ \A i : Tight(i, j, K) /\ r \notin i.pinned => Tight(i, k, K)
<1> DEFINE k == Unpin(j, r)
<1>1. Typed(j)
  BY DEF Fits
<1>2. Alike(j, k) /\ k.pinned = j.pinned \ {r}
  BY <1>1, Marks
<1>3. Fits(k, K) /\ (\A a, v : Names(k, a, v) <=> Names(j, a, v))
  BY <1>2, AlikeFits, AlikeIs
<1> HIDE DEF k
<1>4. k.reg = j.reg /\ k.live = j.live /\ k.flags = j.flags /\ k.pend = j.pend /\ k.mem = j.mem
  BY <1>2 DEF Alike
<1>5. ASSUME NEW i, NEW A, Keeps(i, j, K, A), r \notin i.pinned PROVE Keeps(i, k, K, A)
  BY <1>2, <1>3, <1>4, <1>5 DEF Keeps, Stays
<1>6. ASSUME NEW i, Tight(i, j, K), r \notin i.pinned PROVE Tight(i, k, K)
  BY <1>3, <1>5, <1>6 DEF Tight, NoNew
<1> QED
  BY <1>2, <1>3, <1>4, <1>5, <1>6 DEF k

LEMMA GiveFresh ==
  ASSUME NEW j, NEW s, NEW K, Fresh(j, s, K), NEW w \in Value
  PROVE  Fresh(j, Give(s, w), K) /\ Give(s, w).r = s.r /\ Give(s, w).j.reg[s.r] = w
         /\ Give(s, w).j.live = j.live
<1> DEFINE k == [s.j EXCEPT !.reg[s.r] = w]
<1>1. Fits(s.j, K) /\ s.r \in Regs /\ Bare(s.j, s.r) /\ s.j.live = j.live
  BY TightIs DEF Fresh
<1>2. /\ Bare(k, s.r) /\ k.reg[s.r] = w /\ k.pinned = s.j.pinned /\ k.live = s.j.live
      /\ Tight(j, k, K)
  BY <1>1, PutReg DEF Fresh
<1>3. Give(s, w) = [s EXCEPT !.j = k]
  BY DEF Give
<1> HIDE DEF k
<1> QED
  BY <1>1, <1>2, <1>3 DEF Fresh, OfReg

LEMMA ClobberFresh ==
  ASSUME NEW j, NEW s, NEW K, Fresh(j, s, K), ~j.live
  PROVE  Fresh(j, Clobber(s), K) /\ Clobber(s).r = s.r /\ Clobber(s).j.reg = s.j.reg
<1> DEFINE k == [s.j EXCEPT !.flags = "none"]
<1>1. Fits(s.j, K) /\ ~s.j.live
  BY TightIs DEF Fresh
<1>2. /\ k.reg = s.j.reg /\ k.pinned = s.j.pinned /\ Tight(j, k, K)
      /\ \A a, v : Names(k, a, v) <=> Names(s.j, a, v)
  BY <1>1, PutFlags DEF Fresh
<1>3. Clobber(s) = [s EXCEPT !.j = k]
  BY DEF Clobber
<1> HIDE DEF k
<1> QED
  BY <1>2, <1>3 DEF Fresh, OfReg, Bare

(* A register with the value of v: its own, or one that was taken. *)
Loads(j, s, K, v) ==
  /\ OfReg(s) /\ Tight(j, s.j, K)
  /\ s.r \in Regs /\ s.j.reg[s.r] = ValueOf(j, v)
  /\ IF v.kind = "reg" THEN s.j = j /\ s.r = v.reg ELSE Fresh(j, s, K)

LEMMA SelfTight ==
  ASSUME NEW j, NEW K, Fits(j, K)
  PROVE  Tight(j, j, K)
<1>1. Alike(j, j)
  BY DEF Alike, Fits, Typed
<1> QED
  BY <1>1, AlikeKeeps

LEMMA PinTight ==
  ASSUME NEW j, NEW K, Fits(j, K), NEW v, InReg(v) => v.reg \in Regs
  PROVE  /\ Tight(j, Pin(j, v), K) /\ Tight(j, Touch(j, v), K)
         /\ Fits(Pin(j, v), K) /\ Fits(Touch(j, v), K)
         /\ Pin(j, v).pinned = (IF InReg(v) THEN j.pinned \cup {v.reg} ELSE j.pinned)
         /\ Touch(j, v).pinned = j.pinned
         /\ \A u : ValueOf(Pin(j, v), u) = ValueOf(j, u) /\ ValueOf(Touch(j, v), u) = ValueOf(j, u)
         /\ \A w, u : (Names(Pin(j, v), w, u) <=> Names(j, w, u))
                      /\ (Names(Touch(j, v), w, u) <=> Names(j, w, u))
         /\ Pin(j, v).pend = j.pend /\ Pin(j, v).mem = j.mem /\ Pin(j, v).live = j.live
         /\ Touch(j, v).pend = j.pend /\ Touch(j, v).mem = j.mem /\ Touch(j, v).live = j.live
<1>1. Typed(j)
  BY DEF Fits
<1>2. /\ Alike(j, Touch(j, v)) /\ Touch(j, v).pinned = j.pinned
      /\ Alike(j, Pin(j, v))
      /\ Pin(j, v).pinned = IF InReg(v) THEN j.pinned \cup {v.reg} ELSE j.pinned
  BY <1>1, MarksOf
<1>3. Tight(j, Pin(j, v), K) /\ Fits(Pin(j, v), K)
  BY <1>2, AlikeKeeps
<1>4. Tight(j, Touch(j, v), K) /\ Fits(Touch(j, v), K)
  BY <1>2, AlikeKeeps
<1>5. \A u : ValueOf(Pin(j, v), u) = ValueOf(j, u) /\ ValueOf(Touch(j, v), u) = ValueOf(j, u)
  BY <1>2, AlikeIs
<1>6. \A w, u : (Names(Pin(j, v), w, u) <=> Names(j, w, u))
                /\ (Names(Touch(j, v), w, u) <=> Names(j, w, u))
  BY <1>2, AlikeIs
<1>7. /\ Pin(j, v).pend = j.pend /\ Pin(j, v).mem = j.mem /\ Pin(j, v).live = j.live
      /\ Touch(j, v).pend = j.pend /\ Touch(j, v).mem = j.mem /\ Touch(j, v).live = j.live
  BY <1>2 DEF Alike
<1> QED
  BY <1>2, <1>3, <1>4, <1>5, <1>6, <1>7

(* What is pinned keeps its value. *)
LEMMA SameValue ==
  ASSUME NEW j, NEW k, NEW K, NEW A, Keeps(j, k, K, A), NEW v, IsCval(v),
         InReg(v) => v.reg \in j.pinned
  PROVE  ValueOf(k, v) = ValueOf(j, v)
<1>1. InReg(v) => k.reg[v.reg] = j.reg[v.reg]
  BY DEF Keeps, Stays
<1> QED
  BY <1>1, ValueOfIs, CvalCases

LEMMA NegatedLoads ==
  ASSUME NEW j, NEW K, Fits(j, K), NEW v, IsCval(v), v.kind # "reg", NEW s, Fresh(Pin(j, v), s, K)
  PROVE  Loads(j, Negated(s, v), K, v)
<1> DEFINE p == Pin(j, v)
           u == ValueOf(s.j, v)
           g == Give(s, u)
<1>1. /\ InReg(v) => v.reg \in Regs
      /\ Typed(j)
  BY CvalCases DEF Fits
<1>2. Tight(j, p, K) /\ Fits(p, K) /\ j.pinned \subseteq p.pinned /\ p.live = j.live
      /\ (InReg(v) => v.reg \in p.pinned) /\ ValueOf(p, v) = ValueOf(j, v)
  <2>1. /\ Tight(j, p, K) /\ Fits(p, K) /\ p.live = j.live
        /\ p.pinned = (IF InReg(v) THEN j.pinned \cup {v.reg} ELSE j.pinned)
    BY <1>1, PinTight
  <2>2. ValueOf(p, v) = ValueOf(j, v)
    BY <1>1, MarksOf, AlikeIs
  <2> HIDE DEF p
  <2> QED
    BY <2>1, <2>2
<1> HIDE DEF p
<1>3. Fresh(p, s, K)
  BY DEF p
<1>4. u = ValueOf(j, v) /\ s.j.live = j.live
  <2>1. Keeps(p, s.j, K, {})
    BY <1>3 DEF Fresh, Tight
  <2> QED
    BY <1>2, <2>1, SameValue DEF Keeps, Stays
<1>5. u \in Value
  BY <1>1, <1>4, ValueType
<1> HIDE DEF u
<1>6. Fresh(p, g, K) /\ g.r = s.r /\ g.j.reg[s.r] = u
  BY <1>3, <1>5, GiveFresh
<1> HIDE DEF g
<1>7. ~p.live => Fresh(p, Clobber(g), K) /\ Clobber(g).r = g.r /\ Clobber(g).j.reg = g.j.reg
  BY <1>6, ClobberFresh
<1>8. \E t \in {g, Clobber(g)} : Negated(s, v) = t /\ Fresh(p, t, K) /\ t.r = s.r /\ t.j.reg[s.r] = u
  BY <1>2, <1>4, <1>6, <1>7 DEF Negated, g, u
<1>9. PICK t \in {g, Clobber(g)} : Negated(s, v) = t /\ Fresh(p, t, K) /\ t.r = s.r /\ t.j.reg[s.r] = u
  BY <1>8
<1>10. Fresh(j, t, K)
  BY <1>2, <1>9, TightTrans DEF Fresh
<1> QED
  BY <1>4, <1>9, <1>10 DEF Loads, Fresh

LEMMA OwnLoads ==
  ASSUME NEW j, NEW K, Fits(j, K), NEW v, IsCval(v), v.kind = "reg"
  PROVE  Loads(j, [j |-> j, r |-> v.reg], K, v)
  BY SelfTight, CvalCases, ValueOfIs DEF Loads, OfReg

LEMMA ToRegPlainIs ==
  ASSUME NEW j, NEW K, Fits(j, K), j.pend = None, NEW v, IsCval(v),
         ~ToRegWith(ScratchPlain, j, v).j.out
  PROVE  Loads(j, ToRegWith(ScratchPlain, j, v), K, v)
<1> DEFINE p == Pin(j, v)
           s == ScratchPlain(p)
<1>1. ToRegWith(ScratchPlain, j, v) = IF v.kind = "reg" THEN [j |-> j, r |-> v.reg] ELSE Negated(s, v)
  BY DEF ToRegWith
<1>2. CASE v.kind = "reg"
  BY <1>1, <1>2, OwnLoads
<1>3. CASE v.kind # "reg"
  <2>1. Fits(p, K) /\ p.pend = None
    BY CvalCases, PinTight
  <2>2. Made(p)
    BY <2>1 DEF Fits, Typed, Made
  <2>3. OfReg(s) /\ Runs(p, s.j)
    BY <2>2, RunsScratchPlain
  <2>4. Runs(s.j, Negated(s, v).j)
    BY <2>3, RunsNegated DEF Runs
  <2>5. ~s.j.out
    BY <1>1, <1>3, <2>4 DEF Runs
  <2>6. Fresh(p, s, K)
    BY <2>1, <2>5, ScratchPlainIs
  <2> HIDE DEF s
  <2> QED
    BY <1>1, <1>3, <2>6, NegatedLoads
<1> QED
  BY <1>2, <1>3
-----------------------------------------------------------------------------
(* Storing what is held back *)

LEMMA PutMem ==
  ASSUME NEW j, NEW K, Fits(j, K), NEW m \in Memories
  PROVE  LET k == [j EXCEPT !.mem = m]
         IN  /\ Fits(k, K) /\ k.mem = m /\ k.reg = j.reg /\ k.pinned = j.pinned
             /\ k.live = j.live /\ k.flags = j.flags /\ k.pend = j.pend
             /\ \A a, v : Names(k, a, v) <=> Names(j, a, v)
             /\ \A i : Firm(i, j, K) => Firm(i, k, K)
<1> DEFINE k == [j EXCEPT !.mem = m]
<1>1. Typed(j)
  BY DEF Fits
<1>2. /\ DOMAIN k = DOMAIN j /\ k.reg = j.reg /\ k.regs = j.regs /\ k.aliases = j.aliases
      /\ k.lru = j.lru /\ k.pinned = j.pinned /\ k.flags = j.flags
      /\ k.consts = j.consts /\ k.cnext = j.cnext /\ k.anext = j.anext /\ k.pend = j.pend
      /\ k.live = j.live /\ k.out = j.out /\ k.mem = m
  BY <1>1 DEF Typed
<1> HIDE DEF k
<1>3. Typed(k)
  BY <1>1, <1>2 DEF Typed
<1>4. (\A a, v : Names(k, a, v) <=> Names(j, a, v)) /\ \A v : ValueOf(k, v) = ValueOf(j, v)
  BY <1>2 DEF Names, ValueOf
<1>5. Fits(k, K)
  BY <1>2, <1>3, <1>4 DEF Fits
<1>6. ASSUME NEW i, Firm(i, j, K) PROVE Firm(i, k, K)
  BY <1>2, <1>4, <1>5, <1>6 DEF Firm, Stays, NoNew
<1> QED
  BY <1>2, <1>4, <1>5, <1>6 DEF k

(* A word was stored at a, with nothing held back. *)
Puts(j, k, K, a, v) == Firm(j, k, K) /\ k.pend = None /\ k.mem = Wr(j.mem, a, v)

LEMMA StoreRegIs ==
  ASSUME NEW j, NEW K, Fits(j, K), j.pend = None, NEW r \in Regs, NEW a \in Addresses,
         ~StoreReg(j, r, a).out
  PROVE  Puts(j, StoreReg(j, r, a), K, a, j.reg[r])
<1> DEFINE v == j.reg[r]
<1>1. v \in Value /\ j.mem \in Memories /\ Typed(j)
  BY DEF Fits, Typed
<1> HIDE DEF v
<1>2. CASE UseMovbe
  <2>1. StoreReg(j, r, a) = [j EXCEPT !.mem = Wr(j.mem, a, v)]
    BY <1>2 DEF StoreReg, v
  <2>2. Wr(j.mem, a, v) \in Memories
    BY <1>1, WrIs
  <2>3. Firm(j, j, K)
    BY SelfTight, TightIs
  <2> QED
    BY <2>1, <2>2, <2>3, PutMem DEF Puts, v
<1>3. CASE ~UseMovbe
  <2> DEFINE s == ScratchPlain(j)
             g == Give(s, v)
             l == [g.j EXCEPT !.mem = Wr(g.j.mem, a, g.j.reg[g.r])]
  <2>1. StoreReg(j, r, a) = l
    BY <1>3 DEF StoreReg, v
  <2>2. OfReg(s) /\ Runs(j, s.j)
    BY <1>1, RunsScratchPlain DEF Made, Typed
  <2>3. OfReg(g) /\ Runs(s.j, g.j)
    BY <2>2, RunsGive DEF Runs
  <2> HIDE DEF g
  <2>4. Runs(g.j, l)
    BY <2>3, RunsMarks DEF Runs
  <2>5. ~s.j.out
    BY <2>1, <2>3, <2>4 DEF Runs
  <2> HIDE DEF s
  <2>6. Fresh(j, s, K)
    BY <2>5, ScratchPlainIs DEF s
  <2>7. Fresh(j, g, K) /\ g.r = s.r /\ g.j.reg[s.r] = v
    BY <1>1, <2>6, GiveFresh DEF g
  <2>8. Fits(g.j, K) /\ Firm(j, g.j, K) /\ g.j.pend = None /\ g.j.mem = j.mem
    BY <2>7, TightIs DEF Fresh
  <2>9. Wr(g.j.mem, a, v) \in Memories /\ l = [g.j EXCEPT !.mem = Wr(g.j.mem, a, v)]
    BY <1>1, <2>7, <2>8, WrIs
  <2> HIDE DEF l
  <2> QED
    BY <2>1, <2>8, <2>9, PutMem DEF Puts, v
<1> QED
  BY <1>2, <1>3

LEMMA StoreConstIs ==
  ASSUME NEW j, NEW K, Fits(j, K), j.pend = None, NEW v \in Value, NEW dyn, NEW a \in Addresses,
         ~StoreConst(j, v, dyn, a).out
  PROVE  Puts(j, StoreConst(j, v, dyn, a), K, a, v)
<1>1. j.mem \in Memories /\ Typed(j)
  BY DEF Fits, Typed
<1>2. CASE ~dyn /\ ShortConst(v)
  <2>1. StoreConst(j, v, dyn, a) = [j EXCEPT !.mem = Wr(j.mem, a, v)]
    BY <1>2 DEF StoreConst
  <2>2. Wr(j.mem, a, v) \in Memories
    BY <1>1, WrIs
  <2>3. Firm(j, j, K)
    BY SelfTight, TightIs
  <2> QED
    BY <2>1, <2>2, <2>3, PutMem DEF Puts
<1>3. CASE ~(~dyn /\ ShortConst(v))
  <2> DEFINE s == ScratchPlain(j)
             g == Give(s, v)
             l == [g.j EXCEPT !.mem = Wr(g.j.mem, a, v)]
  <2>1. StoreConst(j, v, dyn, a) = l
    BY <1>3 DEF StoreConst
  <2>2. OfReg(s) /\ Runs(j, s.j)
    BY <1>1, RunsScratchPlain DEF Made, Typed
  <2>3. OfReg(g) /\ Runs(s.j, g.j)
    BY <2>2, RunsGive DEF Runs
  <2> HIDE DEF g
  <2>4. Runs(g.j, l)
    BY <2>3, RunsMarks DEF Runs
  <2>5. ~s.j.out
    BY <2>1, <2>3, <2>4 DEF Runs
  <2> HIDE DEF s
  <2>6. Fresh(j, s, K)
    BY <2>5, ScratchPlainIs DEF s
  <2>7. Fresh(j, g, K) /\ g.r = s.r /\ g.j.reg[s.r] = v
    BY <1>1, <2>6, GiveFresh DEF g
  <2>8. Fits(g.j, K) /\ Firm(j, g.j, K) /\ g.j.pend = None /\ g.j.mem = j.mem
    BY <2>7, TightIs DEF Fresh
  <2>9. Wr(g.j.mem, a, v) \in Memories
    BY <1>1, <2>8, WrIs
  <2> QED
    BY <2>1, <2>8, <2>9, PutMem DEF Puts
<1> QED
  BY <1>2, <1>3

LEMMA FirmDropPin ==
  ASSUME NEW i, NEW j, NEW K, Firm(i, j, K), NEW S, S \cap i.pinned = {},
         NEW k, k = [j EXCEPT !.pinned = j.pinned \ S]
  PROVE  Firm(i, k, K) /\ k.pend = j.pend /\ k.mem = j.mem
<1>1. Fits(j, K) /\ Typed(j)
  BY DEF Firm, Stays, Fits
<1>2. j.pinned \ S \in SUBSET Regs
  BY <1>1 DEF Typed
<1>3. Alike(j, k) /\ k.pinned = j.pinned \ S
  BY <1>1, <1>2, Marks
<1>4. Fits(k, K) /\ (\A a, v : Names(k, a, v) <=> Names(j, a, v))
  BY <1>1, <1>3, AlikeFits, AlikeIs
<1>5. k.reg = j.reg /\ k.live = j.live /\ k.flags = j.flags /\ k.pend = j.pend /\ k.mem = j.mem
  BY <1>3 DEF Alike
<1>6. Firm(i, k, K)
  BY <1>3, <1>4, <1>5 DEF Firm, Stays, NoNew
<1> QED
  BY <1>5, <1>6

LEMMA FlushValueIs ==
  ASSUME NEW j, NEW K, Fits(j, K), j.pend = None, NEW a \in Addresses, NEW v, IsCval(v),
         ~FlushValue(j, a, v).out
  PROVE  Puts(j, FlushValue(j, a, v), K, a, ValueOf(j, v))
<1> DEFINE b == Pin(j, v)
           s == ToRegWith(ScratchPlain, b, v)
           m == StoreReg(s.j, s.r, a)
           p == [m EXCEPT !.pinned = @ \ ({s.r} \ {v.reg})]
           q == [p EXCEPT !.pinned = @ \ ({v.reg} \ j.pinned)]
<1>1. FlushValue(j, a, v) = IF v.kind = "const" THEN StoreConst(j, v.val, FALSE, a) ELSE q
  BY DEF FlushValue
<1>2. CASE v.kind = "const"
  BY <1>1, <1>2, StoreConstIs, CvalCases, ValueOfIs
<1>3. CASE v.kind # "const"
  <2>1. v.reg \in Regs /\ InReg(v)
    BY <1>3, CvalCases
  <2>2. /\ Tight(j, b, K) /\ Fits(b, K) /\ ValueOf(b, v) = ValueOf(j, v)
        /\ b.pend = j.pend /\ b.mem = j.mem
    BY <2>1, PinTight
  <2>14. b.pinned = j.pinned \cup {v.reg}
    BY <2>1, PinTight
  <2> HIDE DEF b
  <2>3. OfReg(s) /\ Runs(b, s.j)
    BY <2>2, RunsToRegPlain DEF Fits, Typed, Made
  <2> HIDE DEF s
  <2>4. Runs(s.j, m)
    BY <2>3, RunsStoreReg DEF Runs
  <2> HIDE DEF m
  <2>5. Runs(m, p)
    BY <2>4, RunsMarks DEF Runs
  <2> HIDE DEF p
  <2>6. Runs(p, q)
    BY <2>5, RunsMarks DEF Runs
  <2> HIDE DEF q
  <2>7. ~s.j.out /\ ~m.out
    BY <1>1, <1>3, <2>4, <2>5, <2>6 DEF Runs
  <2>8. Loads(b, s, K, v)
    BY <2>2, <2>7, ToRegPlainIs DEF s
  <2>9. Tight(b, s.j, K) /\ s.r \in Regs /\ s.j.reg[s.r] = ValueOf(j, v)
        /\ (s.r = v.reg \/ s.r \notin b.pinned)
    BY <2>2, <2>8 DEF Loads, Fresh
  <2>10. Firm(j, s.j, K) /\ Fits(s.j, K) /\ s.j.pend = None /\ s.j.mem = j.mem
    BY <2>2, <2>9, TightTrans, TightIs
  <2>11. Puts(s.j, m, K, a, ValueOf(j, v))
    BY <2>7, <2>9, <2>10, StoreRegIs DEF m
  <2>12. Firm(j, m, K) /\ m.pend = None /\ m.mem = Wr(j.mem, a, ValueOf(j, v))
    BY <2>10, <2>11, FirmTrans DEF Puts
  <2>13. Firm(j, p, K) /\ p.pend = m.pend /\ p.mem = m.mem
    <3> DEFINE S == {s.r} \ {v.reg}
    <3>1. S \cap j.pinned = {}
      BY <2>9, <2>14
    <3>2. p = [m EXCEPT !.pinned = m.pinned \ S]
      BY DEF p
    <3> HIDE DEF S
    <3> QED
      BY <2>12, <3>1, <3>2, FirmDropPin
  <2>15. Firm(j, q, K) /\ q.pend = p.pend /\ q.mem = p.mem
    <3> DEFINE S == {v.reg} \ j.pinned
    <3>1. S \cap j.pinned = {}
      OBVIOUS
    <3>2. q = [p EXCEPT !.pinned = p.pinned \ S]
      BY DEF q
    <3> HIDE DEF S
    <3> QED
      BY <2>13, <3>1, <3>2, FirmDropPin
  <2> QED
    BY <1>1, <1>3, <2>12, <2>13, <2>15 DEF Puts
<1> QED
  BY <1>2, <1>3

LEMMA FlushPendingIs ==
  ASSUME NEW j, NEW K, Fits(j, K), ~FlushPending(j).out
  PROVE  Tight(j, FlushPending(j), K) /\ FlushPending(j).pend = None
         /\ FlushPending(j).mem = Whole(j, K)
<1> DEFINE v == HeldBack(j)
           d == [j EXCEPT !.pend = None]
           t == Touch(d, v)
           k == FlushValue(t, j.pend, v)
<1>1. FlushPending(j) = IF j.pend = None THEN j ELSE k
  BY DEF FlushPending
<1>2. CASE j.pend = None
  BY <1>1, <1>2, SelfTight DEF Whole
<1>3. CASE j.pend # None
  <2>1. /\ j.pend \in CWords /\ IsCval(v) /\ ValueOf(j, v) = K[j.pend]
        /\ j.pend \in Addresses
    BY <1>3, Held, WordsAre DEF CWords
  <2> HIDE DEF v
  <2>2. /\ DOMAIN d = DOMAIN j /\ d.reg = j.reg /\ d.regs = j.regs /\ d.aliases = j.aliases
        /\ d.lru = j.lru /\ d.pinned = j.pinned /\ d.flags = j.flags
        /\ d.consts = j.consts /\ d.cnext = j.cnext /\ d.anext = j.anext /\ d.pend = None
        /\ d.live = j.live /\ d.out = j.out /\ d.mem = j.mem /\ Typed(j)
    BY DEF Fits, Typed
  <2> HIDE DEF d
  <2>3. Typed(d)
    BY <2>2 DEF Typed
  <2>4. (\A a, u : Names(d, a, u) <=> Names(j, a, u)) /\ \A u : ValueOf(d, u) = ValueOf(j, u)
    BY <2>2 DEF Names, ValueOf
  <2>5. Fits(d, K)
    BY <2>2, <2>3, <2>4 DEF Fits
  <2>6. Firm(j, d, K)
    BY <2>2, <2>4, <2>5 DEF Firm, Stays, NoNew
  <2>7. InReg(v) => v.reg \in Regs
    BY <2>1, CvalCases
  <2>13. Tight(d, t, K) /\ Fits(t, K) /\ t.pend = d.pend /\ t.mem = d.mem
    BY <2>5, <2>7, PinTight
  <2>14. \A u : ValueOf(t, u) = ValueOf(d, u)
    BY <2>5, <2>7, PinTight
  <2>8. Tight(d, t, K) /\ Fits(t, K) /\ t.pend = None /\ t.mem = j.mem /\ ValueOf(t, v) = K[j.pend]
    BY <2>1, <2>2, <2>4, <2>13, <2>14
  <2> HIDE DEF t
  <2>9. Firm(j, t, K)
    BY <2>6, <2>8, FirmTrans, TightIs
  <2>10. Puts(t, k, K, j.pend, K[j.pend])
    BY <1>1, <1>3, <2>1, <2>8, FlushValueIs
  <2> HIDE DEF k
  <2>11. Firm(j, k, K)
    BY <2>9, <2>10, FirmTrans DEF Puts
  <2>12. k.pend = None /\ k.mem = Whole(j, K)
    BY <1>3, <2>8, <2>10 DEF Puts, Whole
  <2> QED
    BY <1>1, <1>3, <2>11, <2>12 DEF Tight, Firm, Keeps
<1> QED
  BY <1>2, <1>3

LEMMA TakeIs ==
  ASSUME NEW j, NEW K, Fits(j, K), NEW r \in Regs, r \notin j.pinned, ~Take(j, r).j.out
  PROVE  Fresh(j, Take(j, r), K)
<1> DEFINE p == [j EXCEPT !.pinned = @ \cup {r}]
           v == HeldBack(p)
           f == FlushPending(Touch(p, v))
           l == IF InReg(v) /\ v.reg = r THEN f ELSE Touch(p, v)
<1>1. Typed(j) /\ j.pinned \cup {r} \in SUBSET Regs
  BY DEF Fits, Typed
<1>2. Alike(j, p)
  BY <1>1, Marks
<1>3. Fits(p, K)
  BY <1>2, AlikeFits
<1>4. Take(j, r) = [j |-> Forget(l, r), r |-> r]
  BY DEF Take, Release
<1>5. /\ p.pend # None => IsCval(v) /\ Names(p, p.pend, v)
      /\ p.pend = None => v = NoVal
  BY <1>3, Held DEF HeldBack
<1> HIDE DEF v
<1>6. InReg(v) => v.reg \in Regs
  BY <1>5, CvalCases, CvalIs
<1>7. Tight(p, Touch(p, v), K) /\ Fits(Touch(p, v), K) /\ Touch(p, v).pend = p.pend
      /\ \A w, u : (Names(Touch(p, v), w, u) <=> Names(p, w, u))
  BY <1>3, <1>6, PinTight
<1>8. Tight(p, l, K) /\ (l.pend # None => \E u : Names(l, l.pend, u) /\ ~(InReg(u) /\ u.reg = r))
  <2>1. CASE InReg(v) /\ v.reg = r
    <3>1. Made(Touch(p, v))
      BY <1>7 DEF Fits, Typed, Made
    <3>2. Runs(Touch(p, v), f)
      BY <3>1, RunsFlushPending
    <3>3. Runs(f, Forget(f, r))
      BY <3>2, RunsMarks DEF Runs
    <3>4. ~f.out
      BY <1>4, <2>1, <3>3 DEF Runs
    <3>5. Tight(Touch(p, v), f, K) /\ f.pend = None
      BY <1>7, <3>4, FlushPendingIs
    <3> QED
      BY <1>7, <2>1, <3>5, TightTrans
  <2>2. CASE ~(InReg(v) /\ v.reg = r)
    BY <1>5, <1>7, <2>2
  <2> QED
    BY <2>1, <2>2
<1> HIDE DEF l
<1>9. Fresh(j, [j |-> Forget(l, r), r |-> r], K)
  BY <1>8, TakeRest
<1> QED
  BY <1>4, <1>9

LEMMA ScratchIs ==
  ASSUME NEW j, NEW K, Fits(j, K), ~Scratch(j).j.out
  PROVE  Fresh(j, Scratch(j), K)
<1>1. Typed(j) /\ OutOfRegs(j).j.out = TRUE
  BY DEF Fits, Typed, OutOfRegs
<1>2. ~Spent(j) /\ Scratch(j) = Take(j, Victim(j))
  BY <1>1 DEF Scratch
<1>3. Victim(j) \in Regs /\ Victim(j) \notin j.pinned
  BY <1>1, <1>2, VictimIs
<1> QED
  BY <1>2, <1>3, TakeIs

LEMMA ToRegIs ==
  ASSUME NEW j, NEW K, Fits(j, K), NEW v, IsCval(v), ~ToReg(j, v).j.out
  PROVE  Loads(j, ToReg(j, v), K, v)
<1> DEFINE p == Pin(j, v)
           s == Scratch(p)
<1>1. ToReg(j, v) = IF v.kind = "reg" THEN [j |-> j, r |-> v.reg] ELSE Negated(s, v)
  BY DEF ToReg, ToRegWith
<1>2. CASE v.kind = "reg"
  BY <1>1, <1>2, OwnLoads
<1>3. CASE v.kind # "reg"
  <2>1. Fits(p, K)
    BY CvalCases, PinTight
  <2>2. Made(p)
    BY <2>1 DEF Fits, Typed, Made
  <2>3. OfReg(s) /\ Runs(p, s.j)
    BY <2>2, RunsScratch
  <2>4. Runs(s.j, Negated(s, v).j)
    BY <2>3, RunsNegated DEF Runs
  <2>5. ~s.j.out
    BY <1>1, <1>3, <2>4 DEF Runs
  <2>6. Fresh(p, s, K)
    BY <2>1, <2>5, ScratchIs
  <2> HIDE DEF s
  <2> QED
    BY <1>1, <1>3, <2>6, NegatedLoads
<1> QED
  BY <1>2, <1>3
-----------------------------------------------------------------------------
(* Naming what stands for a word *)

LEMMA NextIs ==
  ASSUME NEW t \in Nat \ {0}, NEW i \in 1 .. t
  PROVE  (i % t) + 1 \in 1 .. t
<1>1. i \in Nat
  OBVIOUS
<1>2. i % t \in 0 .. t - 1
  BY <1>1, DivIs
<1> DEFINE y == i % t
<1> HIDE DEF y
<1>3. y + 1 \in 1 .. t
  BY <1>2 DEF y
<1> QED
  BY <1>3 DEF y

(* All but the tables of the cache and the order of use. *)
SameButNames(j, k) ==
  /\ k.pinned = j.pinned /\ k.pend = j.pend /\ k.live = j.live /\ k.out = j.out
  /\ k.reg = j.reg /\ k.mem = j.mem /\ k.flags = j.flags

LEMMA CacheDropIs ==
  ASSUME NEW j, Typed(j), NEW a
  PROVE  LET k == CacheDrop(j, a)
         IN  /\ Typed(k) /\ SameButNames(j, k)
             /\ \A r \in Regs : k.regs[r] = IF j.regs[r] = a THEN None ELSE j.regs[r]
             /\ \A w \in CWords : \A v : Names(k, w, v) <=> Names(j, w, v) /\ w # a
<1> DEFINE k == CacheDrop(j, a)
           rs == [r \in Regs |-> IF j.regs[r] = a THEN None ELSE j.regs[r]]
           cs == [i \in 1 .. NCONST |-> IF j.consts[i].addr = a THEN NoConst ELSE j.consts[i]]
           al == [i \in 1 .. NALIAS |-> IF j.aliases[i].addr = a THEN NoAlias ELSE j.aliases[i]]
<1>1. k = [j EXCEPT !.regs = rs, !.consts = cs, !.aliases = al]
  BY DEF CacheDrop
<1>2. rs \in [Regs -> CWords \cup {None}]
      /\ \A r \in Regs : rs[r] = IF j.regs[r] = a THEN None ELSE j.regs[r]
  BY DEF Typed
<1>3. cs \in [1 .. NCONST -> [addr : CWords \cup {None}, val : Value]]
  <2>1. 0 \in Value
    BY NegIs, WordIs DEF Value
  <2> QED
    BY <2>1 DEF Typed, NoConst
<1>4. al \in [1 .. NALIAS -> [addr : CWords \cup {None}, reg : Regs \cup {None}, neg : BOOLEAN]]
  BY DEF Typed, NoAlias
<1>5. /\ \A i \in 1 .. NCONST : IF j.consts[i].addr = a THEN cs[i].addr = None ELSE cs[i] = j.consts[i]
      /\ \A i \in 1 .. NALIAS : IF j.aliases[i].addr = a THEN al[i].addr = None ELSE al[i] = j.aliases[i]
  BY DEF NoAlias, NoConst
<1> HIDE DEF rs, cs, al
<1>6. /\ DOMAIN k = DOMAIN j /\ k.regs = rs /\ k.aliases = al /\ k.consts = cs
      /\ k.lru = j.lru /\ k.cnext = j.cnext /\ k.anext = j.anext /\ SameButNames(j, k)
  BY <1>1 DEF Typed, SameButNames
<1> HIDE DEF k
<1>7. Typed(k)
  BY <1>2, <1>3, <1>4, <1>5, <1>6 DEF Typed, SameButNames
<1>8. \A w \in CWords : \A v : Names(k, w, v) <=> Names(j, w, v) /\ w # a
  <2> TAKE w \in CWords
  <2> TAKE v
  <2>1. w # None
    BY NoneIs
  <2>2. (\E i \in 1 .. NCONST : k.consts[i].addr = w /\ v = ConstVal(k.consts[i].val))
        <=> w # a /\ \E i \in 1 .. NCONST : j.consts[i].addr = w /\ v = ConstVal(j.consts[i].val)
    BY <1>5, <1>6, <2>1
  <2>3. (\E r \in Regs : k.regs[r] = w /\ v = RegVal(r))
        <=> w # a /\ \E r \in Regs : j.regs[r] = w /\ v = RegVal(r)
    BY <1>2, <1>6, <2>1
  <2>4. (\E i \in 1 .. NALIAS :
           /\ k.aliases[i].addr = w
           /\ v = IF k.aliases[i].neg THEN NegVal(k.aliases[i].reg) ELSE RegVal(k.aliases[i].reg))
        <=> w # a /\ \E i \in 1 .. NALIAS :
           /\ j.aliases[i].addr = w
           /\ v = IF j.aliases[i].neg THEN NegVal(j.aliases[i].reg) ELSE RegVal(j.aliases[i].reg)
    BY <1>5, <1>6, <2>1
  <2> QED
    BY <2>2, <2>3, <2>4 DEF Names
<1> QED
  BY <1>2, <1>6, <1>7, <1>8 DEF k

LEMMA CacheDropAllIs ==
  ASSUME NEW j, Typed(j)
  PROVE  LET k == CacheDropAll(j)
         IN  /\ Typed(k) /\ SameButNames(j, k)
             /\ \A w \in CWords : \A v : ~Names(k, w, v)
<1> DEFINE k == CacheDropAll(j)
<1>1. k = [j EXCEPT !.regs = [r \in Regs |-> None],
                    !.consts = [i \in 1 .. NCONST |-> NoConst],
                    !.aliases = [i \in 1 .. NALIAS |-> NoAlias]]
  BY DEF CacheDropAll
<1>2. /\ DOMAIN k = DOMAIN j /\ k.regs = [r \in Regs |-> None]
      /\ k.consts = [i \in 1 .. NCONST |-> NoConst] /\ k.aliases = [i \in 1 .. NALIAS |-> NoAlias]
      /\ k.lru = j.lru /\ k.cnext = j.cnext /\ k.anext = j.anext /\ SameButNames(j, k)
  BY <1>1 DEF Typed, SameButNames
<1> HIDE DEF k
<1>3. 0 \in Value
  BY NegIs, WordIs DEF Value
<1>4. Typed(k)
  BY <1>2, <1>3 DEF Typed, SameButNames, NoConst, NoAlias
<1>5. \A w \in CWords : \A v : ~Names(k, w, v)
  BY <1>2, NoneIs DEF Names, NoConst, NoAlias
<1> QED
  BY <1>2, <1>4, <1>5 DEF k

(* k is j but that u alone stands for a, and it may be that less than before *)
(* stands for other words.                                                   *)
Renamed(j, k, a, u) ==
  /\ Typed(k) /\ SameButNames(j, k)
  /\ Names(k, a, u) /\ \A v : Names(k, a, v) => v = u
  /\ \A w \in CWords \ {a} : \A v : Names(k, w, v) => Names(j, w, v)

LEMMA SetConstIs ==
  ASSUME NEW j, Typed(j), NEW a \in CWords, NEW v \in Value
  PROVE  /\ Renamed(j, SetConst(j, a, v), a, ConstVal(v))
         /\ \A w \in CWords \ {a} : \A u :
              Names(j, w, u) /\ InReg(u) => Names(SetConst(j, a, v), w, u)
<1> DEFINE d == CacheDrop(j, a)
           free == {i \in 1 .. NCONST : d.consts[i] = NoConst}
           k == SetConst(j, a, v)
           new == [addr |-> a, val |-> v]
<1>1. /\ Typed(d) /\ SameButNames(j, d)
      /\ \A w \in CWords : \A u : Names(d, w, u) <=> Names(j, w, u) /\ w # a
  BY CacheDropIs
<1>2. Cacheable(a)
  BY CacheableIs, WordsAre DEF CWords
<1>3. free # {} => Min(free) \in free
  <2>1. free \in SUBSET Nat
    OBVIOUS
  <2> QED
    BY <2>1, MinIn
<1>4. k = IF free # {} THEN [d EXCEPT !.consts[Min(free)] = new]
          ELSE [d EXCEPT !.consts[d.cnext] = new, !.cnext = (d.cnext % NCONST) + 1]
  BY <1>2 DEF SetConst
<1> HIDE DEF d
<1>5. PICK i \in 1 .. NCONST :
         /\ DOMAIN k = DOMAIN d /\ k.regs = d.regs /\ k.aliases = d.aliases /\ k.lru = d.lru
         /\ k.consts = [d.consts EXCEPT ![i] = new] /\ k.cnext \in 1 .. NCONST /\ k.anext = d.anext
         /\ SameButNames(d, k)
  <2>1. d.cnext \in 1 .. NCONST /\ (d.cnext % NCONST) + 1 \in 1 .. NCONST
    <3>1. d.cnext \in 1 .. NCONST
      BY <1>1 DEF Typed
    <3> QED
      BY <3>1, ConstantsAre, NextIs
  <2>2. CASE free # {}
    <3>1. Min(free) \in 1 .. NCONST
      BY <1>3, <2>2
    <3> HIDE DEF free
    <3>2. k = [d EXCEPT !.consts[Min(free)] = new]
      BY <1>4, <2>2
    <3> HIDE DEF k, new
    <3>3. /\ DOMAIN k = DOMAIN d /\ k.regs = d.regs /\ k.aliases = d.aliases /\ k.lru = d.lru
          /\ k.consts = [d.consts EXCEPT ![Min(free)] = new] /\ k.cnext \in 1 .. NCONST
          /\ k.anext = d.anext /\ SameButNames(d, k)
      BY <1>1, <2>1, <3>2 DEF Typed, SameButNames
    <3> QED
      BY <3>1, <3>3
  <2>3. CASE free = {}
    <3> HIDE DEF free
    <3>2. k = [d EXCEPT !.consts[d.cnext] = new, !.cnext = (d.cnext % NCONST) + 1]
      BY <1>4, <2>3
    <3> HIDE DEF k, new
    <3>3. /\ DOMAIN k = DOMAIN d /\ k.regs = d.regs /\ k.aliases = d.aliases /\ k.lru = d.lru
          /\ k.consts = [d.consts EXCEPT ![d.cnext] = new] /\ k.cnext \in 1 .. NCONST
          /\ k.anext = d.anext /\ SameButNames(d, k)
      BY <1>1, <2>1, <3>2 DEF Typed, SameButNames
    <3> QED
      BY <2>1, <3>3
  <2> QED
    BY <2>2, <2>3
<1> HIDE DEF k, free
<1>6. k.consts \in [1 .. NCONST -> [addr : CWords \cup {None}, val : Value]]
      /\ k.consts[i] = new /\ \A l \in 1 .. NCONST : l # i => k.consts[l] = d.consts[l]
  <2>1. new \in [addr : CWords \cup {None}, val : Value]
    OBVIOUS
  <2> HIDE DEF new
  <2>2. d.consts \in [1 .. NCONST -> [addr : CWords \cup {None}, val : Value]]
    BY <1>1 DEF Typed
  <2> QED
    BY <1>5, <2>1, <2>2
<1>7. Typed(k)
  BY <1>1, <1>5, <1>6 DEF Typed, SameButNames
<1>8. SameButNames(j, k)
  BY <1>1, <1>5 DEF SameButNames
<1>9. Names(k, a, ConstVal(v))
  BY <1>6 DEF Names
<1>10. ASSUME NEW w \in CWords, NEW u, Names(k, w, u)
       PROVE  Names(d, w, u) \/ (w = a /\ u = ConstVal(v))
  BY <1>5, <1>6, <1>10 DEF Names
<1>11. ASSUME NEW w \in CWords, NEW u, InReg(u), Names(d, w, u)
       PROVE  Names(k, w, u)
  BY <1>5, <1>11, CvalIs DEF Names
<1>12. Renamed(j, k, a, ConstVal(v))
  BY <1>1, <1>7, <1>8, <1>9, <1>10 DEF Renamed
<1> QED
  BY <1>1, <1>11, <1>12 DEF k

LEMMA BindIs ==
  ASSUME NEW j, Typed(j), NEW a \in CWords, NEW r \in Regs, j.regs[r] \in {None, a}
  PROVE  /\ Renamed(j, Bind(j, r, a), a, RegVal(r))
         /\ \A w \in CWords \ {a} : \A u : Names(j, w, u) => Names(Bind(j, r, a), w, u)
<1> DEFINE d == CacheDrop(j, a)
           rs == [d.regs EXCEPT ![r] = a]
           b == [d EXCEPT !.regs = rs]
           k == Use(b, r)
<1>1. /\ Typed(d) /\ SameButNames(j, d) /\ d.regs[r] = None
      /\ \A w \in CWords : \A u : Names(d, w, u) <=> Names(j, w, u) /\ w # a
  BY CacheDropIs
<1>2. Cacheable(a)
  BY CacheableIs, WordsAre DEF CWords
<1>3. Bind(j, r, a) = k
  BY <1>2 DEF Bind
<1> HIDE DEF d
<1>4. rs \in [Regs -> CWords \cup {None}] /\ rs[r] = a /\ \A q \in Regs : q # r => rs[q] = d.regs[q]
  BY <1>1 DEF Typed
<1> HIDE DEF rs
<1>5. /\ DOMAIN b = DOMAIN d /\ b.regs = rs /\ b.aliases = d.aliases /\ b.lru = d.lru
      /\ b.consts = d.consts /\ b.cnext = d.cnext /\ b.anext = d.anext /\ SameButNames(d, b)
  BY <1>1 DEF Typed, SameButNames
<1> HIDE DEF b
<1>6. Typed(b)
  BY <1>1, <1>4, <1>5 DEF Typed, SameButNames
<1>7. Alike(b, k) /\ k.pinned = b.pinned
  BY <1>6, Marks
<1> HIDE DEF k
<1>8. SameButNames(j, k) /\ k.regs = rs /\ k.aliases = d.aliases /\ k.consts = d.consts
  BY <1>1, <1>5, <1>7 DEF Alike, SameButNames
<1>9. Typed(k)
  BY <1>6, <1>7 DEF Typed, Alike
<1>10. Names(k, a, RegVal(r))
  BY <1>4, <1>8 DEF Names
<1>11. ASSUME NEW w \in CWords, NEW u, Names(k, w, u)
       PROVE  Names(d, w, u) \/ (w = a /\ u = RegVal(r))
  BY <1>4, <1>8, <1>11 DEF Names
<1>12. ASSUME NEW w \in CWords, NEW u, Names(d, w, u)
       PROVE  Names(k, w, u)
  BY <1>1, <1>4, <1>8, <1>12, NoneIs DEF Names
<1>13. Renamed(j, k, a, RegVal(r))
  BY <1>1, <1>8, <1>9, <1>10, <1>11 DEF Renamed
<1> QED
  BY <1>1, <1>3, <1>12, <1>13

(* The cache is right but for a, which is about to get another name. *)
Loose(j, K, a) ==
  /\ Typed(j)
  /\ \A w \in CWords \ {a} : \A v : Names(j, w, v) => ValueOf(j, v) = K[w]
  /\ j.pend \notin {None, a} => \E v : Names(j, j.pend, v)

LEMMA FitsLoose ==
  ASSUME NEW j, NEW K, Fits(j, K), NEW a
  PROVE  Loose(j, K, a)
  BY DEF Fits, Loose

LEMMA RenamedFits ==
  ASSUME NEW j, NEW K \in Views, NEW a \in CWords, Loose(j, K, a), NEW k, NEW u, Renamed(j, k, a, u),
         j.pend \notin {None, a} => \E v : Names(k, j.pend, v)
  PROVE  Fits(k, [K EXCEPT ![a] = ValueOf(j, u)])
<1> DEFINE L == [K EXCEPT ![a] = ValueOf(j, u)]
<1>1. L[a] = ValueOf(j, u) /\ \A w \in CWords : w # a => L[w] = K[w]
  BY DEF Views
<1> HIDE DEF L
<1>2. \A v : ValueOf(k, v) = ValueOf(j, v)
  BY DEF Renamed, SameButNames, ValueOf
<1>3. ASSUME NEW w \in CWords, NEW v, Names(k, w, v) PROVE ValueOf(k, v) = L[w]
  <2>1. CASE w = a
    BY <1>1, <1>2, <1>3, <2>1 DEF Renamed
  <2>2. CASE w # a
    BY <1>1, <1>2, <1>3, <2>2 DEF Renamed, Loose
  <2> QED
    BY <2>1, <2>2
<1>4. k.pend # None => \E v : Names(k, k.pend, v)
  BY DEF Renamed, SameButNames
<1>5. Fits(k, L)
  BY <1>3, <1>4 DEF Fits, Renamed
<1> QED
  BY <1>5 DEF L

LEMMA NameConst ==
  ASSUME NEW j, NEW K \in Views, NEW a \in CWords, Loose(j, K, a), j.pend \in {None, a},
         NEW v \in Value
  PROVE  /\ Fits(SetConst(j, a, v), [K EXCEPT ![a] = v]) /\ SameButNames(j, SetConst(j, a, v))
         /\ \E u : Names(SetConst(j, a, v), a, u)
         /\ \A w \in CWords \ {a} : \A u : Names(SetConst(j, a, v), w, u) => Names(j, w, u)
<1>1. Renamed(j, SetConst(j, a, v), a, ConstVal(v))
  BY SetConstIs DEF Loose
<1>2. ValueOf(j, ConstVal(v)) = v
  BY CvalIs
<1>3. Fits(SetConst(j, a, v), [K EXCEPT ![a] = ValueOf(j, ConstVal(v))])
  BY <1>1, RenamedFits
<1>4. Fits(SetConst(j, a, v), [K EXCEPT ![a] = v])
  BY <1>2, <1>3
<1> QED
  BY <1>1, <1>4 DEF Renamed

LEMMA NameReg ==
  ASSUME NEW j, NEW K \in Views, NEW a \in CWords, Loose(j, K, a), NEW r \in Regs,
         j.regs[r] \in {None, a}
  PROVE  /\ Fits(Bind(j, r, a), [K EXCEPT ![a] = j.reg[r]]) /\ SameButNames(j, Bind(j, r, a))
         /\ \E u : Names(Bind(j, r, a), a, u)
         /\ \A w \in CWords \ {a} : \A u : Names(Bind(j, r, a), w, u) => Names(j, w, u)
<1>1. /\ Renamed(j, Bind(j, r, a), a, RegVal(r))
      /\ \A w \in CWords \ {a} : \A u : Names(j, w, u) => Names(Bind(j, r, a), w, u)
  BY BindIs DEF Loose
<1>2. ValueOf(j, RegVal(r)) = j.reg[r]
  BY CvalIs
<1>3. j.pend \notin {None, a} => \E v : Names(Bind(j, r, a), j.pend, v)
  BY <1>1 DEF Loose, Typed
<1>4. Fits(Bind(j, r, a), [K EXCEPT ![a] = ValueOf(j, RegVal(r))])
  BY <1>1, <1>3, RenamedFits
<1>5. Fits(Bind(j, r, a), [K EXCEPT ![a] = j.reg[r]])
  BY <1>2, <1>4
<1> QED
  BY <1>1, <1>5 DEF Renamed

(* What SetAlias does once the word's old names are dropped. *)
Aliasing(j, k, i, a, r, neg) ==
  \/ k = [j EXCEPT !.aliases[i] = [addr |-> a, reg |-> r, neg |-> neg]]
  \/ k = [j EXCEPT !.aliases[i] = [addr |-> a, reg |-> r, neg |-> neg],
                   !.anext = (@ % NALIAS) + 1]

LEMMA AliasIs ==
  ASSUME NEW j, Typed(j), NEW a \in CWords, NEW r \in Regs, NEW neg \in BOOLEAN, NEW k,
         NEW i \in 1 .. NALIAS, \A v : ~Names(j, a, v), Aliasing(j, k, i, a, r, neg)
  PROVE  /\ Renamed(j, k, a, IF neg THEN NegVal(r) ELSE RegVal(r))
         /\ \A w \in CWords \ {a} : \A u :
              Names(j, w, u) /\ w # j.aliases[i].addr => Names(k, w, u)
<1> DEFINE new == [addr |-> a, reg |-> r, neg |-> neg]
           al == [j.aliases EXCEPT ![i] = new]
           u0 == IF neg THEN NegVal(r) ELSE RegVal(r)
<1>1. new \in [addr : CWords \cup {None}, reg : Regs \cup {None}, neg : BOOLEAN]
  OBVIOUS
<1>2. new.addr = a /\ new.reg = r /\ u0 = IF new.neg THEN NegVal(new.reg) ELSE RegVal(new.reg)
  OBVIOUS
<1>3. j.anext \in 1 .. NALIAS /\ (j.anext % NALIAS) + 1 \in 1 .. NALIAS
  BY ConstantsAre, NextIs DEF Typed
<1> HIDE DEF new
<1>4. k = [j EXCEPT !.aliases = al] \/ k = [j EXCEPT !.aliases = al, !.anext = (j.anext % NALIAS) + 1]
  BY DEF new, Aliasing
<1>5. al \in [1 .. NALIAS -> [addr : CWords \cup {None}, reg : Regs \cup {None}, neg : BOOLEAN]]
      /\ al[i] = new /\ \A l \in 1 .. NALIAS : l # i => al[l] = j.aliases[l]
  BY <1>1 DEF Typed
<1> HIDE DEF al, u0
<1>6. /\ DOMAIN k = DOMAIN j /\ k.regs = j.regs /\ k.aliases = al /\ k.lru = j.lru
      /\ k.consts = j.consts /\ k.cnext = j.cnext /\ k.anext \in 1 .. NALIAS /\ SameButNames(j, k)
  <2>1. CASE k = [j EXCEPT !.aliases = al]
    BY <1>3, <2>1 DEF Typed, SameButNames
  <2>2. CASE k = [j EXCEPT !.aliases = al, !.anext = (j.anext % NALIAS) + 1]
    <3> DEFINE y == (j.anext % NALIAS) + 1
    <3>1. y \in 1 .. NALIAS /\ k = [j EXCEPT !.aliases = al, !.anext = y]
      BY <1>3, <2>2
    <3> HIDE DEF y
    <3> QED
      BY <3>1 DEF Typed, SameButNames
  <2> QED
    BY <1>4, <2>1, <2>2
<1>7. Typed(k)
  BY <1>2, <1>5, <1>6 DEF Typed, SameButNames
<1>8. Names(k, a, u0)
  BY <1>2, <1>5, <1>6 DEF Names
<1>9. ASSUME NEW w \in CWords, NEW u, Names(k, w, u)
      PROVE  Names(j, w, u) \/ (w = a /\ u = u0)
  BY <1>2, <1>5, <1>6, <1>9 DEF Names
<1>10. ASSUME NEW w \in CWords, NEW u, Names(j, w, u), w # j.aliases[i].addr
       PROVE  Names(k, w, u)
  BY <1>5, <1>6, <1>10 DEF Names
<1>11. Renamed(j, k, a, u0)
  BY <1>6, <1>7, <1>8, <1>9 DEF Renamed
<1> QED
  BY <1>10, <1>11 DEF u0

LEMMA NameAlias ==
  ASSUME NEW j, NEW K \in Views, NEW a \in CWords, Loose(j, K, a), NEW r \in j.pinned,
         NEW neg \in BOOLEAN, NEW v, v = ValueOf(j, IF neg THEN NegVal(r) ELSE RegVal(r)),
         ~SetAlias(j, a, r, neg).out
  PROVE  LET k == SetAlias(j, a, r, neg)
         IN  /\ Fits(k, [K EXCEPT ![a] = v])
             /\ k.live = j.live /\ (j.live => k.flags = j.flags)
             /\ j.pinned \subseteq k.pinned /\ \A q \in j.pinned : k.reg[q] = j.reg[q]
             /\ \E u : Names(k, a, u)
             /\ \/ k.pend = j.pend /\ k.mem = j.mem
                \/ j.pend \notin {None, a} /\ k.pend = None /\ k.mem = Whole(j, K)
<1> DEFINE d == CacheDrop(j, a)
           new == [addr |-> a, reg |-> r, neg |-> neg]
           u0 == IF neg THEN NegVal(r) ELSE RegVal(r)
           free == {i \in 1 .. NALIAS : d.aliases[i] = NoAlias}
           evicts == d.pend # None /\ d.pend = d.aliases[d.anext].addr
           f == IF evicts THEN FlushPending(d) ELSE d
           k == SetAlias(j, a, r, neg)
<1>1. /\ Typed(d) /\ SameButNames(j, d)
      /\ \A w \in CWords : \A u : Names(d, w, u) <=> Names(j, w, u) /\ w # a
  BY CacheDropIs DEF Loose
<1>2. Cacheable(a)
  BY CacheableIs, WordsAre DEF CWords
<1>3. k = IF free # {} THEN [d EXCEPT !.aliases[Min(free)] = new]
          ELSE [f EXCEPT !.aliases[d.anext] = new, !.anext = (@ % NALIAS) + 1]
  BY <1>2 DEF SetAlias
<1> HIDE DEF d
<1>4. r \in Regs /\ d.anext \in 1 .. NALIAS /\ Typed(j)
  BY <1>1 DEF Typed, Loose
<1>5. Loose(d, K, a) /\ \A u : ~Names(d, a, u)
  <2>1. \A u : ValueOf(d, u) = ValueOf(j, u)
    BY <1>1 DEF SameButNames, ValueOf
  <2>2. d.pend = j.pend /\ j.pend \in CWords \cup {None}
    BY <1>1 DEF SameButNames, Typed
  <2> QED
    BY <1>1, <2>1, <2>2 DEF Loose
<1>6. \A w \in CWords : Names(d, w, NoVal) => FALSE
  BY <1>1, NamesType, CvalCases
<1>7. CASE free # {} \/ ~evicts
  <2>1. PICK i \in 1 .. NALIAS :
          Aliasing(d, k, i, a, r, neg) /\ (d.pend # None => d.pend # d.aliases[i].addr)
    <3>1. CASE free # {}
      <4>1. Min(free) \in free
        <5>1. free \in SUBSET Nat
          OBVIOUS
        <5> QED
          BY <3>1, <5>1, MinIn
      <4>2. Min(free) \in 1 .. NALIAS /\ d.aliases[Min(free)] = NoAlias
        BY <4>1
      <4> HIDE DEF free, k
      <4>3. Aliasing(d, k, Min(free), a, r, neg)
        BY <1>3, <3>1 DEF Aliasing
      <4> QED
        BY <4>2, <4>3 DEF NoAlias
    <3>2. CASE free = {}
      <4>1. ~evicts /\ f = d
        BY <1>7, <3>2
      <4> HIDE DEF free, k, f
      <4>2. Aliasing(d, k, d.anext, a, r, neg)
        BY <1>3, <3>2, <4>1 DEF Aliasing
      <4> QED
        BY <1>4, <4>1, <4>2
    <3> QED
      BY <3>1, <3>2
  <2> HIDE DEF k, f
  <2>2. /\ Renamed(d, k, a, u0)
        /\ \A w \in CWords \ {a} : \A u : Names(d, w, u) /\ w # d.aliases[i].addr => Names(k, w, u)
    BY <1>1, <1>4, <1>5, <2>1, AliasIs
  <2> HIDE DEF k, u0
  <2>3. d.pend \notin {None, a} => \E u : Names(k, d.pend, u)
    BY <1>1, <1>5, <2>1, <2>2 DEF Loose, Typed
  <2>4. ValueOf(d, u0) = v
    BY <1>1 DEF u0, SameButNames, ValueOf
  <2>5. Fits(k, [K EXCEPT ![a] = ValueOf(d, u0)])
    BY <1>5, <2>2, <2>3, RenamedFits
  <2>6. SameButNames(j, k) /\ \E u : Names(k, a, u)
    BY <1>1, <2>2 DEF Renamed, SameButNames
  <2> QED
    BY <2>4, <2>5, <2>6 DEF k, SameButNames
<1>8. CASE free = {} /\ evicts
  <2>1. d.pend # a /\ d.pend # None
    <3>1. Names(d, d.pend, IF d.aliases[d.anext].neg THEN NegVal(d.aliases[d.anext].reg)
                                                     ELSE RegVal(d.aliases[d.anext].reg))
      BY <1>4, <1>8 DEF Names
    <3> QED
      BY <1>5, <1>8, <3>1
  <2>2. Fits(d, K)
    BY <1>5, <2>1 DEF Loose, Fits
  <2>3. f = FlushPending(d) /\ k = [f EXCEPT !.aliases[d.anext] = new, !.anext = (@ % NALIAS) + 1]
    BY <1>3, <1>8
  <2>4. Made(d)
    BY <1>1 DEF Typed, Made
  <2> HIDE DEF f, k, free, evicts
  <2>5. Runs(d, f)
    BY <2>3, <2>4, RunsFlushPending
  <2>6. ~f.out
    BY <2>3, <2>5 DEF Runs, Made, k
  <2>7. Tight(d, f, K) /\ f.pend = None /\ f.mem = Whole(d, K)
    BY <2>2, <2>3, <2>6, FlushPendingIs
  <2>8. Fits(f, K) /\ Typed(f) /\ d.pinned \subseteq f.pinned /\ NoNew(d, f)
        /\ f.live = d.live /\ (d.live => f.flags = d.flags)
        /\ \A q \in d.pinned : f.reg[q] = d.reg[q]
    BY <2>7, TightIs DEF Tight, Keeps, Stays
  <2>9. Loose(f, K, a) /\ \A u : ~Names(f, a, u)
    BY <1>5, <2>8, FitsLoose DEF NoNew
  <2>10. Renamed(f, k, a, u0)
    <3>1. Aliasing(f, k, d.anext, a, r, neg)
      BY <2>3 DEF Aliasing
    <3> QED
      BY <1>4, <2>8, <2>9, <3>1, AliasIs
  <2>11. ValueOf(f, u0) = v
    <3>1. r \in d.pinned /\ d.reg = j.reg
      BY <1>1 DEF SameButNames
    <3>2. f.reg[r] = j.reg[r]
      BY <2>8, <3>1
    <3> QED
      BY <3>2, CvalIs
  <2> HIDE DEF u0
  <2>12. Fits(k, [K EXCEPT ![a] = ValueOf(f, u0)])
    BY <2>7, <2>9, <2>10, RenamedFits
  <2>13. Whole(d, K) = Whole(j, K) /\ d.pend = j.pend
    BY <1>1 DEF SameButNames, Whole
  <2>14. SameButNames(f, k) /\ \E u : Names(k, a, u)
    BY <2>10 DEF Renamed
  <2> QED
    BY <1>1, <2>1, <2>7, <2>8, <2>11, <2>12, <2>13, <2>14 DEF k, SameButNames
<1> QED
  BY <1>7, <1>8
-----------------------------------------------------------------------------
(* Values put together *)

(* A constant, or a register where nothing else stands. *)
Own(j, v) == v.kind = "const" \/ (v.kind = "reg" /\ v.reg \in j.pinned /\ Bare(j, v.reg))

Makes(j, p, K, val) ==
  /\ OfVal(p) /\ Tight(j, p.j, K)
  /\ IsCval(p.v) /\ ValueOf(p.j, p.v) = val
  /\ Own(p.j, p.v) /\ (InReg(p.v) => p.v.reg \notin j.pinned)

LEMMA FreshMakes ==
  ASSUME NEW j, NEW K, NEW s, Fresh(j, s, K)
  PROVE  Makes(j, Of(s), K, s.j.reg[s.r])
<1>1. OfVal(Of(s)) /\ Of(s).j = s.j /\ Of(s).v = RegVal(s.r)
  BY DEF Of, OfVal
<1> QED
  BY <1>1, CvalIs DEF Fresh, Makes, Own, IsCval

LEMMA ShiftedIs ==
  ASSUME NEW j, NEW K, Fits(j, K), NEW v, IsCval(v), InReg(v) => v.reg \in j.pinned,
         NEW left \in BOOLEAN, NEW k \in 0 .. WordBytes, ~j.live, ~Shifted(j, v, left, k).j.out
  PROVE  Makes(j, Shifted(j, v, left, k), K,
               IF left THEN Shl(ValueOf(j, v), k) ELSE Shr(ValueOf(j, v), k))
<1> DEFINE Sh(w) == IF left THEN Shl(w, k) ELSE Shr(w, k)
           p == ToReg(j, v)
           s == Scratch(p.j)
           g == Give(s, Sh(s.j.reg[p.r]))
           c == Clobber(g)
<1>1. Shifted(j, v, left, k) = IF v.kind = "const" THEN [j |-> j, v |-> ConstVal(Sh(v.val))] ELSE Of(c)
  BY DEF Shifted
<1>2. Typed(j) /\ ValueOf(j, v) \in Value
  BY ValueType DEF Fits
<1>3. Sh(ValueOf(j, v)) \in Value
  BY <1>2, ShiftType
<1>4. CASE v.kind = "const"
  <2>1. ValueOf(j, v) = v.val
    BY <1>4, ValueOfIs
  <2> DEFINE c0 == Sh(v.val)
  <2>2. c0 \in Value /\ Shifted(j, v, left, k) = [j |-> j, v |-> ConstVal(c0)] /\ c0 = Sh(ValueOf(j, v))
    BY <1>1, <1>3, <1>4, <2>1
  <2> HIDE DEF c0
  <2>3. IsCval(ConstVal(c0)) /\ ValueOf(j, ConstVal(c0)) = c0 /\ Own(j, ConstVal(c0)) /\ ~InReg(ConstVal(c0))
    BY <2>2, CvalIs DEF IsCval, Own
  <2>4. Tight(j, j, K)
    BY SelfTight
  <2>5. Makes(j, [j |-> j, v |-> ConstVal(c0)], K, c0)
    BY <2>3, <2>4 DEF Makes, OfVal
  <2> QED
    BY <2>2, <2>5
<1>5. CASE v.kind # "const"
  <2> DEFINE val == Sh(s.j.reg[p.r])
  <2>1. OfReg(p) /\ Runs(j, p.j)
    BY <1>2, RunsToReg DEF Typed, Made
  <2>2. OfReg(s) /\ Runs(p.j, s.j)
    BY <2>1, RunsScratch DEF Runs
  <2>3. OfReg(g) /\ Runs(s.j, g.j)
    BY <2>2, RunsGive DEF Runs
  <2>4. Runs(g.j, c.j)
    BY <2>3, RunsGive DEF Runs
  <2>5. ~c.j.out
    BY SMTT(60), <1>1, <1>5 DEF Of
  <2> HIDE DEF p, s, g, c, val
  <2>6. ~p.j.out /\ ~s.j.out
    BY <2>2, <2>3, <2>4, <2>5 DEF Runs
  <2>7. Loads(j, p, K, v)
    BY <2>6, ToRegIs DEF p
  <2>8. Fits(p.j, K) /\ Tight(j, p.j, K) /\ p.j.live = j.live
    BY <2>7, TightIs DEF Loads
  <2>9. Fresh(p.j, s, K)
    BY <2>6, <2>8, ScratchIs DEF s
  <2>10. p.r \in p.j.pinned
    <3>1. v.kind = "reg" => v.reg \in j.pinned
      BY CvalCases
    <3> QED
      BY <2>7, <3>1 DEF Loads, Fresh
  <2>11. s.j.reg[p.r] = ValueOf(j, v)
    BY <2>7, <2>9, <2>10 DEF Loads, Fresh, Tight, Keeps, Stays
  <2>12. val = Sh(ValueOf(j, v)) /\ g = Give(s, val)
    BY <2>11 DEF val, g
  <2>13. Fresh(p.j, g, K) /\ g.r = s.r /\ g.j.reg[s.r] = val
    BY <1>3, <2>9, <2>12, GiveFresh
  <2>14. Fresh(p.j, c, K) /\ c.r = g.r /\ c.j.reg = g.j.reg
    BY <2>8, <2>13, ClobberFresh DEF c
  <2>15. Fresh(j, c, K) /\ c.j.reg[c.r] = val
    <3>1. j.pinned \subseteq p.j.pinned
      BY <2>8, TightIs
    <3> QED
      BY <2>8, <2>13, <2>14, <3>1, TightTrans DEF Fresh
  <2>16. Makes(j, Of(c), K, val)
    BY <2>15, FreshMakes
  <2> QED
    BY <1>1, <1>5, <2>12, <2>16
<1> QED
  BY <1>4, <1>5

LEMMA OrValIs ==
  ASSUME NEW j, NEW K, Fits(j, K), NEW r \in j.pinned, Bare(j, r), NEW v, IsCval(v), ~j.live,
         j.reg[r] + ValueOf(j, v) \in Value, ~OrVal(j, r, v).out
  PROVE  LET k == OrVal(j, r, v)
         IN  /\ Fits(k, K) /\ r \in k.pinned /\ Bare(k, r)
             /\ k.reg[r] = j.reg[r] + ValueOf(j, v)
             /\ \A i, A : Keeps(i, j, K, A) /\ r \notin i.pinned => Keeps(i, k, K, A)
             /\ \A i : Tight(i, j, K) /\ r \notin i.pinned => Tight(i, k, K)
<1> DEFINE t == ToReg(j, v)
           w == (t.j.reg[r] + t.j.reg[t.r]) % Word
           m == [t.j EXCEPT !.reg[r] = w]
           o == [m EXCEPT !.flags = "none"]
           k == OrVal(j, r, v)
<1>1. Typed(j) /\ r \in Regs /\ j.reg[r] \in Value /\ ValueOf(j, v) \in Value
  BY ValueType DEF Fits, Typed
<1>2. CASE IsZero(v)
  <2>1. k = j /\ ValueOf(j, v) = 0
    BY <1>2, CvalIs DEF OrVal, IsZero
  <2>2. j.reg[r] + 0 = j.reg[r]
    BY <1>1, WordIs DEF Value
  <2> QED
    BY <2>1, <2>2
<1>3. CASE ~IsZero(v)
  <2>1. OfReg(t) /\ Runs(j, t.j)
    BY <1>1, RunsToReg DEF Typed, Made
  <2>2. k = IF v.kind # "reg" THEN Unpin(o, t.r) ELSE o
    <3>1. [t EXCEPT !.j.reg[r] = (@ + t.j.reg[t.r]) % Word] = [t EXCEPT !.j = m]
      BY <2>1 DEF OfReg
    <3>2. Clobber([t EXCEPT !.j = m]).j = o
      BY <2>1 DEF OfReg, Clobber
    <3>3. k = IF v.kind # "reg" THEN Unpin(Clobber([t EXCEPT !.j.reg[r] = (@ + t.j.reg[t.r]) % Word]).j, t.r)
              ELSE Clobber([t EXCEPT !.j.reg[r] = (@ + t.j.reg[t.r]) % Word]).j
      BY <1>3 DEF OrVal
    <3> QED
      BY <3>1, <3>2, <3>3
  <2> HIDE DEF t, w
  <2>3. Runs(t.j, m)
    BY <2>1, RunsMarks DEF Runs
  <2> HIDE DEF m
  <2>4. Runs(m, o)
    BY <2>3, RunsMarks DEF Runs
  <2> HIDE DEF o
  <2>5. Runs(o, Unpin(o, t.r))
    BY <2>4, RunsMarks DEF Runs
  <2>6. ~t.j.out
    BY <2>2, <2>3, <2>4, <2>5 DEF Runs, k
  <2> HIDE DEF k
  <2>7. Loads(j, t, K, v)
    BY <2>6, ToRegIs DEF t
  <2>8. /\ Tight(j, t.j, K) /\ Fits(t.j, K) /\ t.j.live = j.live /\ r \in t.j.pinned
        /\ NoNew(j, t.j) /\ Keeps(j, t.j, K, {})
    BY <2>7, TightIs DEF Loads, Tight
  <2>9. t.j.reg[r] = j.reg[r] /\ t.j.reg[t.r] = ValueOf(j, v) /\ t.r \in Regs
    BY <2>7, <2>8 DEF Loads, Keeps, Stays
  <2>10. Bare(t.j, r)
    BY <2>8 DEF Bare, NoNew
  <2>11. w = j.reg[r] + ValueOf(j, v) /\ w \in Value
    <3> DEFINE y == j.reg[r] + ValueOf(j, v)
    <3>1. w = y % Word /\ y \in Value
      BY <2>9 DEF w
    <3> HIDE DEF y
    <3>2. y % Word = y
      BY <3>1, WordIs DEF Value
    <3> QED
      BY <3>1, <3>2 DEF y
  <2>12. /\ Fits(m, K) /\ Bare(m, r) /\ m.reg[r] = w /\ m.pinned = t.j.pinned /\ m.live = t.j.live
         /\ \A i, A : Keeps(i, t.j, K, A) /\ r \notin i.pinned => Keeps(i, m, K, A)
         /\ \A i : Tight(i, t.j, K) /\ r \notin i.pinned => Tight(i, m, K)
    <3>1. Fits(m, K) /\ Bare(m, r) /\ m.reg[r] = w
      BY <1>1, <2>8, <2>10, <2>11, PutReg DEF m
    <3>4. m.pinned = t.j.pinned /\ m.live = t.j.live
      BY <2>8 DEF m, Fits, Typed
    <3>2. \A i, A : Keeps(i, t.j, K, A) /\ r \notin i.pinned => Keeps(i, m, K, A)
      BY <1>1, <2>8, <2>10, <2>11, PutReg DEF m
    <3>3. \A i : Tight(i, t.j, K) /\ r \notin i.pinned => Tight(i, m, K)
      BY <1>1, <2>8, <2>10, <2>11, PutReg DEF m
    <3> QED
      BY <3>1, <3>2, <3>3, <3>4
  <2>13. /\ Fits(o, K) /\ o.reg = m.reg /\ o.pinned = m.pinned
         /\ \A a, u : Names(o, a, u) <=> Names(m, a, u)
         /\ \A i, A : Keeps(i, m, K, A) => Keeps(i, o, K, A)
         /\ \A i : Tight(i, m, K) => Tight(i, o, K)
    BY <2>8, <2>12, PutFlags DEF o
  <2>14. Bare(o, r) /\ r \in o.pinned /\ o.reg[r] = w
    BY <2>8, <2>12, <2>13 DEF Bare
  <2>15. ASSUME NEW i, NEW A, Keeps(i, j, K, A), r \notin i.pinned
         PROVE  Keeps(i, o, K, A)
    <3>1. Keeps(i, t.j, K, A)
      BY <2>8, <2>15, KeepsTrans
    <3> QED
      BY <2>12, <2>13, <2>15, <3>1
  <2>16. ASSUME NEW i, Tight(i, j, K), r \notin i.pinned
         PROVE  Tight(i, o, K)
    <3>1. Tight(i, t.j, K)
      BY <2>8, <2>16, TightTrans
    <3> QED
      BY <2>12, <2>13, <2>16, <3>1
  <2>17. CASE v.kind = "reg"
    BY <2>2, <2>11, <2>13, <2>14, <2>15, <2>16, <2>17 DEF k
  <2>18. CASE v.kind # "reg"
    <3>1. t.r \notin j.pinned /\ t.r # r
      BY <2>7, <2>18 DEF Loads, Fresh
    <3> DEFINE u == Unpin(o, t.r)
    <3>2. /\ Fits(u, K) /\ u.reg = o.reg /\ u.pinned = o.pinned \ {t.r}
          /\ \A a, y : Names(u, a, y) <=> Names(o, a, y)
          /\ \A i, A : Keeps(i, o, K, A) /\ t.r \notin i.pinned => Keeps(i, u, K, A)
          /\ \A i : Tight(i, o, K) /\ t.r \notin i.pinned => Tight(i, u, K)
      BY <2>13, DropPin
    <3> HIDE DEF u
    <3>3. Bare(u, r) /\ r \in u.pinned /\ u.reg[r] = w
      BY <2>14, <3>1, <3>2 DEF Bare
    <3>4. ASSUME NEW i, NEW A, Keeps(i, j, K, A), r \notin i.pinned
          PROVE  Keeps(i, u, K, A)
      <4>1. i.pinned \subseteq j.pinned
        BY <3>4 DEF Keeps, Stays
      <4> QED
        BY <2>15, <3>1, <3>2, <3>4, <4>1
    <3>5. ASSUME NEW i, Tight(i, j, K), r \notin i.pinned
          PROVE  Tight(i, u, K)
      <4>1. i.pinned \subseteq j.pinned
        BY <3>5, TightIs
      <4> QED
        BY <2>16, <3>1, <3>2, <3>5, <4>1
    <3>6. k = u
      BY <2>2, <2>18 DEF u
    <3> QED
      BY <2>11, <3>2, <3>3, <3>4, <3>5, <3>6 DEF k
  <2> QED
    BY <2>17, <2>18
<1> QED
  BY <1>2, <1>3

LEMMA MergedIs ==
  ASSUME NEW j, NEW K, NEW s, NEW h, NEW p, NEW q, Makes(j, s, K, p), Makes(s.j, h, K, q),
         p + q \in Value, ~j.live, p \in Nat, q \in Nat, ~Merged(s, h).j.out
  PROVE  Makes(j, Merged(s, h), K, p + q)
<1>1. /\ Tight(j, s.j, K) /\ Tight(s.j, h.j, K) /\ Fits(h.j, K) /\ h.j.live = j.live
      /\ IsCval(s.v) /\ IsCval(h.v) /\ ValueOf(h.j, h.v) = q
      /\ j.pinned \subseteq s.j.pinned /\ s.j.pinned \subseteq h.j.pinned
  BY TightIs DEF Makes
<1>2. Tight(j, h.j, K) /\ NoNew(s.j, h.j) /\ Keeps(s.j, h.j, K, {})
  BY <1>1, TightTrans DEF Tight
<1>3. ValueOf(h.j, s.v) = p /\ (InReg(s.v) => s.v.reg \in s.j.pinned)
  <2>1. InReg(s.v) => s.v.reg \in s.j.pinned
    BY <1>1, CvalCases DEF Makes, Own
  <2> QED
    BY <1>1, <1>2, <2>1, SameValue DEF Makes
<1>4. CASE s.v.kind = "const" /\ h.v.kind = "const"
  <2>1. s.v.val = p /\ h.v.val = q
    BY <1>1, <1>3, <1>4, ValueOfIs
  <2>2. Merged(s, h) = [j |-> h.j, v |-> ConstVal(p + q)]
    BY <1>4, <2>1 DEF Merged
  <2> DEFINE c0 == p + q
  <2> HIDE DEF c0
  <2>3. c0 \in Value
    BY DEF c0
  <2>4. IsCval(ConstVal(c0)) /\ ValueOf(h.j, ConstVal(c0)) = c0 /\ Own(h.j, ConstVal(c0)) /\ ~InReg(ConstVal(c0))
    BY <2>3, CvalIs DEF IsCval, Own
  <2>5. Makes(j, [j |-> h.j, v |-> ConstVal(c0)], K, c0)
    BY <1>2, <2>4 DEF Makes, OfVal
  <2> QED
    BY <2>2, <2>5 DEF c0
<1>5. CASE s.v.kind = "const" /\ h.v.kind # "const"
  <2> DEFINE r == h.v.reg
             k == OrVal(h.j, r, s.v)
  <2>1. h.v.kind = "reg" /\ r \in h.j.pinned /\ Bare(h.j, r) /\ r \notin j.pinned /\ r \in Regs /\ h.v = RegVal(r)
    BY <1>1, <1>5, CvalCases DEF Makes, Own
  <2>2. h.j.reg[r] = q
    BY <1>1, <2>1, ValueOfIs
  <2>3. Merged(s, h) = [j |-> k, v |-> h.v]
    BY <1>5 DEF Merged
  <2> HIDE DEF r
  <2>4. h.j.reg[r] + ValueOf(h.j, s.v) = p + q
    BY <1>3, <2>2
  <2>5. /\ r \in k.pinned /\ Bare(k, r) /\ k.reg[r] = p + q
        /\ Tight(j, k, K)
    BY <1>1, <1>2, <2>1, <2>3, <2>4, OrValIs
  <2> HIDE DEF k
  <2>6. ValueOf(k, h.v) = p + q
    BY <2>1, <2>5, CvalIs
  <2> QED
    BY <1>1, <2>1, <2>3, <2>5, <2>6 DEF Makes, OfVal, Own, r
<1>6. CASE s.v.kind # "const"
  <2> DEFINE r == s.v.reg
             k == OrVal(h.j, r, h.v)
  <2>1. s.v.kind = "reg" /\ r \in s.j.pinned /\ Bare(s.j, r) /\ r \notin j.pinned /\ r \in Regs /\ s.v = RegVal(r)
    BY <1>1, <1>6, CvalCases DEF Makes, Own
  <2>2. h.j.reg[r] = p /\ r \in h.j.pinned /\ Bare(h.j, r)
    BY <1>1, <1>2, <1>3, <2>1, ValueOfIs DEF Bare, NoNew
  <2>3. Merged(s, h) = [j |-> k, v |-> s.v]
    BY <1>6 DEF Merged
  <2> HIDE DEF r
  <2>4. h.j.reg[r] + ValueOf(h.j, h.v) = p + q
    BY <1>1, <2>2
  <2>5. /\ r \in k.pinned /\ Bare(k, r) /\ k.reg[r] = p + q
        /\ Tight(j, k, K)
    BY <1>1, <1>2, <2>1, <2>2, <2>3, <2>4, OrValIs
  <2> HIDE DEF k
  <2>6. ValueOf(k, s.v) = p + q
    BY <2>1, <2>5, CvalIs
  <2> QED
    BY <1>1, <2>1, <2>3, <2>5, <2>6 DEF Makes, OfVal, Own, r
<1> QED
  BY <1>4, <1>5, <1>6
-----------------------------------------------------------------------------
(* Reading words *)

LEMMA WholeType ==
  ASSUME NEW j, NEW K \in Views, Fits(j, K)
  PROVE  Whole(j, K) \in Memories
<1>1. j.mem \in Memories /\ (j.pend # None => j.pend \in CWords)
  BY DEF Fits, Typed
<1>2. ASSUME j.pend # None PROVE Wr(j.mem, j.pend, K[j.pend]) \in Memories
  BY <1>1, <1>2, WrIs, WordsAre DEF CWords, Views
<1> QED
  BY <1>1, <1>2 DEF Whole

(* The cache is right for memory with what is held back. *)
Current(j, K) == Fits(j, K) /\ K = View(Whole(j, K)) /\ Whole(j, K) \in Memories

LEMMA CurrentIs ==
  ASSUME NEW j, NEW K, Current(j, K)
  PROVE  K \in Views /\ \A w \in CWords : K[w] = Rd(Whole(j, K), w)
<1> DEFINE m == Whole(j, K)
<1>1. m \in Memories /\ K = View(m)
  BY DEF Current
<1> HIDE DEF m
<1>2. K \in Views /\ \A w \in CWords : K[w] = Rd(m, w)
  BY <1>1, ViewIs
<1> QED
  BY <1>2 DEF m

LEMMA KeepsCurrent ==
  ASSUME NEW j, NEW k, NEW K, NEW A, Keeps(j, k, K, A), Current(j, K)
  PROVE  Current(k, K) /\ Whole(k, K) = Whole(j, K)
<1>1. Whole(k, K) = Whole(j, K)
  BY KeepsWhole
<1> QED
  BY <1>1 DEF Current, Keeps, Stays

(* What memory has where nothing is held back. *)
LEMMA ReadsWhole ==
  ASSUME NEW j, NEW K, Current(j, K), NEW a \in Addresses, j.pend = None \/ j.pend \notin SpanOf(a)
  PROVE  Rd(j.mem, a) = Rd(Whole(j, K), a)
<1>1. CASE j.pend = None
  BY <1>1 DEF Whole
<1>2. CASE j.pend # None
  <2>1. j.mem \in Memories /\ j.pend \in CWords /\ j.pend \in Words /\ j.pend \in Addresses
    BY <1>2, WordsAre DEF Current, Fits, Typed, CWords
  <2>2. SpanOf(j.pend) = {j.pend}
    BY <2>1, WordsAre, SpanIs
  <2>3. K[j.pend] \in Value
    BY <2>1, CurrentIs DEF Views
  <2>4. SpanOf(j.pend) \cap SpanOf(a) = {}
    BY <1>2, <2>2
  <2>5. Rd(Wr(j.mem, j.pend, K[j.pend]), a) = Rd(j.mem, a)
    BY <2>1, <2>3, <2>4, RdApart
  <2> QED
    BY <1>2, <2>5 DEF Whole
<1> QED
  BY <1>1, <1>2

(* A register that was taken is loaded with the word at a, and named for it. *)
Uncovered(j, a) == j.pend = None \/ j.pend \notin SpanOf(a)
Unnamed(j, a) == \A v : ~Names(j, a, v)

Loaded(j, l, K, a, r) ==
  /\ OfReg(l) /\ l.r = r /\ Keeps(j, l.j, K, {a}) /\ r \in l.j.pinned
  /\ l.j.reg[r] = Rd(Whole(j, K), a)
  /\ Unnamed(j, a) => Keeps(j, l.j, K, {})

LEMMA LoadWordIs ==
  ASSUME NEW j, NEW K, Current(j, K), NEW s, Fresh(j, s, K), NEW a \in Addresses,
         Uncovered(s.j, a)
  PROVE  Loaded(j, LoadWord(s, a), K, a, s.r)
<1> DEFINE val == Rd(s.j.mem, a)
           g == Give(s, val)
           b == Bind(g.j, s.r, a)
           l == LoadWord(s, a)
<1>1. Keeps(j, s.j, K, {}) /\ Current(s.j, K) /\ Whole(s.j, K) = Whole(j, K)
  BY KeepsCurrent DEF Fresh, Tight
<1>2. val = Rd(Whole(j, K), a)
  BY <1>1, ReadsWhole DEF Uncovered
<1>3. val \in Value
  BY <1>2, RdType DEF Current
<1>4. l = [s EXCEPT !.j = b]
  BY DEF LoadWord
<1> HIDE DEF val
<1>5. Fresh(j, g, K) /\ g.r = s.r /\ g.j.reg[s.r] = val
  BY <1>3, GiveFresh
<1> HIDE DEF g
<1>6. Fits(g.j, K) /\ Keeps(j, g.j, K, {}) /\ s.r \in Regs /\ s.r \in g.j.pinned /\ s.r \notin j.pinned
      /\ Bare(g.j, s.r)
  BY <1>5, TightIs DEF Fresh, Tight
<1>7. OfReg(l) /\ l.r = s.r /\ l.j = b
  BY <1>4 DEF OfReg, Fresh
<1> HIDE DEF b, l
<1>8. CASE a \notin CWords
  <2>1. b = g.j
    BY <1>8, CacheableIs DEF Bind, b
  <2>2. Keeps(j, b, K, {a})
    BY <1>6, <2>1, KeepsTrans, SelfTight DEF Tight
  <2> QED
    BY <1>2, <1>5, <1>6, <1>7, <2>1, <2>2 DEF Loaded, l
<1>9. CASE a \in CWords
  <2>1. g.j.regs[s.r] = None
    <3>1. ~(g.j.regs[s.r] \in CWords)
      BY <1>6, CvalIs DEF Bare, Names
    <3> QED
      BY <1>6, <3>1 DEF Fits, Typed
  <2>2. /\ Renamed(g.j, b, a, RegVal(s.r))
        /\ \A w \in CWords \ {a} : \A u : Names(g.j, w, u) => Names(b, w, u)
    BY <1>6, <1>9, <2>1, BindIs DEF Fits, b
  <2>3. Fits(b, [K EXCEPT ![a] = g.j.reg[s.r]])
    BY <1>1, <1>6, <1>9, <2>1, FitsLoose, NameReg, CurrentIs DEF b
  <2>4. [K EXCEPT ![a] = g.j.reg[s.r]] = K
    <3>1. K[a] = val /\ K \in Views
      BY <1>2, <1>9, CurrentIs
    <3> QED
      BY <1>5, <3>1 DEF Views
  <2>5. Fits(b, K)
    BY <2>3, <2>4
  <2>6. SameButNames(g.j, b)
    BY <2>2 DEF Renamed
  <2>7. ASSUME NEW w \in CWords, NEW v, InReg(v), v.reg \in j.pinned
        PROVE  /\ Names(b, w, v) => Names(j, w, v)
               /\ w # a /\ Names(j, w, v) => Names(b, w, v)
               /\ Unnamed(j, a) /\ Names(j, w, v) => Names(b, w, v)
    <3>1. v # RegVal(s.r)
      BY <1>6, <2>7, CvalIs
    <3>2. w = a => ~Names(b, w, v)
      BY <2>2, <3>1 DEF Renamed
    <3>3. w # a => (Names(b, w, v) <=> Names(g.j, w, v))
      BY <2>2 DEF Renamed
    <3>4. Names(g.j, w, v) <=> Names(j, w, v)
      BY <1>6, <2>7 DEF Keeps, Stays
    <3> QED
      BY <3>2, <3>3, <3>4 DEF Unnamed
  <2>8. Keeps(j, b, K, {a}) /\ (Unnamed(j, a) => Keeps(j, b, K, {}))
    BY <1>6, <2>5, <2>6, <2>7 DEF Keeps, Stays, SameButNames
  <2> QED
    BY <1>2, <1>5, <1>6, <1>7, <2>6, <2>8 DEF SameButNames, Loaded, l
<1> QED
  BY <1>8, <1>9

Reads(j, p, K, val) ==
  /\ OfVal(p) /\ Keeps(j, p.j, K, {})
  /\ IsCval(p.v) /\ (InReg(p.v) => p.v.reg \in p.j.pinned) /\ ValueOf(p.j, p.v) = val

LEMMA MakesReads ==
  ASSUME NEW i, NEW j, NEW p, NEW K, NEW val, Makes(j, p, K, val), Keeps(i, j, K, {})
  PROVE  Reads(i, p, K, val)
<1>1. Keeps(i, p.j, K, {})
  BY KeepsTrans DEF Makes, Tight
<1>2. InReg(p.v) => p.v.reg \in p.j.pinned
  BY CvalCases DEF Makes, Own
<1> QED
  BY <1>1, <1>2 DEF Makes, Reads

LEMMA GetWordIs ==
  ASSUME NEW j, NEW K, Current(j, K), NEW a \in Addresses, ~GetWord(j, a).j.out
  PROVE  Reads(j, GetWord(j, a), K, Rd(Whole(j, K), a))
<1> DEFINE v == Find(j, a)
           covered == j.pend # None /\ ~Aligned(a) /\ j.pend \in SpanOf(a)
           f == IF covered THEN FlushPending(j) ELSE j
           s == Scratch(f)
           l == LoadWord(s, a)
<1>1. GetWord(j, a) = IF v # NoVal THEN [j |-> Pin(Touch(j, v), v), v |-> v] ELSE Of(l)
  BY DEF GetWord
<1>2. Fits(j, K) /\ Typed(j)
  BY DEF Current, Fits
<1>3. CASE v # NoVal
  <2>1. a \in CWords /\ Names(j, a, v) /\ IsCval(v)
    BY <1>2, <1>3, FindIs
  <2>2. ValueOf(j, v) = Rd(Whole(j, K), a)
    BY <1>2, <2>1, CurrentIs DEF Fits
  <2> HIDE DEF v
  <2> DEFINE t == Touch(j, v)
             q == Pin(t, v)
  <2>3. InReg(v) => v.reg \in Regs
    BY <2>1, CvalCases
  <2>4. Tight(j, t, K) /\ Fits(t, K) /\ ValueOf(t, v) = ValueOf(j, v)
    BY <1>2, <2>3, PinTight
  <2> HIDE DEF t
  <2>5. Tight(t, q, K) /\ ValueOf(q, v) = ValueOf(t, v)
    BY <2>3, <2>4, PinTight
  <2>6. InReg(v) => v.reg \in q.pinned
    BY <2>3, <2>4, PinTight
  <2>7. GetWord(j, a) = [j |-> q, v |-> v]
    BY <1>1, <1>3 DEF t
  <2> HIDE DEF q
  <2>8. Keeps(j, q, K, {})
    BY <2>4, <2>5, TightTrans DEF Tight
  <2> QED
    BY <2>1, <2>2, <2>4, <2>5, <2>6, <2>7, <2>8 DEF Reads, OfVal
<1>4. CASE v = NoVal
  <2>1. Runs(j, f) /\ Made(f)
    BY <1>2, RunsMarks, RunsFlushPending DEF Typed, Made, Runs
  <2>2. OfReg(s) /\ Runs(f, s.j)
    BY <2>1, RunsScratch
  <2>3. OfReg(l) /\ Runs(s.j, l.j) /\ ~l.j.out
    BY <1>1, <1>4, <2>2, RunsLoadWord DEF Runs, Of
  <2>4. ~s.j.out /\ ~f.out
    BY <2>2, <2>3 DEF Runs
  <2>5. \A u : ~Names(j, a, u)
    <3>1. a \in CWords => \A u : ~Names(j, a, u)
      BY <1>2, <1>4, FindIs
    <3>2. ASSUME a \notin CWords, NEW u, Names(j, a, u) PROVE FALSE
      <4>1. a # None
        BY ConstantsAre, AddressesAre DEF None
      <4>2. /\ \A i \in 1 .. NCONST : j.consts[i].addr \in CWords \cup {None}
            /\ \A r \in Regs : j.regs[r] \in CWords \cup {None}
            /\ \A i \in 1 .. NALIAS : j.aliases[i].addr \in CWords \cup {None}
        BY <1>2 DEF Typed
      <4> QED
        BY <3>2, <4>1, <4>2 DEF Names
    <3> QED
      BY <3>1, <3>2
  <2>6. j.pend # None => j.pend # a
    BY <1>2, <2>5 DEF Fits
  <2> HIDE DEF v
  <2>7. Tight(j, f, K) /\ (f.pend = None \/ (f.pend = j.pend /\ ~covered))
    BY <1>2, <2>4, SelfTight, FlushPendingIs
  <2>8. f.pend = None \/ f.pend \notin SpanOf(a)
    BY <2>6, <2>7, SpanIs
  <2> HIDE DEF f, covered
  <2>9. Fresh(f, s, K)
    BY <2>4, <2>7, ScratchIs, TightIs
  <2>10. s.j.pend = None \/ s.j.pend \notin SpanOf(a)
    BY <2>8, <2>9 DEF Fresh, Tight, Keeps
  <2> HIDE DEF s
  <2>11. Fresh(j, s, K)
    BY <2>7, <2>9, TightTrans, TightIs DEF Fresh
  <2>12. /\ Keeps(j, l.j, K, {}) /\ l.r \in l.j.pinned
         /\ l.j.reg[l.r] = Rd(Whole(j, K), a) /\ l.r \in Regs
    <3>1. Loaded(j, l, K, a, s.r)
      BY <2>10, <2>11, LoadWordIs DEF Uncovered
    <3> HIDE DEF l
    <3> QED
      BY <2>5, <2>11, <3>1 DEF Fresh, Loaded, Unnamed
  <2> HIDE DEF l
  <2>13. OfVal(Of(l)) /\ Of(l).j = l.j /\ Of(l).v = RegVal(l.r)
    BY DEF Of, OfVal
  <2>14. IsCval(RegVal(l.r)) /\ ValueOf(l.j, RegVal(l.r)) = l.j.reg[l.r] /\ RegVal(l.r).reg = l.r
    BY <2>12, CvalIs DEF IsCval
  <2> QED
    BY <1>1, <1>4, <2>12, <2>13, <2>14 DEF Reads
<1> QED
  BY <1>3, <1>4

(* v, if there is one, stands for val, in a pinned register or as a constant. *)
Stands(j, v, val) ==
  v # NoVal => IsCval(v) /\ (InReg(v) => v.reg \in j.pinned) /\ ValueOf(j, v) = val

LEMMA KeepsStands ==
  ASSUME NEW j, NEW k, NEW K, NEW A, Keeps(j, k, K, A), NEW v, NEW val, Stands(j, v, val)
  PROVE  Stands(k, v, val)
<1>1. CASE v # NoVal
  BY <1>1, SameValue DEF Stands, Keeps, Stays
<1>2. CASE v = NoVal
  BY <1>2 DEF Stands
<1> QED
  BY <1>1, <1>2

LEMMA JoinPartIs ==
  ASSUME NEW j, NEW K, Current(j, K), NEW w \in Addresses, NEW v, Stands(j, v, Rd(Whole(j, K), w)),
         ~JoinPart(j, v, w).j.out
  PROVE  Reads(j, JoinPart(j, v, w), K, Rd(Whole(j, K), w))
<1>1. CASE v = NoVal
  BY <1>1, GetWordIs DEF JoinPart
<1>2. CASE v # NoVal
  <2>1. Keeps(j, j, K, {})
    BY SelfTight DEF Current, Tight
  <2> QED
    BY <1>2, <2>1 DEF JoinPart, Reads, Stands, OfVal
<1> QED
  BY <1>1, <1>2

LEMMA JoinedReads ==
  ASSUME NEW j, NEW K, Current(j, K), NEW a \in Addresses, ~Aligned(a), NEW lo, NEW hi,
         lo = Find(j, Down(a)), hi = Find(j, Down(a) + WordBytes), ~j.live,
         ~Joined(j, a, lo, hi).j.out
  PROVE  Reads(j, Joined(j, a, lo, hi), K, Rd(Whole(j, K), a))
<1> DEFINE k == a % WordBytes
           hw == Down(a) + WordBytes
           b1 == Touch(j, lo)
           b2 == Touch(b1, hi)
           b3 == Pin(b2, lo)
           b == Pin(b3, hi)
           l == JoinPart(b, lo, Down(a))
           h == JoinPart(l.j, hi, hw)
           s == Shifted(h.j, l.v, TRUE, k)
           g == Shifted(s.j, h.v, FALSE, WordBytes - k)
           m == Whole(j, K)
           p == Rd(m, Down(a))
           q == Rd(m, hw)
<1>1. Joined(j, a, lo, hi) = Merged(s, g)
  BY JoinedIs
<1>2. Down(a) \in Words /\ hw \in Words /\ k \in 1 .. (WordBytes - 1)
      /\ Down(a) \in Addresses /\ hw \in Addresses /\ m \in Memories /\ Fits(j, K) /\ Typed(j)
  BY Unaligned, WordsAre DEF Current, Fits
<1>3. /\ lo # NoVal => IsCval(lo) /\ ValueOf(j, lo) = p
      /\ hi # NoVal => IsCval(hi) /\ ValueOf(j, hi) = q
  <2>1. \A w \in Addresses : Find(j, w) # NoVal =>
          w \in CWords /\ Names(j, w, Find(j, w)) /\ IsCval(Find(j, w))
    BY <1>2, FindIs
  <2>2. \A w \in Addresses : Find(j, w) # NoVal => ValueOf(j, Find(j, w)) = Rd(m, w)
    BY <1>2, <2>1, CurrentIs DEF Fits
  <2> HIDE DEF m
  <2> QED
    BY <1>2, <2>1, <2>2
<1> HIDE DEF k, hw, m, p, q
<1>4. (InReg(lo) => lo.reg \in Regs) /\ (InReg(hi) => hi.reg \in Regs)
  BY <1>3, CvalCases, CvalIs
<1>5. Tight(j, b1, K) /\ Fits(b1, K) /\ b1.pinned = j.pinned
      /\ \A u : ValueOf(b1, u) = ValueOf(j, u)
  BY ZenonT(60), <1>2, <1>4, PinTight
<1> HIDE DEF b1
<1>6. Tight(b1, b2, K) /\ Fits(b2, K) /\ b2.pinned = b1.pinned
      /\ \A u : ValueOf(b2, u) = ValueOf(b1, u)
  BY ZenonT(60), <1>4, <1>5, PinTight
<1> HIDE DEF b2
<1>7. Tight(b2, b3, K) /\ Fits(b3, K) /\ (InReg(lo) => lo.reg \in b3.pinned)
      /\ \A u : ValueOf(b3, u) = ValueOf(b2, u)
  BY ZenonT(60), <1>4, <1>6, PinTight
<1> HIDE DEF b3
<1>8. Tight(b3, b, K) /\ Fits(b, K) /\ (InReg(hi) => hi.reg \in b.pinned) /\ b3.pinned \subseteq b.pinned
      /\ \A u : ValueOf(b, u) = ValueOf(b3, u)
  <2>1. Tight(b3, b, K) /\ Fits(b, K)
    BY <1>4, <1>7, PinTight
  <2>2. (InReg(hi) => hi.reg \in b.pinned) /\ \A u : ValueOf(b, u) = ValueOf(b3, u)
    BY ZenonT(60), <1>4, <1>7, PinTight
  <2> HIDE DEF b
  <2> QED
    BY <2>1, <2>2, TightIs
<1> HIDE DEF b
<1>9. Tight(j, b, K)
  <2>1. Tight(j, b2, K)
    BY <1>5, <1>6, TightTrans
  <2>2. Tight(j, b3, K)
    BY <1>7, <2>1, TightTrans
  <2> QED
    BY <1>8, <2>2, TightTrans
<1>10. Keeps(j, b, K, {}) /\ Current(b, K) /\ Whole(b, K) = m /\ b.live = j.live
  BY <1>9, KeepsCurrent, TightIs DEF Tight, m
<1>11. Stands(b, lo, p) /\ Stands(b, hi, q)
  BY <1>3, <1>5, <1>6, <1>7, <1>8 DEF Stands
<1>12. Made(b)
  BY <1>8 DEF Fits, Typed, Made
<1>13. \A i, v, w : Made(i) => OfVal(JoinPart(i, v, w)) /\ Runs(i, JoinPart(i, v, w).j)
  BY RunsGetWord, RunsMarks DEF JoinPart, OfVal
<1>14. OfVal(l) /\ Runs(b, l.j)
  BY <1>12, <1>13
<1> HIDE DEF l
<1>15. OfVal(h) /\ Runs(l.j, h.j)
  BY <1>13, <1>14 DEF Runs
<1> HIDE DEF h
<1>16. OfVal(s) /\ Runs(h.j, s.j)
  BY <1>15, RunsShifted DEF Runs
<1> HIDE DEF s
<1>17. OfVal(g) /\ Runs(s.j, g.j)
  BY <1>16, RunsShifted DEF Runs
<1> HIDE DEF g
<1>18. Runs(g.j, Merged(s, g).j)
  BY <1>16, <1>17, RunsMerged DEF Runs
<1>19. ~l.j.out /\ ~h.j.out /\ ~s.j.out /\ ~g.j.out
  BY <1>1, <1>15, <1>16, <1>17, <1>18 DEF Runs
<1>20. Reads(b, l, K, p)
  BY <1>2, <1>10, <1>11, <1>19, JoinPartIs DEF l, p
<1>21. /\ Keeps(j, l.j, K, {}) /\ Current(l.j, K) /\ Whole(l.j, K) = m /\ l.j.live = j.live
       /\ Stands(l.j, hi, q) /\ Stands(l.j, l.v, p)
  <2>1. Keeps(b, l.j, K, {})
    BY <1>20 DEF Reads
  <2>2. Current(l.j, K) /\ Whole(l.j, K) = m /\ l.j.live = j.live
    BY <1>10, <2>1, KeepsCurrent DEF Keeps, Stays
  <2>3. Keeps(j, l.j, K, {})
    BY <1>10, <2>1, KeepsTrans
  <2>4. Stands(l.j, hi, q)
    BY <1>11, <2>1, KeepsStands
  <2> QED
    BY <1>20, <2>2, <2>3, <2>4 DEF Stands, Reads
<1>22. Reads(l.j, h, K, q)
  BY <1>2, <1>19, <1>21, JoinPartIs DEF h, q
<1>23. /\ Keeps(j, h.j, K, {}) /\ Fits(h.j, K) /\ h.j.live = j.live
       /\ IsCval(l.v) /\ IsCval(h.v)
       /\ Stands(h.j, h.v, q) /\ Stands(h.j, l.v, p)
  <2>1. Keeps(l.j, h.j, K, {})
    BY <1>22 DEF Reads
  <2>2. Fits(h.j, K) /\ h.j.live = j.live
    BY <1>21, <2>1 DEF Keeps, Stays
  <2>3. Keeps(j, h.j, K, {})
    BY <1>21, <2>1, KeepsTrans
  <2>4. Stands(h.j, l.v, p)
    BY <1>21, <2>1, KeepsStands
  <2> QED
    BY <1>20, <1>22, <2>2, <2>3, <2>4 DEF Stands, Reads
<1>24. k \in 0 .. WordBytes /\ WordBytes - k \in 0 .. WordBytes
  <2>1. k \in 0 .. WordBytes
    BY <1>2, ConstantsAre
  <2> QED
    BY <2>1, PowParts
<1>25. Makes(h.j, s, K, Shl(p, k))
  <2>1. ~h.j.live /\ ValueOf(h.j, l.v) = p /\ (InReg(l.v) => l.v.reg \in h.j.pinned)
    BY <1>23, CvalCases DEF Stands
  <2>2. Makes(h.j, Shifted(h.j, l.v, TRUE, k), K,
              IF TRUE THEN Shl(ValueOf(h.j, l.v), k) ELSE Shr(ValueOf(h.j, l.v), k))
    BY <1>19, <1>23, <1>24, <2>1, ShiftedIs DEF s
  <2> QED
    BY <2>1, <2>2 DEF s
<1>26. Makes(s.j, g, K, Shr(q, WordBytes - k))
  <2>1. Tight(h.j, s.j, K)
    BY <1>25 DEF Makes
  <2>2. Fits(s.j, K) /\ ~s.j.live
    BY <1>23, <2>1, TightIs
  <2>3. ValueOf(s.j, h.v) = q /\ (InReg(h.v) => h.v.reg \in s.j.pinned)
    <3>1. Stands(s.j, h.v, q)
      BY <1>23, <2>1, KeepsStands DEF Tight
    <3> QED
      BY <1>23, <3>1, CvalCases DEF Stands
  <2> DEFINE y == WordBytes - k
  <2>4. y \in 0 .. WordBytes /\ g = Shifted(s.j, h.v, FALSE, y)
    BY <1>24 DEF g
  <2> HIDE DEF y
  <2>5. Makes(s.j, Shifted(s.j, h.v, FALSE, y), K,
              IF FALSE THEN Shl(ValueOf(s.j, h.v), y) ELSE Shr(ValueOf(s.j, h.v), y))
    BY <1>19, <1>23, <2>2, <2>3, <2>4, ShiftedIs
  <2>6. Makes(s.j, g, K, Shr(q, y))
    BY <2>3, <2>4, <2>5
  <2> QED
    BY <2>6 DEF y
<1>27. /\ Rd(m, a) = Shl(p, k) + Shr(q, WordBytes - k)
       /\ Shl(p, k) + Shr(q, WordBytes - k) \in Value
  BY <1>2, JoinIs DEF k, p, q, hw
<1>28. Shl(p, k) \in Nat /\ Shr(q, WordBytes - k) \in Nat
  <2>1. p \in Value /\ q \in Value
    BY <1>2, RdType DEF p, q
  <2>2. Shl(p, k) \in Value /\ Shr(q, WordBytes - k) \in Value
    BY <1>24, <2>1, ShiftType
  <2> QED
    BY <2>2 DEF Value
<1>29. Makes(h.j, Merged(s, g), K, Shl(p, k) + Shr(q, WordBytes - k))
  BY <1>1, <1>23, <1>25, <1>26, <1>27, <1>28, MergedIs
<1>30. Makes(h.j, Joined(j, a, lo, hi), K, Rd(m, a))
  BY <1>1, <1>27, <1>29
<1> QED
  BY <1>23, <1>30, MakesReads DEF m

LEMMA GetStaticIs ==
  ASSUME NEW j, NEW K, Current(j, K), NEW a \in Addresses, ~j.live, ~GetStatic(j, a).j.out
  PROVE  Reads(j, GetStatic(j, a), K, Rd(Whole(j, K), a))
<1>1. CASE Joins(j, a)
  <2>1. ~Aligned(a) /\ GetStatic(j, a) = Joined(j, a, Find(j, Down(a)), Find(j, Down(a) + WordBytes))
    BY <1>1 DEF GetStatic, Joins
  <2> QED
    BY <2>1, JoinedReads
<1>2. CASE ~Joins(j, a)
  BY <1>2, GetWordIs DEF GetStatic
<1> QED
  BY <1>1, <1>2
-----------------------------------------------------------------------------
(* The words an unaligned store spans *)

LEMMA MaskedIs ==
  ASSUME NEW j, NEW K, Fits(j, K), NEW r \in j.pinned, NEW first \in BOOLEAN,
         NEW k \in 0 .. WordBytes, ~j.live, ~Masked(j, r, first, k).j.out
  PROVE  LET m == Masked(j, r, first, k)
         IN  Fresh(j, m, K) /\ m.j.reg[m.r] = Kept(j.reg[r], first, k)
<1> DEFINE s == Scratch(j)
           t == Scratch(s.j)
           b == GiveBack(t)
           u == [s EXCEPT !.j = b]
           val == Kept(s.j.reg[r], first, k)
           g == Give(u, val)
           c == Clobber(g)
<1>1. Masked(j, r, first, k) = c
  BY DEF Masked
<1>2. Typed(j) /\ r \in Regs /\ Made(j)
  BY DEF Fits, Typed, Made
<1>3. OfReg(s) /\ Runs(j, s.j)
  BY <1>2, RunsScratch
<1> HIDE DEF s
<1>4. OfReg(t) /\ Runs(s.j, t.j)
  BY <1>3, RunsScratch DEF Runs
<1> HIDE DEF t
<1>5. Runs(t.j, b)
  BY <1>4, RunsMarks DEF GiveBack, Runs
<1> HIDE DEF b
<1>6. OfReg(u) /\ u.j = b /\ u.r = s.r
  BY <1>3 DEF OfReg
<1> HIDE DEF u
<1>7. OfReg(g) /\ Runs(u.j, g.j)
  BY <1>5, <1>6, RunsGive DEF Runs
<1> HIDE DEF g
<1>8. Runs(g.j, c.j)
  BY <1>7, RunsGive DEF Runs
<1> HIDE DEF c
<1>9. ~s.j.out /\ ~t.j.out
  BY <1>1, <1>4, <1>5, <1>6, <1>7, <1>8 DEF Runs
<1>10. Fresh(j, s, K)
  BY <1>9, ScratchIs DEF s
<1>11. Fits(s.j, K) /\ Tight(j, s.j, K) /\ s.r \in s.j.pinned /\ Bare(s.j, s.r)
       /\ s.r \in Regs /\ s.r \notin j.pinned
  BY <1>10, TightIs DEF Fresh
<1>12. Fresh(s.j, t, K)
  BY <1>9, <1>11, ScratchIs DEF t
<1>13. Tight(s.j, b, K)
  <2>1. Fits(t.j, K) /\ Tight(s.j, t.j, K) /\ t.r \notin s.j.pinned
    BY <1>12, TightIs DEF Fresh
  <2>2. Tight(s.j, Unpin(t.j, t.r), K)
    BY <2>1, DropPin
  <2> QED
    BY <2>2 DEF b, GiveBack
<1>14. Fresh(j, u, K)
  <2>1. s.j.pinned \subseteq b.pinned /\ NoNew(s.j, b)
    BY <1>13, TightIs DEF Tight
  <2>2. Bare(b, s.r)
    BY <1>11, <2>1 DEF Bare, NoNew
  <2>3. Tight(j, b, K)
    BY <1>11, <1>13, TightTrans
  <2> QED
    BY <1>6, <1>11, <2>1, <2>2, <2>3 DEF Fresh
<1>15. s.j.reg[r] = j.reg[r]
  BY <1>11 DEF Tight, Keeps, Stays
<1>16. val = Kept(j.reg[r], first, k) /\ val \in Value
  <2>1. j.reg[r] \in Value
    BY <1>2 DEF Typed
  <2> QED
    BY <1>15, <2>1, KeptType
<1> HIDE DEF val
<1>17. Fresh(j, g, K) /\ g.r = u.r /\ g.j.reg[u.r] = val
  BY <1>14, <1>16, GiveFresh DEF g
<1>18. Fresh(j, c, K) /\ c.r = g.r /\ c.j.reg = g.j.reg
  BY <1>17, ClobberFresh DEF c
<1> QED
  BY <1>1, <1>16, <1>17, <1>18

(* A constant or a register of its own, with what the cache knows unchanged. *)
Puts2(j, p, K, val) ==
  OfVal(p) /\ Tight(j, p.j, K) /\ IsCval(p.v) /\ ValueOf(p.j, p.v) = val /\ Own(p.j, p.v)

LEMMA MaskedOrMakes ==
  ASSUME NEW j, NEW K, Fits(j, K), NEW w, IsCval(w), InReg(w) => w.reg \in j.pinned,
         NEW first \in BOOLEAN, NEW k \in 0 .. WordBytes, NEW part, IsCval(part), Own(j, part),
         ~j.live, NEW val, val = Kept(ValueOf(j, w), first, k) + ValueOf(j, part), val \in Value,
         ~MaskedOr(j, w, first, k, part).j.out
  PROVE  Puts2(j, MaskedOr(j, w, first, k, part), K, val)
<1> DEFINE kept == Kept(ValueOf(j, w), first, k)
           p == ToReg(j, w)
           c == Give(Scratch(j), Kept(w.val, first, k))
           s == IF w.kind = "const" THEN Clobber(c) ELSE Masked(p.j, p.r, first, k)
           o == OrVal(s.j, s.r, part)
           q == MaskedOr(j, w, first, k, part)
<1>1. q = IF w.kind = "const" /\ part.kind = "const"
          THEN [j |-> j, v |-> ConstVal(Kept(w.val, first, k) + part.val)]
          ELSE IF w.kind = "const" /\ Kept(w.val, first, k) = 0 THEN [j |-> j, v |-> part]
          ELSE [j |-> o, v |-> RegVal(s.r)]
  BY MaskedOrIs
<1>2. /\ Typed(j) /\ Made(j) /\ ValueOf(j, w) \in Value /\ ValueOf(j, part) \in Value /\ Tight(j, j, K)
      /\ w.kind = "const" => ValueOf(j, w) = w.val
      /\ part.kind = "const" => ValueOf(j, part) = part.val
  BY ValueType, SelfTight, ValueOfIs DEF Fits, Typed, Made
<1>3. kept \in Value
  BY <1>2, KeptType
<1> HIDE DEF q
<1>4. CASE w.kind = "const" /\ part.kind = "const"
  <2>1. q = [j |-> j, v |-> ConstVal(val)]
    BY <1>1, <1>2, <1>4
  <2>2. IsCval(ConstVal(val)) /\ ValueOf(j, ConstVal(val)) = val /\ Own(j, ConstVal(val))
    BY CvalIs DEF IsCval, Own
  <2> QED
    BY <1>2, <2>1, <2>2 DEF Puts2, OfVal, q
<1>5. CASE w.kind = "const" /\ part.kind # "const" /\ kept = 0
  <2>1. q = [j |-> j, v |-> part]
    BY <1>1, <1>2, <1>5
  <2>2. val = ValueOf(j, part)
    <3> HIDE DEF kept
    <3>1. val = kept + ValueOf(j, part)
      BY DEF kept
    <3>2. ValueOf(j, part) \in Int
      BY <1>2, WordIs DEF Value
    <3> QED
      BY <1>5, <3>1, <3>2
  <2> QED
    BY <1>2, <2>1, <2>2 DEF Puts2, OfVal, q
<1>6. CASE ~(w.kind = "const" /\ part.kind = "const") /\ ~(w.kind = "const" /\ part.kind # "const" /\ kept = 0)
  <2>1. q = [j |-> o, v |-> RegVal(s.r)]
    BY <1>1, <1>2, <1>6
  <2>2. OfReg(s) /\ Made(s.j) /\ Runs(s.j, o)
    <3>1. OfReg(c) /\ Runs(j, c.j)
      BY <1>2, RunsScratch, RunsGive, RunsTrans DEF Runs
    <3>2. OfReg(Clobber(c)) /\ Runs(j, Clobber(c).j)
      BY <3>1, RunsGive, RunsTrans DEF Runs
    <3>3. OfReg(Masked(p.j, p.r, first, k)) /\ Made(Masked(p.j, p.r, first, k).j)
      BY <1>2, RunsToReg, RunsMasked DEF Runs
    <3>4. OfReg(s) /\ Made(s.j)
      BY <3>2, <3>3 DEF Runs
    <3> HIDE DEF s
    <3> QED
      BY <3>4, RunsOrVal
  <2>3. ~o.out
    BY <2>1 DEF q
  <2>4. ~s.j.out
    BY <2>2, <2>3 DEF Runs
  <2>5. Fresh(j, s, K) /\ s.j.reg[s.r] = kept
    <3>1. CASE w.kind = "const"
      <4>1. s = Clobber(c) /\ Kept(w.val, first, k) = kept
        BY <1>2, <3>1
      <4>2. OfReg(c) /\ Runs(Scratch(j).j, c.j) /\ OfReg(Scratch(j)) /\ Runs(j, Scratch(j).j)
        BY <1>2, RunsScratch, RunsGive DEF Runs
      <4>3. Runs(c.j, Clobber(c).j)
        BY <4>2, RunsGive DEF Runs
      <4>4. ~Scratch(j).j.out
        BY <2>4, <4>1, <4>2, <4>3 DEF Runs
      <4>5. Fresh(j, Scratch(j), K)
        BY <4>4, ScratchIs
      <4> HIDE DEF kept
      <4>6. c = Give(Scratch(j), kept)
        BY <4>1
      <4>7. Fresh(j, c, K) /\ c.r = Scratch(j).r /\ c.j.reg[c.r] = kept
        BY <1>3, <4>5, <4>6, GiveFresh
      <4> HIDE DEF c
      <4>8. Fresh(j, Clobber(c), K) /\ Clobber(c).r = c.r /\ Clobber(c).j.reg = c.j.reg
        BY <4>7, ClobberFresh
      <4> QED
        BY <4>1, <4>7, <4>8
    <3>2. CASE w.kind # "const"
      <4>1. s = Masked(p.j, p.r, first, k)
        BY <3>2
      <4>2. OfReg(p) /\ Runs(j, p.j)
        BY <1>2, RunsToReg
      <4>3. Runs(p.j, Masked(p.j, p.r, first, k).j)
        BY <4>2, RunsMasked DEF Runs
      <4>4. ~p.j.out
        BY <2>4, <4>1, <4>3 DEF Runs
      <4>5. Loads(j, p, K, w)
        BY <4>4, ToRegIs
      <4> HIDE DEF p, s
      <4>6. Fits(p.j, K) /\ Tight(j, p.j, K) /\ p.j.live = j.live /\ j.pinned \subseteq p.j.pinned
        BY <4>5, TightIs DEF Loads
      <4>7. p.r \in p.j.pinned
        BY <4>5, CvalCases DEF Loads, Fresh
      <4>8. Fresh(p.j, s, K) /\ s.j.reg[s.r] = Kept(p.j.reg[p.r], first, k)
        BY <2>4, <4>1, <4>6, <4>7, MaskedIs
      <4>9. p.j.reg[p.r] = ValueOf(j, w)
        BY <4>5 DEF Loads
      <4>10. Fresh(j, s, K)
        BY <4>6, <4>8, TightTrans DEF Fresh
      <4> QED
        BY <4>8, <4>9, <4>10
    <3> QED
      BY <3>1, <3>2
  <2> HIDE DEF s, kept
  <2>6. Fits(s.j, K) /\ Tight(j, s.j, K) /\ s.r \in s.j.pinned /\ Bare(s.j, s.r) /\ s.r \in Regs
        /\ s.r \notin j.pinned /\ s.j.live = j.live
    BY <2>5, TightIs DEF Fresh
  <2>7. ValueOf(s.j, part) = ValueOf(j, part)
    <3>1. InReg(part) => part.reg \in j.pinned
      BY CvalCases DEF Own
    <3> QED
      BY <2>6, <3>1, SameValue DEF Tight
  <2>8. s.j.reg[s.r] + ValueOf(s.j, part) = val
    BY <2>5, <2>7 DEF kept
  <2>9. /\ s.r \in o.pinned /\ Bare(o, s.r) /\ o.reg[s.r] = val
        /\ Tight(j, o, K)
    BY <2>3, <2>6, <2>8, OrValIs
  <2> HIDE DEF o
  <2>10. IsCval(RegVal(s.r)) /\ ValueOf(o, RegVal(s.r)) = val /\ Own(o, RegVal(s.r))
    BY <2>6, <2>9, CvalIs DEF IsCval, Own
  <2> QED
    BY <2>1, <2>9, <2>10 DEF Puts2, OfVal, q
<1> QED
  BY <1>4, <1>5, <1>6

(* The word at a is named for what was put together for it. *)
LEMMA SetWordIs ==
  ASSUME NEW j, NEW K \in Views, Fits(j, K), j.pend = None, NEW p, p.j = j, IsCval(p.v), Own(j, p.v),
         NEW a \in CWords, NEW val, val = ValueOf(j, p.v)
  PROVE  LET k == SetWord(p, a)
         IN  /\ Fits(k, [K EXCEPT ![a] = val]) /\ SameButNames(j, k)
             /\ \A w \in CWords \ {a} : \A u : Names(k, w, u) => Names(j, w, u)
<1>1. Loose(j, K, a)
  BY FitsLoose
<1>2. CASE p.v.kind = "const"
  <2>1. p.v.val \in Value /\ ValueOf(j, p.v) = p.v.val
    BY <1>2, CvalCases, ValueOfIs
  <2>2. SetWord(p, a) = SetConst(j, a, p.v.val)
    BY <1>2 DEF SetWord
  <2> QED
    BY <1>1, <2>1, <2>2, NameConst
<1>3. CASE p.v.kind # "const"
  <2>1. p.v.kind = "reg" /\ p.v.reg \in j.pinned /\ Bare(j, p.v.reg)
    BY <1>3 DEF Own
  <2> DEFINE r == p.v.reg
  <2>2. r \in Regs /\ ValueOf(j, p.v) = j.reg[r]
    BY <2>1, CvalCases, ValueOfIs
  <2>3. j.regs[r] = None
    <3>1. ASSUME j.regs[r] # None PROVE FALSE
      <4>1. j.regs[r] \in CWords
        BY <2>2, <3>1 DEF Fits, Typed
      <4>2. Names(j, j.regs[r], RegVal(r))
        BY <2>2 DEF Names
      <4> QED
        BY <2>1, <4>1, <4>2, CvalIs DEF Bare
    <3> QED
      BY <3>1
  <2>4. SetWord(p, a) = Bind(j, r, a)
    BY <1>3 DEF SetWord
  <2> HIDE DEF r
  <2> QED
    BY <1>1, <2>2, <2>3, <2>4, NameReg
<1> QED
  BY <1>2, <1>3

(* One of the two words: what is kept of it, and what the store put there. *)
Half(i, v, w, a, first, k, m) ==
  IF w = NoVal THEN i
  ELSE LET p == Shifted(i, v, ~first, m) IN SetWord(MaskedOr(p.j, w, first, k, p.v), a)

Halved(i, q, K, a) ==
  /\ Fits(q, K) /\ q.pend = None /\ q.mem = i.mem /\ ~q.live
  /\ i.pinned \subseteq q.pinned /\ \A r \in i.pinned : q.reg[r] = i.reg[r]
  /\ \A w \in CWords \ {a} : \A u : Names(q, w, u) => Names(i, w, u)

LEMMA RunsHalf ==
  ASSUME NEW i, Made(i), NEW v, NEW w, NEW a, NEW first, NEW k, NEW m
  PROVE  Runs(i, Half(i, v, w, a, first, k, m))
<1> DEFINE p == Shifted(i, v, ~first, m)
           o == MaskedOr(p.j, w, first, k, p.v)
<1>1. Runs(i, i)
  BY RunsMarks
<1>2. Runs(i, p.j)
  BY RunsShifted
<1>3. Runs(p.j, o.j)
  BY <1>2, RunsMaskedOr DEF Runs
<1>4. Runs(o.j, SetWord(o, a))
  BY <1>3, RunsSetWord DEF Runs
<1>5. Half(i, v, w, a, first, k, m) = IF w = NoVal THEN i ELSE SetWord(o, a)
  BY DEF Half
<1> HIDE DEF p, o
<1>6. Runs(i, SetWord(o, a))
  BY <1>2, <1>3, <1>4, RunsTrans
<1> QED
  BY <1>1, <1>5, <1>6

LEMMA HalfIs ==
  ASSUME NEW i, NEW K \in Views, Fits(i, K), i.pend = None, ~i.live,
         NEW v, IsCval(v), InReg(v) => v.reg \in i.pinned, NEW a \in CWords,
         NEW w, Stands(i, w, K[a]), w = NoVal => Unnamed(i, a),
         NEW first \in BOOLEAN, NEW k \in 0 .. WordBytes, NEW m \in 0 .. WordBytes,
         NEW val \in Value,
         val = Kept(K[a], first, k) + IF ~first THEN Shl(ValueOf(i, v), m) ELSE Shr(ValueOf(i, v), m),
         ~Half(i, v, w, a, first, k, m).out
  PROVE  Halved(i, Half(i, v, w, a, first, k, m), [K EXCEPT ![a] = val], a)
<1> DEFINE L == [K EXCEPT ![a] = val]
<1>1. CASE w = NoVal
  <2>1. \A b \in CWords \ {a} : L[b] = K[b]
    BY DEF Views
  <2>2. Fits(i, L)
    BY <1>1, <2>1 DEF Fits, Unnamed
  <2>3. Half(i, v, w, a, first, k, m) = i
    BY <1>1 DEF Half
  <2> HIDE DEF L
  <2> QED
    BY <2>2, <2>3 DEF Halved, L
<1>2. CASE w # NoVal
  <2> DEFINE p == Shifted(i, v, ~first, m)
             o == MaskedOr(p.j, w, first, k, p.v)
             q == SetWord(o, a)
             sh == IF ~first THEN Shl(ValueOf(i, v), m) ELSE Shr(ValueOf(i, v), m)
  <2>1. Half(i, v, w, a, first, k, m) = q
    BY <1>2 DEF Half
  <2>2. Made(i) /\ Typed(i) /\ (~first) \in BOOLEAN
    BY DEF Fits, Typed, Made
  <2>3. Runs(i, p.j) /\ OfVal(p)
    BY <2>2, RunsShifted
  <2>4. Runs(p.j, o.j) /\ OfVal(o)
    BY <2>3, RunsMaskedOr DEF Runs
  <2>5. Runs(o.j, q)
    BY <2>4, RunsSetWord DEF Runs
  <2>6. ~q.out /\ ~o.j.out /\ ~p.j.out
    BY <2>1, <2>3, <2>4, <2>5 DEF Runs
  <2>7. Makes(i, p, K, sh)
    BY <2>2, <2>6, ShiftedIs
  <2>8. val = Kept(K[a], first, k) + sh
    OBVIOUS
  <2> HIDE DEF p, sh
  <2>9. Tight(i, p.j, K) /\ IsCval(p.v) /\ ValueOf(p.j, p.v) = sh /\ Own(p.j, p.v)
    BY <2>7 DEF Makes
  <2>10. Fits(p.j, K) /\ i.pinned \subseteq p.j.pinned /\ ~p.j.live /\ p.j.pend = None /\ p.j.mem = i.mem
    BY <2>9, TightIs
  <2>11. IsCval(w) /\ (InReg(w) => w.reg \in i.pinned) /\ ValueOf(i, w) = K[a]
    BY <1>2 DEF Stands
  <2>12. ValueOf(p.j, w) = K[a]
    BY <2>9, <2>11, SameValue DEF Tight
  <2>13. InReg(w) => w.reg \in p.j.pinned
    BY <2>10, <2>11
  <2>14. val = Kept(ValueOf(p.j, w), first, k) + ValueOf(p.j, p.v)
    BY <2>8, <2>9, <2>12
  <2>15. Puts2(p.j, o, K, val)
    BY <2>6, <2>9, <2>10, <2>11, <2>13, <2>14, MaskedOrMakes
  <2> HIDE DEF o
  <2>16. Tight(p.j, o.j, K) /\ IsCval(o.v) /\ ValueOf(o.j, o.v) = val /\ Own(o.j, o.v)
    BY <2>15 DEF Puts2
  <2>17. Tight(i, o.j, K)
    BY <2>9, <2>16, TightTrans
  <2>18. /\ Fits(o.j, K) /\ i.pinned \subseteq o.j.pinned /\ ~o.j.live /\ o.j.pend = None
         /\ o.j.mem = i.mem
    BY <2>17, TightIs
  <2>19. (\A r \in i.pinned : o.j.reg[r] = i.reg[r]) /\ NoNew(i, o.j)
    BY <2>17 DEF Tight, Keeps, Stays
  <2>20. Fits(q, L) /\ SameButNames(o.j, q)
         /\ \A b \in CWords \ {a} : \A u : Names(q, b, u) => Names(o.j, b, u)
    BY <2>16, <2>18, SetWordIs
  <2> HIDE DEF q, L
  <2>21. Halved(i, q, L, a)
    BY <2>18, <2>19, <2>20 DEF Halved, SameButNames, NoNew
  <2> QED
    BY <2>1, <2>21 DEF L
<1> QED
  BY <1>1, <1>2

Ends(j, v, lo, hi) == Pin(Pin(Touch(Touch(Pin([j EXCEPT !.pinned = {}], v), lo), hi), lo), hi)

LEMMA UpdateWordsAre ==
  ASSUME NEW j, NEW a, NEW v, NEW lo, NEW hi
  PROVE  LET k == a % WordBytes
             l == Half(Ends(j, v, lo, hi), v, lo, Down(a), TRUE, k, k)
         IN  UpdateWords(j, a, v, lo, hi) = Half(l, v, hi, Down(a) + WordBytes, FALSE, k, WordBytes - k)
<1>1. \A b : (b <=> TRUE) => ~b = FALSE
  OBVIOUS
<1>2. (~TRUE) = FALSE /\ (~FALSE) = TRUE
  OBVIOUS
<1> QED
  BY <1>2 DEF UpdateWords, Half, Ends

LEMMA RunsEnds ==
  ASSUME NEW j, Made(j), NEW v, NEW lo, NEW hi
  PROVE  Runs(j, Ends(j, v, lo, hi))
<1> DEFINE b == [j EXCEPT !.pinned = {}]
           c == Pin(b, v)
           d == Touch(c, lo)
           e == Touch(d, hi)
           f == Pin(e, lo)
           g == Pin(f, hi)
<1>1. Runs(j, b)
  BY RunsMarks
<1> HIDE DEF b
<1>2. Runs(b, c)
  BY <1>1, RunsMarks DEF Runs
<1> HIDE DEF c
<1>3. Runs(c, d)
  BY <1>2, RunsMarks DEF Runs
<1> HIDE DEF d
<1>4. Runs(d, e)
  BY <1>3, RunsMarks DEF Runs
<1> HIDE DEF e
<1>5. Runs(e, f)
  BY <1>4, RunsMarks DEF Runs
<1> HIDE DEF f
<1>6. Runs(f, g)
  BY <1>5, RunsMarks DEF Runs
<1>7. Ends(j, v, lo, hi) = g
  BY DEF Ends, g, f, e, d, c, b
<1> HIDE DEF g
<1>8. Runs(j, d)
  BY <1>1, <1>2, <1>3, RunsTrans
<1>9. Runs(d, g)
  BY <1>4, <1>5, <1>6, RunsTrans
<1> QED
  BY <1>7, <1>8, <1>9, RunsTrans

LEMMA RunsUpdateSpanned ==
  ASSUME NEW j, Made(j), NEW a, NEW v
  PROVE  Runs(j, UpdateSpanned(j, a, v))
<1> DEFINE lo == Find(j, Down(a))
           hi == Find(j, Down(a) + WordBytes)
           k == a % WordBytes
           e == Ends(j, v, lo, hi)
           l == Half(e, v, lo, Down(a), TRUE, k, k)
           h == Half(l, v, hi, Down(a) + WordBytes, FALSE, k, WordBytes - k)
<1>1. UpdateSpanned(j, a, v) = h
  BY UpdateWordsAre DEF UpdateSpanned
<1>2. Runs(j, e)
  BY RunsEnds
<1> HIDE DEF e
<1>3. Runs(e, l)
  BY <1>2, RunsHalf DEF Runs
<1> HIDE DEF l
<1>4. Runs(l, h)
  BY <1>3, RunsHalf DEF Runs
<1> HIDE DEF h
<1> QED
  BY <1>1, <1>2, <1>3, <1>4, RunsTrans

(* The view of memory after an unaligned store to cached words. *)
Both(K, a, L, b, H) == [[K EXCEPT ![a] = L] EXCEPT ![b] = H]

LowOf(m, a, v) == Kept(Rd(m, Down(a)), TRUE, a % WordBytes) + Shr(v, a % WordBytes)
HighOf(m, a, v) ==
  Kept(Rd(m, Down(a) + WordBytes), FALSE, a % WordBytes) + Shl(v, WordBytes - (a % WordBytes))

LEMMA ViewSpanned ==
  ASSUME NEW m \in Memories, NEW a \in Addresses, ~Aligned(a), SpanOf(a) \subseteq CWords,
         NEW v \in Value
  PROVE  /\ LowOf(m, a, v) \in Value /\ HighOf(m, a, v) \in Value
         /\ View(Wr(m, a, v)) =
              Both(View(m), Down(a), LowOf(m, a, v), Down(a) + WordBytes, HighOf(m, a, v))
<1> DEFINE L == LowOf(m, a, v)
           H == HighOf(m, a, v)
           lo == Down(a)
           hi == Down(a) + WordBytes
           V == View(Wr(m, a, v))
           U == Both(View(m), lo, L, hi, H)
<1>1. lo \in CWords /\ hi \in CWords /\ SpanOf(a) = {lo, hi} /\ lo \in Nat /\ lo # hi
  BY Unaligned, WordsAre, ConstantsAre DEF CWords
<1>2. L \in Value /\ H \in Value /\ Rd(Wr(m, a, v), lo) = L /\ Rd(Wr(m, a, v), hi) = H
  BY ZenonT(60), StoreLow, StoreHigh DEF LowOf, HighOf
<1>3. V = [w \in CWords |-> Rd(Wr(m, a, v), w)]
  BY DEF View
<1>4. U = [w \in CWords |-> IF w = hi THEN H ELSE IF w = lo THEN L ELSE Rd(m, w)]
  BY <1>1 DEF View, Both
<1> HIDE DEF L, H, lo, hi, V, U
<1>5. ASSUME NEW w \in CWords
      PROVE  Rd(Wr(m, a, v), w) = IF w = hi THEN H ELSE IF w = lo THEN L ELSE Rd(m, w)
  <2>1. CASE w \in {lo, hi}
    BY <1>1, <1>2, <2>1
  <2>2. CASE w \notin {lo, hi}
    <3>1. w \in Words /\ w \in Addresses /\ SpanOf(w) = {w}
      BY WordsAre, SpanIs DEF CWords
    <3>2. SpanOf(a) \cap SpanOf(w) = {}
      BY <1>1, <2>2, <3>1
    <3> QED
      BY <2>2, <3>1, <3>2, RdApart
  <2> QED
    BY <2>1, <2>2
<1>6. V = U
  BY <1>3, <1>4, <1>5
<1> QED
  BY <1>2, <1>6 DEF V, U, lo, hi, L, H

LEMMA EndsAre ==
  ASSUME NEW j, NEW K, Fits(j, K), NEW v, IsCval(v), NEW lo, NEW hi,
         lo = NoVal \/ IsCval(lo), hi = NoVal \/ IsCval(hi)
  PROVE  LET i == Ends(j, v, lo, hi)
         IN  /\ Fits(i, K) /\ Alike(j, i)
             /\ (InReg(v) => v.reg \in i.pinned) /\ (InReg(lo) => lo.reg \in i.pinned)
             /\ (InReg(hi) => hi.reg \in i.pinned)
<1> DEFINE b == [j EXCEPT !.pinned = {}]
           c == Pin(b, v)
           d == Touch(c, lo)
           e == Touch(d, hi)
           f == Pin(e, lo)
           g == Pin(f, hi)
<1>1. Alike(j, b) /\ Typed(j)
  BY Marks DEF Fits
<1>2. \A u \in {v, lo, hi} : InReg(u) => u.reg \in Regs
  BY CvalCases, CvalIs
<1> HIDE DEF b
<1>3. Fits(b, K) /\ Typed(b)
  BY <1>1, AlikeFits DEF Fits
<1>4. Alike(b, c) /\ (InReg(v) => v.reg \in c.pinned)
  BY <1>2, <1>3, MarksOf
<1>5. Typed(c)
  BY <1>3, <1>4, AlikeFits DEF Fits
<1> HIDE DEF c
<1>6. Alike(c, d) /\ d.pinned = c.pinned
  BY <1>2, <1>5, MarksOf
<1>7. Alike(b, d)
  BY <1>4, <1>6, AlikeTrans
<1>8. Typed(d)
  BY <1>3, <1>7, AlikeFits DEF Fits
<1> HIDE DEF d
<1>9. Alike(d, e) /\ e.pinned = d.pinned
  BY <1>2, <1>8, MarksOf
<1>10. Alike(b, e)
  BY <1>7, <1>9, AlikeTrans
<1>11. Typed(e)
  BY <1>3, <1>10, AlikeFits DEF Fits
<1> HIDE DEF e
<1>12. Alike(e, f) /\ f.pinned = IF InReg(lo) THEN e.pinned \cup {lo.reg} ELSE e.pinned
  BY <1>2, <1>11, MarksOf
<1>13. Alike(b, f)
  BY <1>10, <1>12, AlikeTrans
<1>14. Typed(f)
  BY <1>3, <1>13, AlikeFits DEF Fits
<1> HIDE DEF f
<1>15. Alike(f, g) /\ g.pinned = IF InReg(hi) THEN f.pinned \cup {hi.reg} ELSE f.pinned
  BY <1>2, <1>14, MarksOf
<1>16. Alike(j, g)
  BY <1>1, <1>13, <1>15, AlikeTrans
<1>17. Ends(j, v, lo, hi) = g
  BY DEF Ends, g, f, e, d, c, b
<1> HIDE DEF g
<1>18. Fits(g, K)
  BY <1>16, AlikeFits
<1>19. (InReg(v) => v.reg \in g.pinned) /\ (InReg(lo) => lo.reg \in g.pinned)
       /\ (InReg(hi) => hi.reg \in g.pinned)
  BY <1>4, <1>6, <1>9, <1>12, <1>15
<1> QED
  BY <1>16, <1>17, <1>18, <1>19

LEMMA UpdateSpannedIs ==
  ASSUME NEW m \in Memories, NEW j, Fits(j, View(m)), j.pend = None, ~j.live,
         NEW a \in Addresses, ~Aligned(a), SpanOf(a) \subseteq CWords,
         NEW v, IsCval(v), ~UpdateSpanned(j, a, v).out
  PROVE  LET k == UpdateSpanned(j, a, v)
         IN  Fits(k, View(Wr(m, a, ValueOf(j, v)))) /\ k.pend = None /\ k.mem = j.mem /\ ~k.live
<1> DEFINE K == View(m)
           lw == Down(a)
           hw == Down(a) + WordBytes
           lo == Find(j, lw)
           hi == Find(j, hw)
           k == a % WordBytes
           val == ValueOf(j, v)
           i == Ends(j, v, lo, hi)
           l == Half(i, v, lo, lw, TRUE, k, k)
           h == Half(l, v, hi, hw, FALSE, k, WordBytes - k)
           L == Kept(Rd(m, lw), TRUE, k) + Shr(val, k)
           H == Kept(Rd(m, hw), FALSE, k) + Shl(val, WordBytes - k)
           KL == [K EXCEPT ![lw] = L]
           KH == [KL EXCEPT ![hw] = H]
<1>1. UpdateSpanned(j, a, v) = h
  BY UpdateWordsAre DEF UpdateSpanned
<1>2. /\ k \in 1 .. (WordBytes - 1) /\ lw \in CWords /\ hw \in CWords /\ lw # hw
      /\ lw \in Addresses /\ hw \in Addresses
  BY Unaligned, WordsAre, ConstantsAre DEF CWords
<1>3. k \in 0 .. WordBytes /\ WordBytes - k \in 0 .. WordBytes
  BY <1>2, ConstantsAre
<1>4. K \in Views /\ K[lw] = Rd(m, lw) /\ K[hw] = Rd(m, hw)
  BY <1>2, ViewIs
<1>5. Typed(j) /\ Made(j) /\ val \in Value
  BY ValueType DEF Fits, Typed, Made
<1>6. L \in Value /\ H \in Value /\ View(Wr(m, a, val)) = KH
  <2>1. L = LowOf(m, a, val)
    BY DEF LowOf
  <2>2. H = HighOf(m, a, val)
    BY DEF HighOf
  <2>3. KH = Both(View(m), Down(a), L, Down(a) + WordBytes, H)
    BY DEF Both
  <2> HIDE DEF L, H, k, val, KH
  <2>4. /\ LowOf(m, a, val) \in Value /\ HighOf(m, a, val) \in Value
        /\ View(Wr(m, a, val)) =
             Both(View(m), Down(a), LowOf(m, a, val), Down(a) + WordBytes, HighOf(m, a, val))
    BY <1>5, ViewSpanned
  <2> QED
    BY <2>1, <2>2, <2>3, <2>4
<1> HIDE DEF lw, hw, k
<1>7. /\ lo # NoVal => Names(j, lw, lo) /\ IsCval(lo)
      /\ hi # NoVal => Names(j, hw, hi) /\ IsCval(hi)
      /\ lo = NoVal => Unnamed(j, lw)
      /\ hi = NoVal => Unnamed(j, hw)
  BY <1>2, <1>5, FindIs DEF Unnamed
<1>8. (lo # NoVal => ValueOf(j, lo) = K[lw]) /\ (hi # NoVal => ValueOf(j, hi) = K[hw])
  BY <1>2, <1>7 DEF Fits
<1> HIDE DEF lo, hi
<1>9. /\ Fits(i, K) /\ Alike(j, i)
      /\ (InReg(v) => v.reg \in i.pinned) /\ (InReg(lo) => lo.reg \in i.pinned)
      /\ (InReg(hi) => hi.reg \in i.pinned)
  BY <1>7, EndsAre
<1>10. i.pend = None /\ ~i.live /\ i.mem = j.mem
  BY <1>9 DEF Alike
<1>11. (\A u : ValueOf(i, u) = ValueOf(j, u)) /\ \A w, u : Names(i, w, u) <=> Names(j, w, u)
  BY <1>9, AlikeIs
<1> HIDE DEF i, K
<1>12. Made(i)
  BY <1>9 DEF Fits, Typed, Made
<1>13. Runs(i, l)
  BY <1>12, RunsHalf
<1>14. Runs(l, h)
  BY <1>13, RunsHalf DEF Runs
<1>15. ~h.out /\ ~l.out
  BY <1>1, <1>14 DEF Runs
<1>16. Stands(i, lo, K[lw]) /\ (lo = NoVal => Unnamed(i, lw))
       /\ Stands(i, hi, K[hw]) /\ (hi = NoVal => Unnamed(i, hw)) /\ ValueOf(i, v) = val
  BY <1>7, <1>8, <1>9, <1>11 DEF Stands, Unnamed
<1>17. L = Kept(K[lw], TRUE, k) + IF ~TRUE THEN Shl(ValueOf(i, v), k) ELSE Shr(ValueOf(i, v), k)
  BY <1>4, <1>16
<1>18. Halved(i, l, KL, lw)
  BY <1>2, <1>3, <1>4, <1>6, <1>9, <1>10, <1>15, <1>16, <1>17, HalfIs
<1> HIDE DEF l, L
<1>19. /\ Fits(l, KL) /\ l.pend = None /\ l.mem = i.mem /\ ~l.live /\ i.pinned \subseteq l.pinned
       /\ \A r \in i.pinned : l.reg[r] = i.reg[r]
       /\ \A w \in CWords \ {lw} : \A u : Names(l, w, u) => Names(i, w, u)
  BY <1>18 DEF Halved
<1>20. KL \in Views /\ KL[hw] = K[hw]
  BY <1>2, <1>4, <1>6 DEF Views
<1> HIDE DEF KL
<1>21. \A u : IsCval(u) /\ (InReg(u) => u.reg \in i.pinned) => ValueOf(l, u) = ValueOf(i, u)
  <2> TAKE u
  <2> HAVE IsCval(u) /\ (InReg(u) => u.reg \in i.pinned)
  <2> QED
    BY <1>19, CvalCases, ValueOfIs
<1>22. Stands(l, hi, KL[hw]) /\ ValueOf(l, v) = val /\ (InReg(v) => v.reg \in l.pinned)
  BY <1>9, <1>16, <1>19, <1>20, <1>21 DEF Stands
<1>23. hi = NoVal => Unnamed(l, hw)
  BY <1>2, <1>16, <1>19 DEF Unnamed
<1>24. H = Kept(KL[hw], FALSE, k)
           + IF ~FALSE THEN Shl(ValueOf(l, v), WordBytes - k) ELSE Shr(ValueOf(l, v), WordBytes - k)
  BY <1>4, <1>20, <1>22
<1>25. Halved(l, h, KH, hw)
  BY <1>2, <1>3, <1>6, <1>15, <1>19, <1>20, <1>22, <1>23, <1>24, HalfIs
<1> HIDE DEF h, KH, H
<1>26. Fits(h, KH) /\ h.pend = None /\ h.mem = j.mem /\ ~h.live
  BY <1>10, <1>19, <1>25 DEF Halved
<1> QED
  BY <1>1, <1>6, <1>26 DEF val
-----------------------------------------------------------------------------
(* The invariant *)

GuestView == View(gmem)

(* Between the parts of an instruction. *)
Ready(j) == Current(j, GuestView) /\ Whole(j, GuestView) = gmem /\ ~j.live

(* What is known of a field, when j is reached. *)
FieldOk(j, f) ==
  /\ f.dyn \in BOOLEAN /\ (~f.dyn => f.val = FieldValue(f))
  /\ f.dyn => /\ f.word \in Words /\ (f.v = NoVal => j.pend # f.word)
              /\ Stands(j, f.v, FieldValue(f))

(* A computed target's word is none of the other fields', and still stands *)
(* for the register it was found in.                                       *)
TargetNamed(j) ==
  x.c.dyn => /\ x.a.dyn => x.a.word # x.c.word
             /\ x.b.dyn => x.b.word # x.c.word
             /\ InReg(x.c.v) => x.c.word \in CWords /\ Names(j, x.c.word, x.c.v)
             /\ OwnC \/ x.b.dyn \/ x.b.val # x.c.word

InsnOk(j) ==
  /\ FieldValue(x.a) \in Addresses /\ FieldValue(x.b) \in Addresses
  /\ FieldOk(j, x.a) /\ FieldOk(j, x.b) /\ FieldOk(j, x.c) /\ TargetNamed(j)

(* The target of the store was found without translated code. *)
StoreChecked(j) ==
  /\ x.b.dyn => x.rb \in j.pinned /\ j.reg[x.rb] = FieldValue(x.b)
  /\ SpanOf(FieldValue(x.b)) \cap blk.marked = {}

OperandOk(j, v, val) == v # NoVal /\ Stands(j, v, val)

(* The register of a computed target, which is B's own only if its word      *)
(* stands for it.                                                            *)
TargetRead(j) ==
  x.c.dyn /\ ~OwnC =>
    /\ x.rc \in j.pinned /\ j.reg[x.rc] = FieldValue(x.c)
    /\ x.rc = x.vb.reg =>
         ~x.b.dyn /\ x.b.val # x.c.word /\ x.c.word \in CWords /\ Names(j, x.c.word, RegVal(x.rc))

OperandsRead(j) ==
  /\ ~Same => OperandOk(j, x.va, GuestA) /\ OperandOk(j, x.vb, GuestB)
  /\ x.b.dyn => x.vb.reg # x.rb
  /\ TargetRead(j)

GuestValue == (GuestB + Neg(GuestA)) % Word

Stored(j) ==
  /\ Fits(j, IF Spanned THEN GuestView ELSE View(GuestMem))
  /\ Whole(j, View(GuestMem)) = GuestMem
  /\ Spanned => j.pend = None
  /\ IsCval(x.res) /\ ValueOf(j, x.res) = GuestValue
  /\ Branches /\ Taken = "flags" => j.flags = FlagsOf(GuestB, GuestA)
  /\ x.c.dyn /\ ~OwnC => x.rc \in Regs /\ j.reg[x.rc] = FieldValue(x.c)

(* What the result and the branch are computed from. *)
Computed ==
  /\ x.b.dyn \in BOOLEAN /\ (~x.b.dyn => x.b.val = FieldValue(x.b)) /\ FieldValue(x.b) \in Addresses
  /\ FieldValue(x.a) \in Addresses
  /\ x.c.dyn \in BOOLEAN /\ (~x.c.dyn => x.c.val = FieldValue(x.c))
  /\ Same => GuestA = GuestB
  /\ ~Same /\ Consts => x.va.val = GuestA /\ x.vb.val = GuestB

Stage ==
  /\ at \in {"fetch", "test", "operands", "compute", "branch", "left"}
  /\ at \in {"fetch", "test", "operands", "compute"} => Ready(J)
  /\ at \in {"test", "operands", "compute"} => InsnOk(J)
  /\ at \in {"operands", "compute"} => StoreChecked(J)
  /\ at = "compute" => OperandsRead(J)
  /\ at = "branch" => Stored(J) /\ Computed
  /\ at # "left" => J.pend \notin blk.marked
  /\ at = "left" => J.mem = gmem

InsnFields == {"a", "b", "c", "rb", "rc", "va", "vb", "res"}

IInv ==
  /\ blk \in Blocks /\ gmem \in Memories /\ Made(J) /\ DOMAIN x = InsnFields
  /\ J.out \/ Stage

LEMMA ReadyIs ==
  ASSUME NEW j, Ready(j)
  PROVE  /\ Current(j, GuestView) /\ Fits(j, GuestView) /\ Typed(j) /\ Made(j) /\ ~j.live
         /\ GuestView \in Views /\ Whole(j, GuestView) = gmem /\ gmem \in Memories
         /\ \A w \in CWords : GuestView[w] = Rd(gmem, w)
<1>1. Current(j, GuestView) /\ Whole(j, GuestView) = gmem /\ ~j.live
  BY DEF Ready
<1>2. Fits(j, GuestView) /\ gmem \in Memories
  BY <1>1 DEF Current
<1>3. GuestView \in Views /\ \A w \in CWords : GuestView[w] = Rd(gmem, w)
  BY <1>2, ViewIs DEF GuestView
<1> QED
  BY <1>1, <1>2, <1>3 DEF Fits, Typed, Made

LEMMA ReadyKeeps ==
  ASSUME NEW j, NEW k, Ready(j), NEW A, Keeps(j, k, GuestView, A)
  PROVE  Ready(k)
<1>1. Current(k, GuestView) /\ Whole(k, GuestView) = Whole(j, GuestView)
  BY ReadyIs, KeepsCurrent
<1>2. k.live = j.live
  BY DEF Keeps, Stays
<1> QED
  BY <1>1, <1>2 DEF Ready

LEMMA ReadyAlike ==
  ASSUME NEW j, NEW k, Ready(j), Alike(j, k)
  PROVE  Ready(k)
<1>1. Fits(k, GuestView) /\ Whole(k, GuestView) = Whole(j, GuestView) /\ k.live = j.live
  BY ReadyIs, AlikeFits, AlikeIs DEF Alike
<1> QED
  BY <1>1 DEF Ready, Current

(* Memory is the guest's, or will be once what is held back is stored. *)
LEMMA ReadyMem ==
  ASSUME NEW j, NEW k, Ready(j), NEW A, Keeps(j, k, GuestView, A)
  PROVE  k.mem = j.mem \/ k.mem = gmem
  BY DEF Keeps, Ready

LEMMA FieldKeeps ==
  ASSUME NEW j, NEW k, NEW K, NEW A, Keeps(j, k, K, A), NEW f, FieldOk(j, f)
  PROVE  FieldOk(k, f)
<1>1. k.pend = j.pend \/ k.pend = None
  BY DEF Keeps
<1>2. f.dyn => Stands(k, f.v, FieldValue(f))
  BY KeepsStands DEF FieldOk
<1> QED
  BY <1>1, <1>2, NoneIs DEF FieldOk

LEMMA TargetKeeps ==
  ASSUME NEW j, NEW k, NEW K, NEW A, Keeps(j, k, K, A), TargetNamed(j), FieldOk(j, x.c),
         x.c.dyn => x.c.word \notin A
  PROVE  TargetNamed(k)
<1>1. ASSUME x.c.dyn, InReg(x.c.v)
      PROVE  x.c.word \in CWords /\ Names(k, x.c.word, x.c.v)
  <2>1. x.c.word \in CWords /\ Names(j, x.c.word, x.c.v)
    BY <1>1 DEF TargetNamed
  <2>2. x.c.v # NoVal
    BY <1>1, CvalIs
  <2>3. x.c.v.reg \in j.pinned
    BY <1>1, <2>2 DEF FieldOk, Stands
  <2>4. Stays(j, k, K, A)
    BY DEF Keeps
  <2> QED
    BY <1>1, <2>1, <2>3, <2>4 DEF Stays
<1> QED
  BY <1>1 DEF TargetNamed

LEMMA InsnKeeps ==
  ASSUME NEW j, NEW k, NEW K, NEW A, Keeps(j, k, K, A), InsnOk(j), x.c.dyn => x.c.word \notin A
  PROVE  InsnOk(k)
<1>1. FieldOk(j, x.a) /\ FieldOk(j, x.b) /\ FieldOk(j, x.c) /\ TargetNamed(j)
  BY DEF InsnOk
<1>2. FieldOk(k, x.a) /\ FieldOk(k, x.b) /\ FieldOk(k, x.c)
  BY <1>1, FieldKeeps
<1>3. TargetNamed(k)
  BY <1>1, TargetKeeps
<1> QED
  BY <1>2, <1>3 DEF InsnOk

LEMMA CheckedKeeps ==
  ASSUME NEW j, NEW k, NEW K, NEW A, Keeps(j, k, K, A), StoreChecked(j)
  PROVE  StoreChecked(k)
<1>1. x.b.dyn => x.rb \in k.pinned /\ k.reg[x.rb] = j.reg[x.rb]
  BY DEF Keeps, Stays, StoreChecked
<1> QED
  BY <1>1 DEF StoreChecked

-----------------------------------------------------------------------------
(* The fields of an instruction *)

(* A field as Known leaves it. *)
Found(j, f) ==
  /\ f.dyn \in BOOLEAN /\ (~f.dyn => f.val = FieldValue(f) /\ f.v = NoVal)
  /\ f.dyn => f.word \in Words /\ (f.v = NoVal => j.pend # f.word)
  /\ f.v # NoVal => /\ f.word \in CWords /\ IsCval(f.v) /\ Names(j, f.word, f.v)
                    /\ ValueOf(j, f.v) = FieldValue(f)

LEMMA StaticIs ==
  /\ \A v : /\ Static(v).dyn = FALSE /\ Static(v).val = v /\ Static(v).word = None
            /\ Static(v).v = NoVal /\ FieldValue(Static(v)) = v
  /\ \A w \in Words : /\ Dynamic(w).dyn = TRUE /\ Dynamic(w).word = w
                      /\ FieldValue(Dynamic(w)) = Rd(gmem, w)
  BY NoneIs DEF Static, Dynamic, FieldValue

(* A field, as Known leaves it, that is found to be the constant u or not. *)
As(g, w, u) ==
  /\ g.word = w
  /\ u.kind = "const" => g.dyn = FALSE /\ g.val = u.val /\ g.v = NoVal
  /\ u.kind # "const" => g.dyn = TRUE /\ g.v = u

LEMMA KnownAs ==
  ASSUME NEW j, NEW w, NEW f, DOMAIN f = {"dyn", "val", "word", "v"}, f.word = w, f.v = NoVal,
         f.dyn = TRUE
  PROVE  As(Known(j, f), w, Find(j, w))
<1> DEFINE u == Find(j, w)
           g == Known(j, f)
<1>1. g = IF u.kind = "const" THEN [f EXCEPT !.dyn = FALSE, !.val = u.val] ELSE [f EXCEPT !.v = u]
  BY DEF Known
<1> HIDE DEF u, g
<1>2. As(g, w, u)
  <2>1. CASE u.kind = "const"
    BY <1>1, <2>1 DEF As
  <2>2. CASE u.kind # "const"
    BY <1>1, <2>2 DEF As
  <2> QED
    BY <2>1, <2>2
<1> QED
  BY <1>2 DEF g, u

LEMMA DynamicAs ==
  ASSUME NEW j, NEW w
  PROVE  As(Known(j, Dynamic(w)), w, Find(j, w))
<1> DEFINE f == Dynamic(w)
<1>1. DOMAIN f = {"dyn", "val", "word", "v"} /\ f.word = w /\ f.v = NoVal /\ f.dyn = TRUE
  BY DEF Dynamic
<1> HIDE DEF f
<1>2. As(Known(j, f), w, Find(j, w))
  BY <1>1, KnownAs
<1> QED
  BY <1>2 DEF f

LEMMA KnownIs ==
  ASSUME NEW j, Ready(j), NEW f, \/ \E v : f = Static(v)
                                 \/ \E w \in Words : f = Dynamic(w)
  PROVE  LET g == Known(j, f)
         IN  /\ Found(j, g) /\ g.word = f.word /\ FieldValue(g) = FieldValue(f)
             /\ g.dyn => f.dyn
<1> DEFINE g == Known(j, f)
<1>1. CASE \E v : f = Static(v)
  <2>1. PICK v : f = Static(v)
    BY <1>1
  <2>2. /\ f.dyn = FALSE /\ f.val = v /\ f.v = NoVal /\ FieldValue(f) = v
    BY <2>1, StaticIs
  <2>3. g = f
    BY <2>2 DEF Known
  <2>4. Found(j, f)
    BY <2>2 DEF Found
  <2> HIDE DEF g
  <2> QED
    BY <2>2, <2>3, <2>4 DEF g
<1>2. CASE \E w \in Words : f = Dynamic(w)
  <2>1. PICK w \in Words : f = Dynamic(w)
    BY <1>2
  <2> DEFINE u == Find(j, w)
  <2>2. /\ f.dyn /\ f.word = w /\ FieldValue(f) = Rd(gmem, w) /\ w \in Addresses
    BY <2>1, StaticIs, WordsAre
  <2>3. /\ u.kind = "const" => g.dyn = FALSE /\ g.val = u.val /\ g.v = NoVal
        /\ u.kind # "const" => g.dyn = TRUE /\ g.v = u
        /\ g.word = w
    <3>1. As(g, w, u)
      BY <2>1, DynamicAs
    <3> HIDE DEF g, u
    <3> QED
      BY <3>1 DEF As
  <2>4. /\ u # NoVal => w \in CWords /\ Names(j, w, u) /\ IsCval(u)
        /\ u = NoVal /\ w \in CWords => \A v : ~Names(j, w, v)
    BY <2>2, ReadyIs, FindIs
  <2>5. u # NoVal => ValueOf(j, u) = Rd(gmem, w)
    BY <2>4, ReadyIs DEF Fits
  <2>6. u = NoVal => j.pend # w
    BY <2>2, <2>4, ReadyIs, NoneIs, WordsAre DEF Fits, Typed
  <2> HIDE DEF u
  <2>7. g.word = w
    BY <2>3
  <2> HIDE DEF g
  <2>8. FieldValue(g) = Rd(gmem, w)
    BY <2>7, NoneIs DEF FieldValue
  <2>9. CASE u.kind = "const"
    <3>1. u # NoVal
      BY <2>9, CvalIs
    <3>2. u.val = Rd(gmem, w)
      BY <2>4, <2>5, <2>9, <3>1, ValueOfIs
    <3>4. ~g.dyn /\ g.dyn \in BOOLEAN /\ g.v = NoVal /\ g.val = u.val
      BY <2>3, <2>9
    <3>5. Found(j, g)
      BY <2>8, <3>2, <3>4 DEF Found
    <3> QED
      BY <2>2, <2>7, <2>8, <3>4, <3>5 DEF g
  <2>10. CASE u.kind # "const"
    <3>2. g.dyn /\ g.dyn \in BOOLEAN /\ g.v = u
      BY <2>3, <2>10
    <3>3. Found(j, g)
      BY <2>4, <2>5, <2>6, <2>7, <2>8, <3>2 DEF Found
    <3> QED
      BY <2>2, <2>7, <2>8, <3>3 DEF g
  <2> QED
    BY <2>9, <2>10
<1> QED
  BY <1>1, <1>2

LEMMA NotedIs ==
  ASSUME NEW j, Typed(j), NEW f, f.v = NoVal \/ IsCval(f.v)
  PROVE  /\ Alike(j, Noted(j, f)) /\ Typed(Noted(j, f)) /\ j.pinned \subseteq Noted(j, f).pinned
         /\ InReg(f.v) => f.v.reg \in Noted(j, f).pinned
<1> DEFINE k == Touch(j, f.v)
           l == Pin(k, f.v)
<1>1. InReg(f.v) => f.v.reg \in Regs
  BY CvalCases, CvalIs
<1>2. Alike(j, k) /\ k.pinned = j.pinned
  BY <1>1, MarksOf
<1> HIDE DEF k
<1>3. Typed(k)
  BY <1>2 DEF Typed, Alike
<1>4. Alike(k, l) /\ l.pinned = IF InReg(f.v) THEN k.pinned \cup {f.v.reg} ELSE k.pinned
  BY <1>1, <1>3, MarksOf
<1>5. Noted(j, f) = l
  BY DEF Noted, k
<1> HIDE DEF l
<1>6. Alike(j, l)
  BY <1>2, <1>4, AlikeTrans
<1>7. Typed(l)
  BY <1>6 DEF Typed, Alike
<1> QED
  BY <1>2, <1>4, <1>5, <1>6, <1>7

(* Fields that are words of memory are different words. *)
LEMMA WordsDiffer ==
  ASSUME NEW fa, NEW fb, NEW fc,
         Cardinality({f.word : f \in {f \in {fa, fb, fc} : f.dyn}})
           = Cardinality({i \in 1 .. 3 : <<fa, fb, fc>>[i].dyn})
  PROVE  (fa.dyn /\ fc.dyn => fa.word # fc.word) /\ (fb.dyn /\ fc.dyn => fb.word # fc.word)
<1> DEFINE t == <<fa, fb, fc>>
           I == {i \in 1 .. 3 : t[i].dyn}
           S == {f.word : f \in {f \in {fa, fb, fc} : f.dyn}}
           g == [i \in I |-> t[i].word]
<1>1. t[1] = fa /\ t[2] = fb /\ t[3] = fc
  OBVIOUS
<1>2. IsFiniteSet(I)
  <2>1. \A u, v \in Int : IsFiniteSet(u .. v)
    BY FS_Interval
  <2>2. 1 \in Int /\ 3 \in Int
    OBVIOUS
  <2>3. IsFiniteSet(1 .. 3)
    BY ONLY <2>1, <2>2, Zenon
  <2> QED
    BY <2>3, FS_Subset
<1>3. \A i \in 1 .. 3 : i = 1 \/ i = 2 \/ i = 3
  OBVIOUS
<1> HIDE DEF t
<1>4. \A i \in I : t[i].word \in S
  BY <1>1, <1>3
<1>5. \A e \in S : \E i \in I : t[i].word = e
  BY <1>1
<1>6. g \in Surjection(I, S)
  BY <1>4, <1>5 DEF Surjection
<1>7. Cardinality(I) = Cardinality(S)
  BY DEF t
<1>8. \A i \in I : g[i] = t[i].word
  OBVIOUS
<1>9. fc.dyn => 3 \in I
  BY <1>1
<1>10. (fa.dyn => 1 \in I) /\ (fb.dyn => 2 \in I)
  BY <1>1
<1> HIDE DEF I, S, g
<1>11. g \in Injection(I, S)
  BY <1>2, <1>6, <1>7, FS_SurjSameCardinalityImpliesInj
<1>12. \A i, k \in I : g[i] = g[k] => i = k
  BY <1>11 DEF Injection, IsInjective
<1> QED
  BY <1>1, <1>8, <1>9, <1>10, <1>12

(* A field that was found, once its register is pinned. *)
LEMMA FoundOk ==
  ASSUME NEW j, NEW k, Alike(j, k), NEW f, Found(j, f), InReg(f.v) => f.v.reg \in k.pinned
  PROVE  /\ FieldOk(k, f)
         /\ f.v # NoVal => f.word \in CWords /\ Names(k, f.word, f.v)
<1>1. /\ \A w, v : Names(k, w, v) <=> Names(j, w, v)
      /\ \A v : ValueOf(k, v) = ValueOf(j, v)
      /\ k.pend = j.pend
  BY AlikeIs DEF Alike
<1>2. Stands(k, f.v, FieldValue(f))
  BY <1>1 DEF Found, Stands
<1> QED
  BY <1>1, <1>2 DEF Found, FieldOk

LEMMA FetchIs ==
  ASSUME NEW i, Ready(i), NEW j, Alike(i, j), NEW a, NEW b, NEW c,
         Found(j, a), Found(j, b), Found(j, c)
  PROVE  LET k == Noted(Noted(Noted(j, a), b), c)
         IN  /\ Ready(k) /\ FieldOk(k, a) /\ FieldOk(k, b) /\ FieldOk(k, c)
             /\ c.v # NoVal => c.word \in CWords /\ Names(k, c.word, c.v)
             /\ k.pend = i.pend /\ k.mem = i.mem /\ k.out = i.out /\ Made(k)
<1> DEFINE ka == Noted(j, a)
           kb == Noted(ka, b)
           k == Noted(kb, c)
<1>2. Ready(j)
  BY ReadyAlike
<1>3. Typed(j)
  BY <1>2, ReadyIs
<1>4. Alike(j, ka) /\ Typed(ka) /\ (InReg(a.v) => a.v.reg \in ka.pinned)
  BY <1>3, NotedIs DEF Found
<1> HIDE DEF ka
<1>5. /\ Alike(ka, kb) /\ Typed(kb) /\ (InReg(b.v) => b.v.reg \in kb.pinned)
      /\ ka.pinned \subseteq kb.pinned
  BY <1>4, NotedIs DEF Found
<1> HIDE DEF kb
<1>6. /\ Alike(kb, k) /\ Typed(k) /\ (InReg(c.v) => c.v.reg \in k.pinned)
      /\ kb.pinned \subseteq k.pinned
  BY <1>5, NotedIs DEF Found
<1> HIDE DEF k
<1>7. Alike(j, k)
  BY <1>4, <1>5, <1>6, AlikeTrans
<1>8. Alike(i, k)
  BY <1>7, AlikeTrans
<1>9. FieldOk(k, a) /\ FieldOk(k, b) /\ FieldOk(k, c)
  BY <1>4, <1>5, <1>6, <1>7, FoundOk
<1>10. c.v # NoVal => c.word \in CWords /\ Names(k, c.word, c.v)
  BY <1>6, <1>7, FoundOk
<1>11. Ready(k) /\ Made(k)
  BY <1>8, ReadyAlike, ReadyIs
<1> QED
  BY <1>8, <1>9, <1>10, <1>11 DEF k, kb, ka, Alike

-----------------------------------------------------------------------------
(* What is known of an instruction stays so while its state does. *)

LEMMA SameGuest ==
  ASSUME gmem' = gmem, NEW k, J' = k
  PROVE  /\ Ready(k) => Ready(J)'
         /\ x' = x /\ InsnOk(k) => InsnOk(J)'
<1>1. Ready(k) => Ready(J)'
  BY DEF Ready, GuestView
<1>2. ASSUME x' = x, InsnOk(k) PROVE InsnOk(J)'
  <2>1. FieldOk(k, x.a) /\ FieldOk(k, x.b) /\ FieldOk(k, x.c) /\ TargetNamed(k)
    BY <1>2 DEF InsnOk
  <2>2. FieldOk(J, x.a)' /\ FieldOk(J, x.b)' /\ FieldOk(J, x.c)'
    BY <1>2, <2>1 DEF FieldOk, FieldValue
  <2>3. TargetNamed(J)'
    BY <1>2, <2>1 DEF TargetNamed
  <2> QED
    BY <1>2, <2>2, <2>3 DEF InsnOk, FieldValue
<1> QED
  BY <1>1, <1>2

LEMMA FieldsAre ==
  ASSUME blk \in Blocks, NEW values, NEW f \in FieldsOf(values)
  PROVE  (\E v : f = Static(v)) \/ (\E w \in Words : f = Dynamic(w))
<1>1. CASE \E v \in values : f = Static(v)
  BY <1>1
<1>2. CASE \E w \in blk.dyn \ fields : f = Dynamic(w)
  <2>1. PICK w \in blk.dyn : f = Dynamic(w)
    BY <1>2
  <2>2. w \in Words
    BY <2>1, BlockAssumption
  <2> QED
    BY <2>1, <2>2
<1> QED
  BY <1>1, <1>2 DEF FieldsOf

LEMMA FetchStep ==
  ASSUME IInv, Fetch
  PROVE  IInv' /\ J'.mem = J.mem
<1>1. /\ blk \in Blocks /\ gmem \in Memories /\ Stage /\ at = "fetch" /\ ~J.out
      /\ blk' = blk /\ gmem' = gmem /\ at' = "test"
  BY DEF IInv, Fetch, Going
<1>2. Ready(J) /\ J.pend \notin blk.marked
  BY <1>1 DEF Stage
<1> DEFINE j == [J EXCEPT !.pinned = {}]
<1>3. PICK fa \in FieldsOf(blk.a), fb \in FieldsOf(blk.b), fc \in FieldsOf(blk.c) :
        LET dyn == {f \in {fa, fb, fc} : f.dyn}
            a == Known(j, fa)
            b == Known(j, fb)
            c == Known(j, fc)
        IN  /\ Cardinality({f.word : f \in dyn}) = Cardinality({i \in 1..3 : <<fa, fb, fc>>[i].dyn})
            /\ {FieldValue(fa), FieldValue(fb)} \subseteq Addresses
            /\ OwnC \/ b.dyn \/ ~c.dyn \/ b.val # c.word
            /\ x' = [NoInsn EXCEPT !.a = a, !.b = b, !.c = c]
            /\ J' = Noted(Noted(Noted(j, a), b), c)
  BY DEF Fetch
<1> DEFINE a == Known(j, fa)
           b == Known(j, fb)
           c == Known(j, fc)
           k == Noted(Noted(Noted(j, a), b), c)
<1>4. /\ OwnC \/ b.dyn \/ ~c.dyn \/ b.val # c.word
      /\ FieldValue(fa) \in Addresses /\ FieldValue(fb) \in Addresses
      /\ x' = [NoInsn EXCEPT !.a = a, !.b = b, !.c = c]
      /\ J' = k
      /\ fa.dyn /\ fc.dyn => fa.word # fc.word
      /\ fb.dyn /\ fc.dyn => fb.word # fc.word
  BY <1>3, WordsDiffer
<1>5. /\ (\E v : fa = Static(v)) \/ (\E w \in Words : fa = Dynamic(w))
      /\ (\E v : fb = Static(v)) \/ (\E w \in Words : fb = Dynamic(w))
      /\ (\E v : fc = Static(v)) \/ (\E w \in Words : fc = Dynamic(w))
  BY <1>1, FieldsAre
<1>6. Alike(J, j) /\ Ready(j)
  BY <1>2, Marks, ReadyIs, ReadyAlike
<1> HIDE DEF j
<1>7. /\ Found(j, a) /\ a.word = fa.word /\ FieldValue(a) = FieldValue(fa) /\ (a.dyn => fa.dyn)
      /\ Found(j, b) /\ b.word = fb.word /\ FieldValue(b) = FieldValue(fb) /\ (b.dyn => fb.dyn)
      /\ Found(j, c) /\ c.word = fc.word /\ FieldValue(c) = FieldValue(fc) /\ (c.dyn => fc.dyn)
  BY <1>5, <1>6, KnownIs
<1> HIDE DEF a, b, c
<1>8. /\ Ready(k) /\ FieldOk(k, a) /\ FieldOk(k, b) /\ FieldOk(k, c)
      /\ c.v # NoVal => c.word \in CWords /\ Names(k, c.word, c.v)
      /\ k.pend = J.pend /\ k.mem = J.mem /\ k.out = J.out /\ Made(k)
  BY <1>2, <1>6, <1>7, FetchIs
<1> HIDE DEF k
<1>9. x'.a = a /\ x'.b = b /\ x'.c = c /\ DOMAIN x' = InsnFields
  BY <1>4 DEF NoInsn, InsnFields
<1>10. FieldOk(J, x.a)' /\ FieldOk(J, x.b)' /\ FieldOk(J, x.c)'
  BY <1>1, <1>4, <1>8, <1>9 DEF FieldOk, FieldValue
<1>11. TargetNamed(J)'
  BY <1>4, <1>7, <1>8, <1>9, CvalIs DEF TargetNamed
<1>12. FieldValue(x.a)' \in Addresses /\ FieldValue(x.b)' \in Addresses
  BY <1>1, <1>4, <1>7, <1>9 DEF FieldValue
<1>13. InsnOk(J)'
  BY <1>10, <1>11, <1>12 DEF InsnOk
<1>14. Ready(J)'
  BY <1>1, <1>4, <1>8, SameGuest
<1>15. J'.pend \notin blk'.marked /\ Made(J)'
  BY <1>1, <1>2, <1>4, <1>8 DEF Made
<1> QED
  BY <1>1, <1>4, <1>8, <1>9, <1>13, <1>14, <1>15 DEF IInv, Stage

(* When registers ran out, nothing more is claimed. *)
LEMMA OutStep ==
  ASSUME IInv, J' = [J EXCEPT !.out = TRUE], blk' = blk, gmem' \in Memories, DOMAIN x' = InsnFields
  PROVE  IInv'
<1>1. J'.out = TRUE /\ Made(J')
  BY DEF IInv, Made
<1> QED
  BY <1>1 DEF IInv, Made

-----------------------------------------------------------------------------
(* Leaving the block *)

LEMMA StubStoreIs ==
  ASSUME NEW j, NEW K, Fits(j, K), NEW keep
  PROVE  LET k == StubStore(j, keep)
         IN  /\ k.mem = Whole(j, K) /\ k.out = j.out /\ Made(k)
             /\ keep \in Regs => k.reg[keep] = j.reg[keep]
<1>1. CASE j.pend = None
  BY <1>1 DEF StubStore, Whole, Made, Fits, Typed
<1>2. CASE j.pend # None
  <2> DEFINE v == Find(j, j.pend)
             S == Regs \ {v.reg, keep}
             t == Min(S)
             k == [j EXCEPT !.mem = Wr(@, j.pend, ValueOf(j, v)), !.reg[t] = ValueOf(j, v)]
  <2>1. StubStore(j, keep) = k
    BY <1>2 DEF StubStore
  <2>2. ValueOf(j, v) = K[j.pend]
    BY <1>2, Held DEF HeldBack
  <2>3. S \in SUBSET Nat /\ S # {}
    <3>1. 1 \in Regs /\ 2 \in Regs /\ 3 \in Regs
      BY ConstantsAre DEF Regs
    <3> QED
      BY <3>1 DEF Regs
  <2>4. t \in S
    BY <2>3, MinIn
  <2>5. t \in Regs /\ t # keep
    BY <2>4
  <2> HIDE DEF v, S, t
  <2>6. {"mem", "reg", "out"} \subseteq DOMAIN j /\ DOMAIN j.reg = Regs
    BY DEF Fits, Typed
  <2>7. /\ k.mem = Wr(j.mem, j.pend, ValueOf(j, v)) /\ k.out = j.out /\ Made(k)
        /\ keep \in Regs => k.reg[keep] = j.reg[keep]
    BY <2>5, <2>6 DEF Made
  <2> HIDE DEF k
  <2> QED
    BY <1>2, <2>1, <2>2, <2>7 DEF Whole
<1> QED
  BY <1>1, <1>2

LEMMA LeaveStep ==
  ASSUME IInv, NEW j, Ready(j), ~j.out, NEW keep, NEW pc, NEW guest, Leave(j, keep, pc, guest),
         gmem' = gmem, blk' = blk, x' = x
  PROVE  IInv' /\ J'.mem = gmem /\ ~J'.out
<1> DEFINE k == StubStore(j, keep)
<1>1. k.mem = gmem /\ k.out = j.out /\ Made(k)
  BY ReadyIs, StubStoreIs
<1>2. J' = IF k.out THEN [J EXCEPT !.out = TRUE] ELSE k
  BY DEF Leave, Ran
<1> HIDE DEF k
<1>3. J' = k
  BY <1>1, <1>2
<1>4. at' = "left"
  BY DEF Leave
<1>5. Stage'
  BY <1>1, <1>3, <1>4 DEF Stage
<1> QED
  BY <1>1, <1>3, <1>5 DEF IInv, Made

-----------------------------------------------------------------------------
(* The test of the store's target *)

LEMMA KeepsMore ==
  ASSUME NEW j, NEW k, NEW K, NEW A, NEW B, Keeps(j, k, K, A), A \subseteq B
  PROVE  Keeps(j, k, K, B)
  BY DEF Keeps, Stays

LEMMA RunsAddressReg ==
  ASSUME NEW j, Made(j), NEW f
  PROVE  OfReg(AddressReg(j, f)) /\ Runs(j, AddressReg(j, f).j)
<1>1. CASE f.v # NoVal
  BY <1>1, RunsToReg DEF AddressReg
<1>2. CASE f.v = NoVal
  <2> DEFINE s == Scratch(j)
             l == LoadWord(s, f.word)
  <2>1. OfReg(s) /\ Runs(j, s.j)
    BY RunsScratch
  <2>2. AddressReg(j, f) = l
    BY <1>2 DEF AddressReg
  <2> HIDE DEF s
  <2>3. OfReg(l) /\ Runs(s.j, l.j)
    BY <2>1, RunsLoadWord DEF Runs
  <2> HIDE DEF l
  <2> QED
    BY <2>1, <2>2, <2>3, RunsTrans
<1> QED
  BY <1>1, <1>2

(* A register that has what a field stands for. *)
Addressed(j, s, K, f) ==
  /\ OfReg(s) /\ Keeps(j, s.j, K, {f.word})
  /\ s.r \in Regs /\ s.r \in s.j.pinned /\ s.j.reg[s.r] = FieldValue(f)

LEMMA AddressRegIs ==
  ASSUME NEW j, Ready(j), NEW f, FieldOk(j, f), f.dyn, ~AddressReg(j, f).j.out
  PROVE  Addressed(j, AddressReg(j, f), GuestView, f)
<1> DEFINE K == GuestView
<1>1. Fits(j, K) /\ Typed(j) /\ Made(j) /\ Current(j, K) /\ Whole(j, K) = gmem
  BY ReadyIs
<1>2. f.word \in Words /\ f.word \in Addresses /\ SpanOf(f.word) = {f.word}
      /\ FieldValue(f) = Rd(gmem, f.word)
  BY NoneIs, WordsAre, SpanIs DEF FieldOk, FieldValue
<1> HIDE DEF K
<1>3. CASE f.v # NoVal
  <2> DEFINE s == ToReg(j, f.v)
  <2>1. AddressReg(j, f) = s
    BY <1>3 DEF AddressReg
  <2>2. IsCval(f.v) /\ (InReg(f.v) => f.v.reg \in j.pinned) /\ ValueOf(j, f.v) = FieldValue(f)
    BY <1>3 DEF FieldOk, Stands
  <2>3. Loads(j, s, K, f.v)
    BY <1>1, <2>1, <2>2, ToRegIs
  <2> HIDE DEF s
  <2>4. OfReg(s) /\ Tight(j, s.j, K) /\ s.r \in Regs /\ s.j.reg[s.r] = FieldValue(f)
    BY <2>2, <2>3 DEF Loads
  <2>5. s.r \in s.j.pinned
    <3>1. CASE f.v.kind = "reg"
      BY <2>2, <2>3, <3>1, CvalCases DEF Loads
    <3>2. CASE f.v.kind # "reg"
      BY <2>3, <3>2 DEF Loads, Fresh
    <3> QED
      BY <3>1, <3>2
  <2>6. Keeps(j, s.j, K, {f.word})
    BY <2>4, KeepsMore DEF Tight
  <2> QED
    BY <2>1, <2>4, <2>5, <2>6 DEF Addressed, K
<1>4. CASE f.v = NoVal
  <2> DEFINE s == Scratch(j)
             l == LoadWord(s, f.word)
  <2>1. AddressReg(j, f) = l
    BY <1>4 DEF AddressReg
  <2>2. OfReg(s) /\ Runs(j, s.j)
    BY <1>1, RunsScratch
  <2>3. Runs(s.j, l.j)
    BY <2>2, RunsLoadWord DEF Runs
  <2>4. ~s.j.out
    BY <2>1, <2>3 DEF Runs
  <2>5. Fresh(j, s, K)
    BY <1>1, <2>4, ScratchIs
  <2> HIDE DEF s
  <2>6. s.r \in Regs /\ (s.j.pend = j.pend \/ s.j.pend = None)
    BY <2>5 DEF Fresh, Tight, Keeps
  <2>7. Uncovered(s.j, f.word)
    BY <1>2, <1>4, <2>6 DEF Uncovered, FieldOk
  <2>8. Loaded(j, l, K, f.word, s.r)
    BY <1>1, <1>2, <2>5, <2>7, LoadWordIs
  <2> HIDE DEF l
  <2>9. Addressed(j, l, K, f)
    BY <1>1, <1>2, <2>6, <2>8 DEF Loaded, Addressed
  <2> QED
    BY <2>1, <2>9 DEF K
<1> QED
  BY <1>3, <1>4

LEMMA RunsTestRegs ==
  ASSUME NEW j, Made(j)
  PROVE  Runs(j, TestRegs(j))
<1> DEFINE t == Scratch(j)
           u == Scratch(t.j)
           b == Unpin(u.j, t.r)
           c == Unpin(b, u.r)
<1>1. Runs(j, t.j)
  BY RunsScratch
<1>2. TestRegs(j) = c
  BY DEF TestRegs
<1> HIDE DEF t
<1>3. Runs(t.j, u.j)
  BY <1>1, RunsScratch DEF Runs
<1> HIDE DEF u
<1>4. Runs(u.j, b)
  BY <1>3, RunsMarks DEF Runs
<1> HIDE DEF b
<1>5. Runs(b, c)
  BY <1>4, RunsMarks DEF Runs
<1> HIDE DEF c
<1>6. Runs(j, u.j)
  BY <1>1, <1>3, RunsTrans
<1> QED
  BY <1>2, <1>4, <1>5, <1>6, RunsTrans

LEMMA TestRegsAre ==
  ASSUME NEW j, NEW K, Fits(j, K), ~TestRegs(j).out
  PROVE  Tight(j, TestRegs(j), K)
<1> DEFINE t == Scratch(j)
           u == Scratch(t.j)
           b == Unpin(u.j, t.r)
           c == Unpin(b, u.r)
<1>1. TestRegs(j) = c
  BY DEF TestRegs
<1>2. Made(j)
  BY DEF Fits, Typed, Made
<1>3. Runs(j, t.j)
  BY <1>2, RunsScratch
<1>4. Runs(t.j, u.j)
  BY <1>3, RunsScratch DEF Runs
<1>5. Runs(u.j, b)
  BY <1>4, RunsMarks DEF Runs
<1>6. Runs(b, c)
  BY <1>5, RunsMarks DEF Runs
<1>7. ~u.j.out /\ ~t.j.out
  BY <1>1, <1>4, <1>5, <1>6 DEF Runs
<1>8. Fresh(j, t, K)
  BY <1>7, ScratchIs
<1> HIDE DEF t
<1>9. Tight(j, t.j, K) /\ Fits(t.j, K) /\ t.r \notin j.pinned /\ j.pinned \subseteq t.j.pinned
  BY <1>8, TightIs DEF Fresh
<1>10. Fresh(t.j, u, K)
  BY <1>7, <1>9, ScratchIs
<1> HIDE DEF u
<1>11. Tight(t.j, u.j, K) /\ u.r \notin j.pinned
  BY <1>9, <1>10 DEF Fresh
<1>12. Tight(j, u.j, K)
  BY <1>9, <1>11, TightTrans
<1>13. Fits(u.j, K)
  BY <1>12, TightIs
<1>14. Tight(j, b, K) /\ Fits(b, K)
  BY <1>9, <1>12, <1>13, DropPin
<1> HIDE DEF b
<1>15. Tight(j, c, K)
  BY <1>11, <1>14, DropPin
<1> QED
  BY <1>1, <1>15

LEMMA SnappedIs ==
  ASSUME NEW j, NEW K, Fits(j, K)
  PROVE  /\ Alike(j, Snapped(j)) /\ Tight(j, Snapped(j), K) /\ Fits(Snapped(j), K)
         /\ Snapped(j).pinned = j.pinned
<1>1. CASE j.pend = None
  <2>1. Snapped(j) = j
    BY <1>1 DEF Snapped
  <2>2. Alike(j, j)
    BY DEF Alike, Fits, Typed
  <2> QED
    BY <2>1, <2>2, SelfTight
<1>2. CASE j.pend # None
  <2>1. Snapped(j) = Touch(j, HeldBack(j))
    BY <1>2 DEF Snapped, HeldBack
  <2>2. InReg(HeldBack(j)) => HeldBack(j).reg \in Regs
    BY <1>2, Held, CvalCases
  <2>3. Alike(j, Snapped(j)) /\ Snapped(j).pinned = j.pinned
    <3>1. Typed(j)
      BY DEF Fits
    <3> QED
      BY ZenonT(60), <2>1, <2>2, <3>1, MarksOf
  <2> QED
    BY <2>3, AlikeKeeps
<1> QED
  BY <1>1, <1>2

(* What TestWords does when j, after the registers it takes, is reached. *)
LEMMA TestWordsStep ==
  ASSUME IInv, at = "test", ~J.out, NEW j, Made(j), NEW rb, TestWords(j, rb),
         ~j.out => /\ Ready(j) /\ InsnOk(j) /\ j.pend \notin blk.marked
                   /\ j.mem = J.mem \/ j.mem = gmem
                   /\ x.b.dyn => rb \in j.pinned /\ j.reg[rb] = FieldValue(x.b),
         gmem' = gmem, blk' = blk
  PROVE  IInv' /\ (J'.mem = J.mem \/ J'.mem = gmem)
<1> DEFINE j1 == IF x.b.dyn \/ Tested(j, rb) # {} THEN Snapped(j) ELSE j
           hit == Tested(j, rb) \cap blk.marked # {}
<1>1. IF hit /\ ~j.out
      THEN Leave(j1, None, None, None) /\ UNCHANGED x
      ELSE Ran(j1) /\ x' = [x EXCEPT !.rb = rb] /\ at' = "operands" /\ UNCHANGED exit
  BY DEF TestWords
<1>2. blk \in Blocks /\ gmem \in Memories /\ Made(J) /\ DOMAIN x = InsnFields
  BY DEF IInv
<1>3. CASE j.out
  <2>1. Runs(j, j1)
    BY RunsMarks DEF Snapped, Runs
  <2> HIDE DEF j1
  <2>2. J' = [J EXCEPT !.out = TRUE] /\ x' = [x EXCEPT !.rb = rb]
    BY <1>1, <1>3, <2>1 DEF Ran, Runs
  <2>3. DOMAIN x' = InsnFields /\ J'.mem = J.mem
    BY <1>2, <2>2
  <2> QED
    BY <1>2, <2>2, <2>3, OutStep
<1>4. CASE ~j.out
  <2>1. /\ Ready(j) /\ InsnOk(j) /\ j.pend \notin blk.marked
        /\ j.mem = J.mem \/ j.mem = gmem
        /\ x.b.dyn => rb \in j.pinned /\ j.reg[rb] = FieldValue(x.b)
    BY <1>4
  <2>2. Fits(j, GuestView)
    BY <2>1, ReadyIs
  <2>3. Tight(j, j1, GuestView) /\ Alike(j, j1)
    <3>1. Alike(j, j)
      BY <2>2 DEF Alike, Fits, Typed
    <3> QED
      BY <2>2, <3>1, SnappedIs, SelfTight
  <2> HIDE DEF j1
  <2>4. Ready(j1) /\ InsnOk(j1) /\ j1.pend = j.pend /\ j1.mem = j.mem /\ j1.out = j.out
    BY <2>1, <2>3, ReadyAlike, InsnKeeps DEF Alike, Tight
  <2>5. CASE hit
    <3>1. Leave(j1, None, None, None) /\ x' = x
      BY <1>1, <1>4, <2>5
    <3> QED
      BY <1>4, <2>4, <3>1, LeaveStep
  <2>6. CASE ~hit
    <3>1. Ran(j1) /\ x' = [x EXCEPT !.rb = rb] /\ at' = "operands"
      BY <1>1, <2>6
    <3>2. J' = j1
      BY <1>4, <2>4, <3>1 DEF Ran
    <3>3. x'.a = x.a /\ x'.b = x.b /\ x'.c = x.c /\ x'.rb = rb /\ DOMAIN x' = InsnFields
      BY <1>2, <3>1 DEF InsnFields
    <3>4. Ready(J)'
      BY <2>4, <3>2, SameGuest
    <3>5. InsnOk(J)'
      <4>1. FieldOk(j1, x.a) /\ FieldOk(j1, x.b) /\ FieldOk(j1, x.c) /\ TargetNamed(j1)
            /\ FieldValue(x.a) \in Addresses /\ FieldValue(x.b) \in Addresses
        BY <2>4 DEF InsnOk
      <4>2. FieldOk(J, x.a)' /\ FieldOk(J, x.b)' /\ FieldOk(J, x.c)'
        BY <3>2, <3>3, <4>1 DEF FieldOk, FieldValue
      <4>3. TargetNamed(J)'
        BY <3>2, <3>3, <4>1 DEF TargetNamed
      <4> QED
        BY <3>3, <4>1, <4>2, <4>3 DEF InsnOk, FieldValue
    <3>6. SpanOf(FieldValue(x.b)) \cap blk.marked = {}
      <4>1. CASE x.b.dyn
        <5> DEFINE a == FieldValue(x.b)
        <5>1. a \in Addresses /\ j.reg[rb] = a
          BY <2>1, <4>1 DEF InsnOk
        <5>2. CASE Page(a) \in MarkedPages
          BY <2>6, <4>1, <5>1, <5>2 DEF Tested
        <5>3. CASE Page(a) \notin MarkedPages
          <6> SUFFICES ASSUME NEW w \in SpanOf(a), w \in blk.marked PROVE FALSE
            OBVIOUS
          <6>1. Page(a) \in {Page(w), Page(w) - 1}
            BY <5>1, PageOfSpan
          <6> QED
            BY <5>3, <6>1 DEF MarkedPages
        <5> QED
          BY <5>2, <5>3
      <4>2. CASE ~x.b.dyn
        <5>1. x.b.val = FieldValue(x.b)
          BY <2>1, <4>2 DEF InsnOk, FieldOk
        <5>2. (SpanOf(x.b.val) \ blk.hoist) \cap blk.marked = {}
          BY <2>6, <4>2 DEF Tested
        <5>3. blk.marked \cap blk.hoist = {}
          BY <1>2, BlockAssumption
        <5> QED
          BY <5>1, <5>2, <5>3
      <4> QED
        BY <4>1, <4>2
    <3>7. x.b.dyn => rb \in j1.pinned /\ j1.reg[rb] = FieldValue(x.b)
      BY <2>1, <2>3 DEF Tight, Keeps, Stays
    <3>8. StoreChecked(J)'
      BY <3>2, <3>3, <3>6, <3>7 DEF StoreChecked, FieldValue
    <3>9. Made(J)' /\ J'.pend \notin blk'.marked /\ J'.mem = j.mem
      BY <2>1, <2>4, <3>2, ReadyIs DEF Made
    <3> QED
      BY <1>2, <2>1, <3>1, <3>3, <3>4, <3>5, <3>8, <3>9 DEF IInv, Stage
  <2> QED
    BY <2>5, <2>6
<1> QED
  BY <1>3, <1>4

LEMMA TestStep ==
  ASSUME IInv, Test
  PROVE  IInv' /\ (J'.mem = J.mem \/ J'.mem = gmem)
<1>1. /\ blk \in Blocks /\ gmem \in Memories /\ Stage /\ at = "test" /\ ~J.out
      /\ blk' = blk /\ gmem' = gmem /\ Made(J)
  BY DEF IInv, Test, Going
<1>2. Ready(J) /\ InsnOk(J) /\ J.pend \notin blk.marked
  BY <1>1 DEF Stage
<1>3. CASE ~x.b.dyn
  <2>1. TestWords(J, None)
    BY <1>3 DEF Test
  <2> QED
    BY <1>1, <1>2, <1>3, <2>1, TestWordsStep
<1>4. CASE x.b.dyn
  <2> DEFINE s == AddressReg(J, x.b)
             j == TestRegs(s.j)
  <2>1. TestWords(j, s.r)
    BY <1>4 DEF Test
  <2>2. Runs(J, s.j)
    BY <1>1, RunsAddressReg
  <2>3. Runs(s.j, j)
    BY <2>2, RunsTestRegs DEF Runs
  <2>4. Made(j)
    BY <2>3 DEF Runs
  <2>5. ASSUME ~j.out
        PROVE  /\ Ready(j) /\ InsnOk(j) /\ j.pend \notin blk.marked
               /\ j.mem = J.mem \/ j.mem = gmem
               /\ x.b.dyn => s.r \in j.pinned /\ j.reg[s.r] = FieldValue(x.b)
    <3>1. ~s.j.out
      BY <2>3, <2>5 DEF Runs
    <3>2. Addressed(J, s, GuestView, x.b)
      BY <1>2, <1>4, <3>1, AddressRegIs DEF InsnOk
    <3> HIDE DEF s
    <3>3. /\ Keeps(J, s.j, GuestView, {x.b.word}) /\ s.r \in s.j.pinned
          /\ s.j.reg[s.r] = FieldValue(x.b)
      BY <3>2 DEF Addressed
    <3>4. Fits(s.j, GuestView)
      BY <3>3 DEF Keeps, Stays
    <3>5. Tight(s.j, j, GuestView)
      BY <2>5, <3>4, TestRegsAre
    <3> HIDE DEF j
    <3>6. Keeps(J, j, GuestView, {x.b.word})
      BY <3>3, <3>5, KeepsTrans DEF Tight
    <3>7. Ready(j)
      BY <1>2, <3>6, ReadyKeeps
    <3>8. InsnOk(j)
      <4>1. x.c.dyn => x.c.word \notin {x.b.word}
        BY <1>2, <1>4 DEF InsnOk, TargetNamed
      <4> QED
        BY <1>2, <3>6, <4>1, InsnKeeps
    <3>9. j.mem = J.mem \/ j.mem = gmem
      BY <1>2, <3>6, ReadyMem
    <3>10. j.pend = J.pend \/ j.pend = None
      BY <3>6 DEF Keeps
    <3>11. None \notin blk.marked
      BY <1>1, BlockAssumption, NoneIs
    <3>12. s.r \in j.pinned /\ j.reg[s.r] = FieldValue(x.b)
      BY <3>3, <3>5 DEF Tight, Keeps, Stays
    <3> QED
      BY <1>2, <3>7, <3>8, <3>9, <3>10, <3>11, <3>12
  <2> HIDE DEF j
  <2> QED
    BY <1>1, <2>1, <2>4, <2>5, TestWordsStep
<1> QED
  BY <1>3, <1>4
-----------------------------------------------------------------------------
(* The operands *)

LEMMA RunsLoadThrough ==
  ASSUME NEW a, Made(a.j)
  PROVE  OfVal(LoadThrough(a)) /\ Runs(a.j, LoadThrough(a).j)
<1> DEFINE f == FlushPending(a.j)
           s == Scratch(f)
           g == Give(s, Rd(s.j.mem, s.j.reg[a.r]))
<1>1. LoadThrough(a) = Of(g)
  BY DEF LoadThrough
<1>2. Runs(a.j, f)
  BY RunsFlushPending
<1> HIDE DEF f
<1>3. OfReg(s) /\ Runs(f, s.j)
  BY <1>2, RunsScratch DEF Runs
<1> HIDE DEF s
<1>4. Runs(s.j, g.j)
  BY <1>3, RunsGive DEF Runs
<1> HIDE DEF g
<1>5. Runs(a.j, s.j)
  BY <1>2, <1>3, RunsTrans
<1>6. Runs(a.j, g.j)
  BY <1>4, <1>5, RunsTrans
<1> QED
  BY <1>1, <1>6 DEF Of, OfVal

LEMMA RunsOperands ==
  ASSUME NEW j, Made(j)
  PROVE  /\ OfVal(OperandA(j)) /\ Runs(j, OperandA(j).j)
         /\ OfVal(OperandB(j)) /\ Runs(j, OperandB(j).j)
         /\ Runs(j, TargetC(j).j)
<1>1. Runs(j, j)
  BY RunsMarks
<1>2. \A i, r : i = [j |-> j, r |-> r] => OfVal(LoadThrough(i)) /\ Runs(j, LoadThrough(i).j)
  <2> TAKE i, r
  <2> HAVE i = [j |-> j, r |-> r]
  <2>1. i.j = j
    OBVIOUS
  <2> QED
    BY <2>1, RunsLoadThrough
<1>3. OfVal(OperandA(j)) /\ Runs(j, OperandA(j).j)
  <2>1. CASE Same
    BY <1>1, <2>1 DEF OperandA, OfVal
  <2>2. CASE ~Same /\ ~x.a.dyn
    BY <2>2, RunsGetStatic DEF OperandA
  <2>3. CASE ~Same /\ x.a.dyn
    <3> DEFINE s == AddressReg(j, x.a)
    <3>1. OperandA(j) = LoadThrough(s)
      BY <2>3 DEF OperandA
    <3>2. Runs(j, s.j)
      BY RunsAddressReg
    <3> HIDE DEF s
    <3>3. OfVal(LoadThrough(s)) /\ Runs(s.j, LoadThrough(s).j)
      BY <3>2, RunsLoadThrough DEF Runs
    <3> QED
      BY <3>1, <3>2, <3>3, RunsTrans
  <2> QED
    BY <2>1, <2>2, <2>3
<1>4. OfVal(OperandB(j)) /\ Runs(j, OperandB(j).j)
  <2>1. CASE Same
    BY <1>1, <2>1 DEF OperandB, OfVal
  <2>2. CASE ~Same /\ ~x.b.dyn
    BY <2>2, RunsGetStatic DEF OperandB
  <2>3. CASE ~Same /\ x.b.dyn
    <3>1. OperandB(j) = LoadThrough([j |-> j, r |-> x.rb])
      BY <2>3 DEF OperandB
    <3> QED
      BY <1>2, <3>1
  <2> QED
    BY <2>1, <2>2, <2>3
<1>5. Runs(j, TargetC(j).j)
  <2>1. CASE ~x.c.dyn
    BY <1>1, <2>1 DEF TargetC
  <2>2. CASE x.c.dyn /\ x.c.v # NoVal
    BY <2>2, RunsToReg DEF TargetC
  <2>3. CASE x.c.dyn /\ x.c.v = NoVal
    <3> DEFINE s == Scratch(j)
               g == Give(s, Rd(s.j.mem, x.c.word))
    <3>1. TargetC(j) = g
      BY <2>3 DEF TargetC
    <3>2. OfReg(s) /\ Runs(j, s.j)
      BY RunsScratch
    <3> HIDE DEF s
    <3>3. Runs(s.j, g.j)
      BY <3>2, RunsGive DEF Runs
    <3> HIDE DEF g
    <3> QED
      BY <3>1, <3>2, <3>3, RunsTrans
  <2> QED
    BY <2>1, <2>2, <2>3
<1> QED
  BY <1>3, <1>4, <1>5

(* A value that was loaded into a register of its own. *)
Through(j, p, K, val) ==
  Reads(j, p, K, val) /\ p.v.reg \in Regs /\ p.v.reg \notin j.pinned

LEMMA LoadThroughIs ==
  ASSUME NEW a, Ready(a.j), a.r \in a.j.pinned, NEW ad \in Addresses, a.j.reg[a.r] = ad,
         ~LoadThrough(a).j.out
  PROVE  Through(a.j, LoadThrough(a), GuestView, Rd(gmem, ad))
<1> DEFINE K == GuestView
           f == FlushPending(a.j)
           s == Scratch(f)
           g == Give(s, Rd(s.j.mem, s.j.reg[a.r]))
<1>1. LoadThrough(a) = Of(g)
  BY DEF LoadThrough
<1>2. Fits(a.j, K) /\ Made(a.j) /\ Whole(a.j, K) = gmem /\ gmem \in Memories
  BY ReadyIs
<1> HIDE DEF K
<1>3. Runs(a.j, f)
  BY <1>2, RunsFlushPending
<1>4. OfReg(s) /\ Runs(f, s.j)
  BY <1>3, RunsScratch DEF Runs
<1>5. Runs(s.j, g.j)
  BY <1>4, RunsGive DEF Runs
<1>6. ~g.j.out
  BY <1>1 DEF Of
<1>7. ~f.out /\ ~s.j.out
  BY <1>4, <1>5, <1>6 DEF Runs
<1>8. Tight(a.j, f, K) /\ f.pend = None /\ f.mem = gmem
  BY <1>2, <1>7, FlushPendingIs
<1>9. Fits(f, K) /\ a.j.pinned \subseteq f.pinned
  BY <1>8, TightIs
<1> HIDE DEF f
<1>10. Fresh(f, s, K)
  BY <1>7, <1>9, ScratchIs
<1> HIDE DEF s
<1>11. Tight(f, s.j, K)
  BY <1>10 DEF Fresh
<1>12. s.j.mem = gmem
  BY <1>8, <1>11, TightIs
<1>13. Tight(a.j, s.j, K)
  BY <1>8, <1>11, TightTrans
<1>14. s.j.reg[a.r] = ad
  BY <1>13 DEF Tight, Keeps, Stays
<1>15. Rd(gmem, ad) \in Value
  BY <1>2, RdType
<1>16. Fresh(f, g, K) /\ g.j.reg[g.r] = Rd(gmem, ad)
  BY <1>10, <1>12, <1>14, <1>15, GiveFresh
<1> HIDE DEF g
<1>17. Makes(f, Of(g), K, Rd(gmem, ad))
  BY <1>16, FreshMakes
<1>18. Reads(a.j, Of(g), K, Rd(gmem, ad))
  BY <1>8, <1>17, MakesReads DEF Tight
<1>19. Of(g).v.reg = g.r
  BY CvalIs DEF Of
<1>20. g.r \in Regs /\ g.r \notin a.j.pinned
  BY <1>9, <1>16 DEF Fresh
<1> QED
  BY <1>1, <1>18, <1>19, <1>20 DEF Through, K

LEMMA ReadsOk ==
  ASSUME NEW j, NEW p, NEW K, NEW val, Reads(j, p, K, val)
  PROVE  OfVal(p) /\ Keeps(j, p.j, K, {}) /\ OperandOk(p.j, p.v, val)
  BY CvalCases DEF Reads, OperandOk, Stands

LEMMA SameKeeps ==
  ASSUME NEW j, NEW K, Fits(j, K), NEW A
  PROVE  Keeps(j, j, K, A)
<1>1. Keeps(j, j, K, {})
  BY SelfTight DEF Tight
<1> QED
  BY <1>1, KeepsMore

LEMMA OperandAIs ==
  ASSUME NEW j, Ready(j), InsnOk(j), ~OperandA(j).j.out
  PROVE  LET p == OperandA(j)
         IN  /\ Ready(p.j) /\ InsnOk(p.j)
             /\ Keeps(j, p.j, GuestView, IF x.a.dyn THEN {x.a.word} ELSE {})
             /\ ~Same => OperandOk(p.j, p.v, GuestA)
<1> DEFINE p == OperandA(j)
           K == GuestView
           A == IF x.a.dyn THEN {x.a.word} ELSE {}
<1>1. Fits(j, K) /\ Current(j, K) /\ Made(j) /\ ~j.live /\ Whole(j, K) = gmem
  BY ReadyIs
<1>2. FieldValue(x.a) \in Addresses /\ FieldOk(j, x.a) /\ GuestA = Rd(gmem, FieldValue(x.a))
  BY DEF InsnOk, GuestA
<1> HIDE DEF K
<1>3. Keeps(j, p.j, K, A) /\ (~Same => OperandOk(p.j, p.v, GuestA))
  <2>1. CASE Same
    <3>1. p.j = j
      BY <2>1 DEF OperandA
    <3> HIDE DEF p
    <3> QED
      BY <1>1, <2>1, <3>1, SameKeeps
  <2>2. CASE ~Same /\ ~x.a.dyn
    <3>1. x.a.val = FieldValue(x.a)
      BY <1>2, <2>2 DEF FieldOk
    <3>2. p = GetStatic(j, x.a.val)
      BY <2>2 DEF OperandA
    <3> HIDE DEF p
    <3>3. ~GetStatic(j, x.a.val).j.out
      BY <3>2 DEF p
    <3>4. Reads(j, p, K, GuestA)
      BY <1>1, <1>2, <3>1, <3>2, <3>3, GetStaticIs
    <3>5. A = {}
      BY <2>2
    <3> QED
      BY <3>4, <3>5, ReadsOk
  <2>3. CASE ~Same /\ x.a.dyn
    <3> DEFINE s == AddressReg(j, x.a)
    <3>1. p = LoadThrough(s)
      BY <2>3 DEF OperandA
    <3>2. Runs(j, s.j)
      BY <1>1, RunsAddressReg
    <3>3. Runs(s.j, LoadThrough(s).j)
      BY <3>2, RunsLoadThrough DEF Runs
    <3>4. ~s.j.out /\ ~LoadThrough(s).j.out
      BY <3>1, <3>3 DEF Runs
    <3>5. Addressed(j, s, K, x.a)
      BY <1>2, <2>3, <3>4, AddressRegIs DEF K
    <3> HIDE DEF s, p
    <3>6. Keeps(j, s.j, K, {x.a.word}) /\ s.r \in s.j.pinned /\ s.j.reg[s.r] = FieldValue(x.a)
      BY <3>5 DEF Addressed
    <3>7. Ready(s.j)
      BY <3>6, ReadyKeeps DEF K
    <3>8. Through(s.j, p, K, GuestA)
      BY <1>2, <3>1, <3>4, <3>6, <3>7, LoadThroughIs DEF K
    <3>9. Keeps(s.j, p.j, K, {}) /\ OperandOk(p.j, p.v, GuestA)
      BY <3>8, ReadsOk DEF Through
    <3>10. Keeps(j, p.j, K, {x.a.word})
      BY <3>6, <3>9, KeepsTrans
    <3>11. A = {x.a.word}
      BY <2>3
    <3> QED
      BY <3>9, <3>10, <3>11
  <2> QED
    BY <2>1, <2>2, <2>3
<1>4. x.c.dyn => x.c.word \notin A
  BY DEF InsnOk, TargetNamed
<1> HIDE DEF p, A
<1>5. InsnOk(p.j)
  BY <1>3, <1>4, InsnKeeps
<1>6. Ready(p.j)
  BY <1>3, ReadyKeeps DEF K
<1> QED
  BY <1>3, <1>5, <1>6 DEF p, A, K

LEMMA OperandBIs ==
  ASSUME NEW j, Ready(j), InsnOk(j), StoreChecked(j), ~OperandB(j).j.out
  PROVE  LET p == OperandB(j)
         IN  /\ Keeps(j, p.j, GuestView, {})
             /\ ~Same => OperandOk(p.j, p.v, GuestB)
             /\ x.b.dyn => p.v.reg \notin j.pinned
<1> DEFINE p == OperandB(j)
           K == GuestView
<1>1. Fits(j, K) /\ Current(j, K) /\ Made(j) /\ ~j.live /\ Whole(j, K) = gmem
  BY ReadyIs
<1>2. FieldValue(x.b) \in Addresses /\ FieldOk(j, x.b) /\ GuestB = Rd(gmem, FieldValue(x.b))
  BY DEF InsnOk, GuestB
<1> HIDE DEF K
<1>3. CASE Same
  <2>1. p.j = j /\ ~x.b.dyn
    BY <1>3 DEF OperandB, Same
  <2> HIDE DEF p
  <2>2. Keeps(j, p.j, K, {})
    BY <1>1, <2>1, SameKeeps
  <2> QED
    BY <1>3, <2>1, <2>2 DEF p, K
<1>4. CASE ~Same /\ ~x.b.dyn
  <2>1. x.b.val = FieldValue(x.b)
    BY <1>2, <1>4 DEF FieldOk
  <2>2. p = GetStatic(j, x.b.val)
    BY <1>4 DEF OperandB
  <2> HIDE DEF p
  <2>3. ~GetStatic(j, x.b.val).j.out
    BY <2>2 DEF p
  <2>4. Reads(j, p, K, GuestB)
    BY <1>1, <1>2, <2>1, <2>2, <2>3, GetStaticIs
  <2>5. Keeps(j, p.j, K, {}) /\ OperandOk(p.j, p.v, GuestB)
    BY <2>4, ReadsOk
  <2> QED
    BY <1>4, <2>5 DEF p, K
<1>5. CASE ~Same /\ x.b.dyn
  <2> DEFINE s == [j |-> j, r |-> x.rb]
  <2>1. p = LoadThrough(s) /\ s.j = j /\ s.r = x.rb
    BY <1>5 DEF OperandB
  <2>2. ~LoadThrough(s).j.out
    BY <2>1
  <2>3. x.rb \in j.pinned /\ j.reg[x.rb] = FieldValue(x.b)
    BY <1>5 DEF StoreChecked
  <2> HIDE DEF s, p
  <2>4. Through(j, p, K, GuestB)
    BY <1>2, <2>1, <2>2, <2>3, LoadThroughIs DEF K
  <2>5. Keeps(j, p.j, K, {}) /\ OperandOk(p.j, p.v, GuestB) /\ p.v.reg \notin j.pinned
    BY <2>4, ReadsOk DEF Through
  <2> QED
    BY <2>5 DEF p, K
<1> QED
  BY <1>3, <1>4, <1>5

LEMMA TargetCIs ==
  ASSUME NEW j, Ready(j), InsnOk(j), ~TargetC(j).j.out
  PROVE  LET s == TargetC(j)
         IN  /\ Keeps(j, s.j, GuestView, {})
             /\ x.c.dyn => /\ s.r \in s.j.pinned /\ s.r \in Regs /\ s.j.reg[s.r] = FieldValue(x.c)
                           /\ s.r \in j.pinned => x.c.v = RegVal(s.r)
<1> DEFINE s == TargetC(j)
           K == GuestView
<1>1. Fits(j, K) /\ Current(j, K) /\ Made(j) /\ Whole(j, K) = gmem /\ gmem \in Memories
  BY ReadyIs
<1>2. FieldOk(j, x.c)
  BY DEF InsnOk
<1> HIDE DEF K
<1>3. CASE ~x.c.dyn
  <2>1. s.j = j
    BY <1>3 DEF TargetC
  <2> HIDE DEF s
  <2>2. Keeps(j, s.j, K, {})
    BY <1>1, <2>1, SameKeeps
  <2> QED
    BY <1>3, <2>2 DEF s, K
<1>4. CASE x.c.dyn /\ x.c.v # NoVal
  <2> DEFINE v == x.c.v
  <2>1. s = ToReg(j, v)
    BY <1>4 DEF TargetC
  <2>2. IsCval(v) /\ (InReg(v) => v.reg \in j.pinned) /\ ValueOf(j, v) = FieldValue(x.c)
    BY <1>2, <1>4 DEF FieldOk, Stands
  <2>3. ~ToReg(j, v).j.out
    BY <2>1
  <2> HIDE DEF s, v
  <2>4. Loads(j, s, K, v)
    BY <1>1, <2>1, <2>2, <2>3, ToRegIs
  <2>5. Tight(j, s.j, K) /\ s.r \in Regs /\ s.j.reg[s.r] = FieldValue(x.c)
    BY <2>2, <2>4 DEF Loads
  <2>6. s.r \in s.j.pinned /\ (s.r \in j.pinned => v = RegVal(s.r))
    <3>1. CASE v.kind = "reg"
      BY <2>2, <2>4, <3>1, CvalCases DEF Loads
    <3>2. CASE v.kind # "reg"
      BY <2>4, <3>2 DEF Loads, Fresh
    <3> QED
      BY <3>1, <3>2
  <2> QED
    BY <2>5, <2>6 DEF s, v, K, Tight
<1>5. CASE x.c.dyn /\ x.c.v = NoVal
  <2> DEFINE t == Scratch(j)
             g == Give(t, Rd(t.j.mem, x.c.word))
  <2>1. s = g
    BY <1>5 DEF TargetC
  <2>2. OfReg(t) /\ Runs(j, t.j)
    BY <1>1, RunsScratch
  <2>3. Runs(t.j, g.j)
    BY <2>2, RunsGive DEF Runs
  <2>4. ~t.j.out
    BY <2>1, <2>3 DEF Runs
  <2>5. Fresh(j, t, K)
    BY <1>1, <2>4, ScratchIs
  <2> HIDE DEF t
  <2>6. Keeps(j, t.j, K, {}) /\ (t.j.pend = j.pend \/ t.j.pend = None)
    BY <2>5 DEF Fresh, Tight, Keeps
  <2>7. /\ x.c.word \in Words /\ x.c.word \in Addresses /\ SpanOf(x.c.word) = {x.c.word}
        /\ FieldValue(x.c) = Rd(gmem, x.c.word) /\ j.pend # x.c.word /\ x.c.word # None
    BY <1>2, <1>5, NoneIs, WordsAre, SpanIs DEF FieldOk, FieldValue
  <2>8. Current(t.j, K) /\ Whole(t.j, K) = gmem
    BY <1>1, <2>6, KeepsCurrent
  <2>9. Rd(t.j.mem, x.c.word) = FieldValue(x.c)
    BY <2>6, <2>7, <2>8, ReadsWhole
  <2>10. FieldValue(x.c) \in Value
    BY <1>1, <2>7, RdType
  <2>11. Fresh(j, g, K) /\ g.j.reg[g.r] = FieldValue(x.c)
    BY <2>5, <2>9, <2>10, GiveFresh
  <2> HIDE DEF g
  <2>12. Keeps(j, g.j, K, {}) /\ g.r \in Regs /\ g.r \notin j.pinned /\ g.r \in g.j.pinned
    BY <2>11 DEF Fresh, Tight
  <2> HIDE DEF s
  <2> QED
    BY <2>1, <2>11, <2>12 DEF s, K
<1> QED
  BY <1>3, <1>4, <1>5

LEMMA OperandsRan ==
  ASSUME Operands
  PROVE  LET p == OperandA(J)
             q == OperandB(p.j)
             s == TargetC(q.j)
         IN  /\ Going("operands") /\ Ran(s.j)
             /\ x' = [x EXCEPT !.va = p.v, !.vb = q.v, !.rc = s.r]
             /\ at' = "compute" /\ UNCHANGED <<gmem, fields, n, blk, exit>>
  BY DEF Operands

LEMMA OperandsStep ==
  ASSUME IInv, Operands
  PROVE  IInv' /\ (J'.mem = J.mem \/ J'.mem = gmem)
<1> DEFINE K == GuestView
           p == OperandA(J)
           q == OperandB(p.j)
           s == TargetC(q.j)
<1>1. /\ Going("operands") /\ Ran(s.j)
      /\ x' = [x EXCEPT !.va = p.v, !.vb = q.v, !.rc = s.r]
      /\ at' = "compute" /\ UNCHANGED <<gmem, fields, n, blk, exit>>
  BY OperandsRan
<1>2. /\ blk \in Blocks /\ gmem \in Memories /\ Stage /\ at = "operands" /\ ~J.out
      /\ blk' = blk /\ gmem' = gmem /\ Made(J) /\ DOMAIN x = InsnFields
  BY <1>1 DEF IInv, Going
<1>3. Ready(J) /\ InsnOk(J) /\ StoreChecked(J) /\ J.pend \notin blk.marked
  BY <1>2 DEF Stage
<1>4. Runs(J, p.j)
  BY <1>2, RunsOperands
<1>5. Runs(p.j, q.j)
  BY <1>4, RunsOperands DEF Runs
<1>6. Runs(q.j, s.j)
  BY <1>5, RunsOperands DEF Runs
<1>7. /\ x'.a = x.a /\ x'.b = x.b /\ x'.c = x.c /\ x'.rb = x.rb
      /\ x'.va = p.v /\ x'.vb = q.v /\ x'.rc = s.r /\ DOMAIN x' = InsnFields
  BY <1>1, <1>2 DEF InsnFields
<1>8. CASE s.j.out
  <2>1. J' = [J EXCEPT !.out = TRUE]
    BY <1>1, <1>8 DEF Ran
  <2>2. J'.mem = J.mem
    BY <2>1
  <2> HIDE DEF p, q, s
  <2>3. IInv'
    BY <1>2, <1>7, <2>1, OutStep
  <2> QED
    BY <2>2, <2>3
<1>9. CASE ~s.j.out
  <2>1. ~p.j.out /\ ~q.j.out
    BY <1>5, <1>6, <1>9 DEF Runs
  <2>2. J' = s.j
    BY <1>1, <1>9 DEF Ran
  <2>3. /\ Ready(p.j) /\ InsnOk(p.j)
        /\ Keeps(J, p.j, K, IF x.a.dyn THEN {x.a.word} ELSE {})
        /\ ~Same => OperandOk(p.j, p.v, GuestA)
    BY <1>3, <2>1, OperandAIs
  <2>4. StoreChecked(p.j)
    BY <1>3, <2>3, CheckedKeeps
  <2>5. /\ Keeps(p.j, q.j, K, {})
        /\ ~Same => OperandOk(q.j, q.v, GuestB)
        /\ x.b.dyn => q.v.reg \notin p.j.pinned
    BY <2>1, <2>3, <2>4, OperandBIs
  <2> HIDE DEF p
  <2>6. Ready(q.j) /\ InsnOk(q.j) /\ StoreChecked(q.j)
    BY <2>3, <2>4, <2>5, ReadyKeeps, InsnKeeps, CheckedKeeps
  <2>7. /\ Keeps(q.j, s.j, K, {})
        /\ x.c.dyn => /\ s.r \in s.j.pinned /\ s.r \in Regs /\ s.j.reg[s.r] = FieldValue(x.c)
                      /\ s.r \in q.j.pinned => x.c.v = RegVal(s.r)
    BY <1>9, <2>6, TargetCIs
  <2> HIDE DEF q, s, K
  <2>8. Ready(s.j) /\ InsnOk(s.j) /\ StoreChecked(s.j)
    BY <2>6, <2>7, ReadyKeeps, InsnKeeps, CheckedKeeps DEF K
  <2>9. Keeps(p.j, s.j, K, {})
    BY <2>5, <2>7, KeepsTrans
  <2> DEFINE A == IF x.a.dyn THEN {x.a.word} ELSE {}
  <2>10. Keeps(J, s.j, K, A)
    <3> HIDE DEF A
    <3> QED
      BY <2>3, <2>9, KeepsTrans DEF A
  <2>11. s.j.mem = J.mem \/ s.j.mem = gmem
    BY <1>3, <2>10, ReadyMem DEF K
  <2>12. s.j.pend \notin blk.marked
    <3>1. s.j.pend = J.pend \/ s.j.pend = None
      BY <2>10 DEF Keeps
    <3>2. None \notin blk.marked
      BY <1>2, BlockAssumption, NoneIs
    <3> QED
      BY <1>3, <3>1, <3>2
  <2>13. ~Same => OperandOk(s.j, p.v, GuestA) /\ OperandOk(s.j, q.v, GuestB)
    <3>1. ~Same => Stands(s.j, p.v, GuestA)
      BY <2>3, <2>9, KeepsStands DEF OperandOk
    <3>2. ~Same => Stands(s.j, q.v, GuestB)
      BY <2>5, <2>7, KeepsStands DEF OperandOk
    <3> QED
      BY <2>3, <2>5, <3>1, <3>2 DEF OperandOk
  <2>14. x.b.dyn => q.v.reg # x.rb
    BY <2>4, <2>5 DEF StoreChecked
  <2>15. (TargetRead(J))'
    <3>1. ASSUME x.c.dyn, ~OwnC, s.r = q.v.reg
          PROVE  ~x.b.dyn /\ x.b.val # x.c.word /\ x.c.word \in CWords /\ Names(s.j, x.c.word, RegVal(s.r))
      <4>1. s.r \in Regs
        BY <2>7, <3>1
      <4>2. q.v.reg \in q.j.pinned
        <5>1. ~Same
          <6>1. ASSUME Same PROVE FALSE
            <7>1. q.v = NoVal
              BY <6>1 DEF q, OperandB
            <7> QED
              BY <3>1, <4>1, <7>1, CvalIs, NoneIs
          <6> QED
            BY <6>1
        <5>2. IsCval(q.v) /\ (InReg(q.v) => q.v.reg \in q.j.pinned)
          BY <2>5, <5>1 DEF OperandOk, Stands
        <5> QED
          BY <3>1, <4>1, <5>2, CvalCases, NoneIs
      <4>3. x.c.v = RegVal(s.r)
        BY <2>7, <3>1, <4>2
      <4>4. InReg(x.c.v) /\ x.c.v.reg = s.r /\ x.c.v # NoVal
        BY <4>3, CvalIs
      <4>5. s.r \in p.j.pinned
        BY <2>3, <3>1, <4>4 DEF InsnOk, FieldOk, Stands
      <4>6. ~x.b.dyn
        BY <2>5, <3>1, <4>5
      <4> QED
        BY <2>8, <3>1, <4>3, <4>4, <4>6 DEF InsnOk, TargetNamed
    <3>2. x.c.dyn /\ ~OwnC => s.r \in s.j.pinned /\ s.j.reg[s.r] = FieldValue(x.c)
      BY <2>7
    <3>3. FieldValue(x.c)' = FieldValue(x.c)
      BY <1>2, <1>7 DEF FieldValue
    <3> QED
      BY <1>7, <2>2, <3>1, <3>2, <3>3 DEF TargetRead
  <2>16. Same' = Same /\ GuestA' = GuestA /\ GuestB' = GuestB
    BY <1>2, <1>7 DEF Same, GuestA, GuestB, FieldValue
  <2>17. OperandsRead(J)'
    BY <1>7, <2>2, <2>13, <2>14, <2>15, <2>16 DEF OperandsRead
  <2>18. Ready(J)'
    BY <1>2, <2>2, <2>8, SameGuest
  <2>19. InsnOk(J)'
    <3>1. FieldOk(s.j, x.a) /\ FieldOk(s.j, x.b) /\ FieldOk(s.j, x.c) /\ TargetNamed(s.j)
          /\ FieldValue(x.a) \in Addresses /\ FieldValue(x.b) \in Addresses
      BY <2>8 DEF InsnOk
    <3>2. FieldOk(J, x.a)' /\ FieldOk(J, x.b)' /\ FieldOk(J, x.c)'
      BY <1>2, <1>7, <2>2, <3>1 DEF FieldOk, FieldValue
    <3>3. TargetNamed(J)'
      BY <1>7, <2>2, <3>1 DEF TargetNamed
    <3> QED
      BY <1>2, <1>7, <3>1, <3>2, <3>3 DEF InsnOk, FieldValue
  <2>20. StoreChecked(J)'
    BY <1>2, <1>7, <2>2, <2>8 DEF StoreChecked, FieldValue
  <2>21. Made(J)'
    BY <2>2, <2>8, ReadyIs DEF Made
  <2> QED
    BY <1>1, <1>2, <1>7, <2>2, <2>11, <2>12, <2>17, <2>18, <2>19, <2>20, <2>21 DEF IInv, Stage
<1> QED
  BY <1>8, <1>9
-----------------------------------------------------------------------------
(* The result *)

(* All that is known where the result is computed. *)
Set(j) == Ready(j) /\ InsnOk(j) /\ StoreChecked(j) /\ OperandsRead(j)

LEMMA SetKeeps ==
  ASSUME NEW j, NEW k, Set(j), Keeps(j, k, GuestView, {})
  PROVE  Set(k)
<1>1. Ready(k) /\ InsnOk(k) /\ StoreChecked(k)
  BY ReadyKeeps, InsnKeeps, CheckedKeeps DEF Set
<1>2. OperandsRead(j) /\ TargetRead(j)
  BY DEF Set, OperandsRead
<1>3. ~Same => OperandOk(k, x.va, GuestA) /\ OperandOk(k, x.vb, GuestB)
  BY <1>2, KeepsStands DEF OperandsRead, OperandOk
<1>4. TargetRead(k)
  <2>1. ASSUME x.c.dyn, ~OwnC PROVE x.rc \in k.pinned /\ k.reg[x.rc] = FieldValue(x.c)
    BY <1>2, <2>1 DEF TargetRead, Keeps, Stays
  <2>2. ASSUME x.c.dyn, ~OwnC, x.rc = x.vb.reg
        PROVE  ~x.b.dyn /\ x.b.val # x.c.word /\ x.c.word \in CWords /\ Names(k, x.c.word, RegVal(x.rc))
    <3>1. x.rc \in j.pinned /\ ~x.b.dyn /\ x.b.val # x.c.word /\ x.c.word \in CWords
          /\ Names(j, x.c.word, RegVal(x.rc))
      BY <1>2, <2>2 DEF TargetRead
    <3>2. InReg(RegVal(x.rc)) /\ RegVal(x.rc).reg \in j.pinned
      BY <3>1, CvalIs
    <3>3. Stays(j, k, GuestView, {})
      BY DEF Keeps
    <3> QED
      BY <3>1, <3>2, <3>3 DEF Stays
  <2> QED
    BY <2>1, <2>2 DEF TargetRead
<1> QED
  BY <1>1, <1>2, <1>3, <1>4 DEF Set, OperandsRead

LEMMA OperandsAre ==
  ASSUME NEW j, Set(j), ~Same
  PROVE  /\ IsCval(x.va) /\ ValueOf(j, x.va) = GuestA /\ GuestA \in Value
         /\ InReg(x.va) => x.va.reg \in j.pinned /\ x.va.reg \in Regs
         /\ IsCval(x.vb) /\ ValueOf(j, x.vb) = GuestB /\ GuestB \in Value
         /\ InReg(x.vb) => x.vb.reg \in j.pinned /\ x.vb.reg \in Regs
<1>1. OperandOk(j, x.va, GuestA) /\ OperandOk(j, x.vb, GuestB)
  BY DEF Set, OperandsRead
<1>2. Typed(j) /\ j.pinned \subseteq Regs
  BY ReadyIs DEF Set, Typed
<1> QED
  BY <1>1, <1>2, ValueType DEF OperandOk, Stands

LEMMA RunsResultReg ==
  ASSUME NEW j, Made(j), NEW inplace \in BOOLEAN
  PROVE  OfReg(ResultReg(j, inplace)) /\ Runs(j, ResultReg(j, inplace).j)
<1>1. CASE inplace
  BY <1>1, RunsMarks DEF ResultReg, OfReg
<1>2. CASE ~inplace
  <2> DEFINE s == Scratch(j)
             g == Give(s, ValueOf(s.j, x.vb))
  <2>1. ResultReg(j, inplace) = g
    BY <1>2 DEF ResultReg
  <2>2. OfReg(s) /\ Runs(j, s.j)
    BY RunsScratch
  <2> HIDE DEF s
  <2>3. OfReg(g) /\ Runs(s.j, g.j)
    BY <2>2, RunsGive DEF Runs
  <2> HIDE DEF g
  <2> QED
    BY <2>1, <2>2, <2>3, RunsTrans
<1> QED
  BY <1>1, <1>2

(* The result in register r of a state, with the flags of the operation. *)
Written(j, r, f, w) == [j EXCEPT !.flags = f, !.reg[r] = w]
InRegister(j, r, f, w) == [j |-> Pin(Written(j, r, f, w), RegVal(r)), v |-> RegVal(r)]

LEMMA RunsInRegister ==
  ASSUME NEW j, Made(j), NEW r, NEW f, NEW w
  PROVE  OfVal(InRegister(j, r, f, w)) /\ Runs(j, InRegister(j, r, f, w).j)
<1> DEFINE k == Written(j, r, f, w)
<1>1. Runs(j, k)
  BY DEF Written, Runs, Made
<1>2. OfVal(InRegister(j, r, f, w)) /\ InRegister(j, r, f, w).j = Pin(k, RegVal(r))
  BY DEF InRegister, OfVal
<1> HIDE DEF k
<1>3. Runs(k, Pin(k, RegVal(r)))
  BY <1>1, RunsMarks DEF Runs
<1> QED
  BY <1>1, <1>2, <1>3, RunsTrans

(* Negate, Difference and Add as writes to the register of the result. *)
LEMMA NegateIs ==
  ASSUME NEW z, OfReg(z), Made(z.j)
  PROVE  LET t == Scratch(z.j)
             s == IF z.r = x.va.reg THEN Give(t, t.j.reg[z.r]) ELSE z
         IN  Negate(z) = InRegister(s.j, s.r, FlagsOf(0, s.j.reg[s.r]), Neg(s.j.reg[s.r]))
<1> DEFINE t == Scratch(z.j)
           s == IF z.r = x.va.reg THEN Give(t, t.j.reg[z.r]) ELSE z
           e == [s EXCEPT !.j.flags = FlagsOf(0, s.j.reg[s.r]), !.j.reg[s.r] = Neg(@)]
<1>1. Negate(z) = Pinned(e)
  BY DEF Negate
<1>2. OfReg(s)
  BY RunsScratch, RunsGive DEF Runs
<1> HIDE DEF s
<1>3. e.j = Written(s.j, s.r, FlagsOf(0, s.j.reg[s.r]), Neg(s.j.reg[s.r])) /\ e.r = s.r
  BY <1>2 DEF OfReg, Written
<1> HIDE DEF e
<1> QED
  BY <1>1, <1>3 DEF Pinned, InRegister, s

LEMMA DifferenceIs ==
  ASSUME NEW b, OfReg(b)
  PROVE  LET a == ToReg(b.j, x.va)
         IN  Difference(b) = InRegister(a.j, b.r, FlagsOf(a.j.reg[b.r], a.j.reg[a.r]),
                                        (a.j.reg[b.r] + Neg(a.j.reg[a.r])) % Word)
<1> DEFINE a == ToReg(b.j, x.va)
           k == [a.j EXCEPT !.flags = FlagsOf(a.j.reg[b.r], a.j.reg[a.r]),
                            !.reg[b.r] = (@ + Neg(a.j.reg[a.r])) % Word]
           e == [b EXCEPT !.j = k]
<1>1. Difference(b) = Pinned(e)
  BY DEF Difference
<1> HIDE DEF a
<1>2. k = Written(a.j, b.r, FlagsOf(a.j.reg[b.r], a.j.reg[a.r]), (a.j.reg[b.r] + Neg(a.j.reg[a.r])) % Word)
  BY DEF Written
<1> HIDE DEF k
<1>3. e.j = k /\ e.r = b.r
  BY DEF OfReg
<1> HIDE DEF e
<1> QED
  BY <1>1, <1>2, <1>3 DEF Pinned, InRegister, a

LEMMA AddIs ==
  ASSUME NEW j, Made(j)
  PROVE  LET b == ResultReg(j, InPlace(j) /\ ~x.b.dyn)
         IN  Add(j) = InRegister(b.j, b.r, FlagsOfAdd(b.j.reg[b.r], b.j.reg[x.va.reg]),
                                 (b.j.reg[b.r] + b.j.reg[x.va.reg]) % Word)
<1> DEFINE ip == InPlace(j) /\ ~x.b.dyn
           b == ResultReg(j, ip)
           f == FlagsOfAdd(b.j.reg[b.r], b.j.reg[x.va.reg])
           e == [b EXCEPT !.j.flags = f, !.j.reg[b.r] = (@ + b.j.reg[x.va.reg]) % Word]
<1>1. Add(j) = Pinned(e)
  BY DEF Add
<1>2. ip \in BOOLEAN
  BY DEF InPlace
<1>3. OfReg(b)
  <2> HIDE DEF ip
  <2> QED
    BY <1>2, RunsResultReg
<1> HIDE DEF b
<1>4. e.j = Written(b.j, b.r, f, (b.j.reg[b.r] + b.j.reg[x.va.reg]) % Word) /\ e.r = b.r
  BY <1>3 DEF OfReg, Written
<1> HIDE DEF e
<1> QED
  BY <1>1, <1>4 DEF Pinned, InRegister, b

LEMMA RunsNegate ==
  ASSUME NEW z, OfReg(z), Made(z.j)
  PROVE  OfVal(Negate(z)) /\ Runs(z.j, Negate(z).j)
<1> DEFINE t == Scratch(z.j)
           s == IF z.r = x.va.reg THEN Give(t, t.j.reg[z.r]) ELSE z
           p == InRegister(s.j, s.r, FlagsOf(0, s.j.reg[s.r]), Neg(s.j.reg[s.r]))
<1>1. Negate(z) = p
  BY NegateIs
<1>2. Runs(z.j, s.j)
  <2>1. OfReg(t) /\ Runs(z.j, t.j) /\ Runs(z.j, z.j)
    BY RunsScratch, RunsMarks
  <2> HIDE DEF t
  <2>2. Runs(t.j, Give(t, t.j.reg[z.r]).j)
    BY <2>1, RunsGive DEF Runs
  <2> QED
    BY <2>1, <2>2, RunsTrans
<1> HIDE DEF s
<1>3. OfVal(p) /\ Runs(s.j, p.j)
  BY <1>2, RunsInRegister DEF Runs
<1> HIDE DEF p
<1> QED
  BY <1>1, <1>2, <1>3, RunsTrans

LEMMA RunsDifference ==
  ASSUME NEW b, OfReg(b), Made(b.j)
  PROVE  OfVal(Difference(b)) /\ Runs(b.j, Difference(b).j)
<1> DEFINE a == ToReg(b.j, x.va)
           p == InRegister(a.j, b.r, FlagsOf(a.j.reg[b.r], a.j.reg[a.r]),
                           (a.j.reg[b.r] + Neg(a.j.reg[a.r])) % Word)
<1>1. Difference(b) = p
  BY DifferenceIs
<1>2. Runs(b.j, a.j)
  BY RunsToReg
<1> HIDE DEF a
<1>3. OfVal(p) /\ Runs(a.j, p.j)
  BY <1>2, RunsInRegister DEF Runs
<1> HIDE DEF p
<1> QED
  BY <1>1, <1>2, <1>3, RunsTrans

LEMMA RunsAdd ==
  ASSUME NEW j, Made(j)
  PROVE  OfVal(Add(j)) /\ Runs(j, Add(j).j)
<1> DEFINE ip == InPlace(j) /\ ~x.b.dyn
           b == ResultReg(j, ip)
           p == InRegister(b.j, b.r, FlagsOfAdd(b.j.reg[b.r], b.j.reg[x.va.reg]),
                           (b.j.reg[b.r] + b.j.reg[x.va.reg]) % Word)
<1>1. Add(j) = p
  BY AddIs
<1>2. ip \in BOOLEAN
  BY DEF InPlace
<1> HIDE DEF ip
<1>3. Runs(j, b.j)
  BY <1>2, RunsResultReg
<1> HIDE DEF b
<1>4. OfVal(p) /\ Runs(b.j, p.j)
  BY <1>3, RunsInRegister DEF Runs
<1> HIDE DEF p
<1> QED
  BY <1>1, <1>3, <1>4, RunsTrans

LEMMA RunsSubtract ==
  ASSUME NEW j, Made(j)
  PROVE  OfVal(Subtract(j)) /\ Runs(j, Subtract(j).j)
<1>1. CASE IsZero(x.vb)
  <2> DEFINE z == ToReg(j, x.va)
  <2>1. Subtract(j) = Negate(z)
    BY <1>1 DEF Subtract
  <2>2. OfReg(z) /\ Runs(j, z.j)
    BY RunsToReg
  <2> HIDE DEF z
  <2>3. OfVal(Negate(z)) /\ Runs(z.j, Negate(z).j)
    BY <2>2, RunsNegate DEF Runs
  <2> QED
    BY <2>1, <2>2, <2>3, RunsTrans
<1>2. CASE ~IsZero(x.vb)
  <2> DEFINE b == IF x.vb.kind = "neg" THEN ToReg(j, x.vb) ELSE ResultReg(j, InPlace(j))
  <2>1. Subtract(j) = Difference(b)
    BY <1>2 DEF Subtract
  <2>2. OfReg(b) /\ Runs(j, b.j)
    <3>1. InPlace(j) \in BOOLEAN
      BY DEF InPlace
    <3> QED
      BY <3>1, RunsToReg, RunsResultReg
  <2> HIDE DEF b
  <2>3. OfVal(Difference(b)) /\ Runs(b.j, Difference(b).j)
    BY <2>2, RunsDifference DEF Runs
  <2> QED
    BY <2>1, <2>2, <2>3, RunsTrans
<1> QED
  BY <1>1, <1>2

LEMMA RunsKeepB ==
  ASSUME NEW j, Made(j)
  PROVE  OfVal(KeepB(j)) /\ Runs(j, KeepB(j).j)
<1> DEFINE t == ToReg(j, x.vb)
           k == [t.j EXCEPT !.flags = FlagsOf(t.j.reg[t.r], 0)]
<1>1. KeepB(j) = [j |-> IF Branches THEN k ELSE j, v |-> x.vb]
  BY DEF KeepB
<1>2. Runs(j, j) /\ Runs(j, t.j)
  BY RunsMarks, RunsToReg
<1> HIDE DEF t
<1>3. Runs(t.j, k)
  BY <1>2, RunsMarks DEF Runs
<1> HIDE DEF k
<1>4. Runs(j, k)
  BY <1>2, <1>3, RunsTrans
<1>5. OfVal(KeepB(j))
  BY <1>1 DEF OfVal
<1> QED
  BY <1>1, <1>2, <1>4, <1>5

LEMMA RunsResult ==
  ASSUME NEW j, Made(j)
  PROVE  OfVal(Result(j)) /\ Runs(j, Result(j).j)
<1>1. Runs(j, j)
  BY RunsMarks
<1>2. \A v : OfVal([j |-> j, v |-> v]) /\ [j |-> j, v |-> v].j = j
  BY DEF OfVal
<1>3. OfVal(KeepB(j)) /\ Runs(j, KeepB(j).j) /\ OfVal(Add(j)) /\ Runs(j, Add(j).j)
      /\ OfVal(Subtract(j)) /\ Runs(j, Subtract(j).j)
  BY RunsKeepB, RunsAdd, RunsSubtract
<1> QED
  BY <1>1, <1>2, <1>3 DEF Result

(* A register that may take the result: nothing stands in it but B's own     *)
(* word, and it has neither the store's address nor the target.              *)
Spot(j, b) ==
  /\ OfReg(b) /\ Keeps(j, b.j, GuestView, {})
  /\ b.r \in Regs /\ b.r \in b.j.pinned
  /\ \A w \in CWords : \A v : Names(b.j, w, v) /\ InReg(v) /\ v.reg = b.r => ~x.b.dyn /\ w = x.b.val
  /\ x.b.dyn => b.r # x.rb
  /\ x.c.dyn /\ ~OwnC => b.r # x.rc

LEMMA SpotFresh ==
  ASSUME NEW j, Set(j), NEW b, Fresh(j, b, GuestView)
  PROVE  Spot(j, b)
<1>1. /\ OfReg(b) /\ Keeps(j, b.j, GuestView, {}) /\ b.r \in Regs /\ b.r \notin j.pinned
      /\ b.r \in b.j.pinned /\ Bare(b.j, b.r)
  BY DEF Fresh, Tight
<1>2. x.b.dyn => b.r # x.rb
  BY <1>1 DEF Set, StoreChecked
<1>3. x.c.dyn /\ ~OwnC => b.r # x.rc
  BY <1>1 DEF Set, OperandsRead, TargetRead
<1> QED
  BY <1>1, <1>2, <1>3 DEF Spot, Bare

LEMMA SpotInPlace ==
  ASSUME NEW j, Set(j), ~Same, InPlace(j)
  PROVE  Spot(j, [j |-> j, r |-> x.vb.reg]) /\ j.reg[x.vb.reg] = GuestB
<1> DEFINE r == x.vb.reg
           b == [j |-> j, r |-> r]
<1>1. IsCval(x.vb) /\ x.vb.kind = "reg" /\ r \in Regs /\ r \in j.pinned /\ j.reg[r] = GuestB
  BY OperandsAre, CvalCases, ValueOfIs DEF InPlace
<1>2. ~Aliased(j, r) /\ (j.regs[r] = None \/ (~x.b.dyn /\ j.regs[r] = x.b.val))
  BY DEF InPlace
<1>3. Fits(j, GuestView)
  BY ReadyIs DEF Set
<1>4. ASSUME NEW w \in CWords, NEW v, Names(j, w, v), InReg(v), v.reg = r
      PROVE  ~x.b.dyn /\ w = x.b.val /\ v = RegVal(r)
  <2>1. ~(\E i \in 1 .. NCONST : j.consts[i].addr = w /\ v = ConstVal(j.consts[i].val))
    BY <1>4, CvalIs
  <2>2. ~(\E i \in 1 .. NALIAS :
            /\ j.aliases[i].addr = w
            /\ v = IF j.aliases[i].neg THEN NegVal(j.aliases[i].reg) ELSE RegVal(j.aliases[i].reg))
    <3>1. ASSUME NEW i \in 1 .. NALIAS, j.aliases[i].addr = w,
                 v = IF j.aliases[i].neg THEN NegVal(j.aliases[i].reg) ELSE RegVal(j.aliases[i].reg)
          PROVE  FALSE
      <4>1. v.reg = j.aliases[i].reg
        BY <3>1, CvalIs
      <4> QED
        BY <1>2, <1>4, <4>1 DEF Aliased
    <3> QED
      BY <3>1
  <2>3. PICK q \in Regs : j.regs[q] = w /\ v = RegVal(q)
    BY <1>4, <2>1, <2>2 DEF Names
  <2>4. q = r
    BY <1>4, <2>3, CvalIs
  <2> QED
    BY <1>2, <2>3, <2>4, NoneIs
<1>5. Keeps(j, j, GuestView, {})
  BY <1>3, SelfTight DEF Tight
<1>6. x.b.dyn => r # x.rb
  BY DEF Set, OperandsRead
<1>7. x.c.dyn /\ ~OwnC => r # x.rc
  <2>1. ASSUME x.c.dyn, ~OwnC, x.rc = r PROVE FALSE
    <3>1. x.b.val # x.c.word /\ x.c.word \in CWords /\ Names(j, x.c.word, RegVal(r))
      BY <2>1 DEF Set, OperandsRead, TargetRead
    <3> QED
      BY <1>4, <3>1, CvalIs
  <2> QED
    BY <2>1
<1>8. OfReg(b) /\ b.j = j /\ b.r = r
  BY DEF OfReg
<1> HIDE DEF b, r
<1>9. Spot(j, b)
  BY <1>1, <1>4, <1>5, <1>6, <1>7, <1>8 DEF Spot
<1> QED
  BY <1>1, <1>9 DEF b, r

LEMMA ResultRegIs ==
  ASSUME NEW j, Set(j), ~Same, NEW inplace \in BOOLEAN, inplace => InPlace(j),
         ~ResultReg(j, inplace).j.out
  PROVE  Spot(j, ResultReg(j, inplace)) /\ ResultReg(j, inplace).j.reg[ResultReg(j, inplace).r] = GuestB
<1>1. CASE inplace
  <2>1. ResultReg(j, inplace) = [j |-> j, r |-> x.vb.reg]
    BY <1>1 DEF ResultReg
  <2> DEFINE b == [j |-> j, r |-> x.vb.reg]
  <2>2. Spot(j, b) /\ j.reg[x.vb.reg] = GuestB
    BY <1>1, SpotInPlace
  <2>3. b.j = j /\ b.r = x.vb.reg
    OBVIOUS
  <2> HIDE DEF b
  <2> QED
    BY <2>1, <2>2, <2>3 DEF b
<1>2. CASE ~inplace
  <2> DEFINE s == Scratch(j)
             g == Give(s, ValueOf(s.j, x.vb))
  <2>1. ResultReg(j, inplace) = g
    BY <1>2 DEF ResultReg
  <2>2. Fits(j, GuestView) /\ Made(j)
    BY ReadyIs DEF Set
  <2>3. OfReg(s) /\ Runs(j, s.j)
    BY <2>2, RunsScratch
  <2>4. Runs(s.j, g.j)
    BY <2>3, RunsGive DEF Runs
  <2>5. ~s.j.out
    BY <2>1, <2>4 DEF Runs
  <2>6. Fresh(j, s, GuestView)
    BY <2>2, <2>5, ScratchIs
  <2> HIDE DEF s
  <2>7. ValueOf(s.j, x.vb) = GuestB /\ GuestB \in Value
    <3>1. Keeps(j, s.j, GuestView, {})
      BY <2>6 DEF Fresh, Tight
    <3> QED
      BY <3>1, OperandsAre, SameValue
  <2>8. Fresh(j, g, GuestView) /\ g.j.reg[g.r] = GuestB
    BY <2>6, <2>7, GiveFresh
  <2> HIDE DEF g
  <2> QED
    BY <2>1, <2>8, SpotFresh
<1> QED
  BY <1>1, <1>2

(* The register stays such while others are taken. *)
LEMMA SpotKeeps ==
  ASSUME NEW j, NEW b, Spot(j, b), NEW k, Keeps(b.j, k, GuestView, {})
  PROVE  Spot(j, [j |-> k, r |-> b.r]) /\ k.reg[b.r] = b.j.reg[b.r]
<1> DEFINE c == [j |-> k, r |-> b.r]
<1>1. OfReg(c) /\ c.j = k /\ c.r = b.r
  BY DEF OfReg
<1> HIDE DEF c
<1>2. Keeps(j, k, GuestView, {})
  BY KeepsTrans DEF Spot
<1>3. b.r \in b.j.pinned /\ Stays(b.j, k, GuestView, {})
  BY DEF Spot, Keeps
<1>4. b.r \in k.pinned /\ k.reg[b.r] = b.j.reg[b.r]
  BY <1>3 DEF Stays, Spot
<1>5. ASSUME NEW w \in CWords, NEW v, Names(k, w, v), InReg(v), v.reg = b.r
      PROVE  ~x.b.dyn /\ w = x.b.val
  <2>1. Names(b.j, w, v)
    BY <1>3, <1>5 DEF Stays
  <2> QED
    BY <1>5, <2>1 DEF Spot
<1>6. Spot(j, c)
  BY <1>1, <1>2, <1>4, <1>5 DEF Spot
<1> QED
  BY <1>4, <1>6 DEF c

(* A register was written that only a's name stands for. *)
Wrote(j, k, K, a, r, f, w) ==
  /\ Typed(k) /\ Loose(k, K, a) /\ (a \notin CWords => Fits(k, K))
  /\ k.reg[r] = w /\ \A q \in Regs : q # r => k.reg[q] = j.reg[q]
  /\ k.flags = f /\ k.pend = j.pend /\ k.mem = j.mem /\ k.live = j.live
  /\ k.pinned = j.pinned

LEMMA WrittenIs ==
  ASSUME NEW j, NEW K, Fits(j, K), NEW r \in Regs, NEW w \in Value, NEW f, NEW a,
         \A p \in CWords : \A v : Names(j, p, v) /\ InReg(v) /\ v.reg = r => p = a
  PROVE  Wrote(j, Written(j, r, f, w), K, a, r, f, w)
<1> DEFINE k == Written(j, r, f, w)
<1>1. Typed(j) /\ DOMAIN j.reg = Regs /\ {"flags", "reg"} \subseteq DOMAIN j
  BY DEF Fits, Typed
<1>2. /\ DOMAIN k = DOMAIN j /\ k.regs = j.regs /\ k.lru = j.lru /\ k.pinned = j.pinned
      /\ k.consts = j.consts /\ k.cnext = j.cnext /\ k.aliases = j.aliases /\ k.anext = j.anext
      /\ k.pend = j.pend /\ k.live = j.live /\ k.out = j.out /\ k.mem = j.mem
      /\ k.flags = f /\ k.reg = [j.reg EXCEPT ![r] = w]
  BY <1>1 DEF Written
<1> HIDE DEF k
<1>3. k.reg \in [Regs -> Value] /\ k.reg[r] = w /\ \A q \in Regs : q # r => k.reg[q] = j.reg[q]
  BY <1>1, <1>2 DEF Typed
<1>4. Typed(k)
  BY <1>1, <1>2, <1>3 DEF Typed
<1>5. \A p, v : Names(k, p, v) <=> Names(j, p, v)
  BY <1>2 DEF Names
<1>6. ASSUME NEW p \in CWords, NEW v, Names(k, p, v), p # a PROVE ValueOf(k, v) = K[p]
  <2>1. Names(j, p, v) /\ IsCval(v)
    BY <1>1, <1>5, <1>6, NamesType
  <2>2. ~(InReg(v) /\ v.reg = r) /\ ValueOf(j, v) = K[p]
    BY <1>6, <2>1 DEF Fits
  <2>3. ValueOf(k, v) = ValueOf(j, v)
    BY <1>3, <2>1, <2>2, CvalCases, ValueOfIs
  <2> QED
    BY <2>2, <2>3
<1>7. j.pend # None => \E v : Names(k, k.pend, v)
  BY <1>2, <1>5 DEF Fits
<1>8. Loose(k, K, a)
  BY <1>2, <1>4, <1>6, <1>7 DEF Loose
<1>9. a \notin CWords => Fits(k, K)
  BY <1>2, <1>4, <1>6, <1>7 DEF Fits
<1>10. Wrote(j, k, K, a, r, f, w)
  BY <1>2, <1>3, <1>4, <1>8, <1>9 DEF Wrote
<1> QED
  BY <1>10 DEF k

(* The result is at hand: the cache is right but, perhaps, for the store's   *)
(* own word.                                                                 *)
Resulted(j, s) ==
  /\ IsCval(s.v) /\ ValueOf(s.j, s.v) = GuestValue /\ (InReg(s.v) => s.v.reg \in s.j.pinned)
  /\ ~s.j.live
  /\ Branches /\ Taken = "flags" => s.j.flags = FlagsOf(GuestB, GuestA)
  /\ x.b.dyn => x.rb \in s.j.pinned /\ s.j.reg[x.rb] = FieldValue(x.b)
  /\ x.c.dyn /\ ~OwnC => x.rc \in s.j.pinned /\ s.j.reg[x.rc] = FieldValue(x.c)
  /\ \/ Fits(s.j, GuestView)
     \/ Pendable /\ Loose(s.j, GuestView, x.b.val) /\ s.j.pend \in {None, x.b.val}
  /\ \/ s.j.pend = j.pend /\ s.j.mem = j.mem
     \/ s.j.pend = None /\ s.j.mem = gmem

LEMMA TargetIs ==
  ASSUME NEW j, Set(j)
  PROVE  /\ FieldValue(x.b) \in Addresses /\ (~x.b.dyn => x.b.val = FieldValue(x.b))
         /\ Pendable <=> ~x.b.dyn /\ x.b.val \in CWords
         /\ x.b.dyn \in BOOLEAN /\ x.c.dyn \in BOOLEAN
<1>1. FieldValue(x.b) \in Addresses /\ (~x.b.dyn => x.b.val = FieldValue(x.b)) /\ x.b.dyn \in BOOLEAN
      /\ x.c.dyn \in BOOLEAN
  BY DEF Set, InsnOk, FieldOk
<1> QED
  BY <1>1, CacheableIs DEF Pendable

LEMMA GuestValueIs ==
  ASSUME GuestA \in Value, GuestB \in Value
  PROVE  GuestValue \in Value
  BY NegIs, SumType DEF GuestValue

(* The result without a register of its own. *)
LEMMA ResultedKeeps ==
  ASSUME NEW j, Set(j), NEW s, Keeps(j, s.j, GuestView, {}),
         IsCval(s.v), ValueOf(s.j, s.v) = GuestValue, InReg(s.v) => s.v.reg \in s.j.pinned,
         Branches /\ Taken = "flags" => s.j.flags = FlagsOf(GuestB, GuestA)
  PROVE  Resulted(j, s)
<1>1. Set(s.j)
  BY SetKeeps
<1>2. Ready(s.j) /\ StoreChecked(s.j) /\ TargetRead(s.j) /\ Whole(j, GuestView) = gmem
  BY <1>1, ReadyIs DEF Set, OperandsRead
<1>3. Fits(s.j, GuestView) /\ ~s.j.live
  BY <1>2, ReadyIs
<1>4. \/ s.j.pend = j.pend /\ s.j.mem = j.mem
      \/ s.j.pend = None /\ s.j.mem = gmem
  BY <1>2 DEF Keeps
<1> QED
  BY <1>2, <1>3, <1>4 DEF Resulted, StoreChecked, TargetRead

LEMMA LooseAlike ==
  ASSUME NEW j, NEW k, NEW K, NEW a, Loose(j, K, a), Alike(j, k)
  PROVE  Loose(k, K, a)
<1>1. Typed(k)
  BY DEF Loose, Typed, Alike
<1>2. k.pend = j.pend
  BY DEF Alike
<1> QED
  BY <1>1, <1>2, AlikeIs DEF Loose

LEMMA InRegisterIs ==
  ASSUME NEW j, Set(j), ~Same, Pendable => j.pend \in {None, x.b.val}, NEW b, Spot(j, b), NEW f,
         Branches /\ Taken = "flags" => f = FlagsOf(GuestB, GuestA)
  PROVE  Resulted(j, InRegister(b.j, b.r, f, GuestValue))
<1> DEFINE K == GuestView
           a == IF x.b.dyn THEN None ELSE x.b.val
           w == Written(b.j, b.r, f, GuestValue)
           k == Pin(w, RegVal(b.r))
           p == InRegister(b.j, b.r, f, GuestValue)
<1>1. p.j = k /\ p.v = RegVal(b.r)
  BY DEF InRegister
<1>2. GuestValue \in Value
  BY OperandsAre, GuestValueIs
<1>3. /\ Keeps(j, b.j, K, {}) /\ b.r \in Regs /\ b.r \in b.j.pinned
      /\ \A c \in CWords : \A v : Names(b.j, c, v) /\ InReg(v) /\ v.reg = b.r => c = a
      /\ x.b.dyn => b.r # x.rb
      /\ x.c.dyn /\ ~OwnC => b.r # x.rc
  BY DEF Spot
<1>4. Set(b.j)
  BY <1>3, SetKeeps
<1>5. Fits(b.j, K) /\ ~b.j.live /\ Ready(b.j)
  BY <1>4, ReadyIs DEF Set
<1> HIDE DEF K, a
<1>16. Wrote(b.j, w, K, a, b.r, f, GuestValue)
  BY <1>2, <1>3, <1>5, WrittenIs
<1> HIDE DEF w
<1>6. /\ Typed(w) /\ Loose(w, K, a) /\ (a \notin CWords => Fits(w, K))
      /\ w.reg[b.r] = GuestValue /\ \A q \in Regs : q # b.r => w.reg[q] = b.j.reg[q]
      /\ w.flags = f /\ w.pend = b.j.pend /\ w.mem = b.j.mem /\ w.live = b.j.live
      /\ w.pinned = b.j.pinned
  BY <1>16 DEF Wrote
<1>17. InReg(RegVal(b.r)) /\ RegVal(b.r).reg = b.r
  BY CvalIs
<1>7. Alike(w, k) /\ k.pinned = w.pinned \cup {b.r}
  BY <1>3, <1>6, <1>17, MarksOf
<1> HIDE DEF k
<1>8. /\ k.reg = w.reg /\ k.flags = f /\ k.pend = b.j.pend /\ k.mem = b.j.mem /\ ~k.live
      /\ Loose(k, K, a) /\ (a \notin CWords => Fits(k, K))
  BY <1>5, <1>6, <1>7, LooseAlike, AlikeFits DEF Alike
<1>9. \/ k.pend = j.pend /\ k.mem = j.mem
      \/ k.pend = None /\ k.mem = gmem
  <2>1. Whole(j, K) = gmem
    BY ReadyIs DEF Set, K
  <2> QED
    BY <1>3, <1>8, <2>1 DEF Keeps
<1>10. Fits(k, K) \/ (Pendable /\ Loose(k, K, x.b.val) /\ k.pend \in {None, x.b.val})
  <2>1. CASE x.b.dyn
    BY <1>8, <2>1, NoneIs DEF a
  <2>2. CASE ~x.b.dyn
    <3>1. a = x.b.val
      BY <2>2 DEF a
    <3>2. CASE Pendable
      BY <1>8, <1>9, <3>1, <3>2
    <3>3. CASE ~Pendable
      BY <1>8, <2>2, <3>1, <3>3, TargetIs
    <3> QED
      BY <3>2, <3>3
  <2> QED
    BY <2>1, <2>2
<1>11. /\ IsCval(p.v) /\ ValueOf(p.j, p.v) = GuestValue /\ p.v.reg \in p.j.pinned
  BY <1>1, <1>3, <1>6, <1>7, <1>8, CvalIs DEF IsCval
<1>12. x.b.dyn => x.rb \in k.pinned /\ k.reg[x.rb] = FieldValue(x.b)
  <2>1. ASSUME x.b.dyn PROVE x.rb \in k.pinned /\ k.reg[x.rb] = FieldValue(x.b)
    <3>1. x.rb \in b.j.pinned /\ b.j.reg[x.rb] = FieldValue(x.b)
      BY <1>4, <2>1 DEF Set, StoreChecked
    <3>2. x.rb \in Regs
      BY <1>5, <3>1 DEF Fits, Typed
    <3> QED
      BY <1>3, <1>6, <1>7, <1>8, <2>1, <3>1, <3>2
  <2> QED
    BY <2>1
<1>13. x.c.dyn /\ ~OwnC => x.rc \in k.pinned /\ k.reg[x.rc] = FieldValue(x.c)
  <2>1. ASSUME x.c.dyn, ~OwnC PROVE x.rc \in k.pinned /\ k.reg[x.rc] = FieldValue(x.c)
    <3>1. x.rc \in b.j.pinned /\ b.j.reg[x.rc] = FieldValue(x.c)
      BY <1>4, <2>1 DEF Set, OperandsRead, TargetRead
    <3>2. x.rc \in Regs
      BY <1>5, <3>1 DEF Fits, Typed
    <3> QED
      BY <1>3, <1>6, <1>7, <1>8, <2>1, <3>1, <3>2
  <2> QED
    BY <2>1
<1> HIDE DEF p
<1>14. Resulted(j, p)
  BY <1>1, <1>8, <1>9, <1>10, <1>11, <1>12, <1>13 DEF Resulted, K
<1> QED
  BY <1>14 DEF p

LEMMA KeepBIs ==
  ASSUME NEW j, Set(j), Unchanged, ~KeepB(j).j.out
  PROVE  Resulted(j, KeepB(j))
<1> DEFINE K == GuestView
           t == ToReg(j, x.vb)
           f == FlagsOf(t.j.reg[t.r], 0)
           k == [t.j EXCEPT !.flags = f]
           s == KeepB(j)
<1>1. s.j = (IF Branches THEN k ELSE j) /\ s.v = x.vb
  BY DEF KeepB
<1>2. ~Same /\ IsZero(x.va)
  BY DEF Unchanged
<1>3. /\ IsCval(x.vb) /\ ValueOf(j, x.vb) = GuestB /\ GuestB \in Value
      /\ InReg(x.vb) => x.vb.reg \in j.pinned
      /\ ValueOf(j, x.va) = GuestA
  BY <1>2, OperandsAre
<1>4. GuestA = 0
  BY <1>2, <1>3, CvalIs DEF IsZero
<1>5. GuestValue = GuestB
  BY <1>3, <1>4, NegIs DEF GuestValue
<1>6. Fits(j, K) /\ Made(j) /\ ~j.live
  BY ReadyIs DEF Set
<1> HIDE DEF K
<1>7. CASE ~Branches
  <2>1. s.j = j
    BY <1>1, <1>7
  <2>2. Keeps(j, s.j, K, {})
    BY <1>6, <2>1, SelfTight DEF Tight
  <2> HIDE DEF s
  <2>3. Resulted(j, s)
    BY <1>1, <1>3, <1>5, <1>7, <2>1, <2>2, ResultedKeeps DEF K
  <2> QED
    BY <2>3 DEF s
<1>8. CASE Branches
  <2>1. s.j = k
    BY <1>1, <1>8
  <2>2. Runs(j, t.j)
    BY <1>6, RunsToReg
  <2>3. k.out = t.j.out
    BY <2>2 DEF Runs, Made
  <2>4. ~t.j.out
    BY <2>1, <2>3
  <2>5. Loads(j, t, K, x.vb)
    BY <1>3, <1>6, <2>4, ToRegIs
  <2> HIDE DEF t
  <2>6. Tight(j, t.j, K) /\ t.j.reg[t.r] = GuestB
    BY <1>3, <2>5 DEF Loads
  <2>7. Fits(t.j, K) /\ ~t.j.live
    BY <1>6, <2>6, TightIs
  <2>8. /\ k.flags = f /\ k.reg = t.j.reg /\ k.pinned = t.j.pinned
        /\ \A v : ValueOf(k, v) = ValueOf(t.j, v)
        /\ Keeps(j, k, K, {})
    BY <2>6, <2>7, PutFlags DEF Tight
  <2>9. f = FlagsOf(GuestB, GuestA)
    BY <1>4, <2>6
  <2> HIDE DEF k, f
  <2>10. ValueOf(k, x.vb) = GuestB
    BY <1>3, <2>8, SameValue
  <2>11. InReg(x.vb) => x.vb.reg \in k.pinned
    BY <1>3, <2>6, <2>8, TightIs
  <2> HIDE DEF s
  <2>12. Resulted(j, s)
    BY <1>1, <1>3, <1>5, <2>1, <2>8, <2>9, <2>10, <2>11, ResultedKeeps DEF K
  <2> QED
    BY <2>12 DEF s
<1> QED
  BY <1>7, <1>8

LEMMA RenamedIs ==
  ASSUME NEW j, Set(j), ~Same, Renames
  PROVE  Resulted(j, [j |-> j, v |-> IF x.va.kind = "reg" THEN NegVal(x.va.reg) ELSE RegVal(x.va.reg)])
<1> DEFINE r == x.va.reg
           v == IF x.va.kind = "reg" THEN NegVal(r) ELSE RegVal(r)
           s == [j |-> j, v |-> v]
<1>1. /\ IsCval(x.va) /\ ValueOf(j, x.va) = GuestA /\ GuestA \in Value /\ r \in j.pinned /\ r \in Regs
      /\ ValueOf(j, x.vb) = GuestB
  BY OperandsAre DEF Renames
<1>2. GuestB = 0
  BY <1>1, CvalIs DEF Renames, IsZero
<1>3. GuestValue = Neg(GuestA)
  BY <1>1, <1>2, NegIs DEF GuestValue
<1>4. Fits(j, GuestView) /\ j.reg[r] \in Value
  BY <1>1, ReadyIs DEF Set, Typed
<1>5. IsCval(v) /\ ValueOf(j, v) = GuestValue /\ v.reg = r
  <2>1. CASE x.va.kind = "reg"
    <3>1. j.reg[r] = GuestA
      BY <1>1, <2>1, ValueOfIs
    <3> QED
      BY <1>1, <1>3, <2>1, <3>1, CvalIs DEF IsCval
  <2>2. CASE x.va.kind # "reg"
    <3>1. x.va.kind = "neg"
      BY <1>1, <2>2 DEF Renames, InReg
    <3>2. GuestA = Neg(j.reg[r])
      BY <1>1, <3>1, ValueOfIs
    <3>3. j.reg[r] = Neg(GuestA)
      BY <1>4, <3>2, NegIs
    <3> QED
      BY <1>1, <1>3, <2>2, <3>3, CvalIs DEF IsCval
  <2> QED
    BY <2>1, <2>2
<1>6. Keeps(j, j, GuestView, {})
  BY <1>4, SelfTight DEF Tight
<1>7. s.j = j /\ s.v = v
  OBVIOUS
<1>8. ~Branches
  BY DEF Renames
<1> HIDE DEF v, s
<1>9. Resulted(j, s)
  BY <1>1, <1>5, <1>6, <1>7, <1>8, ResultedKeeps
<1> QED
  BY <1>9 DEF s, v

LEMMA NegateResult ==
  ASSUME NEW j, Set(j), ~Same, Pendable => j.pend \in {None, x.b.val}, IsZero(x.vb),
         ~Negate(ToReg(j, x.va)).j.out
  PROVE  Resulted(j, Negate(ToReg(j, x.va)))
<1> DEFINE z == ToReg(j, x.va)
           t == Scratch(z.j)
           s == IF z.r = x.va.reg THEN Give(t, t.j.reg[z.r]) ELSE z
<1>1. Fits(j, GuestView) /\ Made(j)
  BY ReadyIs DEF Set
<1>2. OfReg(z) /\ Made(z.j)
  BY <1>1, RunsToReg DEF Runs
<1>3. Negate(z) = InRegister(s.j, s.r, FlagsOf(0, s.j.reg[s.r]), Neg(s.j.reg[s.r]))
  BY <1>2, NegateIs
<1>4. ~z.j.out
  BY <1>2, RunsNegate DEF Runs
<1>5. /\ IsCval(x.va) /\ ValueOf(j, x.va) = GuestA /\ GuestA \in Value
      /\ InReg(x.va) => x.va.reg \in j.pinned /\ x.va.reg \in Regs
      /\ ValueOf(j, x.vb) = GuestB
  BY OperandsAre
<1>6. Loads(j, z, GuestView, x.va)
  BY <1>1, <1>4, <1>5, ToRegIs
<1>7. GuestB = 0
  BY <1>5, CvalIs DEF IsZero
<1>8. Spot(j, s) /\ s.j.reg[s.r] = GuestA
  <2>1. CASE z.r = x.va.reg
    <3>1. x.va.kind = "reg" /\ z.j = j
      <4>1. z.r \in Regs
        BY <1>6 DEF Loads
      <4>2. InReg(x.va)
        BY <1>5, <2>1, <4>1, CvalCases, NoneIs
      <4> QED
        BY <1>5, <1>6, <2>1, <4>2 DEF Loads, Fresh
    <3>2. z.r \in j.pinned /\ j.reg[z.r] = GuestA
      BY <1>5, <2>1, <3>1, CvalCases, ValueOfIs
    <3>3. OfReg(t) /\ Runs(z.j, t.j)
      BY <1>2, RunsScratch
    <3> HIDE DEF z, t
    <3> DEFINE g == Give(t, t.j.reg[z.r])
    <3>4. s = g
      BY <2>1
    <3>5. Runs(t.j, g.j)
      BY <3>3, RunsGive DEF Runs
    <3>6. ~t.j.out
      <4>1. OfVal(Negate(z)) /\ ~Negate(z).j.out
        BY <1>2, RunsNegate DEF z
      <4>2. Runs(g.j, Negate(z).j)
        BY <1>3, <3>4, <3>5, RunsInRegister DEF Runs
      <4> QED
        BY <3>5, <4>1, <4>2 DEF Runs
    <3>7. Fresh(j, t, GuestView)
      BY <1>1, <3>1, <3>6, ScratchIs DEF t
    <3>8. t.j.reg[z.r] = GuestA
      BY <3>2, <3>7 DEF Fresh, Tight, Keeps, Stays
    <3>9. Fresh(j, g, GuestView) /\ g.j.reg[g.r] = GuestA
      BY <1>5, <3>7, <3>8, GiveFresh
    <3> HIDE DEF g, s
    <3> QED
      BY <3>4, <3>9, SpotFresh
  <2>2. CASE z.r # x.va.reg
    <3>1. s = z
      BY <2>2
    <3> HIDE DEF z, s
    <3>2. Fresh(j, z, GuestView) /\ z.j.reg[z.r] = GuestA
      BY <1>5, <1>6, <2>2 DEF Loads
    <3> QED
      BY <3>1, <3>2, SpotFresh
  <2> QED
    BY <2>1, <2>2
<1>9. GuestValue = Neg(GuestA)
  BY <1>5, <1>7, NegIs DEF GuestValue
<1> HIDE DEF z, s
<1>10. Negate(z) = InRegister(s.j, s.r, FlagsOf(GuestB, GuestA), GuestValue)
  BY <1>3, <1>7, <1>8, <1>9
<1>11. Resulted(j, Negate(z))
  BY <1>8, <1>10, InRegisterIs
<1> QED
  BY <1>11 DEF z

LEMMA DifferenceResult ==
  ASSUME NEW j, Set(j), ~Same, Pendable => j.pend \in {None, x.b.val},
         NEW b, Spot(j, b), b.j.reg[b.r] = GuestB, ~Difference(b).j.out
  PROVE  Resulted(j, Difference(b))
<1> DEFINE a == ToReg(b.j, x.va)
           c == [j |-> a.j, r |-> b.r]
<1>1. OfReg(b) /\ Keeps(j, b.j, GuestView, {})
  BY DEF Spot
<1>2. Set(b.j)
  BY <1>1, SetKeeps
<1>3. Fits(b.j, GuestView) /\ Made(b.j)
  BY <1>2, ReadyIs DEF Set
<1>4. IsCval(x.va) /\ ValueOf(b.j, x.va) = GuestA
  BY <1>2, OperandsAre
<1>5. Difference(b) = InRegister(a.j, b.r, FlagsOf(a.j.reg[b.r], a.j.reg[a.r]),
                                 (a.j.reg[b.r] + Neg(a.j.reg[a.r])) % Word)
  BY <1>1, DifferenceIs
<1>6. Made(a.j)
  BY <1>3, RunsToReg DEF Runs
<1> HIDE DEF a
<1>7. ~a.j.out
  BY <1>5, <1>6, RunsInRegister DEF Runs
<1>8. Loads(b.j, a, GuestView, x.va)
  BY <1>3, <1>4, <1>7, ToRegIs DEF a
<1>9. Keeps(b.j, a.j, GuestView, {}) /\ a.j.reg[a.r] = GuestA
  BY <1>4, <1>8 DEF Loads, Tight
<1>10. Spot(j, c) /\ a.j.reg[b.r] = GuestB
  BY <1>9, SpotKeeps
<1>11. c.j = a.j /\ c.r = b.r
  OBVIOUS
<1>12. Difference(b) = InRegister(c.j, c.r, FlagsOf(GuestB, GuestA), GuestValue)
  BY <1>5, <1>9, <1>10 DEF GuestValue
<1> HIDE DEF c
<1> QED
  BY <1>10, <1>12, InRegisterIs

LEMMA AddResult ==
  ASSUME NEW j, Set(j), ~Same, Pendable => j.pend \in {None, x.b.val}, AddsInstead, ~Add(j).j.out
  PROVE  Resulted(j, Add(j))
<1> DEFINE inplace == InPlace(j) /\ ~x.b.dyn
           b == ResultReg(j, inplace)
<1>1. Made(j) /\ Fits(j, GuestView)
  BY ReadyIs DEF Set
<1>2. inplace \in BOOLEAN /\ (inplace => InPlace(j))
  OBVIOUS
<1>3. Add(j) = InRegister(b.j, b.r, FlagsOfAdd(b.j.reg[b.r], b.j.reg[x.va.reg]),
                          (b.j.reg[b.r] + b.j.reg[x.va.reg]) % Word)
  BY <1>1, AddIs
<1> HIDE DEF inplace
<1>4. Made(b.j)
  BY <1>1, <1>2, RunsResultReg DEF Runs
<1>5. ~b.j.out
  BY <1>3, <1>4, RunsInRegister DEF Runs
<1>6. Spot(j, b) /\ b.j.reg[b.r] = GuestB
  BY <1>2, <1>5, ResultRegIs
<1>7. /\ IsCval(x.va) /\ ValueOf(j, x.va) = GuestA /\ GuestA \in Value
      /\ x.va.kind = "neg" /\ x.va.reg \in j.pinned /\ x.va.reg \in Regs
  BY OperandsAre DEF AddsInstead, InReg
<1>8. j.reg[x.va.reg] = Neg(GuestA)
  <2>1. GuestA = Neg(j.reg[x.va.reg])
    BY <1>7, ValueOfIs
  <2>2. j.reg[x.va.reg] \in Value
    BY <1>1, <1>7 DEF Fits, Typed
  <2> QED
    BY <2>1, <2>2, NegIs
<1> HIDE DEF b
<1>9. b.j.reg[x.va.reg] = Neg(GuestA)
  BY <1>6, <1>7, <1>8 DEF Spot, Keeps, Stays
<1>10. ~Branches
  BY DEF AddsInstead
<1>11. Add(j) = InRegister(b.j, b.r, FlagsOfAdd(b.j.reg[b.r], b.j.reg[x.va.reg]), GuestValue)
  BY <1>3, <1>6, <1>9 DEF GuestValue
<1> QED
  BY <1>6, <1>10, <1>11, InRegisterIs

LEMMA SubtractResult ==
  ASSUME NEW j, Set(j), ~Same, Pendable => j.pend \in {None, x.b.val}, ~Subtract(j).j.out
  PROVE  Resulted(j, Subtract(j))
<1>1. CASE IsZero(x.vb)
  <2>1. Subtract(j) = Negate(ToReg(j, x.va))
    BY <1>1 DEF Subtract
  <2> QED
    BY <1>1, <2>1, NegateResult
<1>2. CASE ~IsZero(x.vb)
  <2> DEFINE b == IF x.vb.kind = "neg" THEN ToReg(j, x.vb) ELSE ResultReg(j, InPlace(j))
  <2>1. Subtract(j) = Difference(b)
    BY <1>2 DEF Subtract
  <2>2. Made(j) /\ Fits(j, GuestView)
    BY ReadyIs DEF Set
  <2>3. InPlace(j) \in BOOLEAN
    BY DEF InPlace
  <2>4. OfReg(b) /\ Made(b.j)
    BY <2>2, <2>3, RunsToReg, RunsResultReg DEF Runs
  <2>5. ~b.j.out
    BY <2>1, <2>4, RunsDifference DEF Runs
  <2>6. Spot(j, b) /\ b.j.reg[b.r] = GuestB
    <3>1. CASE x.vb.kind = "neg"
      <4> DEFINE t == ToReg(j, x.vb)
      <4>1. b = t
        BY <3>1
      <4>2. IsCval(x.vb) /\ ValueOf(j, x.vb) = GuestB
        BY OperandsAre
      <4>3. Loads(j, t, GuestView, x.vb)
        BY <2>2, <2>5, <4>1, <4>2, ToRegIs
      <4> HIDE DEF t
      <4>4. Fresh(j, t, GuestView) /\ t.j.reg[t.r] = GuestB
        BY <3>1, <4>2, <4>3 DEF Loads
      <4> HIDE DEF b
      <4> QED
        BY <4>1, <4>4, SpotFresh
    <3>2. CASE x.vb.kind # "neg"
      <4>1. b = ResultReg(j, InPlace(j))
        BY <3>2
      <4> HIDE DEF b
      <4> QED
        BY <2>3, <2>5, <4>1, ResultRegIs
    <3> QED
      BY <3>1, <3>2
  <2> HIDE DEF b
  <2> QED
    BY <2>1, <2>6, DifferenceResult
<1> QED
  BY <1>1, <1>2

LEMMA ResultIs ==
  ASSUME NEW j, Set(j), Pendable /\ ~Same /\ ~Unchanged => j.pend \in {None, x.b.val},
         ~Result(j).j.out
  PROVE  Resulted(j, Result(j))
<1>1. Fits(j, GuestView) /\ Made(j)
  BY ReadyIs DEF Set
<1>2. Keeps(j, j, GuestView, {})
  BY <1>1, SelfTight DEF Tight
<1>3. CASE Same
  <2> DEFINE s == [j |-> j, v |-> ConstVal(0)]
  <2>1. Result(j) = s
    BY <1>3 DEF Result
  <2>2. s.j = j /\ s.v = ConstVal(0)
    OBVIOUS
  <2>3. GuestA = GuestB /\ GuestB \in Value
    <3>1. FieldValue(x.a) = FieldValue(x.b) /\ FieldValue(x.b) \in Addresses
      BY <1>3 DEF Set, InsnOk, FieldOk, Same
    <3>2. gmem \in Memories
      BY ReadyIs DEF Set
    <3> QED
      BY <3>1, <3>2, RdType DEF GuestA, GuestB
  <2>4. GuestValue = 0 /\ 0 \in Value
    BY <2>3, NegIs DEF GuestValue
  <2>5. Taken # "flags"
    BY <1>3 DEF Taken
  <2> HIDE DEF s
  <2>6. IsCval(s.v) /\ ValueOf(s.j, s.v) = GuestValue /\ ~InReg(s.v)
    BY <2>2, <2>4, CvalIs DEF IsCval
  <2> QED
    BY <1>2, <2>1, <2>2, <2>5, <2>6, ResultedKeeps
<1>4. CASE ~Same /\ Consts
  <2> DEFINE w == (x.vb.val + Neg(x.va.val)) % Word
             s == [j |-> j, v |-> ConstVal(w)]
  <2>1. Result(j) = s
    BY <1>4 DEF Result
  <2>2. s.j = j /\ s.v = ConstVal(w)
    OBVIOUS
  <2>3. w = GuestValue /\ w \in Value
    <3>1. x.va.val = GuestA /\ x.vb.val = GuestB /\ GuestA \in Value /\ GuestB \in Value
      BY <1>4, OperandsAre, ValueOfIs DEF Consts
    <3> QED
      BY <3>1, NegIs, SumType DEF GuestValue
  <2>5. Taken # "flags"
    BY <1>4 DEF Taken
  <2> HIDE DEF s, w
  <2>6. IsCval(s.v) /\ ValueOf(s.j, s.v) = GuestValue /\ ~InReg(s.v)
    BY <2>2, <2>3, CvalIs DEF IsCval
  <2> QED
    BY <1>2, <2>1, <2>2, <2>5, <2>6, ResultedKeeps
<1>5. CASE ~Same /\ ~Consts /\ Unchanged
  <2>1. Result(j) = KeepB(j)
    BY <1>5 DEF Result
  <2> QED
    BY <1>5, <2>1, KeepBIs
<1>6. CASE ~Same /\ ~Consts /\ ~Unchanged
  <2>1. CASE Renames
    <3> DEFINE s == [j |-> j, v |-> IF x.va.kind = "reg" THEN NegVal(x.va.reg) ELSE RegVal(x.va.reg)]
    <3>1. Result(j) = s
      BY <1>6, <2>1 DEF Result
    <3> QED
      BY <1>6, <2>1, <3>1, RenamedIs
  <2>2. CASE ~Renames /\ AddsInstead
    <3>1. Result(j) = Add(j)
      BY <1>6, <2>2 DEF Result
    <3> QED
      BY <1>6, <2>2, <3>1, AddResult
  <2>3. CASE ~Renames /\ ~AddsInstead
    <3>1. Result(j) = Subtract(j)
      BY <1>6, <2>3 DEF Result
    <3> QED
      BY <1>6, <3>1, SubtractResult
  <2> QED
    BY <2>1, <2>2, <2>3
<1> QED
  BY <1>3, <1>4, <1>5, <1>6
-----------------------------------------------------------------------------
(* The store *)

(* The address of the store, as the machine has it. *)
Target(j) == IF x.b.dyn THEN j.reg[x.rb] ELSE x.b.val

LEMMA StoreNowIs ==
  ASSUME NEW s, OfVal(s)
  PROVE  LET t == ToReg(s.j, s.v)
         IN  /\ s.v.kind = "const" => /\ OfVal(StoreNow(s)) /\ StoreNow(s).v = s.v
                                      /\ StoreNow(s).j = StoreConst(s.j, s.v.val, x.b.dyn, Target(s.j))
             /\ s.v.kind # "const" => /\ OfVal(StoreNow(s)) /\ StoreNow(s).v = RegVal(t.r)
                                      /\ StoreNow(s).j = StoreReg(t.j, t.r, Target(t.j))
BY DEF StoreNow, Target, OfVal

LEMMA RunsStoreNow ==
  ASSUME NEW s, OfVal(s), Made(s.j)
  PROVE  OfVal(StoreNow(s)) /\ Runs(s.j, StoreNow(s).j)
<1> DEFINE t == ToReg(s.j, s.v)
<1>1. OfReg(t) /\ Runs(s.j, t.j)
  BY RunsToReg
<1> HIDE DEF t
<1>2. Runs(t.j, StoreReg(t.j, t.r, Target(t.j)))
  BY <1>1, RunsStoreReg DEF Runs
<1>3. Runs(s.j, StoreConst(s.j, s.v.val, x.b.dyn, Target(s.j)))
  BY RunsStoreConst
<1>4. CASE s.v.kind = "const"
  BY <1>3, <1>4, StoreNowIs
<1>5. CASE s.v.kind # "const"
  <2>1. OfVal(StoreNow(s)) /\ StoreNow(s).j = StoreReg(t.j, t.r, Target(t.j))
    BY <1>5, StoreNowIs DEF t
  <2> QED
    BY <1>1, <1>2, <2>1, RunsTrans
<1> QED
  BY <1>4, <1>5

LEMMA StoreResultIs ==
  ASSUME NEW s, OfVal(s)
  PROVE  /\ Unchanged => StoreResult(s) = s
         /\ ~Unchanged /\ Pendable =>
              /\ OfVal(StoreResult(s)) /\ StoreResult(s).v = s.v
              /\ StoreResult(s).j = IF s.j.pend # x.b.val THEN FlushPending(s.j) ELSE s.j
         /\ ~Unchanged /\ ~Pendable => StoreResult(s) = StoreNow([s EXCEPT !.j = FlushPending(@)])
BY DEF StoreResult, Hold, OfVal

LEMMA RunsStoreResult ==
  ASSUME NEW s, OfVal(s), Made(s.j)
  PROVE  OfVal(StoreResult(s)) /\ Runs(s.j, StoreResult(s).j)
<1>1. Runs(s.j, FlushPending(s.j)) /\ Runs(s.j, s.j)
  BY RunsFlushPending, RunsMarks
<1>2. CASE ~Unchanged /\ ~Pendable
  <2> DEFINE f == [s EXCEPT !.j = FlushPending(@)]
  <2>1. OfVal(f) /\ f.j = FlushPending(s.j)
    BY DEF OfVal
  <2> HIDE DEF f
  <2>2. OfVal(StoreNow(f)) /\ Runs(f.j, StoreNow(f).j)
    BY <1>1, <2>1, RunsStoreNow DEF Runs
  <2>3. StoreResult(s) = StoreNow(f)
    BY <1>2, StoreResultIs DEF f
  <2> QED
    BY <1>1, <2>1, <2>2, <2>3, RunsTrans
<1> QED
  BY <1>1, <1>2, StoreResultIs

(* The result is named for the store's word. *)
NamedFor(j, v, a) ==
  IF v.kind = "const" THEN SetConst(j, a, v.val)
  ELSE IF v.kind = "neg" THEN SetAlias(j, a, v.reg, TRUE)
  ELSE IF j.regs[v.reg] \in {None, a} THEN Bind(j, v.reg, a)
  ELSE SetAlias(j, a, v.reg, FALSE)

LEMMA CacheResultIs ==
  ASSUME NEW s
  PROVE  LET fb == x.b.val
             k == NamedFor(s.j, s.v, fb)
         IN  CacheResult(s) =
               IF x.b.dyn THEN IF Unchanged THEN s.j ELSE CacheDropAll(s.j)
               ELSE IF Pendable THEN IF Unchanged THEN k ELSE [k EXCEPT !.pend = fb]
               ELSE IF Spanned \/ Unchanged THEN s.j
               ELSE CacheDrop(CacheDrop(s.j, Down(fb)), Down(fb) + WordBytes)
BY DEF CacheResult, NamedFor

LEMMA RunsNamedFor ==
  ASSUME NEW j, Made(j), NEW v, NEW a
  PROVE  Runs(j, NamedFor(j, v, a))
BY RunsNaming DEF NamedFor

LEMMA RunsCacheResult ==
  ASSUME NEW s, Made(s.j)
  PROVE  Runs(s.j, CacheResult(s))
<1> DEFINE fb == x.b.val
           k == NamedFor(s.j, s.v, fb)
           l == CacheDrop(s.j, Down(fb))
<1>1. Runs(s.j, s.j) /\ Runs(s.j, CacheDropAll(s.j)) /\ Runs(s.j, l) /\ Runs(s.j, k)
  BY RunsMarks, RunsNamedFor
<1>2. CacheResult(s) =
               IF x.b.dyn THEN IF Unchanged THEN s.j ELSE CacheDropAll(s.j)
               ELSE IF Pendable THEN IF Unchanged THEN k ELSE [k EXCEPT !.pend = fb]
               ELSE IF Spanned \/ Unchanged THEN s.j
               ELSE CacheDrop(l, Down(fb) + WordBytes)
  BY CacheResultIs
<1> HIDE DEF k, l
<1>3. Runs(k, [k EXCEPT !.pend = fb]) /\ Runs(l, CacheDrop(l, Down(fb) + WordBytes))
  BY <1>1, RunsMarks DEF Runs
<1>4. Runs(s.j, [k EXCEPT !.pend = fb]) /\ Runs(s.j, CacheDrop(l, Down(fb) + WordBytes))
  BY <1>1, <1>3, RunsTrans
<1> QED
  BY <1>1, <1>2, <1>4

LEMMA WrWr ==
  ASSUME NEW m \in Memories, NEW a \in Addresses, NEW u \in Value, NEW v \in Value
  PROVE  Wr(Wr(m, a, u), a, v) = Wr(m, a, v)
<1> DEFINE p == Wr(m, a, u)
<1>1. p \in Memories /\ DOMAIN p = DOMAIN m
  <2>1. p \in Memories
    BY WrIs
  <2> QED
    BY <2>1 DEF Memories
<1>2. \A b \in DOMAIN m : b \notin a .. (a + WordBytes - 1) => p[b] = m[b]
  BY DEF Wr
<1> HIDE DEF p
<1> QED
  BY <1>1, <1>2 DEF Wr

LEMMA ViewStored ==
  ASSUME NEW m \in Memories, NEW a \in CWords, NEW v \in Value
  PROVE  View(Wr(m, a, v)) = [View(m) EXCEPT ![a] = v]
<1>1. a \in Addresses /\ a \in Words
  BY WordsAre DEF CWords
<1>2. Rd(Wr(m, a, v), a) = v
  BY <1>1, RdWr
<1>3. ASSUME NEW w \in CWords, w # a PROVE Rd(Wr(m, a, v), w) = Rd(m, w)
  <2>1. w \in Words /\ w \in Addresses
    BY WordsAre DEF CWords
  <2>2. a + WordBytes <= w \/ w + WordBytes <= a
    BY <1>1, <1>3, <2>1, WordsApart
  <2> QED
    BY <1>1, <2>1, <2>2, RdFrame
<1> QED
  BY <1>2, <1>3 DEF View

LEMMA ViewOther ==
  ASSUME NEW m \in Memories, NEW a \in Addresses, NEW v \in Value, NEW w \in CWords, w \notin SpanOf(a)
  PROVE  View(Wr(m, a, v))[w] = View(m)[w]
<1>1. w \in Words /\ w \in Addresses /\ Aligned(w)
  BY WordsAre DEF CWords
<1>2. SpanOf(w) = {w}
  BY <1>1, SpanIs
<1>3. Rd(Wr(m, a, v), w) = Rd(m, w)
  BY <1>1, <1>2, RdApart
<1> QED
  BY <1>3 DEF View

(* The branch goes by the flags of the subtraction. *)
Flagged == Branches /\ Taken = "flags"

TargetKept(j) == x.c.dyn /\ ~OwnC => x.rc \in Regs /\ j.reg[x.rc] = FieldValue(x.c)

(* The result is at hand, and its store to be made. *)
Computing(s) ==
  /\ OfVal(s)
  /\ IsCval(s.v) /\ ValueOf(s.j, s.v) = GuestValue /\ (InReg(s.v) => s.v.reg \in s.j.pinned)
  /\ s.j.live = Flagged /\ (Flagged => s.j.flags = FlagsOf(GuestB, GuestA))
  /\ x.b.dyn => x.rb \in s.j.pinned /\ s.j.reg[x.rb] = FieldValue(x.b)
  /\ x.c.dyn /\ ~OwnC => x.rc \in s.j.pinned /\ s.j.reg[x.rc] = FieldValue(x.c)
  /\ \/ Fits(s.j, GuestView)
     \/ Pendable /\ Loose(s.j, GuestView, x.b.val) /\ s.j.pend \in {None, x.b.val}
  /\ Whole(s.j, GuestView) = gmem
  /\ s.j.pend \in {J.pend, None} /\ s.j.mem \in {J.mem, gmem}

LEMMA ComputingKeeps ==
  ASSUME NEW s, Computing(s), Fits(s.j, GuestView), NEW t, OfVal(t), t.v = s.v,
         Keeps(s.j, t.j, GuestView, {})
  PROVE  Computing(t)
<1>1. Stays(s.j, t.j, GuestView, {}) /\ Whole(t.j, GuestView) = gmem /\ Fits(t.j, GuestView)
  BY KeepsWhole DEF Keeps, Stays, Computing
<1>2. ValueOf(t.j, t.v) = GuestValue
  BY SameValue DEF Computing
<1>3. t.j.pend \in {J.pend, None} /\ t.j.mem \in {J.mem, gmem}
  BY DEF Keeps, Computing
<1>4. s.j.pinned \subseteq t.j.pinned /\ \A r \in s.j.pinned : t.j.reg[r] = s.j.reg[r]
  BY <1>1 DEF Stays
<1>5. t.j.live = s.j.live /\ (s.j.live => t.j.flags = s.j.flags)
  BY <1>1 DEF Stays
<1>6. t.j.live = Flagged /\ (Flagged => t.j.flags = FlagsOf(GuestB, GuestA))
  BY <1>5 DEF Computing
<1> QED
  BY <1>1, <1>2, <1>3, <1>4, <1>6 DEF Computing

(* Where what is held back is stored before the operation. *)
Begun == IF FlushesFirst(J) THEN FlushPending(J) ELSE J

LEMMA BegunIs ==
  ASSUME Set(J), ~Begun.out
  PROVE  /\ Set(Begun) /\ Begun.pend \in {J.pend, None} /\ Begun.mem \in {J.mem, gmem}
         /\ Pendable /\ ~Same /\ ~Unchanged => Begun.pend \in {None, x.b.val}
<1>1. CASE FlushesFirst(J)
  <2> DEFINE k == FlushPending(J)
  <2>1. Begun = k
    BY <1>1 DEF Begun
  <2>2. Fits(J, GuestView) /\ Whole(J, GuestView) = gmem
    BY ReadyIs DEF Set
  <2>3. Tight(J, k, GuestView) /\ k.pend = None /\ k.mem = gmem
    BY <2>1, <2>2, FlushPendingIs
  <2> HIDE DEF k
  <2>4. Set(k)
    BY <2>3, SetKeeps DEF Tight
  <2> QED
    BY <2>1, <2>3, <2>4
<1>2. CASE ~FlushesFirst(J)
  <2>1. Begun = J
    BY <1>2 DEF Begun
  <2>2. Pendable /\ ~Same /\ ~Unchanged => J.pend = x.b.val
    BY <1>2 DEF FlushesFirst
  <2> QED
    BY <2>1, <2>2
<1> QED
  BY <1>1, <1>2

LEMMA PutLive ==
  ASSUME NEW j, Typed(j), NEW l \in BOOLEAN
  PROVE  LET k == [j EXCEPT !.live = l]
         IN  /\ Typed(k) /\ k.live = l /\ k.pend = j.pend /\ k.mem = j.mem /\ k.reg = j.reg
             /\ k.flags = j.flags /\ k.pinned = j.pinned /\ k.out = j.out
             /\ \A w, v : Names(k, w, v) <=> Names(j, w, v)
             /\ \A v : ValueOf(k, v) = ValueOf(j, v)
             /\ \A K : Whole(k, K) = Whole(j, K)
             /\ \A K : Fits(j, K) => Fits(k, K)
             /\ \A K, a : Loose(j, K, a) => Loose(k, K, a)
<1> DEFINE k == [j EXCEPT !.live = l]
<1>1. /\ DOMAIN k = DOMAIN j /\ k.regs = j.regs /\ k.lru = j.lru /\ k.pinned = j.pinned
      /\ k.consts = j.consts /\ k.cnext = j.cnext /\ k.aliases = j.aliases /\ k.anext = j.anext
      /\ k.pend = j.pend /\ k.out = j.out /\ k.mem = j.mem
      /\ k.flags = j.flags /\ k.reg = j.reg
  BY DEF Typed
<1>2. k.live = l
  BY DEF Typed
<1> HIDE DEF k
<1>3. Typed(k)
  BY <1>1, <1>2 DEF Typed
<1>4. \A w, v : Names(k, w, v) <=> Names(j, w, v)
  BY <1>1 DEF Names
<1>5. \A v : ValueOf(k, v) = ValueOf(j, v)
  BY <1>1 DEF ValueOf
<1>6. \A K : Whole(k, K) = Whole(j, K)
  BY <1>1 DEF Whole
<1>7. \A K : Fits(j, K) => Fits(k, K)
  BY <1>1, <1>3, <1>4, <1>5 DEF Fits
<1>8. \A K, a : Loose(j, K, a) => Loose(k, K, a)
  BY <1>1, <1>3, <1>4, <1>5 DEF Loose
<1> QED
  BY <1>1, <1>2, <1>3, <1>4, <1>5, <1>6, <1>7, <1>8 DEF k

LEMMA ComputingIs ==
  ASSUME Set(Begun), Begun.pend \in {J.pend, None}, Begun.mem \in {J.mem, gmem},
         NEW r, OfVal(r), Resulted(Begun, r), NEW s, s = [r EXCEPT !.j.live = Flagged]
  PROVE  Computing(s)
<1> DEFINE k == [r.j EXCEPT !.live = Flagged]
<1>1. OfVal(s) /\ s.j = k /\ s.v = r.v
  BY DEF OfVal
<1>2. Typed(r.j) /\ Flagged \in BOOLEAN
  BY DEF Resulted, Fits, Loose, Flagged
<1>3. /\ k.live = Flagged /\ k.pend = r.j.pend /\ k.mem = r.j.mem /\ k.reg = r.j.reg
      /\ k.flags = r.j.flags /\ k.pinned = r.j.pinned
      /\ \A v : ValueOf(k, v) = ValueOf(r.j, v)
      /\ Whole(k, GuestView) = Whole(r.j, GuestView)
      /\ Fits(r.j, GuestView) => Fits(k, GuestView)
      /\ Loose(r.j, GuestView, x.b.val) => Loose(k, GuestView, x.b.val)
  BY <1>2, PutLive
<1> HIDE DEF k
<1>4. Whole(Begun, GuestView) = gmem
  BY ReadyIs DEF Set
<1>5. \/ r.j.pend = Begun.pend /\ r.j.mem = Begun.mem
      \/ r.j.pend = None /\ r.j.mem = gmem
  BY DEF Resulted
<1>6. Whole(r.j, GuestView) = gmem /\ r.j.pend \in {J.pend, None} /\ r.j.mem \in {J.mem, gmem}
  BY <1>4, <1>5 DEF Whole
<1> HIDE DEF Computing
<1>7. Flagged => k.flags = FlagsOf(GuestB, GuestA)
  BY <1>3 DEF Resulted, Flagged
<1> QED
  BY <1>1, <1>3, <1>6, <1>7 DEF Computing, Resulted

LEMMA GuestIs ==
  ASSUME Set(J)
  PROVE  /\ gmem \in Memories /\ GuestView \in Views /\ GuestView = View(gmem)
         /\ FieldValue(x.b) \in Addresses /\ FieldValue(x.a) \in Addresses
         /\ GuestA \in Value /\ GuestB \in Value /\ GuestValue \in Value
         /\ GuestMem = Wr(gmem, FieldValue(x.b), GuestValue) /\ GuestMem \in Memories
         /\ Unchanged => GuestMem = gmem /\ GuestValue = GuestB
<1>1. gmem \in Memories /\ GuestView \in Views
  BY ReadyIs DEF Set
<1>2. FieldValue(x.b) \in Addresses /\ FieldValue(x.a) \in Addresses
  BY DEF Set, InsnOk
<1>3. GuestA \in Value /\ GuestB \in Value
  BY <1>1, <1>2, RdType DEF GuestA, GuestB
<1>4. GuestValue \in Value
  BY <1>3, GuestValueIs
<1>5. GuestMem = Wr(gmem, FieldValue(x.b), GuestValue)
  BY DEF GuestMem, GuestValue
<1>6. GuestMem \in Memories
  BY <1>1, <1>2, <1>4, <1>5, WrIs
<1>7. ASSUME Unchanged PROVE GuestMem = gmem /\ GuestValue = GuestB
  <2>1. ~Same /\ IsZero(x.va)
    BY <1>7 DEF Unchanged
  <2>2. GuestA = 0
    BY <2>1, OperandsAre, CvalIs DEF IsZero
  <2>3. GuestValue = GuestB
    BY <1>3, <2>2, NegIs DEF GuestValue
  <2>4. Wr(gmem, FieldValue(x.b), Rd(gmem, FieldValue(x.b))) = gmem
    BY <1>1, <1>2, WrRest
  <2> QED
    BY <1>5, <2>3, <2>4 DEF GuestB
<1> QED
  BY <1>1, <1>2, <1>3, <1>4, <1>5, <1>6, <1>7 DEF GuestView

(* The store was made. *)
ThroughStore(t) ==
  /\ Fits(t.j, GuestView) /\ t.j.pend = None /\ t.j.mem = GuestMem
  /\ IsCval(t.v) /\ ValueOf(t.j, t.v) = GuestValue
  /\ (Flagged => t.j.flags = FlagsOf(GuestB, GuestA)) /\ TargetKept(t.j)

(* Storing changes nothing that is pinned. *)
LEMMA PutsThrough ==
  ASSUME Set(J), NEW s, Computing(s), s.j.mem = gmem,
         NEW k, Puts(s.j, k, GuestView, FieldValue(x.b), GuestValue)
  PROVE  /\ Fits(k, GuestView) /\ k.pend = None /\ k.mem = GuestMem
         /\ (Flagged => k.flags = FlagsOf(GuestB, GuestA)) /\ TargetKept(k)
         /\ \A r \in s.j.pinned : k.reg[r] = s.j.reg[r]
<1>1. Stays(s.j, k, GuestView, {}) /\ k.pend = None /\ k.mem = Wr(gmem, FieldValue(x.b), GuestValue)
  BY DEF Puts, Firm
<1>2. k.mem = GuestMem
  BY <1>1, GuestIs
<1>3. Fits(k, GuestView) /\ s.j.pinned \subseteq k.pinned /\ \A r \in s.j.pinned : k.reg[r] = s.j.reg[r]
  BY <1>1 DEF Stays
<1>4. Flagged => k.flags = FlagsOf(GuestB, GuestA)
  BY <1>1 DEF Stays, Computing
<1>5. TargetKept(k)
  <2>1. k.pinned \subseteq Regs
    BY <1>3 DEF Fits, Typed
  <2> QED
    BY <1>3, <2>1 DEF TargetKept, Computing
<1> QED
  BY <1>1, <1>2, <1>3, <1>4, <1>5

LEMMA StoreNowDone ==
  ASSUME Set(J), NEW s, Computing(s), Fits(s.j, GuestView), s.j.pend = None, ~StoreNow(s).j.out
  PROVE  ThroughStore(StoreNow(s))
<1> DEFINE t == ToReg(s.j, s.v)
           ad == FieldValue(x.b)
           o == StoreNow(s)
<1>1. /\ OfVal(s) /\ IsCval(s.v) /\ ValueOf(s.j, s.v) = GuestValue /\ Made(s.j)
      /\ InReg(s.v) => s.v.reg \in s.j.pinned
  BY DEF Computing, Fits, Typed, Made
<1>2. ad \in Addresses /\ GuestValue \in Value /\ (~x.b.dyn => x.b.val = ad)
  BY GuestIs, TargetIs
<1>3. s.j.mem = gmem
  BY DEF Computing, Whole
<1> HIDE DEF ad
<1>4. CASE s.v.kind = "const"
  <2> DEFINE k == StoreConst(s.j, s.v.val, x.b.dyn, Target(s.j))
  <2>1. o.j = k /\ o.v = s.v
    BY <1>1, <1>4, StoreNowIs
  <2>2. Target(s.j) = ad
    BY <1>2 DEF Target, Computing, ad
  <2>3. s.v.val = GuestValue
    BY <1>1, <1>4, ValueOfIs
  <2>4. Puts(s.j, k, GuestView, ad, GuestValue)
    BY <1>2, <2>1, <2>2, <2>3, StoreConstIs
  <2> HIDE DEF k
  <2>5. /\ Fits(k, GuestView) /\ k.pend = None /\ k.mem = GuestMem
        /\ (Flagged => k.flags = FlagsOf(GuestB, GuestA)) /\ TargetKept(k)
    BY <1>3, <2>4, PutsThrough DEF ad
  <2>6. ValueOf(k, s.v) = GuestValue
    BY <1>1, <1>4, <2>3, ValueOfIs
  <2> HIDE DEF o
  <2>7. ThroughStore(o)
    BY <1>1, <2>1, <2>5, <2>6 DEF ThroughStore
  <2> QED
    BY <2>7 DEF o
<1>5. CASE s.v.kind # "const"
  <2> DEFINE k == StoreReg(t.j, t.r, Target(t.j))
  <2>1. o.j = k /\ o.v = RegVal(t.r)
    BY <1>1, <1>5, StoreNowIs
  <2>2. OfReg(t) /\ Made(t.j)
    BY <1>1, RunsToReg DEF Runs
  <2>3. ~t.j.out
    BY <2>1, <2>2, RunsStoreReg DEF Runs
  <2>4. Loads(s.j, t, GuestView, s.v)
    BY <1>1, <2>3, ToRegIs
  <2> DEFINE u == [j |-> t.j, v |-> s.v]
  <2>5. OfVal(u) /\ u.j = t.j /\ u.v = s.v
    BY DEF OfVal
  <2> HIDE DEF t, u
  <2>6. Keeps(s.j, t.j, GuestView, {}) /\ Fits(t.j, GuestView) /\ t.j.pend = None
    BY <2>4, TightIs DEF Loads, Tight
  <2>7. Computing(u)
    BY <2>5, <2>6, ComputingKeeps
  <2>8. t.r \in Regs /\ t.r \in t.j.pinned /\ t.j.reg[t.r] = GuestValue
    <3>1. CASE s.v.kind = "reg"
      BY <1>1, <2>4, <3>1 DEF Loads, InReg
    <3>2. CASE s.v.kind # "reg"
      BY <1>1, <2>4, <3>2 DEF Loads, Fresh
    <3> QED
      BY <3>1, <3>2
  <2>9. Target(t.j) = ad
    BY <1>2, <2>5, <2>7 DEF Target, Computing, ad
  <2>10. t.j.mem = gmem
    BY <2>5, <2>6, <2>7 DEF Computing, Whole
  <2>11. Puts(t.j, k, GuestView, ad, GuestValue)
    BY <1>2, <2>1, <2>6, <2>8, <2>9, StoreRegIs
  <2> HIDE DEF k
  <2>12. /\ Fits(k, GuestView) /\ k.pend = None /\ k.mem = GuestMem
         /\ (Flagged => k.flags = FlagsOf(GuestB, GuestA)) /\ TargetKept(k)
         /\ \A r \in t.j.pinned : k.reg[r] = t.j.reg[r]
    BY <2>5, <2>7, <2>10, <2>11, PutsThrough DEF ad
  <2>13. IsCval(o.v) /\ ValueOf(k, o.v) = GuestValue
    BY <2>1, <2>8, <2>12, CvalIs DEF IsCval
  <2> HIDE DEF o
  <2>14. ThroughStore(o)
    BY <2>1, <2>12, <2>13 DEF ThroughStore
  <2> QED
    BY <2>14 DEF o
<1> QED
  BY <1>1, <1>4, <1>5

(* What is held back is stored first, where another word's is not held back  *)
(* in its place.                                                             *)
LEMMA FlushedFirst ==
  ASSUME NEW s, Computing(s), Fits(s.j, GuestView), ~FlushPending(s.j).out,
         NEW t, OfVal(t), t.v = s.v, t.j = FlushPending(s.j)
  PROVE  Computing(t) /\ Fits(t.j, GuestView) /\ t.j.pend = None
<1>1. Tight(s.j, t.j, GuestView) /\ t.j.pend = None
  BY FlushPendingIs
<1>2. Keeps(s.j, t.j, GuestView, {}) /\ Fits(t.j, GuestView)
  BY <1>1 DEF Tight, Keeps, Stays
<1> QED
  BY <1>1, <1>2, ComputingKeeps

LEMMA StoreResultDone ==
  ASSUME Set(J), NEW s, Computing(s), ~StoreResult(s).j.out
  PROVE  /\ Unchanged \/ Pendable => Computing(StoreResult(s))
         /\ ~Unchanged /\ Pendable => StoreResult(s).j.pend \in {None, x.b.val}
         /\ ~Unchanged /\ ~Pendable => ThroughStore(StoreResult(s))
<1>1. OfVal(s)
  BY DEF Computing
<1>2. CASE Unchanged
  BY <1>1, <1>2, StoreResultIs
<1>3. CASE ~Unchanged /\ Pendable
  <2> DEFINE t == StoreResult(s)
  <2>1. /\ OfVal(t) /\ t.v = s.v
        /\ t.j = IF s.j.pend # x.b.val THEN FlushPending(s.j) ELSE s.j
    BY <1>1, <1>3, StoreResultIs
  <2>2. ~t.j.out
    OBVIOUS
  <2> HIDE DEF t
  <2>3. CASE s.j.pend = x.b.val
    <3>1. t.j = s.j
      BY <2>1, <2>3
    <3>2. Computing(t)
      BY <2>1, <3>1 DEF Computing
    <3> QED
      BY <1>3, <2>3, <3>1, <3>2 DEF t
  <2>4. CASE s.j.pend # x.b.val /\ Fits(s.j, GuestView)
    <3>1. Computing(t) /\ t.j.pend = None
      BY <2>1, <2>2, <2>4, FlushedFirst
    <3> QED
      BY <1>3, <3>1 DEF t
  <2>5. CASE s.j.pend # x.b.val /\ ~Fits(s.j, GuestView)
    <3>1. s.j.pend = None
      BY <2>5 DEF Computing
    <3>2. FlushPending(s.j) = s.j
      BY <3>1 DEF FlushPending
    <3>3. t.j = s.j
      BY <2>1, <3>2
    <3>4. Computing(t)
      BY <2>1, <3>3 DEF Computing
    <3> QED
      BY <1>3, <3>1, <3>3, <3>4 DEF t
  <2> QED
    BY <2>3, <2>4, <2>5
<1>4. CASE ~Unchanged /\ ~Pendable
  <2> DEFINE f == [s EXCEPT !.j = FlushPending(@)]
  <2>1. OfVal(f) /\ f.j = FlushPending(s.j) /\ f.v = s.v
    BY <1>1 DEF OfVal
  <2>2. StoreResult(s) = StoreNow(f)
    BY <1>1, <1>4, StoreResultIs
  <2>3. Fits(s.j, GuestView)
    BY <1>4 DEF Computing
  <2>4. Made(s.j)
    BY <2>3 DEF Fits, Typed, Made
  <2> HIDE DEF f
  <2>5. ~f.j.out
    <3>1. Made(f.j)
      BY <2>1, <2>4, RunsFlushPending DEF Runs
    <3> QED
      BY <2>1, <2>2, <3>1, RunsStoreNow DEF Runs
  <2>6. Computing(f) /\ Fits(f.j, GuestView) /\ f.j.pend = None
    BY <2>1, <2>3, <2>5, FlushedFirst
  <2> QED
    BY <1>4, <2>2, <2>6, StoreNowDone
<1> QED
  BY <1>2, <1>3, <1>4

NamedAs(j, k, K, a, val) ==
  /\ Fits(k, [K EXCEPT ![a] = val]) /\ k.live = j.live /\ (j.live => k.flags = j.flags)
  /\ \A q \in j.pinned : k.reg[q] = j.reg[q]
  /\ \E u : Names(k, a, u)
  /\ \/ k.pend = j.pend /\ k.mem = j.mem
     \/ j.pend \notin {None, a} /\ k.pend = None /\ k.mem = Whole(j, K)

LEMMA NamedForIs ==
  ASSUME NEW j, NEW K \in Views, NEW a \in CWords, Loose(j, K, a),
         NEW v, IsCval(v), InReg(v) => v.reg \in j.pinned,
         j.pend \notin {None, a} => v.kind # "const",
         ~NamedFor(j, v, a).out, NEW val, val = ValueOf(j, v)
  PROVE  NamedAs(j, NamedFor(j, v, a), K, a, val)
<1> DEFINE k == NamedFor(j, v, a)
<1>1. CASE v.kind = "const"
  <2>1. k = SetConst(j, a, v.val) /\ val = v.val /\ v.val \in Value
    BY <1>1, ValueOfIs, CvalCases DEF NamedFor
  <2>2. j.pend \in {None, a}
    BY <1>1
  <2> HIDE DEF k
  <2>3. Fits(k, [K EXCEPT ![a] = val]) /\ SameButNames(j, k) /\ \E u : Names(k, a, u)
    BY <2>1, <2>2, NameConst
  <2>4. NamedAs(j, k, K, a, val)
    BY <2>3 DEF SameButNames, NamedAs
  <2> QED
    BY <2>4 DEF k
<1>2. CASE v.kind = "reg" /\ j.regs[v.reg] \in {None, a}
  <2>1. k = Bind(j, v.reg, a) /\ val = j.reg[v.reg] /\ v.reg \in Regs
    BY <1>2, ValueOfIs, CvalCases DEF NamedFor
  <2> HIDE DEF k
  <2>3. Fits(k, [K EXCEPT ![a] = val]) /\ SameButNames(j, k) /\ \E u : Names(k, a, u)
    BY <1>2, <2>1, NameReg
  <2>4. NamedAs(j, k, K, a, val)
    BY <2>3 DEF SameButNames, NamedAs
  <2> QED
    BY <2>4 DEF k
<1>3. CASE v.kind = "neg" \/ (v.kind = "reg" /\ j.regs[v.reg] \notin {None, a})
  <2> DEFINE neg == v.kind = "neg"
             r == v.reg
             l == SetAlias(j, a, r, neg)
  <2>1. /\ r \in j.pinned /\ neg \in BOOLEAN
        /\ val = ValueOf(j, IF neg THEN NegVal(r) ELSE RegVal(r))
    BY <1>3, CvalCases
  <2>2. k = l
    <3>1. CASE v.kind = "neg"
      <4>1. neg = TRUE
        BY <3>1
      <4> QED
        BY <3>1, <4>1 DEF NamedFor
    <3>2. CASE v.kind = "reg" /\ j.regs[v.reg] \notin {None, a}
      <4>1. neg = FALSE
        BY <3>2
      <4> QED
        BY <3>2, <4>1 DEF NamedFor
    <3> QED
      BY <1>3, <3>1, <3>2
  <2> HIDE DEF k, neg, r
  <2>3. ~l.out
    BY <2>2 DEF k
  <2>4. /\ Fits(l, [K EXCEPT ![a] = val])
        /\ l.live = j.live /\ (j.live => l.flags = j.flags)
        /\ \A q \in j.pinned : l.reg[q] = j.reg[q]
        /\ \E u : Names(l, a, u)
        /\ \/ l.pend = j.pend /\ l.mem = j.mem
           \/ j.pend \notin {None, a} /\ l.pend = None /\ l.mem = Whole(j, K)
    BY <2>1, <2>3, NameAlias
  <2> HIDE DEF l
  <2>5. NamedAs(j, l, K, a, val)
    BY <2>4 DEF NamedAs
  <2> QED
    BY <2>2, <2>5 DEF k
<1> QED
  BY <1>1, <1>2, <1>3, CvalCases

LEMMA PutPend ==
  ASSUME NEW j, NEW K, Fits(j, K), NEW a \in CWords, \E u : Names(j, a, u)
  PROVE  LET k == [j EXCEPT !.pend = a]
         IN  /\ Fits(k, K) /\ k.pend = a /\ k.mem = j.mem /\ k.reg = j.reg /\ k.flags = j.flags
<1> DEFINE k == [j EXCEPT !.pend = a]
<1>1. Typed(j)
  BY DEF Fits
<1>2. /\ DOMAIN k = DOMAIN j /\ k.regs = j.regs /\ k.lru = j.lru /\ k.pinned = j.pinned
      /\ k.consts = j.consts /\ k.cnext = j.cnext /\ k.aliases = j.aliases /\ k.anext = j.anext
      /\ k.pend = a /\ k.out = j.out /\ k.mem = j.mem /\ k.live = j.live
      /\ k.flags = j.flags /\ k.reg = j.reg
  BY <1>1 DEF Typed
<1> HIDE DEF k
<1>3. Typed(k)
  BY <1>1, <1>2 DEF Typed
<1>4. \A w, v : Names(k, w, v) <=> Names(j, w, v)
  BY <1>2 DEF Names
<1>5. \A v : ValueOf(k, v) = ValueOf(j, v)
  BY <1>2 DEF ValueOf
<1>6. Fits(k, K)
  BY <1>2, <1>3, <1>4, <1>5 DEF Fits
<1> QED
  BY <1>2, <1>6 DEF k

(* The cache knows of the store. *)
Finished(k, v) ==
  /\ Fits(k, IF Spanned THEN GuestView ELSE View(GuestMem))
  /\ Whole(k, View(GuestMem)) = GuestMem
  /\ Spanned => k.pend = None
  /\ IsCval(v) /\ ValueOf(k, v) = GuestValue
  /\ (Flagged => k.flags = FlagsOf(GuestB, GuestA)) /\ TargetKept(k)
  /\ k.pend \in {J.pend, None} \/ (k.pend = x.b.val /\ Pendable)
  /\ k.mem \in {J.mem, gmem, GuestMem}

LEMMA NamedDone ==
  ASSUME Set(J), NEW s, Computing(s), Pendable, Unchanged => s.v = x.vb,
         ~Unchanged => s.j.pend \in {None, x.b.val}, NEW k, k = NamedFor(s.j, s.v, x.b.val), ~k.out
  PROVE  /\ NamedAs(s.j, k, GuestView, x.b.val, GuestValue) /\ Fits(k, View(GuestMem))
         /\ ValueOf(k, s.v) = GuestValue
         /\ (Flagged => k.flags = FlagsOf(GuestB, GuestA)) /\ TargetKept(k)
<1> DEFINE fb == x.b.val
<1>1. fb \in CWords /\ fb = FieldValue(x.b) /\ GuestView \in Views
  BY TargetIs, GuestIs
<1>2. Loose(s.j, GuestView, fb)
  BY FitsLoose DEF Computing
<1>3. s.j.pend \notin {None, fb} => s.v.kind # "const"
  <2>1. ASSUME s.j.pend \notin {None, fb}, s.v.kind = "const" PROVE FALSE
    <3>1. Unchanged /\ x.vb.kind = "const"
      BY <2>1
    <3>2. x.va.kind = "const"
      BY <3>1, CvalIs DEF Unchanged, IsZero
    <3> QED
      BY <3>1, <3>2 DEF Unchanged, Consts
  <2> QED
    BY <2>1
<1>4. IsCval(s.v) /\ ValueOf(s.j, s.v) = GuestValue
  BY DEF Computing
<1>5. InReg(s.v) => s.v.reg \in s.j.pinned
  BY DEF Computing
<1> HIDE DEF fb
<1>6. NamedAs(s.j, k, GuestView, fb, GuestValue)
  BY <1>1, <1>2, <1>3, <1>4, <1>5, NamedForIs DEF fb
<1>7. View(GuestMem) = [GuestView EXCEPT ![fb] = GuestValue]
  BY <1>1, GuestIs, ViewStored
<1>8. Fits(k, View(GuestMem)) /\ \A q \in s.j.pinned : k.reg[q] = s.j.reg[q]
  BY <1>6, <1>7 DEF NamedAs
<1>9. ValueOf(k, s.v) = GuestValue
  BY <1>4, <1>5, <1>8, CvalCases, ValueOfIs
<1>10. Flagged => k.flags = FlagsOf(GuestB, GuestA)
  BY <1>6 DEF NamedAs, Computing
<1>11. TargetKept(k)
  <2>1. s.j.pinned \subseteq Regs
    BY <1>2 DEF Loose, Typed
  <2> QED
    BY <1>8, <2>1 DEF TargetKept, Computing
<1> QED
  BY <1>6, <1>8, <1>9, <1>10, <1>11 DEF fb

LEMMA NamedFinished ==
  ASSUME Set(J), NEW s, Computing(s), Pendable, Unchanged => s.v = x.vb,
         ~Unchanged => s.j.pend \in {None, x.b.val}, ~CacheResult(s).out
  PROVE  Finished(CacheResult(s), s.v)
<1> DEFINE fb == x.b.val
           k == NamedFor(s.j, s.v, fb)
           l == CacheResult(s)
<1>1. fb \in CWords /\ fb = FieldValue(x.b) /\ ~x.b.dyn /\ fb \in Addresses
  BY TargetIs, GuestIs
<1>2. l = IF Unchanged THEN k ELSE [k EXCEPT !.pend = fb]
  BY <1>1, CacheResultIs
<1>3. Typed(s.j) /\ Made(s.j)
  BY DEF Computing, Fits, Loose, Typed, Made
<1>4. Made(k)
  BY <1>3, RunsNamedFor DEF Runs
<1> HIDE DEF k
<1>5. ~k.out
  BY <1>2, <1>4 DEF Made
<1>6. /\ NamedAs(s.j, k, GuestView, fb, GuestValue) /\ Fits(k, View(GuestMem))
      /\ ValueOf(k, s.v) = GuestValue
      /\ (Flagged => k.flags = FlagsOf(GuestB, GuestA)) /\ TargetKept(k)
  BY <1>5, NamedDone DEF k
<1>7. ~Spanned
  BY <1>1, CacheableIs DEF Spanned, Pendable, Cacheable
<1>8. Whole(s.j, GuestView) = gmem /\ s.j.pend \in {J.pend, None} /\ s.j.mem \in {J.mem, gmem}
      /\ IsCval(s.v)
  BY DEF Computing
<1>9. CASE Unchanged
  <2>1. l = k /\ View(GuestMem) = GuestView /\ GuestMem = gmem
    BY <1>2, <1>9, GuestIs
  <2>2. \/ k.pend = s.j.pend /\ k.mem = s.j.mem
        \/ k.pend = None /\ k.mem = gmem
    BY <1>6, <1>8 DEF NamedAs
  <2>3. Whole(k, GuestView) = gmem
    BY <1>8, <2>2 DEF Whole
  <2> HIDE DEF l
  <2>4. Finished(l, s.v)
    BY <1>6, <1>7, <1>8, <2>1, <2>2, <2>3 DEF Finished
  <2> QED
    BY <2>4 DEF l
<1>10. CASE ~Unchanged
  <2>1. s.j.pend \in {None, fb} /\ k.mem = s.j.mem
    BY <1>6, <1>10 DEF NamedAs
  <2> DEFINE p == [k EXCEPT !.pend = fb]
  <2>2. l = p
    BY <1>2, <1>10
  <2>3. /\ Fits(p, View(GuestMem)) /\ p.pend = fb /\ p.mem = k.mem /\ p.reg = k.reg
        /\ p.flags = k.flags
    BY <1>1, <1>6, PutPend DEF NamedAs
  <2> HIDE DEF p
  <2>4. GuestMem = Wr(gmem, fb, GuestValue) /\ GuestValue \in Value /\ GuestView \in Views
    BY <1>1, GuestIs
  <2>5. GuestMem = Wr(s.j.mem, fb, GuestValue)
    <3>1. CASE s.j.pend = None
      BY <1>8, <2>4, <3>1 DEF Whole
    <3>2. CASE s.j.pend = fb /\ fb # None
      <4>1. gmem = Wr(s.j.mem, fb, GuestView[fb])
        BY <1>8, <3>2 DEF Whole
      <4>2. s.j.mem \in Memories /\ GuestView[fb] \in Value
        BY <1>1, <1>3, <2>4 DEF Typed, Views
      <4> QED
        BY <1>1, <2>4, <4>1, <4>2, WrWr
    <3> QED
      BY <1>1, <2>1, <3>1, <3>2, NoneIs
  <2>6. View(GuestMem)[fb] = GuestValue
    BY <1>1, <2>4, GuestIs, RdWr DEF View
  <2>7. Whole(p, View(GuestMem)) = GuestMem
    BY <1>1, <2>1, <2>3, <2>5, <2>6, NoneIs DEF Whole
  <2>8. ValueOf(p, s.v) = GuestValue
    BY <1>6, <1>8, <2>3, CvalCases, ValueOfIs
  <2>9. TargetKept(p)
    BY <1>6, <2>3 DEF TargetKept
  <2> HIDE DEF l
  <2>10. Finished(l, s.v)
    BY <1>6, <1>7, <1>8, <2>1, <2>2, <2>3, <2>7, <2>8, <2>9 DEF Finished, fb
  <2> QED
    BY <2>10 DEF l
<1> QED
  BY <1>9, <1>10

(* Nothing is known of the words the store spans. *)
LEMMA DroppedFits ==
  ASSUME Set(J), NEW j, Fits(j, GuestView), j.pend = None, NEW k, Typed(k), SameButNames(j, k),
         \A w \in CWords : \A v : Names(k, w, v) => Names(j, w, v) /\ w \notin SpanOf(FieldValue(x.b))
  PROVE  Fits(k, View(GuestMem))
<1>1. ASSUME NEW w \in CWords, NEW v, Names(k, w, v) PROVE ValueOf(k, v) = View(GuestMem)[w]
  <2>1. Names(j, w, v) /\ w \notin SpanOf(FieldValue(x.b))
    BY <1>1
  <2>2. ValueOf(j, v) = GuestView[w] /\ k.reg = j.reg
    BY <2>1 DEF Fits, SameButNames
  <2>3. ValueOf(k, v) = ValueOf(j, v)
    BY <2>2 DEF ValueOf
  <2>4. View(GuestMem)[w] = GuestView[w]
    BY <2>1, GuestIs, ViewOther
  <2> QED
    BY <2>2, <2>3, <2>4
<1>2. k.pend = None
  BY DEF SameButNames
<1> QED
  BY <1>1, <1>2 DEF Fits

LEMMA ThroughFinished ==
  ASSUME NEW t, ThroughStore(t), NEW k, SameButNames(t.j, k), ~Spanned => Fits(k, View(GuestMem)),
         Spanned => k = t.j
  PROVE  Finished(k, t.v)
<1>1. k.pend = None /\ k.mem = GuestMem /\ k.reg = t.j.reg /\ k.flags = t.j.flags
  BY DEF SameButNames, ThroughStore
<1>2. ValueOf(k, t.v) = GuestValue
  BY <1>1, CvalCases, ValueOfIs DEF ThroughStore
<1>3. TargetKept(k)
  BY <1>1 DEF TargetKept, ThroughStore
<1>4. Whole(k, View(GuestMem)) = GuestMem
  BY <1>1 DEF Whole
<1>5. Fits(k, IF Spanned THEN GuestView ELSE View(GuestMem))
  BY DEF ThroughStore
<1> QED
  BY <1>1, <1>2, <1>3, <1>4, <1>5 DEF Finished, ThroughStore

LEMMA CacheResultDone ==
  ASSUME Set(J), NEW s, Unchanged \/ Pendable => Computing(s), Unchanged => s.v = x.vb,
         ~Unchanged /\ Pendable => s.j.pend \in {None, x.b.val},
         ~Unchanged /\ ~Pendable => ThroughStore(s), ~CacheResult(s).out
  PROVE  Finished(CacheResult(s), s.v)
<1> DEFINE fb == x.b.val
           k == CacheResult(s)
<1>1. /\ FieldValue(x.b) \in Addresses /\ (~x.b.dyn => fb = FieldValue(x.b))
      /\ (Pendable => ~x.b.dyn)
  BY TargetIs
<1>2. CASE Pendable
  BY <1>2, NamedFinished
<1>3. CASE Unchanged /\ ~Pendable
  <2>1. k = s.j
    BY <1>3, CacheResultIs
  <2>2. Fits(s.j, GuestView) /\ Whole(s.j, GuestView) = gmem
    BY <1>3 DEF Computing
  <2>3. ~Spanned /\ GuestMem = gmem /\ View(GuestMem) = GuestView
    BY <1>3, GuestIs DEF Spanned
  <2>4. TargetKept(s.j)
    <3>1. s.j.pinned \subseteq Regs
      BY <2>2 DEF Fits, Typed
    <3> QED
      BY <1>3, <3>1 DEF TargetKept, Computing
  <2> HIDE DEF k
  <2>5. Finished(k, s.v)
    BY <1>3, <2>1, <2>2, <2>3, <2>4 DEF Finished, Computing
  <2> QED
    BY <2>5 DEF k
<1>4. CASE ~Unchanged /\ ~Pendable
  <2>1. Fits(s.j, GuestView) /\ s.j.pend = None /\ Typed(s.j) /\ ThroughStore(s)
    BY <1>4 DEF ThroughStore, Fits
  <2>2. CASE x.b.dyn
    <3>1. k = CacheDropAll(s.j)
      BY <1>4, <2>2, CacheResultIs
    <3> HIDE DEF k
    <3>2. Typed(k) /\ SameButNames(s.j, k) /\ \A w \in CWords : \A v : ~Names(k, w, v)
      BY <2>1, <3>1, CacheDropAllIs
    <3>3. Fits(k, View(GuestMem))
      BY <2>1, <3>2, DroppedFits
    <3>4. ~Spanned
      BY <2>2 DEF Spanned
    <3> QED
      BY <2>1, <3>2, <3>3, <3>4, ThroughFinished DEF k
  <2>3. CASE ~x.b.dyn /\ Spanned
    <3>1. k = s.j
      BY <1>4, <2>3, CacheResultIs
    <3> HIDE DEF k
    <3>2. SameButNames(s.j, k)
      BY <3>1 DEF SameButNames
    <3> QED
      BY <2>1, <2>3, <3>1, <3>2, ThroughFinished DEF k
  <2>4. CASE ~x.b.dyn /\ ~Spanned
    <3> DEFINE l == CacheDrop(s.j, Down(fb))
    <3>1. k = CacheDrop(l, Down(fb) + WordBytes)
      BY <1>4, <2>4, CacheResultIs
    <3> HIDE DEF k
    <3>2. /\ Typed(l) /\ SameButNames(s.j, l)
          /\ \A w \in CWords : \A v : Names(l, w, v) <=> Names(s.j, w, v) /\ w # Down(fb)
      BY <2>1, CacheDropIs
    <3> HIDE DEF l
    <3>3. /\ Typed(k) /\ SameButNames(l, k)
          /\ \A w \in CWords : \A v : Names(k, w, v) <=> Names(l, w, v) /\ w # Down(fb) + WordBytes
      BY <3>1, <3>2, CacheDropIs
    <3>4. SameButNames(s.j, k)
      BY <3>2, <3>3 DEF SameButNames
    <3>5. SpanOf(FieldValue(x.b)) \subseteq {Down(fb), Down(fb) + WordBytes}
      <4>1. fb = FieldValue(x.b)
        BY <1>1, <2>4
      <4>2. CASE Aligned(fb)
        BY <1>1, <4>1, <4>2, SpanIs, AlignedIs
      <4>3. CASE ~Aligned(fb)
        BY <1>1, <4>1, <4>3, Unaligned
      <4> QED
        BY <4>2, <4>3
    <3>6. \A w \in CWords : \A v : Names(k, w, v) => Names(s.j, w, v) /\ w \notin SpanOf(FieldValue(x.b))
      BY <3>2, <3>3, <3>5
    <3>7. Fits(k, View(GuestMem))
      BY <2>1, <3>3, <3>4, <3>6, DroppedFits
    <3> QED
      BY <2>1, <2>4, <3>4, <3>7, ThroughFinished DEF k
  <2> QED
    BY <2>2, <2>3, <2>4
<1> QED
  BY <1>2, <1>3, <1>4

(* What Compute leaves, once its parts are done. *)
LEMMA ComputedIs ==
  ASSUME Set(J), NEW r, r = Result(Begun), NEW s, s = StoreResult([r EXCEPT !.j.live = Flagged]),
         ~CacheResult(s).out
  PROVE  Finished(CacheResult(s), s.v)
<1> DEFINE l == [r EXCEPT !.j.live = Flagged]
<1>1. Made(J)
  BY ReadyIs DEF Set
<1>2. Made(Begun)
  BY <1>1, RunsFlushPending DEF Begun, Runs
<1>3. OfVal(r) /\ Runs(Begun, r.j)
  BY <1>2, RunsResult
<1>4. OfVal(l) /\ l.v = r.v /\ l.j = [r.j EXCEPT !.live = Flagged]
  BY <1>3 DEF OfVal
<1>5. Runs(r.j, l.j)
  BY <1>3, <1>4, RunsMarks DEF Runs
<1> HIDE DEF l
<1>6. s = StoreResult(l)
  BY DEF l
<1>7. OfVal(s) /\ Runs(l.j, s.j)
  BY <1>4, <1>5, <1>6, RunsStoreResult DEF Runs
<1>8. ~s.j.out
  BY <1>7, RunsCacheResult DEF Runs
<1>9. ~l.j.out /\ ~r.j.out /\ ~Begun.out
  BY <1>3, <1>5, <1>7, <1>8 DEF Runs
<1>10. /\ Set(Begun) /\ Begun.pend \in {J.pend, None} /\ Begun.mem \in {J.mem, gmem}
       /\ Pendable /\ ~Same /\ ~Unchanged => Begun.pend \in {None, x.b.val}
  BY <1>9, BegunIs
<1>11. Resulted(Begun, r)
  BY <1>9, <1>10, ResultIs
<1>12. Computing(l)
  BY <1>3, <1>10, <1>11, ComputingIs DEF l
<1>13. /\ Unchanged \/ Pendable => Computing(s)
       /\ ~Unchanged /\ Pendable => s.j.pend \in {None, x.b.val}
       /\ ~Unchanged /\ ~Pendable => ThroughStore(s)
  BY <1>6, <1>8, <1>12, StoreResultDone
<1>14. Unchanged => s.v = x.vb
  <2>1. ASSUME Unchanged PROVE s.v = x.vb
    <3>1. s = l
      BY <1>4, <1>6, <2>1, StoreResultIs
    <3>2. Result(Begun) = KeepB(Begun)
      BY <2>1 DEF Result, Unchanged
    <3>3. KeepB(Begun).v = x.vb
      BY DEF KeepB
    <3> QED
      BY <1>4, <3>1, <3>2, <3>3
  <2> QED
    BY <2>1
<1> QED
  BY <1>13, <1>14, CacheResultDone

LEMMA ComputeRan ==
  ASSUME Compute
  PROVE  LET r == Result(Begun)
             s == StoreResult([r EXCEPT !.j.live = Flagged])
         IN  /\ Going("compute") /\ Ran(CacheResult(s)) /\ x' = [x EXCEPT !.res = s.v]
             /\ at' = "branch" /\ UNCHANGED <<gmem, fields, n, blk, exit>>
BY DEF Compute, Begun, Flagged

(* The instruction is the same, but that its result is noted. *)
LEMMA SameInsn ==
  ASSUME gmem' = gmem, DOMAIN x = InsnFields, NEW v, x' = [x EXCEPT !.res = v]
  PROVE  /\ x'.a = x.a /\ x'.b = x.b /\ x'.c = x.c /\ x'.rb = x.rb /\ x'.rc = x.rc
         /\ x'.va = x.va /\ x'.vb = x.vb /\ x'.res = v /\ DOMAIN x' = InsnFields
         /\ FieldValue(x.a)' = FieldValue(x.a) /\ FieldValue(x.b)' = FieldValue(x.b)
         /\ FieldValue(x.c)' = FieldValue(x.c)
         /\ GuestA' = GuestA /\ GuestB' = GuestB /\ GuestMem' = GuestMem /\ GuestValue' = GuestValue
         /\ Same' = Same /\ Consts' = Consts /\ Unchanged' = Unchanged /\ Spanned' = Spanned
         /\ Branches' = Branches /\ Taken' = Taken
<1>1. /\ x'.a = x.a /\ x'.b = x.b /\ x'.c = x.c /\ x'.rb = x.rb /\ x'.rc = x.rc
      /\ x'.va = x.va /\ x'.vb = x.vb /\ x'.res = v /\ DOMAIN x' = InsnFields
  BY DEF InsnFields
<1>2. /\ FieldValue(x.a)' = FieldValue(x.a) /\ FieldValue(x.b)' = FieldValue(x.b)
      /\ FieldValue(x.c)' = FieldValue(x.c)
  BY <1>1 DEF FieldValue
<1>3. GuestA' = GuestA /\ GuestB' = GuestB
  BY <1>2 DEF GuestA, GuestB
<1>4. GuestMem' = GuestMem /\ GuestValue' = GuestValue
  BY <1>2, <1>3 DEF GuestMem, GuestValue
<1>5. Same' = Same /\ Consts' = Consts
  BY <1>1 DEF Same, Consts
<1>6. Unchanged' = Unchanged
  BY <1>1, <1>5 DEF Unchanged
<1>7. Spanned' = Spanned
  BY <1>1, <1>6 DEF Spanned
<1>8. Branches' = Branches
  BY <1>1 DEF Branches
<1>9. Taken' = Taken
  BY <1>1, <1>5 DEF Taken
<1> QED
  BY <1>1, <1>2, <1>3, <1>4, <1>5, <1>6, <1>7, <1>8, <1>9

LEMMA ComputeStep ==
  ASSUME IInv, Compute
  PROVE  IInv' /\ J'.mem \in {J.mem, gmem, GuestMem}
<1> DEFINE r == Result(Begun)
           s == StoreResult([r EXCEPT !.j.live = Flagged])
           k == CacheResult(s)
           v == s.v
<1>1. /\ Going("compute") /\ Ran(k) /\ x' = [x EXCEPT !.res = v]
      /\ at' = "branch" /\ UNCHANGED <<gmem, fields, n, blk, exit>>
  BY ComputeRan
<1>2. /\ blk \in Blocks /\ gmem \in Memories /\ Stage /\ at = "compute" /\ ~J.out
      /\ blk' = blk /\ gmem' = gmem /\ Made(J) /\ DOMAIN x = InsnFields
  BY <1>1 DEF IInv, Going
<1>3. Set(J) /\ J.pend \notin blk.marked
  BY <1>2 DEF Stage, Set
<1>4. ~k.out => Finished(k, v)
  BY <1>3, ComputedIs
<1> HIDE DEF k, v
<1>5. DOMAIN x' = InsnFields
  BY <1>1, <1>2, SameInsn
<1>6. CASE k.out
  <2>1. J' = [J EXCEPT !.out = TRUE]
    BY <1>1, <1>6 DEF Ran
  <2>2. J'.mem = J.mem
    BY <2>1
  <2>3. IInv'
    BY <1>2, <1>5, <2>1, OutStep
  <2> QED
    BY <2>2, <2>3
<1>7. CASE ~k.out
  <2>1. J' = k /\ Finished(k, v)
    BY <1>1, <1>4, <1>7 DEF Ran
  <2>2. /\ x'.a = x.a /\ x'.b = x.b /\ x'.c = x.c /\ x'.rb = x.rb /\ x'.rc = x.rc
        /\ x'.va = x.va /\ x'.vb = x.vb /\ x'.res = v
        /\ FieldValue(x.a)' = FieldValue(x.a) /\ FieldValue(x.b)' = FieldValue(x.b)
        /\ FieldValue(x.c)' = FieldValue(x.c)
        /\ GuestA' = GuestA /\ GuestB' = GuestB /\ GuestMem' = GuestMem /\ GuestValue' = GuestValue
        /\ Same' = Same /\ Consts' = Consts /\ Unchanged' = Unchanged /\ Spanned' = Spanned
        /\ Branches' = Branches /\ Taken' = Taken
    BY <1>1, <1>2, SameInsn
  <2>3. Stored(J)'
    <3>1. GuestView' = GuestView
      BY <1>2 DEF GuestView
    <3>2. /\ Fits(k, IF Spanned THEN GuestView ELSE View(GuestMem))
          /\ Whole(k, View(GuestMem)) = GuestMem
          /\ Spanned => k.pend = None
          /\ IsCval(v) /\ ValueOf(k, v) = GuestValue
          /\ (Branches /\ Taken = "flags" => k.flags = FlagsOf(GuestB, GuestA))
          /\ x.c.dyn /\ ~OwnC => x.rc \in Regs /\ k.reg[x.rc] = FieldValue(x.c)
      BY <2>1 DEF Finished, Flagged, TargetKept
    <3> QED
      BY <2>1, <2>2, <3>1, <3>2 DEF Stored
  <2>4. Computed'
    <3>1. /\ x.b.dyn \in BOOLEAN /\ (~x.b.dyn => x.b.val = FieldValue(x.b))
          /\ FieldValue(x.b) \in Addresses /\ FieldValue(x.a) \in Addresses
          /\ x.c.dyn \in BOOLEAN /\ (~x.c.dyn => x.c.val = FieldValue(x.c))
      BY <1>3 DEF Set, InsnOk, FieldOk
    <3>2. Same => GuestA = GuestB
      BY <1>3, <3>1 DEF Set, InsnOk, FieldOk, Same, GuestA, GuestB
    <3>3. ~Same /\ Consts => x.va.val = GuestA /\ x.vb.val = GuestB
      BY <1>3, OperandsAre, ValueOfIs DEF Consts
    <3> QED
      BY <2>2, <3>1, <3>2, <3>3 DEF Computed
  <2>5. J'.pend \notin blk'.marked
    <3>1. None \notin blk.marked
      BY <1>2, BlockAssumption, NoneIs
    <3>2. Pendable => x.b.val \notin blk.marked
      <4>1. ASSUME Pendable PROVE x.b.val \notin blk.marked
        <5>1. x.b.val = FieldValue(x.b) /\ FieldValue(x.b) \in Addresses /\ Aligned(x.b.val)
          BY <1>3, <4>1, TargetIs DEF Pendable, Cacheable
        <5>2. SpanOf(FieldValue(x.b)) = {x.b.val}
          BY <5>1, SpanIs
        <5> QED
          BY <1>3, <5>2 DEF Set, StoreChecked
      <4> QED
        BY <4>1
    <3> QED
      BY <1>2, <1>3, <2>1, <3>1, <3>2 DEF Finished
  <2>6. J'.mem \in {J.mem, gmem, GuestMem}
    BY <2>1 DEF Finished
  <2>7. Made(J)'
    BY <2>1 DEF Finished, Fits, Typed, Made
  <2> QED
    BY <1>1, <1>2, <1>5, <2>3, <2>4, <2>5, <2>6, <2>7 DEF IInv, Stage
<1> QED
  BY <1>6, <1>7
-----------------------------------------------------------------------------
(* The branch *)

Le == Signed(GuestB) <= Signed(GuestA)
Jumps == Taken # "no" /\ Branches
Leaves == Jumps /\ (Taken = "yes" \/ J.flags = "le")

LEMMA LeavesIs ==
  ASSUME gmem \in Memories, Stored(J), Computed
  PROVE  /\ Leaves => GuestPc = FieldValue(x.c)
         /\ ~Leaves => GuestPc = NextPc
<1>1. GuestPc = IF Le THEN FieldValue(x.c) ELSE NextPc
  BY DEF GuestPc, Le
<1>2. CASE ~Branches
  <2>1. ~Leaves /\ ~x.c.dyn /\ x.c.val = NextPc
    BY <1>2 DEF Leaves, Jumps, Branches, Computed
  <2>2. FieldValue(x.c) = NextPc
    BY <2>1 DEF Computed
  <2> QED
    BY <1>1, <2>1, <2>2
<1>3. CASE Branches
  <2>1. Leaves <=> Le
    <3>1. CASE Same
      <4>1. Taken = "yes"
        BY <3>1 DEF Taken
      <4>2. GuestA = GuestB /\ GuestB \in Value
        BY <3>1, RdType DEF Computed, GuestB
      <4>3. Signed(GuestB) \in Int
        BY <4>2, WordIs DEF Signed, Value
      <4>4. Le
        BY <4>2, <4>3 DEF Le
      <4> QED
        BY <1>3, <4>1, <4>4 DEF Leaves, Jumps
    <3>2. CASE ~Same /\ Consts
      <4>1. Taken = IF Le THEN "yes" ELSE "no"
        BY <3>2 DEF Taken, Computed, Le
      <4>2. CASE Le
        BY <1>3, <4>1, <4>2 DEF Leaves, Jumps
      <4>3. CASE ~Le
        BY <1>3, <4>1, <4>3 DEF Leaves, Jumps
      <4> QED
        BY <4>2, <4>3
    <3>3. CASE ~Same /\ ~Consts
      <4>1. Taken = "flags"
        BY <3>3 DEF Taken
      <4>2. J.flags = IF Le THEN "le" ELSE "gt"
        BY <1>3, <4>1 DEF Stored, FlagsOf, Le
      <4>3. CASE Le
        BY <1>3, <4>1, <4>2, <4>3 DEF Leaves, Jumps
      <4>4. CASE ~Le
        BY <1>3, <4>1, <4>2, <4>4 DEF Leaves, Jumps
      <4> QED
        BY <4>3, <4>4
    <3> QED
      BY <3>1, <3>2, <3>3
  <2> QED
    BY <1>1, <2>1
<1> QED
  BY <1>2, <1>3

(* The code of the branch, where the machine is. *)
Cleared == [J EXCEPT !.live = FALSE]
Past == IF Jumps THEN Snapped(Cleared) ELSE Cleared

LEMMA BranchRan ==
  ASSUME Branch
  PROVE  LET j == Snapped(Cleared)
         IN  /\ Going("branch") /\ gmem' = GuestMem /\ x' = NoInsn /\ blk' = blk
             /\ Leaves => Leave(j, x.rc, IF x.c.dyn THEN StubStore(j, x.rc).reg[x.rc] ELSE x.c.val, GuestPc)
             /\ ~Leaves => /\ Ran(IF Spanned THEN UpdateSpanned(Past, x.b.val, x.res) ELSE Past)
                           /\ exit' = [pc |-> NextPc, guest |-> GuestPc] /\ at' = "fetch"
BY DEF Branch, Leaves, Jumps, Cleared, Past

(* The view of memory that the cache has: the store's, or not yet. *)
StoreView == IF Spanned THEN GuestView ELSE View(GuestMem)

LEMMA ClearedIs ==
  ASSUME Stored(J), NEW j, j = Cleared \/ j = Snapped(Cleared)
  PROVE  /\ Fits(j, StoreView) /\ Whole(j, StoreView) = GuestMem /\ ~j.live /\ Made(j)
         /\ j.pend = J.pend /\ j.mem = J.mem /\ j.reg = J.reg /\ j.out = J.out
         /\ \A v : ValueOf(j, v) = ValueOf(J, v)
         /\ Spanned => j.mem = GuestMem /\ j.pend = None
<1> DEFINE k == Cleared
<1>1. Fits(J, StoreView) /\ Typed(J) /\ Whole(J, View(GuestMem)) = GuestMem
      /\ (Spanned => J.pend = None)
  BY DEF Stored, StoreView, Fits
<1>2. Whole(J, StoreView) = GuestMem
  BY <1>1 DEF Whole, StoreView
<1>3. /\ k.live = FALSE /\ k.pend = J.pend /\ k.mem = J.mem /\ k.reg = J.reg /\ k.out = J.out
      /\ \A v : ValueOf(k, v) = ValueOf(J, v)
      /\ Whole(k, StoreView) = Whole(J, StoreView) /\ Fits(k, StoreView)
  BY <1>1, PutLive DEF Cleared
<1> HIDE DEF k
<1>4. Fits(j, StoreView) /\ (j = k \/ Alike(k, j))
  BY <1>3, SnappedIs DEF k
<1>5. /\ j.live = k.live /\ j.pend = k.pend /\ j.mem = k.mem /\ j.reg = k.reg /\ j.out = k.out
      /\ \A v : ValueOf(j, v) = ValueOf(k, v)
      /\ Whole(j, StoreView) = Whole(k, StoreView)
  BY <1>4, AlikeIs DEF Alike
<1>6. Made(j)
  BY <1>4 DEF Made, Fits, Typed
<1>7. Spanned => J.mem = GuestMem
  BY <1>1 DEF Whole
<1> QED
  BY <1>1, <1>2, <1>3, <1>4, <1>5, <1>6, <1>7

LEMMA BranchMem ==
  ASSUME gmem \in Memories, Stored(J), Computed
  PROVE  GuestMem \in Memories /\ GuestMem = Wr(gmem, FieldValue(x.b), GuestValue)
<1>1. FieldValue(x.b) \in Addresses /\ FieldValue(x.a) \in Addresses
  BY DEF Computed
<1>2. GuestA \in Value /\ GuestB \in Value
  BY <1>1, RdType DEF GuestA, GuestB
<1>3. GuestValue \in Value
  BY <1>2, GuestValueIs
<1>4. GuestMem = Wr(gmem, FieldValue(x.b), GuestValue)
  BY DEF GuestMem, GuestValue
<1> QED
  BY <1>1, <1>3, <1>4, WrIs

(* The cached words the store spans are put right. *)
LEMMA SpannedIs ==
  ASSUME gmem \in Memories, Stored(J), Computed, Spanned, NEW k, Fits(k, GuestView),
         k.pend = None, ~k.live, \A v : ValueOf(k, v) = ValueOf(J, v),
         NEW l, l = UpdateSpanned(k, x.b.val, x.res), ~l.out
  PROVE  Fits(l, View(GuestMem)) /\ l.pend = None /\ l.mem = k.mem /\ ~l.live
<1> DEFINE a == x.b.val
<1>1. ~x.b.dyn /\ ~Aligned(a) /\ \A w \in SpanOf(a) : Cacheable(w)
  BY DEF Spanned
<1>2. a = FieldValue(x.b) /\ a \in Addresses
  BY <1>1 DEF Computed
<1>3. SpanOf(a) \subseteq CWords
  BY <1>1, <1>2, SpanIs, WordsAre, CacheableIs
<1>4. IsCval(x.res) /\ ValueOf(k, x.res) = GuestValue
  BY DEF Stored
<1>5. Fits(k, View(gmem))
  BY DEF GuestView
<1> HIDE DEF a
<1>6. /\ Fits(l, View(Wr(gmem, a, ValueOf(k, x.res)))) /\ l.pend = None /\ l.mem = k.mem /\ ~l.live
  BY <1>1, <1>2, <1>3, <1>4, <1>5, UpdateSpannedIs DEF a
<1>7. GuestMem = Wr(gmem, a, ValueOf(k, x.res))
  BY <1>2, <1>4, BranchMem
<1> QED
  BY <1>6, <1>7

LEMMA BranchStep ==
  ASSUME IInv, Branch
  PROVE  IInv' /\ J'.mem \in {J.mem, GuestMem} /\ (~OwnC => BranchesAsGuest')
<1> DEFINE j == Snapped(Cleared)
           stub == StubStore(j, x.rc)
           pc == IF x.c.dyn THEN stub.reg[x.rc] ELSE x.c.val
           l == IF Spanned THEN UpdateSpanned(Past, x.b.val, x.res) ELSE Past
<1>1. /\ Going("branch") /\ gmem' = GuestMem /\ x' = NoInsn /\ blk' = blk
      /\ Leaves => Leave(j, x.rc, pc, GuestPc)
      /\ ~Leaves => /\ Ran(l) /\ exit' = [pc |-> NextPc, guest |-> GuestPc] /\ at' = "fetch"
  BY BranchRan
<1>2. /\ blk \in Blocks /\ gmem \in Memories /\ at = "branch" /\ ~J.out /\ Made(J)
      /\ Stored(J) /\ Computed /\ J.pend \notin blk.marked
  BY <1>1 DEF IInv, Going, Stage
<1>3. GuestMem \in Memories
  BY <1>2, BranchMem
<1>4. DOMAIN x' = InsnFields
  BY <1>1 DEF NoInsn, InsnFields
<1>5. /\ Leaves => GuestPc = FieldValue(x.c)
      /\ ~Leaves => GuestPc = NextPc
  BY <1>2, LeavesIs
<1>6. CASE Leaves
  <2>1. J' = (IF stub.out THEN [J EXCEPT !.out = TRUE] ELSE stub) /\ at' = "left"
        /\ exit' = [pc |-> pc, guest |-> GuestPc]
    BY <1>1, <1>6 DEF Leave, Ran
  <2>2. /\ Fits(j, StoreView) /\ Whole(j, StoreView) = GuestMem /\ j.reg = J.reg /\ j.out = J.out
    BY <1>2, ClearedIs
  <2>3. /\ stub.mem = GuestMem /\ stub.out = J.out /\ Made(stub)
        /\ x.rc \in Regs => stub.reg[x.rc] = J.reg[x.rc]
    BY <2>2, StubStoreIs
  <2>4. ~OwnC => pc = FieldValue(x.c)
    BY <1>2, <2>3 DEF Stored, Computed
  <2> HIDE DEF j, stub, pc
  <2>5. J' = stub
    BY <1>2, <2>1, <2>3
  <2>6. Stage'
    BY <1>1, <2>1, <2>3, <2>5 DEF Stage
  <2>7. Made(J)'
    BY <2>3, <2>5 DEF Made
  <2>8. IInv'
    BY <1>1, <1>2, <1>3, <1>4, <2>6, <2>7 DEF IInv
  <2>9. ~OwnC => BranchesAsGuest'
    BY <1>5, <1>6, <2>1, <2>4 DEF BranchesAsGuest
  <2> QED
    BY <2>3, <2>5, <2>8, <2>9
<1>7. CASE ~Leaves
  <2>1. /\ J' = (IF l.out THEN [J EXCEPT !.out = TRUE] ELSE l) /\ at' = "fetch"
        /\ exit' = [pc |-> NextPc, guest |-> GuestPc]
    BY <1>1, <1>7 DEF Ran
  <2>2. Past = Cleared \/ Past = j
    BY DEF Past
  <2>3. /\ Fits(Past, StoreView) /\ Whole(Past, StoreView) = GuestMem /\ ~Past.live /\ Made(Past)
        /\ Past.pend = J.pend /\ Past.mem = J.mem
        /\ \A v : ValueOf(Past, v) = ValueOf(J, v)
        /\ Spanned => Past.mem = GuestMem /\ Past.pend = None
    BY <1>2, <2>2, ClearedIs
  <2>4. BranchesAsGuest'
    BY <1>5, <1>7, <2>1 DEF BranchesAsGuest
  <2> HIDE DEF j, stub, pc
  <2>5. CASE l.out
    <3>1. J' = [J EXCEPT !.out = TRUE]
      BY <2>1, <2>5
    <3>2. J'.mem = J.mem
      BY <3>1
    <3>3. gmem' \in Memories
      BY <1>1, <1>3
    <3>4. IInv'
      BY <1>1, <1>4, <3>1, <3>3, OutStep
    <3> QED
      BY <2>4, <3>2, <3>4
  <2>6. CASE ~l.out
    <3>1. J' = l
      BY <2>1, <2>6
    <3>2. /\ Fits(l, View(GuestMem)) /\ ~l.live /\ l.mem = J.mem /\ Whole(l, View(GuestMem)) = GuestMem
          /\ l.pend = J.pend
      <4>1. CASE Spanned
        <5>1. l = UpdateSpanned(Past, x.b.val, x.res) /\ Fits(Past, GuestView)
          BY <2>3, <4>1 DEF StoreView
        <5> HIDE DEF l
        <5>2. Fits(l, View(GuestMem)) /\ l.pend = None /\ l.mem = Past.mem /\ ~l.live
          BY <1>2, <2>3, <2>6, <4>1, <5>1, SpannedIs
        <5> QED
          BY <2>3, <4>1, <5>2 DEF Whole
      <4>2. CASE ~Spanned
        <5>1. l = Past
          BY <4>2
        <5> HIDE DEF l
        <5> QED
          BY <2>3, <4>2, <5>1 DEF StoreView
      <4> QED
        BY <4>1, <4>2
    <3> HIDE DEF l
    <3>3. GuestView' = View(GuestMem)
      BY <1>1 DEF GuestView
    <3>4. Ready(J)'
      BY <1>1, <1>3, <3>1, <3>2, <3>3 DEF Ready, Current
    <3>5. Made(J)'
      BY <3>1, <3>2 DEF Fits, Typed, Made
    <3>6. J'.pend \notin blk'.marked
      BY <1>1, <1>2, <3>1, <3>2
    <3>7. IInv'
      BY <1>1, <1>2, <1>3, <1>4, <2>1, <3>4, <3>5, <3>6 DEF IInv, Stage
    <3> QED
      BY <2>4, <3>1, <3>2, <3>7
  <2> QED
    BY <2>5, <2>6
<1> QED
  BY <1>6, <1>7
-----------------------------------------------------------------------------
(* The block *)

LEMMA InitIs ==
  ASSUME BlockInit
  PROVE  IInv /\ BranchesAsGuest
<1>1. blk \in Blocks /\ J = NewBlock(blk.mem) /\ gmem = blk.mem /\ x = NoInsn /\ at = "fetch"
      /\ exit = [pc |-> None, guest |-> None]
  BY DEF BlockInit
<1>2. gmem \in Memories /\ None \notin blk.marked
  BY <1>1, BlockAssumption, NoneIs
<1>3. /\ J.regs = [r \in Regs |-> None] /\ J.lru = [i \in Regs |-> i] /\ J.pinned = {}
      /\ J.consts = [i \in 1..NCONST |-> NoConst] /\ J.cnext = 1
      /\ J.aliases = [i \in 1..NALIAS |-> NoAlias] /\ J.anext = 1
      /\ J.pend = None /\ J.live = FALSE /\ J.out = FALSE
      /\ J.reg = [r \in Regs |-> 0] /\ J.mem = gmem
      /\ DOMAIN J = {"regs", "lru", "pinned", "consts", "cnext", "aliases", "anext", "pend", "live",
                     "out", "reg", "mem", "flags"}
  BY <1>1 DEF NewBlock
<1>4. 0 \in Value /\ 1 \in 1 .. NCONST /\ 1 \in 1 .. NALIAS /\ Regs \subseteq Nat
  BY WordIs, ConstantsAre DEF Value, Regs
<1>5. Typed(J)
  <2>1. J.consts \in [1 .. NCONST -> [addr : CWords \cup {None}, val : Value]]
    BY <1>3, <1>4 DEF NoConst
  <2>2. /\ J.aliases \in [1 .. NALIAS -> [addr : CWords \cup {None}, reg : Regs \cup {None}, neg : BOOLEAN]]
        /\ \A i \in 1 .. NALIAS : J.aliases[i].addr # None => J.aliases[i].reg \in Regs
    BY <1>3 DEF NoAlias
  <2>3. J.regs \in [Regs -> CWords \cup {None}] /\ J.reg \in [Regs -> Value] /\ J.lru \in [Regs -> Nat]
    BY <1>3, <1>4
  <2> QED
    BY <1>2, <1>3, <1>4, <2>1, <2>2, <2>3 DEF Typed
<1>6. \A w \in CWords : \A v : ~Names(J, w, v)
  BY <1>3, NoneIs DEF Names, NoConst, NoAlias
<1>7. Fits(J, GuestView)
  BY <1>3, <1>5, <1>6 DEF Fits
<1>8. Whole(J, GuestView) = gmem
  BY <1>3 DEF Whole
<1>9. Ready(J)
  BY <1>2, <1>3, <1>7, <1>8 DEF Ready, Current, GuestView
<1>10. Made(J) /\ DOMAIN x = InsnFields
  BY <1>1, <1>3 DEF Made, NoInsn, InsnFields
<1> QED
  BY <1>1, <1>2, <1>3, <1>9, <1>10 DEF IInv, Stage, BranchesAsGuest

(* Memory is the guest's but for what is held back. *)
LEMMA WholeApart ==
  ASSUME NEW j, NEW K \in Views, Fits(j, K), NEW w \in Words, w # j.pend
  PROVE  Rd(Whole(j, K), w) = Rd(j.mem, w)
<1>1. CASE j.pend = None
  BY <1>1 DEF Whole
<1>2. CASE j.pend # None
  <2>1. j.pend \in CWords /\ j.mem \in Memories
    BY <1>2 DEF Fits, Typed
  <2>2. j.pend \in Words /\ j.pend \in Addresses /\ w \in Addresses /\ K[j.pend] \in Value
    BY <2>1, WordsAre DEF CWords, Views
  <2>3. j.pend + WordBytes <= w \/ w + WordBytes <= j.pend
    BY <2>2, WordsApart
  <2>4. Rd(Wr(j.mem, j.pend, K[j.pend]), w) = Rd(j.mem, w)
    BY <2>1, <2>2, <2>3, RdFrame
  <2> QED
    BY <1>2, <2>4 DEF Whole
<1> QED
  BY <1>1, <1>2

LEMMA EndBlockStep ==
  ASSUME IInv, EndBlock
  PROVE  IInv' /\ J'.mem = gmem /\ BranchesAsGuest'
<1>1. /\ at = "fetch" /\ ~J.out /\ Leave(J, None, NextPc, NextPc)
      /\ x' = x /\ gmem' = gmem /\ blk' = blk
  BY DEF EndBlock, Going
<1>2. Ready(J)
  BY <1>1 DEF IInv, Stage
<1>3. IInv' /\ J'.mem = gmem
  BY <1>1, <1>2, LeaveStep
<1>4. exit' = [pc |-> NextPc, guest |-> NextPc]
  BY <1>1 DEF Leave
<1> QED
  BY <1>3, <1>4 DEF BranchesAsGuest

(* What a step may do to memory. *)
MemStep ==
  \/ J'.mem = J.mem
  \/ Ready(J) /\ J.pend \notin blk.marked /\ J'.mem = gmem
  \/ at = "compute" /\ Set(J) /\ J.pend \notin blk.marked /\ J'.mem = GuestMem
  \/ /\ at = "branch" /\ Stored(J) /\ Computed /\ J.pend \notin blk.marked /\ J'.mem = GuestMem

LEMMA BlockStep ==
  ASSUME IInv, [BlockNext]_vars
  PROVE  IInv' /\ MemStep /\ (~OwnC /\ BranchesAsGuest => BranchesAsGuest')
<1>0. ASSUME ~J.out PROVE Stage
  BY <1>0 DEF IInv
<1>1. CASE Fetch
  <2>1. IInv' /\ J'.mem = J.mem
    BY <1>1, FetchStep
  <2>2. exit' = exit /\ ~J.out
    BY <1>1 DEF Fetch, Going
  <2> QED
    BY <2>1, <2>2 DEF MemStep, BranchesAsGuest
<1>2. CASE Test
  <2>1. IInv' /\ (J'.mem = J.mem \/ J'.mem = gmem)
    BY <1>2, TestStep
  <2>2. ~J.out /\ at = "test"
    BY <1>2 DEF Test, Going
  <2>3. Ready(J) /\ J.pend \notin blk.marked
    BY <1>0, <2>2 DEF Stage
  <2>4. exit' = exit \/ exit' = [pc |-> None, guest |-> None]
    <3>1. \E j, rb : TestWords(j, rb)
      BY <1>2 DEF Test
    <3> QED
      BY <3>1 DEF TestWords, Leave
  <2>5. BranchesAsGuest => BranchesAsGuest'
    BY <2>2, <2>4 DEF BranchesAsGuest
  <2> QED
    BY <2>1, <2>3, <2>5 DEF MemStep
<1>3. CASE Operands
  <2>1. IInv' /\ (J'.mem = J.mem \/ J'.mem = gmem)
    BY <1>3, OperandsStep
  <2>2. ~J.out /\ at = "operands" /\ exit' = exit
    BY <1>3 DEF Operands, Going
  <2>3. Ready(J) /\ J.pend \notin blk.marked
    BY <1>0, <2>2 DEF Stage
  <2> QED
    BY <2>1, <2>2, <2>3 DEF MemStep, BranchesAsGuest
<1>4. CASE Compute
  <2>1. IInv' /\ J'.mem \in {J.mem, gmem, GuestMem}
    BY <1>4, ComputeStep
  <2>2. ~J.out /\ at = "compute" /\ exit' = exit
    BY <1>4 DEF Compute, Going
  <2>3. Set(J) /\ Ready(J) /\ J.pend \notin blk.marked
    BY <1>0, <2>2 DEF Stage, Set
  <2> QED
    BY <2>1, <2>2, <2>3 DEF MemStep, BranchesAsGuest
<1>5. CASE Branch
  <2>1. IInv' /\ J'.mem \in {J.mem, GuestMem} /\ (~OwnC => BranchesAsGuest')
    BY <1>5, BranchStep
  <2>2. ~J.out /\ at = "branch"
    BY <1>5 DEF Branch, Going
  <2>3. Stored(J) /\ Computed /\ J.pend \notin blk.marked
    BY <1>0, <2>2 DEF Stage
  <2> QED
    BY <2>1, <2>2, <2>3 DEF MemStep
<1>6. CASE EndBlock
  <2>1. IInv' /\ J'.mem = gmem /\ BranchesAsGuest'
    BY <1>6, EndBlockStep
  <2>2. ~J.out /\ at = "fetch"
    BY <1>6 DEF EndBlock, Going
  <2>3. Ready(J) /\ J.pend \notin blk.marked
    BY <1>0, <2>2 DEF Stage
  <2> QED
    BY <2>1, <2>3 DEF MemStep
<1>7. CASE Done \/ UNCHANGED vars
  <2>1. J' = J /\ x' = x /\ gmem' = gmem /\ at' = at /\ blk' = blk /\ exit' = exit
    BY <1>7 DEF Done, vars
  <2>2. IInv'
    <3>1. gmem' = gmem /\ x' = x /\ J' = J
      BY <2>1
    <3>2. Stage => Stage'
      BY SMTT(60), <2>1 DEF Stage, Ready, InsnOk, FieldOk, TargetNamed, StoreChecked, OperandsRead, OperandOk,
                  TargetRead, Stored, Computed, GuestView, GuestMem, GuestValue, GuestA, GuestB,
                  FieldValue, Same, Consts, Unchanged, Spanned, Branches, Taken
    <3> QED
      BY <2>1, <3>2 DEF IInv, Made
  <2> QED
    BY <2>1, <2>2 DEF MemStep, BranchesAsGuest
<1> QED
  BY <1>1, <1>2, <1>3, <1>4, <1>5, <1>6, <1>7 DEF BlockNext
-----------------------------------------------------------------------------
(* Theorems *)

LEMMA BlockInvariant == BlockSpec => []IInv
<1>1. BlockInit => IInv
  BY InitIs
<1>2. IInv /\ [BlockNext]_vars => IInv'
  BY BlockStep
<1> QED
  BY <1>1, <1>2, PTL DEF BlockSpec

(* Between instructions the register cache of the emitted code (jit.c        *)
(* 543-960) is right: every word cache_find knows has the guest's value,    *)
(* the held back word is one of them, and memory is current but for it.      *)
THEOREM CacheStaysCurrent == BlockSpec => []CacheIsCurrent
<1>1. IInv => CacheIsCurrent
  <2> SUFFICES ASSUME IInv, Going("fetch") PROVE CacheIsCurrent
    BY DEF CacheIsCurrent
  <2>1. Ready(J)
    BY DEF IInv, Stage, Going
  <2>2. Fits(J, GuestView) /\ Typed(J) /\ Whole(J, GuestView) = gmem
        /\ \A w \in CWords : GuestView[w] = Rd(gmem, w)
    BY <2>1, ReadyIs
  <2>3. ASSUME NEW w \in Words, Find(J, w) # NoVal PROVE ValueOf(J, Find(J, w)) = Rd(gmem, w)
    <3>1. w \in CWords /\ Names(J, w, Find(J, w))
      BY <2>2, <2>3, WordsAre, FindIs
    <3> QED
      BY <2>2, <3>1 DEF Fits
  <2>4. ASSUME J.pend # None
        PROVE  Find(J, J.pend) # NoVal /\ ValueOf(J, Find(J, J.pend)) = GuestView[J.pend]
    BY <2>2, <2>4, Held, CvalCases DEF HeldBack
  <2>5. Flushed = gmem
    BY <2>2, <2>4 DEF Flushed, Whole
  <2> QED
    BY <2>3, <2>4, <2>5 DEF CacheIsCurrent
<1> QED
  BY <1>1, BlockInvariant, PTL

(* Wherever a block leaves (a target test that fails, a branch, the end of   *)
(* the block), stub_store (jit.c 865) has stored what was held back: memory   *)
(* is what the interpreter would have made it.                               *)
THEOREM ExitsStayCurrent == BlockSpec => []ExitsAreCurrent
<1>1. IInv => ExitsAreCurrent
  BY DEF IInv, Stage, ExitsAreCurrent, Going
<1> QED
  BY <1>1, BlockInvariant, PTL

(* The emitted branch goes where the interpreter would, by the flags of its  *)
(* own subtraction or as the constants say, as long as no instruction stores *)
(* to the word that is its own target.                                       *)
THEOREM BranchesGoAsGuest == ~OwnC => (BlockSpec => []BranchesAsGuest)
<1> SUFFICES ASSUME ~OwnC PROVE BlockSpec => []BranchesAsGuest
  OBVIOUS
<1>1. BlockInit => IInv /\ BranchesAsGuest
  BY InitIs
<1>2. IInv /\ BranchesAsGuest /\ [BlockNext]_vars => IInv' /\ BranchesAsGuest'
  BY BlockStep
<1> QED
  BY <1>1, <1>2, PTL DEF BlockSpec

(* Stores reach memory in program order: the held back store is made by      *)
(* flush_pending before another is (jit.c 1290-1294, 1357-1368), and by       *)
(* stub_store before the block is left.                                      *)
THEOREM StoresStayInOrder == BlockSpec => StoresInOrder
<1>1. ASSUME IInv, [BlockNext]_vars, J'.mem # J.mem, NEW b \in Bytes
      PROVE  \/ at \in {"compute", "branch"} /\ Down(b) \in SpanOf(FieldValue(x.b))
             \/ J'.mem[b] = gmem[b]
  <2>1. J'.mem = gmem \/ (at \in {"compute", "branch"} /\ J'.mem = GuestMem /\ (Set(J) \/ (Stored(J) /\ Computed)))
    BY <1>1, BlockStep DEF MemStep
  <2>2. CASE J'.mem = gmem
    BY <2>2
  <2>3. CASE at \in {"compute", "branch"} /\ J'.mem = GuestMem /\ (Set(J) \/ (Stored(J) /\ Computed))
    <3> DEFINE a == FieldValue(x.b)
    <3>1. a \in Addresses /\ GuestMem = Wr(gmem, a, GuestValue) /\ gmem \in Memories
      <4>1. gmem \in Memories
        BY <1>1 DEF IInv
      <4> QED
        BY <2>3, <4>1, GuestIs, BranchMem DEF Computed
    <3> HIDE DEF a
    <3>2. CASE b \in a .. (a + WordBytes - 1)
      BY <2>3, <3>1, <3>2, SpanIs DEF a
    <3>3. CASE b \notin a .. (a + WordBytes - 1)
      <4>1. GuestMem[b] = gmem[b]
        BY <3>1, <3>3 DEF Wr, Memories
      <4> QED
        BY <2>3, <4>1
    <3> QED
      BY <3>2, <3>3
  <2> QED
    BY <2>1, <2>2, <2>3
<1>2. IInv /\ [BlockNext]_vars =>
        [\A b \in Bytes :
           J'.mem # J.mem => \/ at \in {"compute", "branch"} /\ Down(b) \in SpanOf(FieldValue(x.b))
                             \/ J'.mem[b] = gmem[b]]_vars
  BY <1>1
<1> QED
  BY <1>2, BlockInvariant, PTL DEF BlockSpec, StoresInOrder

(* No word that static_map marks as translated is stored to: each block      *)
(* tests its targets on entry or where it stores (jit.c 1207-1249), and what *)
(* is held back passed that test.                                            *)
THEOREM CodeStaysUntouched == BlockSpec => CodeUntouched
<1>1. ASSUME IInv, [BlockNext]_vars, NEW w \in blk.marked
      PROVE  Rd(J'.mem, w) = Rd(J.mem, w)
  <2>1. w \in Words /\ gmem \in Memories
    BY <1>1, BlockAssumption DEF IInv
  <2>2. w \in Addresses /\ SpanOf(w) = {w}
    BY <2>1, WordsAre, SpanIs
  <2>3. MemStep
    BY <1>1, BlockStep
  <2>4. ASSUME Ready(J), J.pend \notin blk.marked PROVE Rd(gmem, w) = Rd(J.mem, w)
    <3>1. Fits(J, GuestView) /\ GuestView \in Views /\ Whole(J, GuestView) = gmem /\ w # J.pend
      BY <1>1, <2>4, ReadyIs
    <3> QED
      BY <2>1, <3>1, WholeApart
  <2>5. CASE J'.mem = J.mem
    BY <2>5
  <2>6. CASE Ready(J) /\ J.pend \notin blk.marked /\ J'.mem = gmem
    BY <2>4, <2>6
  <2>7. CASE at = "compute" /\ Set(J) /\ J.pend \notin blk.marked /\ J'.mem = GuestMem
    <3>1. /\ FieldValue(x.b) \in Addresses /\ GuestValue \in Value
          /\ GuestMem = Wr(gmem, FieldValue(x.b), GuestValue)
      BY <2>7, GuestIs
    <3>2. SpanOf(FieldValue(x.b)) \cap SpanOf(w) = {}
      BY <1>1, <2>2, <2>7 DEF Set, StoreChecked
    <3>3. Rd(GuestMem, w) = Rd(gmem, w)
      BY <2>1, <2>2, <3>1, <3>2, RdApart
    <3> QED
      BY <2>4, <2>7, <3>3 DEF Set
  <2>8. CASE at = "branch" /\ Stored(J) /\ Computed /\ J.pend \notin blk.marked /\ J'.mem = GuestMem
    <3>1. GuestMem \in Memories
      BY <2>1, <2>8, BranchMem
    <3>2. View(GuestMem) \in Views /\ GuestView \in Views
      BY <2>1, <3>1, ViewIs DEF GuestView
    <3>3. StoreView \in Views
      BY <3>2 DEF StoreView
    <3>4. Fits(J, StoreView) /\ Whole(J, StoreView) = GuestMem /\ w # J.pend
      BY <1>1, <2>8 DEF Stored, StoreView, Whole
    <3> QED
      BY <2>1, <2>8, <3>3, <3>4, WholeApart
  <2> QED
    BY <2>3, <2>5, <2>6, <2>7, <2>8 DEF MemStep
<1>2. IInv /\ [BlockNext]_vars => [\A w \in blk.marked : Rd(J'.mem, w) = Rd(J.mem, w)]_vars
  BY <1>1
<1> QED
  BY <1>2, BlockInvariant, PTL DEF BlockSpec, CodeUntouched
=============================================================================
