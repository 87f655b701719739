------------------------- MODULE KeyboardKeysProofs -------------------------
(***************************************************************************)
(* Proofs about KeyboardKeys, for any set of keys, any number of bytes that  *)
(* wait in the controller and any garbage.                                   *)
(***************************************************************************)
EXTENDS KeyboardKeys, SequenceTheorems, TLAPS

Shifts == {"lshift", "rshift"}
Ctrls == {"lctrl", "rctrl"}

-----------------------------------------------------------------------------
(* The keys *)

LEMMA KnownAre ==
  KnownKeys = {"lshift", "rshift", "lctrl", "rctrl", "capslock", "up", "left",
               "pgup", "keypad4", "tab", "enter", "x", "alt", "f1"}
BY DEF KnownKeys, KeyOf

LEMMA CodesAre ==
  /\ KeyOf["lshift"] = [ext |-> FALSE, byte |-> 42]
  /\ KeyOf["rshift"] = [ext |-> FALSE, byte |-> 54]
  /\ KeyOf["lctrl"] = [ext |-> FALSE, byte |-> 29]
  /\ KeyOf["rctrl"] = [ext |-> TRUE, byte |-> 29]
  /\ KeyOf["capslock"] = [ext |-> FALSE, byte |-> 58]
  /\ KeyOf["up"] = [ext |-> TRUE, byte |-> 72]
  /\ KeyOf["left"] = [ext |-> TRUE, byte |-> 75]
  /\ KeyOf["pgup"] = [ext |-> TRUE, byte |-> 73]
  /\ KeyOf["keypad4"] = [ext |-> FALSE, byte |-> 75]
  /\ KeyOf["tab"] = [ext |-> FALSE, byte |-> 15]
  /\ KeyOf["enter"] = [ext |-> FALSE, byte |-> 28]
  /\ KeyOf["x"] = [ext |-> FALSE, byte |-> 45]
  /\ KeyOf["alt"] = [ext |-> FALSE, byte |-> 56]
  /\ KeyOf["f1"] = [ext |-> FALSE, byte |-> 59]
<1>1. KeyOf["lshift"] = [ext |-> FALSE, byte |-> 42]
  BY DEF KeyOf, Scancode
<1>2. KeyOf["rshift"] = [ext |-> FALSE, byte |-> 54]
  BY DEF KeyOf, Scancode
<1>3. KeyOf["lctrl"] = [ext |-> FALSE, byte |-> 29]
  BY DEF KeyOf, Scancode
<1>4. KeyOf["rctrl"] = [ext |-> TRUE, byte |-> 29]
  BY DEF KeyOf, Scancode
<1>5. KeyOf["capslock"] = [ext |-> FALSE, byte |-> 58]
  BY DEF KeyOf, Scancode
<1>6. KeyOf["up"] = [ext |-> TRUE, byte |-> 72]
  BY DEF KeyOf, Scancode
<1>7. KeyOf["left"] = [ext |-> TRUE, byte |-> 75]
  BY DEF KeyOf, Scancode
<1>8. KeyOf["pgup"] = [ext |-> TRUE, byte |-> 73]
  BY DEF KeyOf, Scancode
<1>9. KeyOf["keypad4"] = [ext |-> FALSE, byte |-> 75]
  BY DEF KeyOf, Scancode
<1>10. KeyOf["tab"] = [ext |-> FALSE, byte |-> 15]
  BY DEF KeyOf, Scancode
<1>11. KeyOf["enter"] = [ext |-> FALSE, byte |-> 28]
  BY DEF KeyOf, Scancode
<1>12. KeyOf["x"] = [ext |-> FALSE, byte |-> 45]
  BY DEF KeyOf, Scancode
<1>13. KeyOf["alt"] = [ext |-> FALSE, byte |-> 56]
  BY DEF KeyOf, Scancode
<1>14. KeyOf["f1"] = [ext |-> FALSE, byte |-> 59]
  BY DEF KeyOf, Scancode
<1> QED
  BY <1>1, <1>2, <1>3, <1>4, <1>5, <1>6, <1>7, <1>8, <1>9, <1>10, <1>11, <1>12, <1>13, <1>14

(* A key's code is below the prefix, with 128 added too, and no extended key *)
(* has the code of a shift key.                                              *)
LEMMA KeysAre ==
  ASSUME NEW k \in KnownKeys
  PROVE  /\ KeyOf[k].byte \in 1 .. 95
         /\ KeyOf[k].ext \in BOOLEAN
         /\ KeyOf[k].byte \in {Ctrl} <=> k \in Ctrls
         /\ KeyOf[k].byte \in Shift <=> k \in Shifts
         /\ KeyOf[k].ext => KeyOf[k].byte \notin Shift
         /\ KeyOf[k].ext = TRUE <=> k \in {"rctrl", "up", "left", "pgup"}
<1> DEFINE b == KeyOf[k].byte
<1>1. k = "lshift" => b = 42 /\ KeyOf[k].ext = FALSE
  BY CodesAre
<1>2. k = "rshift" => b = 54 /\ KeyOf[k].ext = FALSE
  BY CodesAre
<1>3. k = "lctrl" => b = 29 /\ KeyOf[k].ext = FALSE
  BY CodesAre
<1>4. k = "rctrl" => b = 29 /\ KeyOf[k].ext = TRUE
  BY CodesAre
<1>5. k = "capslock" => b = 58 /\ KeyOf[k].ext = FALSE
  BY CodesAre
<1>6. k = "up" => b = 72 /\ KeyOf[k].ext = TRUE
  BY CodesAre
<1>7. k = "left" => b = 75 /\ KeyOf[k].ext = TRUE
  BY CodesAre
<1>8. k = "pgup" => b = 73 /\ KeyOf[k].ext = TRUE
  BY CodesAre
<1>9. k = "keypad4" => b = 75 /\ KeyOf[k].ext = FALSE
  BY CodesAre
<1>10. k = "tab" => b = 15 /\ KeyOf[k].ext = FALSE
  BY CodesAre
<1>11. k = "enter" => b = 28 /\ KeyOf[k].ext = FALSE
  BY CodesAre
<1>12. k = "x" => b = 45 /\ KeyOf[k].ext = FALSE
  BY CodesAre
<1>13. k = "alt" => b = 56 /\ KeyOf[k].ext = FALSE
  BY CodesAre
<1>14. k = "f1" => b = 59 /\ KeyOf[k].ext = FALSE
  BY CodesAre
<1>15. KeyOf[k].ext \in BOOLEAN
  BY <1>1, <1>2, <1>3, <1>4, <1>5, <1>6, <1>7, <1>8, <1>9, <1>10, <1>11, <1>12, <1>13, <1>14, KnownAre, Zenon
<1>16. k \in {"rctrl", "up", "left", "pgup"} <=> KeyOf[k].ext = TRUE
  BY <1>1, <1>2, <1>3, <1>4, <1>5, <1>6, <1>7, <1>8, <1>9, <1>10, <1>11, <1>12, <1>13, <1>14, KnownAre, Zenon
<1> HIDE DEF b
<1>17. /\ b \in 1 .. 95
       /\ b = 29 <=> k \in {"lctrl", "rctrl"}
       /\ b \in {42, 54} <=> k \in {"lshift", "rshift"}
  BY <1>1, <1>2, <1>3, <1>4, <1>5, <1>6, <1>7, <1>8, <1>9, <1>10, <1>11, <1>12, <1>13, <1>14, KnownAre
<1> QED
  BY <1>15, <1>16, <1>17 DEF b, Ctrl, Shift, Ctrls, Shifts

-----------------------------------------------------------------------------
(* What a modifier is once the first n bytes of w were handled: f is what it *)
(* is now, on and off are the bytes that change it.                          *)

After(f, on, off, w, n) ==
  \/ \E i \in 1 .. n : w[i].byte \in on /\ \A j \in (i + 1) .. n : w[j].byte \notin off
  \/ f /\ \A j \in 1 .. n : w[j].byte \notin off

LEMMA AfterNone ==
  ASSUME NEW f \in BOOLEAN, NEW on, NEW off, NEW w
  PROVE  After(f, on, off, w, 0) <=> f
<1>1. 1 .. 0 = {}
  OBVIOUS
<1> QED
  BY <1>1 DEF After

LEMMA AfterSame ==
  ASSUME NEW f \in BOOLEAN, NEW on, NEW off, NEW w, NEW u, NEW n \in Nat,
         \A i \in 1 .. n : u[i].byte = w[i].byte
  PROVE  After(f, on, off, u, n) <=> After(f, on, off, w, n)
<1>1. \A i \in 1 .. n : \A j \in (i + 1) .. n : j \in 1 .. n
  OBVIOUS
<1> QED
  BY <1>1 DEF After

LEMMA AfterOne ==
  ASSUME NEW f \in BOOLEAN, NEW on, NEW off, on \cap off = {}, NEW w, NEW n \in Nat
  PROVE  After(f, on, off, w, n + 1) <=>
         \/ w[n + 1].byte \in on
         \/ After(f, on, off, w, n) /\ w[n + 1].byte \notin off
<1>1. CASE w[n + 1].byte \in on
  <2>1. n + 1 \in 1 .. (n + 1) /\ ((n + 1) + 1) .. (n + 1) = {}
    OBVIOUS
  <2> QED
    BY <1>1, <2>1 DEF After
<1>2. CASE w[n + 1].byte \notin on /\ w[n + 1].byte \in off
  <2>1. n + 1 \in 1 .. (n + 1) /\ \A i \in 1 .. (n + 1) : i # n + 1 => n + 1 \in (i + 1) .. (n + 1)
    OBVIOUS
  <2> QED
    BY <1>2, <2>1 DEF After
<1>3. CASE w[n + 1].byte \notin on /\ w[n + 1].byte \notin off
  <2>1. \A i \in 1 .. (n + 1) : i \in 1 .. n \/ i = n + 1
    OBVIOUS
  <2>2. \A i \in 1 .. n : /\ i \in 1 .. (n + 1)
                          /\ \A j \in (i + 1) .. (n + 1) : j \in (i + 1) .. n \/ j = n + 1
                          /\ \A j \in (i + 1) .. n : j \in (i + 1) .. (n + 1)
    OBVIOUS
  <2> QED
    BY <1>3, <2>1, <2>2 DEF After
<1> QED
  BY <1>1, <1>2, <1>3

(* Handling the first byte changes nothing of what will be. *)
LEMMA AfterTake ==
  ASSUME NEW f \in BOOLEAN, NEW on, NEW off, on \cap off = {}, NEW w, NEW u, NEW n \in Nat,
         \A i \in 1 .. n : u[i] = w[i + 1]
  PROVE  After((f /\ w[1].byte \notin off) \/ w[1].byte \in on, on, off, u, n)
         <=> After(f, on, off, w, n + 1)
<1> DEFINE g == (f /\ w[1].byte \notin off) \/ w[1].byte \in on
<1>1. ASSUME After(g, on, off, u, n) PROVE After(f, on, off, w, n + 1)
  <2>1. CASE \E i \in 1 .. n : u[i].byte \in on /\ \A j \in (i + 1) .. n : u[j].byte \notin off
    <3>1. PICK i \in 1 .. n : u[i].byte \in on /\ \A j \in (i + 1) .. n : u[j].byte \notin off
      BY <2>1
    <3>2. i + 1 \in 1 .. (n + 1) /\ w[i + 1].byte \in on
      BY <3>1
    <3>3. ASSUME NEW j \in ((i + 1) + 1) .. (n + 1) PROVE w[j].byte \notin off
      <4>1. j - 1 \in (i + 1) .. n /\ j - 1 \in 1 .. n /\ (j - 1) + 1 = j
        OBVIOUS
      <4> QED
        BY <3>1, <4>1
    <3> QED
      BY <3>2, <3>3 DEF After
  <2>2. CASE g /\ \A j \in 1 .. n : u[j].byte \notin off
    <3>1. ASSUME NEW j \in 2 .. (n + 1) PROVE w[j].byte \notin off
      <4>1. j - 1 \in 1 .. n /\ (j - 1) + 1 = j
        OBVIOUS
      <4> QED
        BY <2>2, <4>1
    <3>2. 1 \in 1 .. (n + 1) /\ 1 + 1 = 2 /\ \A j \in 1 .. (n + 1) : j = 1 \/ j \in 2 .. (n + 1)
      OBVIOUS
    <3>3. CASE w[1].byte \in on
      BY <3>1, <3>2, <3>3 DEF After
    <3>4. CASE f /\ w[1].byte \notin off
      BY <3>1, <3>2, <3>4 DEF After
    <3> QED
      BY <2>2, <3>3, <3>4
  <2> QED
    BY <1>1, <2>1, <2>2 DEF After
<1>2. ASSUME After(f, on, off, w, n + 1) PROVE After(g, on, off, u, n)
  <2>1. ASSUME NEW j \in 1 .. n PROVE j + 1 \in 1 .. (n + 1) /\ u[j] = w[j + 1]
    OBVIOUS
  <2>2. CASE \E i \in 1 .. (n + 1) : w[i].byte \in on /\ \A j \in (i + 1) .. (n + 1) : w[j].byte \notin off
    <3>1. PICK i \in 1 .. (n + 1) : w[i].byte \in on /\ \A j \in (i + 1) .. (n + 1) : w[j].byte \notin off
      BY <2>2
    <3>2. CASE i = 1
      <4>1. \A j \in 1 .. n : j + 1 \in (1 + 1) .. (n + 1)
        OBVIOUS
      <4> QED
        BY <2>1, <3>1, <3>2, <4>1 DEF After
    <3>3. CASE i # 1
      <4>1. /\ i - 1 \in 1 .. n /\ (i - 1) + 1 = i
            /\ \A j \in ((i - 1) + 1) .. n : j \in 1 .. n /\ j + 1 \in (i + 1) .. (n + 1)
        BY <3>3
      <4>2. u[i - 1].byte \in on /\ \A j \in ((i - 1) + 1) .. n : u[j].byte \notin off
        BY <2>1, <3>1, <4>1
      <4> QED
        BY <4>1, <4>2 DEF After
    <3> QED
      BY <3>2, <3>3
  <2>3. CASE f /\ \A j \in 1 .. (n + 1) : w[j].byte \notin off
    <3>1. 1 \in 1 .. (n + 1)
      OBVIOUS
    <3> QED
      BY <2>1, <2>3, <3>1 DEF After
  <2> QED
    BY <1>2, <2>2, <2>3 DEF After
<1> QED
  BY <1>1, <1>2

-----------------------------------------------------------------------------
(* The wire *)

Waiting == [key : Keys, byte : 0 .. 255, shift : BOOLEAN, ctrl : BOOLEAN]

KeysType == kb \in Modifiers /\ held \subseteq Keys /\ wire \in Seq(Waiting)

Prefix == \hE0

Prefixed(extra, w, i) == IF i = 1 THEN extra ELSE w[i - 1].byte = Prefix

(* Every byte is the prefix of an extended key, with a byte to come, or a    *)
(* key's code, prefixed if the key is extended.                              *)
WellFormed(extra, w) ==
  /\ \A i \in 1 .. Len(w) :
       \/ w[i].byte = Prefix /\ ~Prefixed(extra, w, i) /\ i < Len(w)
       \/ /\ w[i].byte \in {KeyOf[w[i].key].byte, KeyOf[w[i].key].byte + 128}
          /\ KeyOf[w[i].key].ext <=> Prefixed(extra, w, i)
  /\ extra => Len(w) > 0

Code(k, up) == KeyOf[k].byte + (IF up THEN 128 ELSE 0)

LEMMA KeyKnown == ASSUME NEW k \in Keys PROVE k \in KnownKeys
BY KeysAssumption DEF KeysAssumption

LEMMA CodeIs ==
  ASSUME NEW k \in Keys, NEW up \in BOOLEAN
  PROVE  /\ Code(k, up) \in 0 .. 255 /\ Code(k, up) # Prefix
         /\ Code(k, up) \in {KeyOf[k].byte, KeyOf[k].byte + 128}
         /\ Code(k, up) \in Shift <=> k \in Shifts /\ ~up
         /\ Code(k, up) \in ShiftRel <=> k \in Shifts /\ up
         /\ Code(k, up) \in {Ctrl} <=> k \in Ctrls /\ ~up
         /\ Code(k, up) \in {CtrlRel} <=> k \in Ctrls /\ up
<1> DEFINE b == KeyOf[k].byte
<1>1. b \in 1 .. 95 /\ (b \in {Ctrl} <=> k \in Ctrls) /\ (b \in Shift <=> k \in Shifts)
  BY KeyKnown, KeysAre
<1> HIDE DEF b
<1>2. CASE up
  <2> DEFINE c == b + 128
  <2>1. Code(k, up) = c
    BY <1>2 DEF Code, b
  <2>2. /\ c \in 0 .. 255 /\ c # Prefix /\ c \notin Shift /\ c \notin {Ctrl}
        /\ c \in ShiftRel <=> b \in Shift
        /\ c \in {CtrlRel} <=> b \in {Ctrl}
    BY <1>1 DEF Prefix, Shift, ShiftRel, Ctrl, CtrlRel
  <2> HIDE DEF c
  <2>3. c \in {KeyOf[k].byte, KeyOf[k].byte + 128}
    BY DEF c, b
  <2> QED
    BY <1>1, <1>2, <2>1, <2>2, <2>3
<1>3. CASE ~up
  <2>1. Code(k, up) = b
    BY <1>1, <1>3 DEF Code, b
  <2>2. b \in 0 .. 255 /\ b # Prefix /\ b \notin ShiftRel /\ b \notin {CtrlRel}
    BY <1>1 DEF Prefix, ShiftRel, CtrlRel
  <2>3. b \in {KeyOf[k].byte, KeyOf[k].byte + 128}
    BY DEF b
  <2> QED
    BY <1>1, <1>3, <2>1, <2>2, <2>3
<1> QED
  BY <1>2, <1>3

(* What a key puts on the wire: its code comes last, after the prefix if the *)
(* key is extended.                                                          *)
LEMMA PutIs ==
  ASSUME KeysType, NEW k \in Keys, NEW up \in BOOLEAN, Put(k, up)
  PROVE  /\ wire' \in Seq(Waiting) /\ Len(wire) \in Nat
         /\ \A i \in 1 .. Len(wire) : wire'[i] = wire[i]
         /\ Len(wire') = IF KeyOf[k].ext THEN Len(wire) + 2 ELSE Len(wire) + 1
         /\ wire'[Len(wire')] = Byte(k, Code(k, up))
         /\ KeyOf[k].ext => wire'[Len(wire) + 1] = Byte(k, Prefix)
<1> DEFINE x == Byte(k, Code(k, up))
           e == Byte(k, Prefix)
           n == Len(wire)
           u == IF KeyOf[k].ext THEN <<e, x>> ELSE <<x>>
<1>1. x \in Waiting /\ e \in Waiting
  <2>1. Code(k, up) \in 0 .. 255 /\ Prefix \in 0 .. 255
    BY CodeIs DEF Prefix
  <2>2. ShiftHeld \in BOOLEAN /\ CtrlHeld \in BOOLEAN
    BY DEF ShiftHeld, CtrlHeld
  <2> QED
    BY <2>1, <2>2 DEF Byte, Waiting
<1>2. wire' = wire \o u
  BY DEF Put, Bytes, Code, Prefix
<1>3. wire \in Seq(Waiting) /\ n \in Nat
  BY LenProperties DEF KeysType
<1> HIDE DEF x, e
<1>4. CASE KeyOf[k].ext
  <2>1. u = <<e, x>> /\ <<e, x>> \in Seq(Waiting) /\ Len(<<e, x>>) = 2 /\ <<e, x>>[1] = e /\ <<e, x>>[2] = x
    BY <1>1, <1>4
  <2> DEFINE v == <<e, x>>
  <2> HIDE DEF v
  <2>2. /\ wire' \in Seq(Waiting) /\ Len(wire') = n + 2
        /\ \A i \in 1 .. (n + 2) : wire'[i] = IF i <= n THEN wire[i] ELSE v[i - n]
    <3>1. wire' = wire \o v /\ v \in Seq(Waiting) /\ Len(v) = 2
      BY <1>2, <2>1 DEF v
    <3>2. /\ wire \o v \in Seq(Waiting) /\ Len(wire \o v) = n + 2
          /\ \A i \in 1 .. (n + 2) : (wire \o v)[i] = IF i <= n THEN wire[i] ELSE v[i - n]
      <4>1. /\ wire \o v \in Seq(Waiting) /\ Len(wire \o v) = Len(wire) + Len(v)
            /\ \A i \in 1 .. (Len(wire) + Len(v)) :
                 (wire \o v)[i] = IF i <= Len(wire) THEN wire[i] ELSE v[i - Len(wire)]
        BY <1>3, <3>1, ConcatProperties
      <4> QED
        BY <3>1, <4>1
    <3> QED
      BY <3>1, <3>2
  <2>3. wire'[n + 2] = x /\ wire'[n + 1] = e /\ \A i \in 1 .. n : wire'[i] = wire[i]
    <3>1. n + 2 \in 1 .. (n + 2) /\ ~(n + 2 <= n) /\ n + 2 - n = 2
      BY <1>3
    <3>2. n + 1 \in 1 .. (n + 2) /\ ~(n + 1 <= n) /\ n + 1 - n = 1
      BY <1>3
    <3>3. \A i \in 1 .. n : i \in 1 .. (n + 2) /\ i <= n
      BY <1>3
    <3> QED
      BY <2>1, <2>2, <3>1, <3>2, <3>3 DEF v
  <2> QED
    BY <1>3, <1>4, <2>2, <2>3 DEF x, e
<1>5. CASE ~KeyOf[k].ext
  <2>1. u = <<x>> /\ <<x>> \in Seq(Waiting) /\ Len(<<x>>) = 1 /\ <<x>>[1] = x
    BY <1>1, <1>5
  <2> DEFINE v == <<x>>
  <2> HIDE DEF v
  <2>2. /\ wire' \in Seq(Waiting) /\ Len(wire') = n + 1
        /\ \A i \in 1 .. (n + 1) : wire'[i] = IF i <= n THEN wire[i] ELSE v[i - n]
    <3>1. wire' = wire \o v /\ v \in Seq(Waiting) /\ Len(v) = 1
      BY <1>2, <2>1 DEF v
    <3>2. /\ wire \o v \in Seq(Waiting) /\ Len(wire \o v) = n + 1
          /\ \A i \in 1 .. (n + 1) : (wire \o v)[i] = IF i <= n THEN wire[i] ELSE v[i - n]
      <4>1. /\ wire \o v \in Seq(Waiting) /\ Len(wire \o v) = Len(wire) + Len(v)
            /\ \A i \in 1 .. (Len(wire) + Len(v)) :
                 (wire \o v)[i] = IF i <= Len(wire) THEN wire[i] ELSE v[i - Len(wire)]
        BY <1>3, <3>1, ConcatProperties
      <4> QED
        BY <3>1, <4>1
    <3> QED
      BY <3>1, <3>2
  <2>3. wire'[n + 1] = x /\ \A i \in 1 .. n : wire'[i] = wire[i]
    <3>1. n + 1 \in 1 .. (n + 1) /\ ~(n + 1 <= n) /\ n + 1 - n = 1
      BY <1>3
    <3>2. \A i \in 1 .. n : i \in 1 .. (n + 1) /\ i <= n
      BY <1>3
    <3> QED
      BY <2>1, <2>2, <3>1, <3>2 DEF v
  <2> QED
    BY <1>3, <1>5, <2>2, <2>3 DEF x, e
<1> QED
  BY <1>4, <1>5

LEMMA WireIs ==
  ASSUME KeysType
  PROVE  /\ Len(wire) \in Nat
         /\ \A i \in 1 .. Len(wire) : wire[i] \in Waiting /\ KeyOf[wire[i].key].byte \in 1 .. 95
<1>1. Len(wire) \in Nat /\ \A i \in 1 .. Len(wire) : wire[i] \in Waiting
  BY LenProperties, ElementOfSeq DEF KeysType
<1>2. ASSUME NEW x \in Waiting PROVE KeyOf[x.key].byte \in 1 .. 95
  <2>1. x.key \in Keys
    BY DEF Waiting
  <2>2. x.key \in KnownKeys
    BY <2>1, KeyKnown
  <2> QED
    BY <2>2, KeysAre
<1> QED
  BY <1>1, <1>2

LEMMA PutWellFormed ==
  ASSUME KeysType, NEW k \in Keys, NEW up \in BOOLEAN, Put(k, up), WellFormed(kb.extra, wire)
  PROVE  WellFormed(kb'.extra, wire')
<1> DEFINE n == Len(wire)
           b == Code(k, up)
<1>1. /\ n \in Nat /\ \A i \in 1 .. n : wire'[i] = wire[i]
      /\ Len(wire') = IF KeyOf[k].ext THEN n + 2 ELSE n + 1
      /\ wire'[Len(wire')] = Byte(k, b)
      /\ KeyOf[k].ext => wire'[n + 1] = Byte(k, Prefix)
  BY PutIs
<1>2. kb' = kb
  BY DEF Put
<1>3. ASSUME NEW i \in 1 .. n PROVE Prefixed(kb.extra, wire', i) <=> Prefixed(kb.extra, wire, i)
  <2>1. CASE i = 1
    BY <2>1 DEF Prefixed
  <2>2. CASE i # 1
    <3>1. i - 1 \in 1 .. n
      BY <1>1, <2>2
    <3> QED
      BY <1>1, <2>2, <3>1 DEF Prefixed
  <2> QED
    BY <2>1, <2>2
<1>4. ASSUME NEW i \in 1 .. n
      PROVE  \/ wire'[i].byte = Prefix /\ ~Prefixed(kb.extra, wire', i) /\ i < Len(wire')
             \/ /\ wire'[i].byte \in {KeyOf[wire'[i].key].byte, KeyOf[wire'[i].key].byte + 128}
                /\ KeyOf[wire'[i].key].ext <=> Prefixed(kb.extra, wire', i)
  <2>1. wire'[i] = wire[i] /\ i < Len(wire')
    BY <1>1
  <2> QED
    BY <1>3, <2>1 DEF WellFormed
<1>5. ~Prefixed(kb.extra, wire', n + 1)
  <2>1. CASE n = 0
    BY <2>1 DEF Prefixed, WellFormed
  <2>2. CASE n # 0
    <3>1. n \in 1 .. n /\ n + 1 # 1 /\ (n + 1) - 1 = n /\ ~(n < n)
      BY <1>1, <2>2
    <3>2. wire[n].byte # Prefix
      <4>1. KeyOf[wire[n].key].byte \in 1 .. 95
        BY <3>1, WireIs
      <4>2. wire[n].byte \in {KeyOf[wire[n].key].byte, KeyOf[wire[n].key].byte + 128}
        BY <3>1 DEF WellFormed
      <4> DEFINE c == KeyOf[wire[n].key].byte
      <4> HIDE DEF c
      <4>3. c \in 1 .. 95 /\ (wire[n].byte = c \/ wire[n].byte = c + 128)
        BY <4>1, <4>2 DEF c
      <4>4. c # Prefix /\ c + 128 # Prefix
        BY <4>3 DEF Prefix
      <4> QED
        BY <4>3, <4>4
    <3> QED
      BY <1>1, <3>1, <3>2 DEF Prefixed
  <2> QED
    BY <2>1, <2>2
<1>6. b \in {KeyOf[k].byte, KeyOf[k].byte + 128}
  BY CodeIs
<1>7. \A c : Byte(k, c).byte = c /\ Byte(k, c).key = k
  BY DEF Byte
<1> HIDE DEF b, n
<1>8. CASE ~KeyOf[k].ext
  <2>1. Len(wire') = n + 1 /\ \A i \in 1 .. (n + 1) : i \in 1 .. n \/ i = n + 1
    BY <1>1, <1>8
  <2>2. /\ wire'[n + 1].byte \in {KeyOf[wire'[n + 1].key].byte, KeyOf[wire'[n + 1].key].byte + 128}
        /\ KeyOf[wire'[n + 1].key].ext <=> Prefixed(kb.extra, wire', n + 1)
    BY <1>1, <1>5, <1>6, <1>7, <1>8, <2>1
  <2>3. Len(wire') > 0
    BY <1>1, <2>1
  <2> QED
    BY <1>2, <1>4, <2>1, <2>2, <2>3 DEF WellFormed
<1>9. CASE KeyOf[k].ext
  <2>1. /\ Len(wire') = n + 2 /\ \A i \in 1 .. (n + 2) : i \in 1 .. n \/ i = n + 1 \/ i = n + 2
        /\ n + 1 < n + 2 /\ n + 2 # 1 /\ (n + 2) - 1 = n + 1
    BY <1>1, <1>9
  <2>2. wire'[n + 1].byte = Prefix /\ ~Prefixed(kb.extra, wire', n + 1)
    BY <1>1, <1>5, <1>7, <1>9
  <2>3. Prefixed(kb.extra, wire', n + 2)
    BY <2>1, <2>2 DEF Prefixed
  <2>4. /\ wire'[n + 2].byte \in {KeyOf[wire'[n + 2].key].byte, KeyOf[wire'[n + 2].key].byte + 128}
        /\ KeyOf[wire'[n + 2].key].ext <=> Prefixed(kb.extra, wire', n + 2)
    BY <1>1, <1>6, <1>7, <1>9, <2>1, <2>3
  <2>5. Len(wire') > 0
    BY <1>1, <2>1
  <2> QED
    BY <1>2, <1>4, <2>1, <2>2, <2>4, <2>5 DEF WellFormed
<1> QED
  BY <1>8, <1>9

LEMMA TakeIs ==
  ASSUME KeysType, wire # <<>>, wire' = Tail(wire)
  PROVE  /\ wire' \in Seq(Waiting) /\ Len(wire) \in Nat /\ Len(wire) > 0
         /\ Len(wire') = Len(wire) - 1 /\ Head(wire) = wire[1]
         /\ \A i \in 1 .. Len(wire') : wire'[i] = wire[i + 1]
<1>1. wire \in Seq(Waiting)
  BY DEF KeysType
<1>2. /\ Head(wire) \in Waiting /\ Tail(wire) \in Seq(Waiting) /\ Len(Tail(wire)) = Len(wire) - 1
      /\ \A i \in 1 .. Len(Tail(wire)) : Tail(wire)[i] = wire[i + 1]
  BY <1>1, HeadTailProperties
<1>3. Len(wire) \in Nat /\ Len(wire) # 0
  BY <1>1, LenProperties, EmptySeq
<1>4. Head(wire) = wire[1]
  BY <1>1
<1> QED
  BY <1>2, <1>3, <1>4

LEMMA TakeWellFormed ==
  ASSUME KeysType, WellFormed(kb.extra, wire), wire # <<>>, wire' = Tail(wire)
  PROVE  WellFormed(wire[1].byte = Prefix, wire')
<1> DEFINE x == (wire[1].byte = Prefix)
<1>1. /\ Len(wire) \in Nat /\ Len(wire) > 0 /\ Len(wire') = Len(wire) - 1
      /\ \A i \in 1 .. Len(wire') : wire'[i] = wire[i + 1]
  BY TakeIs
<1>2. ASSUME NEW i \in 1 .. Len(wire')
      PROVE  /\ i + 1 \in 1 .. Len(wire) /\ wire'[i] = wire[i + 1]
             /\ Prefixed(x, wire', i) <=> Prefixed(kb.extra, wire, i + 1)
             /\ i + 1 < Len(wire) <=> i < Len(wire')
  <2>1. i + 1 \in 1 .. Len(wire) /\ i + 1 # 1 /\ (i + 1) - 1 = i /\ (i + 1 < Len(wire) <=> i < Len(wire'))
    BY <1>1
  <2>2. Prefixed(kb.extra, wire, i + 1) <=> wire[i].byte = Prefix
    BY <2>1 DEF Prefixed
  <2>3. CASE i = 1
    BY <1>1, <2>1, <2>2, <2>3 DEF Prefixed
  <2>4. CASE i # 1
    <3>1. i - 1 \in 1 .. Len(wire') /\ (i - 1) + 1 = i
      BY <1>1, <2>4
    <3>2. wire'[i - 1] = wire[i]
      BY <1>1, <3>1
    <3> QED
      BY <1>1, <2>1, <2>2, <2>4, <3>2 DEF Prefixed
  <2> QED
    BY <2>3, <2>4
<1>3. ASSUME x PROVE Len(wire') > 0
  <2>1. 1 \in 1 .. Len(wire) /\ KeyOf[wire[1].key].byte \in 1 .. 95
    BY <1>1, WireIs
  <2> DEFINE c == KeyOf[wire[1].key].byte
  <2>2. c # Prefix /\ c + 128 # Prefix
    <3> HIDE DEF c
    <3>1. c \in 1 .. 95
      BY <2>1 DEF c
    <3> QED
      BY <3>1 DEF Prefix
  <2>3. 1 < Len(wire)
    BY <1>3, <2>1, <2>2 DEF WellFormed
  <2> QED
    BY <1>1, <2>3
<1> HIDE DEF x
<1>4. ASSUME NEW i \in 1 .. Len(wire')
      PROVE  \/ wire'[i].byte = Prefix /\ ~Prefixed(x, wire', i) /\ i < Len(wire')
             \/ /\ wire'[i].byte \in {KeyOf[wire'[i].key].byte, KeyOf[wire'[i].key].byte + 128}
                /\ KeyOf[wire'[i].key].ext <=> Prefixed(x, wire', i)
  BY <1>2 DEF WellFormed
<1> QED
  BY <1>3, <1>4 DEF WellFormed, x

(* What keyboard_handler does to the modifiers when it takes a byte. *)
LEMMA ModifiersAre ==
  ASSUME KeysType, WellFormed(kb.extra, wire), wire # <<>>
  PROVE  LET b == wire[1].byte
             m == ModifiersAfter(kb, b)
         IN  /\ m \in Modifiers /\ m.extra = (b = Prefix)
             /\ m.shift = ((kb.shift /\ b \notin ShiftRel) \/ b \in Shift)
             /\ m.ctrl = ((kb.ctrl /\ b \notin {CtrlRel}) \/ b \in {Ctrl})
<1> DEFINE b == wire[1].byte
           m == ModifiersAfter(kb, b)
           c == KeyOf[wire[1].key].byte
<1>1. Len(wire) \in Nat /\ 1 \in 1 .. Len(wire)
  <2>1. Len(wire) \in Nat /\ Len(wire) # 0
    BY LenProperties, EmptySeq DEF KeysType
  <2> QED
    BY <2>1
<1>2. c \in 1 .. 95 /\ wire[1].key \in KnownKeys
  BY <1>1, WireIs, KeyKnown DEF Waiting
<1>3. kb = [extra |-> kb.extra, shift |-> kb.shift, ctrl |-> kb.ctrl, caps |-> kb.caps]
      /\ kb.extra \in BOOLEAN /\ kb.shift \in BOOLEAN /\ kb.ctrl \in BOOLEAN /\ kb.caps \in BOOLEAN
  BY DEF KeysType, Modifiers
<1>4. \/ b = Prefix /\ ~kb.extra
      \/ b \in {c, c + 128} /\ b # Prefix /\ (KeyOf[wire[1].key].ext <=> kb.extra)
  <2>1. c # Prefix /\ c + 128 # Prefix
    <3> HIDE DEF c
    <3> QED
      BY <1>2 DEF Prefix
  <2>2. Prefixed(kb.extra, wire, 1) <=> kb.extra
    BY DEF Prefixed
  <2> QED
    BY <1>1, <2>1, <2>2 DEF WellFormed
<1>5. CASE b = Prefix
  <2>1. b \notin Shift /\ b \notin ShiftRel /\ b \notin {Ctrl} /\ b \notin {CtrlRel}
    BY <1>5 DEF Prefix, Shift, ShiftRel, Ctrl, CtrlRel
  <2>2. m = [kb EXCEPT !.extra = TRUE]
    BY <1>5 DEF ModifiersAfter, Prefix
  <2> HIDE DEF b, m
  <2>3. m = [extra |-> TRUE, shift |-> kb.shift, ctrl |-> kb.ctrl, caps |-> kb.caps]
    BY <1>3, <2>2
  <2>4. m.extra = TRUE /\ m.shift = kb.shift /\ m.ctrl = kb.ctrl /\ m \in Modifiers
    BY <1>3, <2>3 DEF Modifiers
  <2>5. m.extra = (b = Prefix)
    BY <1>5, <2>4
  <2>6. m.shift = ((kb.shift /\ b \notin ShiftRel) \/ b \in Shift)
    BY <1>3, <2>1, <2>4
  <2>7. m.ctrl = ((kb.ctrl /\ b \notin {CtrlRel}) \/ b \in {Ctrl})
    BY <1>3, <2>1, <2>4
  <2> QED
    BY <2>4, <2>5, <2>6, <2>7 DEF m, b
<1>6. CASE b # Prefix /\ kb.extra
  <2>1. b \notin Shift /\ b \notin ShiftRel
    <3>1. c \notin Shift /\ b \in {c, c + 128}
      BY <1>2, <1>4, <1>6, KeysAre
    <3> HIDE DEF b, c
    <3> QED
      BY <1>2, <3>1 DEF Shift, ShiftRel
  <2>2. m = [kb EXCEPT !.extra = FALSE, !.ctrl = CtrlAfter(kb.ctrl, b)]
    BY <1>6 DEF ModifiersAfter, Prefix, ExtraModifiers
  <2>3. CtrlAfter(kb.ctrl, b) = ((kb.ctrl /\ b \notin {CtrlRel}) \/ b \in {Ctrl})
    BY DEF CtrlAfter
  <2> HIDE DEF b, m
  <2>4. m = [extra |-> FALSE, shift |-> kb.shift, ctrl |-> CtrlAfter(kb.ctrl, b), caps |-> kb.caps]
    BY <1>3, <2>2
  <2>5. m.extra = FALSE /\ m.shift = kb.shift /\ m.ctrl = CtrlAfter(kb.ctrl, b) /\ m.caps = kb.caps
        /\ m \in Modifiers
    BY <1>3, <2>3, <2>4 DEF Modifiers
  <2>6. m.extra = (b = Prefix)
    BY <1>6, <2>5
  <2>7. kb.shift = ((kb.shift /\ b \notin ShiftRel) \/ b \in Shift)
    BY <1>3, <2>1
  <2>8. m.shift = ((kb.shift /\ b \notin ShiftRel) \/ b \in Shift)
    BY <2>5, <2>7
  <2>9. m.ctrl = ((kb.ctrl /\ b \notin {CtrlRel}) \/ b \in {Ctrl})
    BY <2>3, <2>5
  <2> QED
    BY <2>5, <2>6, <2>8, <2>9 DEF m, b
<1>7. CASE b # Prefix /\ ~kb.extra /\ b \in ModifierBytes
  <2> DEFINE s == (kb.shift /\ b \notin ShiftRel) \/ b \in Shift
             d == CtrlAfter(kb.ctrl, b)
             p == IF b = CapsLock THEN ~kb.caps ELSE kb.caps
  <2>1. m = [kb EXCEPT !.shift = s, !.ctrl = d, !.caps = p]
    BY <1>7 DEF ModifiersAfter, Prefix, PlainModifiers
  <2>2. d = ((kb.ctrl /\ b \notin {CtrlRel}) \/ b \in {Ctrl})
    BY DEF CtrlAfter
  <2>3. s \in BOOLEAN /\ d \in BOOLEAN /\ p \in BOOLEAN
    BY <1>3 DEF CtrlAfter
  <2> HIDE DEF b, m, s, d, p
  <2>4. m = [extra |-> kb.extra, shift |-> s, ctrl |-> d, caps |-> p]
    BY <1>3, <2>1
  <2>5. m.extra = kb.extra /\ m.shift = s /\ m.ctrl = d /\ m \in Modifiers
    BY <1>3, <2>3, <2>4 DEF Modifiers
  <2> QED
    BY <1>3, <1>7, <2>2, <2>5 DEF m, b, s
<1>8. CASE b # Prefix /\ ~kb.extra /\ b \notin ModifierBytes
  <2>1. m = kb
    BY <1>8 DEF ModifiersAfter, Prefix
  <2>2. b \notin Shift /\ b \notin ShiftRel /\ b \notin {Ctrl} /\ b \notin {CtrlRel}
    BY <1>8 DEF ModifierBytes
  <2> HIDE DEF b, m
  <2> QED
    BY <1>3, <1>8, <2>1, <2>2 DEF KeysType, m, b
<1> QED
  BY <1>5, <1>6, <1>7, <1>8

(* A key's bytes change a modifier only by its code. *)
LEMMA PutAfter ==
  ASSUME KeysType, NEW k \in Keys, NEW up \in BOOLEAN, Put(k, up),
         NEW f \in BOOLEAN, NEW on, NEW off, on \cap off = {}, Prefix \notin on, Prefix \notin off
  PROVE  /\ \A i \in 0 .. Len(wire) : After(f, on, off, wire', i) <=> After(f, on, off, wire, i)
         /\ KeyOf[k].ext =>
              (After(f, on, off, wire', Len(wire) + 1) <=> After(f, on, off, wire, Len(wire)))
         /\ After(f, on, off, wire', Len(wire'))
            <=> \/ Code(k, up) \in on
                \/ After(f, on, off, wire, Len(wire)) /\ Code(k, up) \notin off
<1> DEFINE n == Len(wire)
           b == Code(k, up)
<1>1. /\ n \in Nat /\ \A i \in 1 .. n : wire'[i] = wire[i]
      /\ Len(wire') = IF KeyOf[k].ext THEN n + 2 ELSE n + 1
      /\ wire'[Len(wire')].byte = b
      /\ KeyOf[k].ext => wire'[n + 1].byte = Prefix
  <2>1. \A c : Byte(k, c).byte = c
    BY DEF Byte
  <2>2. /\ n \in Nat /\ \A i \in 1 .. n : wire'[i] = wire[i]
        /\ Len(wire') = IF KeyOf[k].ext THEN n + 2 ELSE n + 1
        /\ wire'[Len(wire')] = Byte(k, b)
        /\ KeyOf[k].ext => wire'[n + 1] = Byte(k, Prefix)
    BY PutIs
  <2> HIDE DEF n, b
  <2> QED
    BY <2>1, <2>2
<1> HIDE DEF n, b
<1>2. ASSUME NEW i \in 0 .. n
      PROVE  After(f, on, off, wire', i) <=> After(f, on, off, wire, i)
  <2>1. i \in Nat /\ \A j \in 1 .. i : wire'[j].byte = wire[j].byte
    BY <1>1
  <2> QED
    BY <2>1, AfterSame
<1>3. n \in 0 .. n
  BY <1>1
<1>4. CASE ~KeyOf[k].ext
  <2>1. Len(wire') = n + 1 /\ wire'[n + 1].byte = b
    BY <1>1, <1>4
  <2>2. After(f, on, off, wire', n + 1)
        <=> b \in on \/ (After(f, on, off, wire', n) /\ b \notin off)
    BY <1>1, <2>1, AfterOne
  <2> QED
    BY <1>2, <1>3, <1>4, <2>1, <2>2 DEF n, b
<1>5. CASE KeyOf[k].ext
  <2>1. Len(wire') = (n + 1) + 1 /\ wire'[(n + 1) + 1].byte = b /\ wire'[n + 1].byte = Prefix /\ n + 1 \in Nat
    BY <1>1, <1>5
  <2>2. After(f, on, off, wire', n + 1) <=> After(f, on, off, wire', n)
    BY <1>1, <2>1, AfterOne
  <2>3. After(f, on, off, wire', (n + 1) + 1)
        <=> b \in on \/ (After(f, on, off, wire', n + 1) /\ b \notin off)
    BY <2>1, AfterOne
  <2> QED
    BY <1>2, <1>3, <1>5, <2>1, <2>2, <2>3 DEF n, b
<1> QED
  BY <1>4, <1>5

LEMMA Disjoint ==
  /\ Shift \cap ShiftRel = {} /\ Prefix \notin Shift /\ Prefix \notin ShiftRel
  /\ {Ctrl} \cap {CtrlRel} = {} /\ Prefix \notin {Ctrl} /\ Prefix \notin {CtrlRel}
BY DEF Shift, ShiftRel, Ctrl, CtrlRel, Prefix

LEMMA PutModifiers ==
  ASSUME KeysType, NEW k \in Keys, NEW up \in BOOLEAN, Put(k, up)
  PROVE  /\ kb.shift \in BOOLEAN /\ kb.ctrl \in BOOLEAN
         /\ After(kb.shift, Shift, ShiftRel, wire', Len(wire'))
            <=> \/ k \in Shifts /\ ~up
                \/ After(kb.shift, Shift, ShiftRel, wire, Len(wire)) /\ ~(k \in Shifts /\ up)
         /\ After(kb.ctrl, {Ctrl}, {CtrlRel}, wire', Len(wire'))
            <=> \/ k \in Ctrls /\ ~up
                \/ After(kb.ctrl, {Ctrl}, {CtrlRel}, wire, Len(wire)) /\ ~(k \in Ctrls /\ up)
<1>1. kb.shift \in BOOLEAN /\ kb.ctrl \in BOOLEAN
  BY DEF KeysType, Modifiers
<1>2. After(kb.shift, Shift, ShiftRel, wire', Len(wire'))
      <=> \/ Code(k, up) \in Shift
          \/ After(kb.shift, Shift, ShiftRel, wire, Len(wire)) /\ Code(k, up) \notin ShiftRel
  BY <1>1, PutAfter, Disjoint
<1>3. After(kb.ctrl, {Ctrl}, {CtrlRel}, wire', Len(wire'))
      <=> \/ Code(k, up) \in {Ctrl}
          \/ After(kb.ctrl, {Ctrl}, {CtrlRel}, wire, Len(wire)) /\ Code(k, up) \notin {CtrlRel}
  <2> DEFINE on == {Ctrl}
             off == {CtrlRel}
  <2>1. on \cap off = {} /\ Prefix \notin on /\ Prefix \notin off
    BY Disjoint
  <2> HIDE DEF on, off
  <2>2. After(kb.ctrl, on, off, wire', Len(wire'))
        <=> \/ Code(k, up) \in on
            \/ After(kb.ctrl, on, off, wire, Len(wire)) /\ Code(k, up) \notin off
    BY <1>1, <2>1, PutAfter
  <2> QED
    BY <2>2 DEF on, off
<1>4. /\ Code(k, up) \in Shift <=> k \in Shifts /\ ~up
      /\ Code(k, up) \in ShiftRel <=> k \in Shifts /\ up
      /\ Code(k, up) \in {Ctrl} <=> k \in Ctrls /\ ~up
      /\ Code(k, up) \in {CtrlRel} <=> k \in Ctrls /\ up
  BY CodeIs
<1>5. After(kb.shift, Shift, ShiftRel, wire', Len(wire'))
      <=> \/ k \in Shifts /\ ~up
          \/ After(kb.shift, Shift, ShiftRel, wire, Len(wire)) /\ ~(k \in Shifts /\ up)
  BY <1>2, <1>4, Zenon
<1>6. After(kb.ctrl, {Ctrl}, {CtrlRel}, wire', Len(wire'))
      <=> \/ k \in Ctrls /\ ~up
          \/ After(kb.ctrl, {Ctrl}, {CtrlRel}, wire, Len(wire)) /\ ~(k \in Ctrls /\ up)
  BY <1>3, <1>4, Zenon
<1> QED
  BY <1>1, <1>5, <1>6

-----------------------------------------------------------------------------
(* Once all that waits is handled, a modifier is active only if one of its   *)
(* keys is down.                                                             *)
NoneSticks ==
  /\ After(kb.shift, Shift, ShiftRel, wire, Len(wire)) => ShiftHeld
  /\ After(kb.ctrl, {Ctrl}, {CtrlRel}, wire, Len(wire)) => CtrlHeld

KeysInv == KeysType /\ WellFormed(kb.extra, wire) /\ NoneSticks

LEMMA KeysInit ==
  ASSUME Init
  PROVE  KeysInv
<1>1. /\ kb = [extra |-> FALSE, shift |-> FALSE, ctrl |-> FALSE, caps |-> FALSE]
      /\ wire = <<>> /\ held = {}
  BY DEF Init, NoModifiers
<1>2. /\ kb \in Modifiers /\ ~kb.extra /\ kb.shift = FALSE /\ kb.ctrl = FALSE
      /\ wire \in Seq(Waiting) /\ Len(wire) = 0 /\ 1 .. 0 = {}
  BY <1>1, EmptySeq DEF Modifiers
<1>3. WellFormed(kb.extra, wire)
  BY <1>2 DEF WellFormed
<1>4. NoneSticks
  BY <1>2, AfterNone DEF NoneSticks
<1> QED
  BY <1>1, <1>2, <1>3, <1>4 DEF KeysInv, KeysType

LEMMA PressKeeps ==
  ASSUME KeysInv, NEW k \in Keys, Press(k)
  PROVE  KeysInv'
<1>1. KeysType /\ WellFormed(kb.extra, wire) /\ Put(k, FALSE) /\ held' = held \cup {k} /\ kb' = kb
  BY DEF KeysInv, Press, Put
<1>2. KeysType'
  BY <1>1, PutIs DEF KeysType
<1>3. WellFormed(kb.extra, wire)'
  BY <1>1, PutWellFormed
<1>4. kb.shift \in BOOLEAN /\ kb.ctrl \in BOOLEAN
  BY <1>1 DEF KeysType, Modifiers
<1>5. After(kb.shift, Shift, ShiftRel, wire', Len(wire')) => ShiftHeld'
  <2>1. After(kb.shift, Shift, ShiftRel, wire', Len(wire'))
        => k \in Shifts \/ After(kb.shift, Shift, ShiftRel, wire, Len(wire))
    BY <1>1, PutModifiers
  <2>2. ShiftHeld \/ k \in Shifts => ShiftHeld'
    BY <1>1 DEF ShiftHeld, Shifts
  <2> QED
    BY <2>1, <2>2 DEF KeysInv, NoneSticks
<1>6. After(kb.ctrl, {Ctrl}, {CtrlRel}, wire', Len(wire')) => CtrlHeld'
  <2>1. After(kb.ctrl, {Ctrl}, {CtrlRel}, wire', Len(wire'))
        => k \in Ctrls \/ After(kb.ctrl, {Ctrl}, {CtrlRel}, wire, Len(wire))
    BY <1>1, PutModifiers
  <2>2. CtrlHeld \/ k \in Ctrls => CtrlHeld'
    BY <1>1 DEF CtrlHeld, Ctrls
  <2> QED
    BY <2>1, <2>2 DEF KeysInv, NoneSticks
<1> QED
  BY <1>1, <1>2, <1>3, <1>5, <1>6 DEF KeysInv, NoneSticks

LEMMA ReleaseKeeps ==
  ASSUME KeysInv, NEW k \in Keys, Release(k)
  PROVE  KeysInv'
<1>1. KeysType /\ WellFormed(kb.extra, wire) /\ Put(k, TRUE) /\ held' = held \ {k} /\ kb' = kb
  BY DEF KeysInv, Release, Put
<1>2. KeysType'
  BY <1>1, PutIs DEF KeysType
<1>3. WellFormed(kb.extra, wire)'
  BY <1>1, PutWellFormed
<1>4. kb.shift \in BOOLEAN /\ kb.ctrl \in BOOLEAN
  BY <1>1 DEF KeysType, Modifiers
<1>5. After(kb.shift, Shift, ShiftRel, wire', Len(wire')) => ShiftHeld'
  <2>1. After(kb.shift, Shift, ShiftRel, wire', Len(wire'))
        => k \notin Shifts /\ After(kb.shift, Shift, ShiftRel, wire, Len(wire))
    BY <1>1, PutModifiers
  <2>2. ShiftHeld /\ k \notin Shifts => ShiftHeld'
    BY <1>1 DEF ShiftHeld, Shifts
  <2> QED
    BY <2>1, <2>2 DEF KeysInv, NoneSticks
<1>6. After(kb.ctrl, {Ctrl}, {CtrlRel}, wire', Len(wire')) => CtrlHeld'
  <2>1. After(kb.ctrl, {Ctrl}, {CtrlRel}, wire', Len(wire'))
        => k \notin Ctrls /\ After(kb.ctrl, {Ctrl}, {CtrlRel}, wire, Len(wire))
    BY <1>1, PutModifiers
  <2>2. CtrlHeld /\ k \notin Ctrls => CtrlHeld'
    BY <1>1 DEF CtrlHeld, Ctrls
  <2> QED
    BY <2>1, <2>2 DEF KeysInv, NoneSticks
<1> QED
  BY <1>1, <1>2, <1>3, <1>5, <1>6 DEF KeysInv, NoneSticks

(* The handler takes a byte: its modifiers are those of the next byte. *)
LEMMA InterruptIs ==
  ASSUME KeysType, WellFormed(kb.extra, wire), Interrupt
  PROVE  /\ KeysType' /\ WellFormed(kb.extra, wire)'
         /\ \A i \in 0 .. Len(wire') :
              /\ After(kb'.shift, Shift, ShiftRel, wire', i)
                 <=> After(kb.shift, Shift, ShiftRel, wire, i + 1)
              /\ After(kb'.ctrl, {Ctrl}, {CtrlRel}, wire', i)
                 <=> After(kb.ctrl, {Ctrl}, {CtrlRel}, wire, i + 1)
<1> DEFINE b == wire[1].byte
<1>1. wire # <<>> /\ wire' = Tail(wire) /\ held' = held /\ kb' = ModifiersAfter(kb, Head(wire).byte)
  BY DEF Interrupt
<1>2. /\ wire' \in Seq(Waiting) /\ Len(wire) \in Nat /\ Len(wire') = Len(wire) - 1 /\ Len(wire) > 0
      /\ Head(wire) = wire[1] /\ \A i \in 1 .. Len(wire') : wire'[i] = wire[i + 1]
  BY <1>1, TakeIs
<1>3. /\ kb' \in Modifiers /\ kb'.extra = (b = Prefix)
      /\ kb'.shift = ((kb.shift /\ b \notin ShiftRel) \/ b \in Shift)
      /\ kb'.ctrl = ((kb.ctrl /\ b \notin {CtrlRel}) \/ b \in {Ctrl})
  BY <1>1, <1>2, ModifiersAre
<1>4. KeysType'
  BY <1>1, <1>2, <1>3 DEF KeysType
<1>5. WellFormed(kb.extra, wire)'
  BY <1>1, <1>3, TakeWellFormed
<1>6. ASSUME NEW i \in 0 .. Len(wire')
      PROVE  /\ After(kb'.shift, Shift, ShiftRel, wire', i)
                <=> After(kb.shift, Shift, ShiftRel, wire, i + 1)
             /\ After(kb'.ctrl, {Ctrl}, {CtrlRel}, wire', i)
                <=> After(kb.ctrl, {Ctrl}, {CtrlRel}, wire, i + 1)
  <2>1. i \in Nat /\ \A j \in 1 .. i : wire'[j] = wire[j + 1]
    BY <1>2
  <2>2. kb.shift \in BOOLEAN /\ kb.ctrl \in BOOLEAN
    BY DEF KeysType, Modifiers
  <2>3. After((kb.shift /\ b \notin ShiftRel) \/ b \in Shift, Shift, ShiftRel, wire', i)
        <=> After(kb.shift, Shift, ShiftRel, wire, i + 1)
    BY <2>1, <2>2, AfterTake, Disjoint
  <2>4. After((kb.ctrl /\ b \notin {CtrlRel}) \/ b \in {Ctrl}, {Ctrl}, {CtrlRel}, wire', i)
        <=> After(kb.ctrl, {Ctrl}, {CtrlRel}, wire, i + 1)
    BY <2>1, <2>2, AfterTake, Disjoint
  <2> QED
    BY <1>3, <2>3, <2>4
<1> QED
  BY <1>4, <1>5, <1>6

LEMMA KeysNext ==
  ASSUME KeysInv, [Next]_vars
  PROVE  KeysInv'
<1>1. ASSUME NEW k \in Keys, Press(k) PROVE KeysInv'
  BY <1>1, PressKeeps
<1>2. ASSUME NEW k \in Keys, Release(k) PROVE KeysInv'
  BY <1>2, ReleaseKeeps
<1>3. CASE Interrupt
  <2>1. KeysType /\ WellFormed(kb.extra, wire) /\ held' = held /\ wire # <<>> /\ wire' = Tail(wire)
    BY <1>3 DEF KeysInv, Interrupt
  <2>2. Len(wire') \in 0 .. Len(wire') /\ Len(wire') + 1 = Len(wire)
    BY <2>1, TakeIs
  <2>3. NoneSticks'
    BY <1>3, <2>1, <2>2, InterruptIs DEF KeysInv, NoneSticks, ShiftHeld, CtrlHeld
  <2> QED
    BY <1>3, <2>1, <2>3, InterruptIs DEF KeysInv
<1>4. CASE UNCHANGED vars
  BY <1>4 DEF vars, KeysInv, KeysType, WellFormed, Prefixed, NoneSticks, After, ShiftHeld, CtrlHeld
<1> QED
  BY <1>1, <1>2, <1>3, <1>4 DEF Next

LEMMA KeysHold == Spec => []KeysInv
<1>1. Init => KeysInv
  BY KeysInit
<1>2. KeysInv /\ [Next]_vars => KeysInv'
  BY KeysNext
<1> QED
  BY <1>1, <1>2, PTL DEF Spec

(* No modifier sticks, whichever keys there are and however long their bytes *)
(* wait: when the handler caught up, shift and ctrl are active only while    *)
(* one of their keys is down, and no prefix is left over (keyboard.c         *)
(* 105-110, 170-190).                                                        *)
THEOREM ModifiersLetGo == Spec => []NoStuckModifier
<1>1. KeysInv => NoStuckModifier
  <2> SUFFICES ASSUME KeysInv, wire = <<>>
               PROVE  ~kb.extra /\ (kb.shift => ShiftHeld) /\ (kb.ctrl => CtrlHeld)
    BY DEF NoStuckModifier
  <2>1. Len(wire) = 0
    BY EmptySeq
  <2>2. kb.shift \in BOOLEAN /\ kb.ctrl \in BOOLEAN
    BY DEF KeysInv, KeysType, Modifiers
  <2>3. (kb.shift => ShiftHeld) /\ (kb.ctrl => CtrlHeld)
    BY <2>1, <2>2, AfterNone DEF KeysInv, NoneSticks
  <2>4. ~kb.extra
    BY <2>1 DEF KeysInv, WellFormed
  <2> QED
    BY <2>3, <2>4
<1> QED
  BY <1>1, KeysHold, PTL

-----------------------------------------------------------------------------
(* The special codes *)

(* Every byte was given its key while the modifiers were what the handler    *)
(* will have when it comes to it.                                            *)
Recorded ==
  \A i \in 1 .. Len(wire) :
    /\ wire[i].shift <=> After(kb.shift, Shift, ShiftRel, wire, i - 1)
    /\ wire[i].ctrl <=> After(kb.ctrl, {Ctrl}, {CtrlRel}, wire, i - 1)

CatchesUp ==
  /\ After(kb.shift, Shift, ShiftRel, wire, Len(wire)) <=> ShiftHeld
  /\ After(kb.ctrl, {Ctrl}, {CtrlRel}, wire, Len(wire)) <=> CtrlHeld

(* Not both keys of a modifier are there, of which one let go ends it for    *)
(* both, and no key whose character is tab's 9, or lies past the tables.     *)
OneOfEach == ~(Shifts \subseteq Keys) /\ ~(Ctrls \subseteq Keys)
InTables == {"tab", "f1"} \cap Keys = {}

(* A byte that is no key's going down is not sent. *)
LEMMA NotSent ==
  ASSUME NEW q, NEW b \in Int, NEW g, b # Prefix, ~q.extra, b \notin KeypadBytes,
         b \in ModifierBytes \/ b >= MaxCode
  PROVE  SentBy(q, b, g) = Nothing
BY DEF SentBy, Prefix

LEMMA NothingSpecial ==
  ASSUME NEW w, w = Nothing
  PROVE  ~(w.reg = KeyReg /\ w.val \in 1 .. 31)
BY DEF Nothing, Sent

LEMMA KeyIs == ASSUME NEW v PROVE Key(v).val = v
BY DEF Key, Sent

LEMMA ExtraDocumented ==
  ASSUME NEW of, of.key \in {"rctrl", "up", "left", "pgup"},
         of.byte \in {KeyOf[of.key].byte, KeyOf[of.key].byte + 128}, NEW q,
         q.shift \in BOOLEAN, q.ctrl \in BOOLEAN, of.shift = q.shift, of.ctrl = q.ctrl,
         LET w == ExtraKey(q, of.byte) IN w.reg = KeyReg /\ w.val \in 1 .. 31
  PROVE  Documented(ExtraKey(q, of.byte).val, of)
<1> DEFINE w == ExtraKey(q, of.byte)
<1>1. w # Nothing
  BY NothingSpecial
<1>2. of.byte \notin {29, 157, 200, 201, 203}
  BY <1>1 DEF ExtraKey
<1>3. CASE of.key = "rctrl"
  <2>1. of.byte = 29 \/ of.byte = 157
    BY <1>3, CodesAre
  <2> QED
    BY <1>2, <2>1
<1>4. CASE of.key = "up"
  <2>1. of.byte = 72 \/ of.byte = 200
    BY <1>4, CodesAre
  <2>2. w = Key(IF q.shift THEN 18 ELSE 14)
    BY <1>2, <2>1 DEF ExtraKey
  <2>3. w.val = IF q.shift THEN 18 ELSE 14
    BY <2>2, KeyIs
  <2> QED
    BY <1>4, <2>3 DEF Documented
<1>5. CASE of.key = "left"
  <2>1. of.byte = 75 \/ of.byte = 203
    BY <1>5, CodesAre
  <2>2. w = Key(IF q.shift THEN 19 ELSE IF q.ctrl THEN 4 ELSE 15)
    BY <1>2, <2>1 DEF ExtraKey
  <2>3. w.val = IF q.shift THEN 19 ELSE IF q.ctrl THEN 4 ELSE 15
    BY <2>2, KeyIs
  <2> QED
    BY <1>5, <2>3 DEF Documented
<1>6. CASE of.key = "pgup"
  <2>1. of.byte = 73 \/ of.byte = 201
    BY <1>6, CodesAre
  <2>2. w = Key(9)
    BY <1>2, <2>1 DEF ExtraKey
  <2>3. w.val = 9
    BY <2>2, KeyIs
  <2> QED
    BY <1>6, <2>3 DEF Documented
<1> QED
  BY <1>3, <1>4, <1>5, <1>6

LEMMA PlainDocumented ==
  ASSUME NEW of, of.key \in {"lshift", "rshift", "lctrl", "capslock", "keypad4", "enter", "x", "alt"},
         of.byte \in {KeyOf[of.key].byte, KeyOf[of.key].byte + 128}, NEW q, NEW g,
         ~q.extra, q.shift \in BOOLEAN, q.ctrl \in BOOLEAN, of.ctrl = q.ctrl,
         LET w == SentBy(q, of.byte, g) IN w.reg = KeyReg /\ w.val \in 1 .. 31
  PROVE  Documented(SentBy(q, of.byte, g).val, of)
<1> DEFINE w == SentBy(q, of.byte, g)
<1>1. w # Nothing
  BY NothingSpecial
<1>2. of.byte \notin {42, 170, 54, 182, 29, 157, 58, 186, 203, 156, 173, 184}
  <2>1. ASSUME NEW b \in {42, 170, 54, 182, 29, 157, 58, 186, 203, 156, 173, 184}
        PROVE  /\ b \in Int /\ b # Prefix /\ b \notin KeypadBytes
               /\ b \in ModifierBytes \/ b >= MaxCode
    BY DEF Prefix, KeypadBytes, ModifierBytes, MaxCode, Shift, ShiftRel, Ctrl, CtrlRel, CapsLock
  <2> QED
    BY <1>1, <2>1, NotSent
<1>3. CASE of.key \in {"lshift", "rshift", "lctrl", "capslock"}
  <2>1. of.byte \in {42, 170, 54, 182, 29, 157, 58, 186}
    BY <1>3, CodesAre
  <2> QED
    BY <1>2, <2>1
<1>4. CASE of.key = "keypad4"
  <2>1. of.byte = 75 \/ of.byte = 203
    BY <1>4, CodesAre
  <2>2. w = Sent("ring", "relx", -1)
    BY <1>2, <2>1 DEF SentBy, KeypadBytes, KeypadKey
  <2> QED
    BY <2>2 DEF Sent, KeyReg
<1>5. ASSUME NEW b \in {28, 45, 56}
      PROVE  SentBy(q, b, g) = Key(CodeOf(q, Ascii(q, b, g)))
  <2>1. b # \hE0 /\ b \notin KeypadBytes /\ b \notin ModifierBytes /\ ~(b >= MaxCode)
    BY DEF KeypadBytes, ModifierBytes, MaxCode, Shift, ShiftRel, Ctrl, CtrlRel, CapsLock
  <2> QED
    BY <2>1 DEF SentBy
<1>6. CASE of.key = "enter"
  <2>1. of.byte = 28
    BY <1>2, <1>6, CodesAre
  <2>2. Ascii(q, 28, g) = 10
    BY DEF Ascii, Letters, Fixed
  <2>3. w = Key(13)
    BY <1>5, <2>1, <2>2 DEF CodeOf
  <2>4. w.val = 13
    BY <2>3, KeyIs
  <2> QED
    BY <1>6, <2>4 DEF Documented
<1>7. CASE of.key = "x"
  <2>1. of.byte = 45
    BY <1>2, <1>7, CodesAre
  <2>2. Ascii(q, 45, g) \in {120, 88}
    BY DEF Ascii, Letters
  <2>3. ~q.ctrl => CodeOf(q, 120) = 120 /\ CodeOf(q, 88) = 88
    BY DEF CodeOf
  <2>4. q.ctrl => CodeOf(q, 120) = 23 /\ CodeOf(q, 88) = 23
    BY DEF CodeOf
  <2>5. w.val = CodeOf(q, Ascii(q, 45, g))
    BY <1>5, <2>1, KeyIs
  <2>6. CASE q.ctrl
    <3>1. w.val = 23
      BY <2>2, <2>4, <2>5, <2>6
    <3> QED
      BY <1>7, <2>6, <3>1 DEF Documented
  <2>7. CASE ~q.ctrl
    <3>1. w.val \in {120, 88}
      BY <2>2, <2>3, <2>5, <2>7
    <3> QED
      BY <3>1
  <2> QED
    BY <2>6, <2>7
<1>8. CASE of.key = "alt"
  <2>1. of.byte = 56
    BY <1>2, <1>8, CodesAre
  <2>2. Ascii(q, 56, g) = 0
    BY DEF Ascii, Letters, Fixed
  <2>3. CodeOf(q, 0) = 0
    BY DEF CodeOf
  <2>4. w.val = 0
    BY <1>5, <2>1, <2>2, <2>3, KeyIs
  <2> QED
    BY <2>4
<1> QED
  BY <1>3, <1>4, <1>6, <1>7, <1>8

LEMMA SentIsDocumented ==
  ASSUME KeysType, WellFormed(kb.extra, wire), Recorded, InTables, wire # <<>>, NEW g,
         LET w == SentBy(kb, wire[1].byte, g) IN w.reg = KeyReg /\ w.val \in 1 .. 31
  PROVE  Documented(SentBy(kb, wire[1].byte, g).val, wire[1])
<1> DEFINE of == wire[1]
           c == KeyOf[of.key].byte
<1>1. 1 \in 1 .. Len(wire)
  <2>1. Len(wire) \in Nat /\ Len(wire) # 0
    BY LenProperties, EmptySeq DEF KeysType
  <2> QED
    BY <2>1
<1>2. /\ of.key \in Keys /\ of.key \in KnownKeys /\ c \in 1 .. 95
      /\ of.shift \in BOOLEAN /\ of.ctrl \in BOOLEAN
  BY <1>1, WireIs, KeyKnown DEF Waiting
<1>3. kb.extra \in BOOLEAN /\ kb.shift \in BOOLEAN /\ kb.ctrl \in BOOLEAN
  BY DEF KeysType, Modifiers
<1>4. of.shift = kb.shift /\ of.ctrl = kb.ctrl
  <2>1. 1 - 1 = 0
    OBVIOUS
  <2>2. of.shift <=> kb.shift
    BY <1>1, <1>3, <2>1, AfterNone DEF Recorded
  <2>3. of.ctrl <=> kb.ctrl
    BY <1>1, <1>3, <2>1, AfterNone DEF Recorded
  <2> QED
    BY <1>2, <1>3, <2>2, <2>3
<1>5. of.byte # Prefix
  <2>1. CASE of.byte = Prefix
    <3>1. SentBy(kb, of.byte, g) = Nothing
      BY <2>1 DEF SentBy, Prefix
    <3> QED
      BY <3>1, NothingSpecial
  <2> QED
    BY <2>1
<1>6. of.byte \in {c, c + 128} /\ (KeyOf[of.key].ext <=> kb.extra)
  <2>1. Prefixed(kb.extra, wire, 1) <=> kb.extra
    BY DEF Prefixed
  <2> QED
    BY <1>1, <1>5, <2>1 DEF WellFormed
<1>7. of.key \notin {"tab", "f1"}
  BY <1>2 DEF InTables
<1>8. CASE kb.extra
  <2>1. of.key \in {"rctrl", "up", "left", "pgup"}
    BY <1>2, <1>6, <1>8, KeysAre
  <2>2. SentBy(kb, of.byte, g) = ExtraKey(kb, of.byte)
    BY <1>5, <1>8 DEF SentBy, Prefix
  <2> HIDE DEF of
  <2>3. LET w == ExtraKey(kb, of.byte) IN w.reg = KeyReg /\ w.val \in 1 .. 31
    BY <2>2 DEF of
  <2>4. of.byte \in {KeyOf[of.key].byte, KeyOf[of.key].byte + 128}
    BY <1>6
  <2>5. Documented(ExtraKey(kb, of.byte).val, of)
    BY <1>3, <1>4, <2>1, <2>3, <2>4, ExtraDocumented
  <2> QED
    BY <2>2, <2>5 DEF of
<1>9. CASE ~kb.extra
  <2>1. of.key \in {"lshift", "rshift", "lctrl", "capslock", "keypad4", "enter", "x", "alt"}
    BY <1>2, <1>6, <1>7, <1>9, KeysAre, KnownAre
  <2>2. of.byte \in {KeyOf[of.key].byte, KeyOf[of.key].byte + 128}
    BY <1>6
  <2> HIDE DEF of
  <2>3. LET w == SentBy(kb, of.byte, g) IN w.reg = KeyReg /\ w.val \in 1 .. 31
    BY DEF of
  <2>4. Documented(SentBy(kb, of.byte, g).val, of)
    BY <1>3, <1>4, <1>9, <2>1, <2>2, <2>3, PlainDocumented
  <2> QED
    BY <2>4 DEF of
<1> QED
  BY <1>3, <1>8, <1>9

CodesInv ==
  KeysType /\ WellFormed(kb.extra, wire) /\ Recorded /\ CatchesUp /\ SpecialCodesAsDocumented

LEMMA CodesInit ==
  ASSUME Init
  PROVE  CodesInv
<1>1. KeysType /\ WellFormed(kb.extra, wire)
  BY KeysInit DEF KeysInv
<1>2. /\ kb.shift = FALSE /\ kb.ctrl = FALSE /\ wire = <<>> /\ held = {} /\ sent.what = Nothing
  BY DEF Init, NoModifiers
<1>3. Len(wire) = 0 /\ 1 .. Len(wire) = {}
  BY <1>2, EmptySeq
<1>4. Recorded
  BY <1>3 DEF Recorded
<1>5. CatchesUp
  BY <1>2, <1>3, AfterNone DEF CatchesUp, ShiftHeld, CtrlHeld
<1>6. SpecialCodesAsDocumented
  BY <1>2, NothingSpecial DEF SpecialCodesAsDocumented
<1> QED
  BY <1>1, <1>4, <1>5, <1>6 DEF CodesInv

(* A key's bytes are recorded with the modifiers that will be there. *)
LEMMA PutRecords ==
  ASSUME KeysType, Recorded, CatchesUp, NEW k \in Keys, NEW up \in BOOLEAN, Put(k, up)
  PROVE  Recorded'
<1> DEFINE n == Len(wire)
<1>1. /\ n \in Nat /\ \A i \in 1 .. n : wire'[i] = wire[i]
      /\ Len(wire') = IF KeyOf[k].ext THEN n + 2 ELSE n + 1
      /\ wire'[Len(wire')] = Byte(k, Code(k, up))
      /\ KeyOf[k].ext => wire'[n + 1] = Byte(k, Prefix)
  BY PutIs
<1>2. kb' = kb /\ kb.shift \in BOOLEAN /\ kb.ctrl \in BOOLEAN
  BY DEF Put, KeysType, Modifiers
<1>3. /\ \A i \in 0 .. n : After(kb.shift, Shift, ShiftRel, wire', i)
                           <=> After(kb.shift, Shift, ShiftRel, wire, i)
      /\ KeyOf[k].ext => (After(kb.shift, Shift, ShiftRel, wire', n + 1)
                          <=> After(kb.shift, Shift, ShiftRel, wire, n))
  BY <1>2, PutAfter, Disjoint
<1>4. /\ \A i \in 0 .. n : After(kb.ctrl, {Ctrl}, {CtrlRel}, wire', i)
                           <=> After(kb.ctrl, {Ctrl}, {CtrlRel}, wire, i)
      /\ KeyOf[k].ext => (After(kb.ctrl, {Ctrl}, {CtrlRel}, wire', n + 1)
                          <=> After(kb.ctrl, {Ctrl}, {CtrlRel}, wire, n))
  <2> DEFINE on == {Ctrl}
             off == {CtrlRel}
  <2>1. on \cap off = {} /\ Prefix \notin on /\ Prefix \notin off
    BY Disjoint
  <2> HIDE DEF on, off
  <2>2. /\ \A i \in 0 .. n : After(kb.ctrl, on, off, wire', i) <=> After(kb.ctrl, on, off, wire, i)
        /\ KeyOf[k].ext => (After(kb.ctrl, on, off, wire', n + 1) <=> After(kb.ctrl, on, off, wire, n))
    BY <1>2, <2>1, PutAfter
  <2> QED
    BY <2>2 DEF on, off
<1> DEFINE At(i) == /\ wire'[i].shift <=> After(kb.shift, Shift, ShiftRel, wire', i - 1)
                    /\ wire'[i].ctrl <=> After(kb.ctrl, {Ctrl}, {CtrlRel}, wire', i - 1)
<1>5. ASSUME NEW i \in 1 .. n PROVE At(i)
  <2>1. i - 1 \in 0 .. n /\ wire'[i] = wire[i]
    BY <1>1
  <2> HIDE DEF n
  <2>2. /\ wire[i].shift <=> After(kb.shift, Shift, ShiftRel, wire, i - 1)
        /\ wire[i].ctrl <=> After(kb.ctrl, {Ctrl}, {CtrlRel}, wire, i - 1)
    BY DEF Recorded, n
  <2> QED
    BY <1>3, <1>4, <2>1, <2>2
<1>6. \A c : Byte(k, c).shift = ShiftHeld /\ Byte(k, c).ctrl = CtrlHeld
  BY DEF Byte
<1>7. At(n + 1)
  <2>1. (n + 1) - 1 = n /\ n \in 0 .. n
    BY <1>1
  <2>2. wire'[n + 1].shift = ShiftHeld /\ wire'[n + 1].ctrl = CtrlHeld
    <3>1. CASE KeyOf[k].ext
      BY <1>1, <1>6, <3>1
    <3>2. CASE ~KeyOf[k].ext
      BY <1>1, <1>6, <3>2
    <3> QED
      BY <3>1, <3>2
  <2> QED
    BY <1>3, <1>4, <2>1, <2>2 DEF CatchesUp
<1>8. CASE ~KeyOf[k].ext
  <2>1. \A i \in 1 .. Len(wire') : i \in 1 .. n \/ i = n + 1
    BY <1>1, <1>8
  <2>2. \A i \in 1 .. Len(wire') : At(i)
    <3> HIDE DEF At, n
    <3> QED
      BY <1>5, <1>7, <2>1
  <2> QED
    BY <1>2, <2>2 DEF Recorded
<1>9. CASE KeyOf[k].ext
  <2>1. /\ Len(wire') = n + 2 /\ (n + 2) - 1 = n + 1
        /\ \A i \in 1 .. Len(wire') : i \in 1 .. n \/ i = n + 1 \/ i = n + 2
    BY <1>1, <1>9
  <2>2. wire'[n + 2].shift = ShiftHeld /\ wire'[n + 2].ctrl = CtrlHeld
    BY <1>1, <1>6, <2>1
  <2>3. At(n + 2)
    BY <1>3, <1>4, <1>9, <2>1, <2>2 DEF CatchesUp
  <2>4. \A i \in 1 .. Len(wire') : At(i)
    <3> HIDE DEF At, n
    <3> QED
      BY <1>5, <1>7, <2>1, <2>3
  <2> QED
    BY <1>2, <2>4 DEF Recorded
<1> QED
  BY <1>8, <1>9

LEMMA CodesNext ==
  ASSUME OneOfEach, InTables, CodesInv, [Next]_vars
  PROVE  CodesInv'
<1> USE DEF CodesInv
<1>1. ASSUME NEW k \in Keys, Press(k) PROVE CodesInv'
  <2>1. Put(k, FALSE) /\ held' = held \cup {k} /\ kb' = kb /\ sent' = sent
    BY <1>1 DEF Press, Put
  <2>2. KeysType'
    BY <2>1, PutIs DEF KeysType
  <2>3. WellFormed(kb.extra, wire)' /\ Recorded'
    BY <2>1, PutWellFormed, PutRecords
  <2>4. CatchesUp'
    <3>1. (ShiftHeld' <=> ShiftHeld \/ k \in Shifts) /\ (CtrlHeld' <=> CtrlHeld \/ k \in Ctrls)
      BY <2>1 DEF ShiftHeld, CtrlHeld, Shifts, Ctrls
    <3> QED
      BY <2>1, <3>1, PutModifiers DEF CatchesUp
  <2> QED
    BY <2>1, <2>2, <2>3, <2>4 DEF SpecialCodesAsDocumented
<1>2. ASSUME NEW k \in Keys, Release(k) PROVE CodesInv'
  <2>1. Put(k, TRUE) /\ held' = held \ {k} /\ kb' = kb /\ sent' = sent /\ k \in held
    BY <1>2 DEF Release, Put
  <2>2. KeysType'
    BY <2>1, PutIs DEF KeysType
  <2>3. WellFormed(kb.extra, wire)' /\ Recorded'
    BY <2>1, PutWellFormed, PutRecords
  <2>4. CatchesUp'
    <3>1. (ShiftHeld' <=> ShiftHeld /\ k \notin Shifts) /\ (CtrlHeld' <=> CtrlHeld /\ k \notin Ctrls)
      BY <2>1 DEF ShiftHeld, CtrlHeld, Shifts, Ctrls, KeysType, OneOfEach
    <3> QED
      BY <2>1, <3>1, PutModifiers DEF CatchesUp
  <2> QED
    BY <2>1, <2>2, <2>3, <2>4 DEF SpecialCodesAsDocumented
<1>3. CASE Interrupt
  <2>1. /\ wire # <<>> /\ wire' = Tail(wire) /\ held' = held
        /\ \E g \in Garbage : sent' = [of |-> Head(wire), what |-> SentBy(kb, Head(wire).byte, g)]
    BY <1>3 DEF Interrupt
  <2>2. /\ Len(wire) \in Nat /\ Len(wire') + 1 = Len(wire) /\ Len(wire') \in 0 .. Len(wire')
        /\ Head(wire) = wire[1] /\ \A i \in 1 .. Len(wire') : wire'[i] = wire[i + 1]
    BY <2>1, TakeIs
  <2>3. /\ KeysType' /\ WellFormed(kb.extra, wire)'
        /\ \A i \in 0 .. Len(wire') :
             /\ After(kb'.shift, Shift, ShiftRel, wire', i)
                <=> After(kb.shift, Shift, ShiftRel, wire, i + 1)
             /\ After(kb'.ctrl, {Ctrl}, {CtrlRel}, wire', i)
                <=> After(kb.ctrl, {Ctrl}, {CtrlRel}, wire, i + 1)
    BY <1>3, InterruptIs
  <2>4. CatchesUp'
    BY <2>1, <2>2, <2>3 DEF CatchesUp, ShiftHeld, CtrlHeld
  <2>5. Recorded'
    <3>1. ASSUME NEW i \in 1 .. Len(wire')
          PROVE  /\ wire'[i].shift <=> After(kb'.shift, Shift, ShiftRel, wire', i - 1)
                 /\ wire'[i].ctrl <=> After(kb'.ctrl, {Ctrl}, {CtrlRel}, wire', i - 1)
      <4>1. /\ i - 1 \in 0 .. Len(wire') /\ (i - 1) + 1 = i /\ (i + 1) - 1 = i
            /\ i + 1 \in 1 .. Len(wire) /\ wire'[i] = wire[i + 1]
        BY <2>2
      <4>2. /\ wire[i + 1].shift <=> After(kb.shift, Shift, ShiftRel, wire, i)
            /\ wire[i + 1].ctrl <=> After(kb.ctrl, {Ctrl}, {CtrlRel}, wire, i)
        BY <4>1 DEF Recorded
      <4> QED
        BY <2>3, <4>1, <4>2
    <3> QED
      BY <3>1 DEF Recorded
  <2>6. SpecialCodesAsDocumented'
    <3>1. PICK g \in Garbage : sent' = [of |-> wire[1], what |-> SentBy(kb, wire[1].byte, g)]
      BY <2>1, <2>2
    <3>2. sent'.of = wire[1] /\ sent'.what = SentBy(kb, wire[1].byte, g)
      BY <3>1
    <3> QED
      BY <2>1, <3>2, SentIsDocumented DEF SpecialCodesAsDocumented
  <2> QED
    BY <2>3, <2>4, <2>5, <2>6
<1>4. CASE UNCHANGED vars
  <2>1. kb' = kb /\ held' = held /\ wire' = wire /\ sent' = sent
    BY <1>4 DEF vars
  <2>2. KeysType'
    BY <2>1 DEF KeysType
  <2>3. WellFormed(kb.extra, wire)'
    BY <2>1
  <2>4. Recorded'
    BY <2>1 DEF Recorded
  <2>5. CatchesUp'
    BY <2>1 DEF CatchesUp, ShiftHeld, CtrlHeld
  <2>6. SpecialCodesAsDocumented'
    BY <2>1 DEF SpecialCodesAsDocumented
  <2> QED
    BY <2>2, <2>3, <2>4, <2>5, <2>6
<1> QED
  BY <1>1, <1>2, <1>3, <1>4 DEF Next

(* A special code sent to the guest is the one hardware.txt lists for the    *)
(* key pressed with the modifiers that were down then, however many bytes    *)
(* were waiting before it, as long as one key of each modifier is used and   *)
(* no key whose character is a special code itself.                          *)
THEOREM SpecialCodesMatch ==
  ASSUME OneOfEach, InTables
  PROVE  Spec => []SpecialCodesAsDocumented
<1>1. Init => CodesInv
  BY CodesInit
<1>2. CodesInv /\ [Next]_vars => CodesInv'
  BY CodesNext
<1>3. CodesInv => SpecialCodesAsDocumented
  BY DEF CodesInv
<1> QED
  BY <1>1, <1>2, <1>3, PTL DEF Spec
=============================================================================
