--------------------------- MODULE JitCacheProofs ---------------------------
(***************************************************************************)
(* What is proved of JitCache, for any size of memory, blocks, code and    *)
(* rings: pointers and links stay right, and so translated code follows    *)
(* the guest and runs no dropped block.                                    *)
(***************************************************************************)
EXTENDS JitCache, TLAPS

(* An entry shows whether its block is valid *)
Entries ==
  \A b \in Ids : code[blocks[b].entry] = IF blocks[b].valid THEN Body ELSE Gone

(* A jump that is linked goes to a block for its target *)
JumpsGoHome ==
  \A b \in Ids : \A k \in 1 .. blocks[b].size - 1 :
    code[blocks[b].entry + k] # Slow =>
      \E t \in Ids : /\ code[blocks[b].entry + k] = blocks[t].entry
                     /\ blocks[t].start = blocks[b].exits[k]

(* The cache, wherever jit_run is *)
Data == RecordsOK /\ Entries /\ JumpsGoHome /\ LinksAgree /\ TableAgrees

RingOK ==
  /\ pending \in Seq(Nat) /\ Len(pending) < PendingLen
  /\ \A i \in 1 .. Len(pending) : pending[i] \in Ids

(* What jit_run holds where it is *)
Local ==
  /\ eip \in Nat /\ goal \in Nat /\ flushed \in BOOLEAN
  /\ cur \in Nat /\ site \in 0 .. CodeSize
  /\ pc \in {"out", "drain", "reval", "lookup", "trans", "emit", "wait", "room",
             "enter", "run", "hoist", "smc", "link", "patch"}
  /\ pc \in {"wait", "room", "enter", "run", "patch"} => cur \in Ids
  /\ pc \in {"wait", "room", "enter", "patch"} => blocks[cur].start = eip
  /\ pc = "run" => blocks[cur].valid /\ blocks[cur].start = goal
  /\ pc # "run" => eip = goal
  /\ pc \in {"trans", "emit"} => \A b \in htab : blocks[b].start # eip
  /\ pc = "emit" => ~Full
  /\ site # None => pc \in {"link", "trans", "emit", "wait", "room", "patch"}
  /\ pc \in {"link", "patch"} => site # None

(* A jump to be linked is still there and still goes to its slow path *)
SiteOK ==
  site # None /\ ~flushed =>
    \E b \in Ids : \E k \in 1 .. blocks[b].size - 1 :
      /\ site = blocks[b].entry + k /\ blocks[b].exits[k] = eip /\ code[site] = Slow

CacheInv == Data /\ RingOK /\ Local /\ SiteOK

-----------------------------------------------------------------------------
(* The table *)

(* lookup() finds a block of the table with the start asked for, and none    *)
(* only where there is none (jit.c 273-279).                                 *)
LEMMA LookUpFinds ==
  ASSUME RecordsOK, TableAgrees, NEW a
  PROVE  /\ LookUp(a) # None => LookUp(a) \in htab /\ blocks[LookUp(a)].start = a
         /\ LookUp(a) = None => \A b \in htab : blocks[b].start # a
         /\ \A b \in htab : blocks[b].start = a => LookUp(a) = b
<1> DEFINE found == {b \in htab : blocks[b].start = a}
<1>1. \A b \in found : b \in Nat \ {0} /\ found = {b}
  BY DEF RecordsOK, TableAgrees, Ids
<1>2. CASE found = {}
  BY <1>2 DEF LookUp
<1>3. CASE found # {}
  <2>1. PICK b \in found : TRUE
    BY <1>3
  <2>2. found = {b} /\ b \in Nat \ {0}
    BY <1>1, <2>1
  <2>3. LookUp(a) = CHOOSE x \in found : \A o \in found : o <= x
    BY <1>3 DEF LookUp
  <2>4. \E x \in found : \A o \in found : o <= x
    BY <2>2
  <2>5. (CHOOSE x \in found : \A o \in found : o <= x) \in found
    BY <2>4
  <2>6. LookUp(a) = b
    BY <2>2, <2>3, <2>5
  <2> QED
    BY <2>2, <2>6 DEF None
<1> QED
  BY <1>2, <1>3

(* invalidate_word() drops only blocks of the table (jit.c 315-320). *)
LEMMA DropsInTable ==
  ASSUME RecordsOK, TableAgrees, NEW w
  PROVE  Drops(w) \subseteq htab
<1> SUFFICES ASSUME NEW b \in Drops(w) PROVE b \in htab
  OBVIOUS
<1>1. PICK s : b = LookUp(s) /\ b # None
  BY DEF Drops
<1> QED
  BY <1>1, LookUpFinds

-----------------------------------------------------------------------------
(* Dropping blocks *)

(* What invalidate() leaves as it was: where blocks are, what they cover and *)
(* where they go, and jumps to slow paths (jit.c 288-310).                   *)
LEMMA InvalidateKeeps ==
  ASSUME Data, NEW D \in SUBSET htab, Invalidate(D)
  PROVE  /\ nblocks' = nblocks /\ code_ptr' = code_ptr /\ nlinks' = nlinks /\ links' = links
         /\ Ids' = Ids /\ DOMAIN blocks' = Ids
         /\ htab' = htab \ D
         /\ \A b \in Ids :
              /\ blocks'[b].start = blocks[b].start /\ blocks'[b].n = blocks[b].n
              /\ blocks'[b].entry = blocks[b].entry /\ blocks'[b].size = blocks[b].size
              /\ blocks'[b].exits = blocks[b].exits
              /\ blocks'[b].valid = (blocks[b].valid /\ b \notin D)
              /\ blocks'[b].incoming = IF b \in D THEN {} ELSE blocks[b].incoming
         /\ \A a \in 1 .. code_ptr : code[a] = Slow => code'[a] = Slow
<1>1. D \subseteq Ids /\ \A b \in Ids : blocks[b] \in Block
  BY DEF Data, RecordsOK
<1>2. \A b \in Ids : blocks'[b] = IF b \in D THEN [blocks[b] EXCEPT !.valid = FALSE, !.incoming = {}]
                                  ELSE blocks[b]
  BY DEF Invalidate, Ids
<1>3. /\ nblocks' = nblocks /\ code_ptr' = code_ptr /\ nlinks' = nlinks /\ links' = links
      /\ Ids' = Ids /\ DOMAIN blocks' = Ids
      /\ htab' = htab \ D
  BY DEF Invalidate, Ids
<1>4. ASSUME NEW b \in Ids
      PROVE  /\ blocks'[b].start = blocks[b].start /\ blocks'[b].n = blocks[b].n
             /\ blocks'[b].entry = blocks[b].entry /\ blocks'[b].size = blocks[b].size
             /\ blocks'[b].exits = blocks[b].exits
             /\ blocks'[b].valid = (blocks[b].valid /\ b \notin D)
             /\ blocks'[b].incoming = IF b \in D THEN {} ELSE blocks[b].incoming
  <2>1. blocks[b] \in Block
    BY <1>1
  <2>2. CASE b \in D
    BY <1>2, <2>1, <2>2 DEF Block
  <2>3. CASE b \notin D
    BY <1>2, <2>1, <2>3 DEF Block
  <2> QED
    BY <2>2, <2>3
<1>5. ASSUME NEW a \in 1 .. code_ptr, code[a] = Slow
      PROVE  code'[a] = Slow
  <2>1. ~ \E b \in D : a = blocks[b].entry
    BY <1>1, <1>5 DEF Data, Entries, Slow, Body, Gone
  <2> QED
    BY <1>5, <2>1 DEF Invalidate
<1> QED
  BY <1>3, <1>4, <1>5

(* The fields of a block record. *)
LEMMA BlockFields ==
  ASSUME RecordsOK, NEW b \in Ids
  PROVE  /\ b \in Nat \ {0} /\ blocks[b].start \in Nat /\ blocks[b].n \in 1 .. MaxBlock
         /\ blocks[b].entry \in 1 .. code_ptr /\ blocks[b].size \in Nat \ {0}
         /\ blocks[b].entry + blocks[b].size - 1 <= code_ptr
         /\ blocks[b].valid \in BOOLEAN
<1>1. blocks[b] \in Block
  BY DEF RecordsOK
<1>2. /\ blocks[b].start \in Nat /\ blocks[b].n \in 1 .. MaxBlock
      /\ blocks[b].entry \in 1 .. CodeSize /\ blocks[b].size \in 1 .. MaxExits + 1
      /\ blocks[b].valid \in BOOLEAN
  BY <1>1 DEF Block, Slack
<1> QED
  BY SMTT(30), <1>2, CacheAssumption DEF RecordsOK, Ids

(* Two blocks never have the same entry. *)
LEMMA EntryOfOne ==
  ASSUME RecordsOK, NEW b \in Ids, NEW o \in Ids, blocks[b].entry = blocks[o].entry
  PROVE  b = o
<1>1. /\ b \in Nat /\ blocks[b].entry \in Nat /\ blocks[b].size \in Nat \ {0}
      /\ o \in Nat /\ blocks[o].entry \in Nat /\ blocks[o].size \in Nat \ {0}
  BY BlockFields, CacheAssumption DEF RecordsOK
<1>2. b < o => blocks[b].entry + blocks[b].size <= blocks[o].entry
  BY DEF RecordsOK
<1>3. o < b => blocks[o].entry + blocks[o].size <= blocks[b].entry
  BY DEF RecordsOK
<1> QED
  BY <1>1, <1>2, <1>3

(* Dropping blocks of the table keeps the cache in order (jit.c 288-310). *)
LEMMA InvalidateData ==
  ASSUME Data, NEW D \in SUBSET htab, Invalidate(D)
  PROVE  Data'
<1> USE CacheAssumption
<1> DEFINE Keeps ==
      /\ nblocks' = nblocks /\ code_ptr' = code_ptr /\ nlinks' = nlinks /\ links' = links
      /\ Ids' = Ids /\ DOMAIN blocks' = Ids
      /\ htab' = htab \ D
      /\ \A b \in Ids :
           /\ blocks'[b].start = blocks[b].start /\ blocks'[b].n = blocks[b].n
           /\ blocks'[b].entry = blocks[b].entry /\ blocks'[b].size = blocks[b].size
           /\ blocks'[b].exits = blocks[b].exits
           /\ blocks'[b].valid = (blocks[b].valid /\ b \notin D)
           /\ blocks'[b].incoming = IF b \in D THEN {} ELSE blocks[b].incoming
<1>1. Keeps
  BY InvalidateKeeps
<1> HIDE DEF Keeps
<1>2. \A a \in 1 .. code_ptr : code[a] = Slow => code'[a] = Slow
  BY InvalidateKeeps
<1>3. D \subseteq Ids /\ \A b \in Ids : blocks[b] \in Block
  BY DEF Data, RecordsOK
<1>4. \A b \in Ids : /\ blocks[b].entry \in 1 .. code_ptr /\ blocks[b].size \in Nat \ {0}
                     /\ \A j \in Jumps(b) : j \in 1 .. code_ptr
  BY SMTT(30), <1>3 DEF Data, RecordsOK, Block, Slack, Jumps
<1>5. \A b \in Ids : \A l \in blocks[b].incoming : l \in 1 .. nlinks /\ links[l] \in 1 .. code_ptr
  BY DEF Data, RecordsOK
(* an entry is no jump of a link record *)
<1>6. ASSUME NEW b \in Ids, NEW t \in Ids, NEW l \in blocks[t].incoming
      PROVE  links[l] # blocks[b].entry
  <2>1. code[links[l]] = blocks[t].entry /\ blocks[t].entry \in 1 .. code_ptr
    BY <1>4 DEF Data, LinksAgree
  <2>2. code[blocks[b].entry] \in {Body, Gone}
    BY DEF Data, Entries
  <2> QED
    BY <2>1, <2>2 DEF Body, Gone, Data, RecordsOK
(* a jump that stays linked was linked to a block that stays *)
<1>7. ASSUME NEW a \in 1 .. code_ptr, NEW t \in Ids, code[a] = blocks[t].entry
      PROVE  /\ \A b \in Ids : a # blocks[b].entry
             /\ code'[a] \in {Slow, code[a]}
             /\ code'[a] # Slow => \A b \in D : \A l \in blocks[b].incoming : links[l] # a
  <2>1. \A b \in Ids : a # blocks[b].entry
    <3>1. \A b \in Ids : code[blocks[b].entry] \in {Body, Gone}
      BY DEF Data, Entries
    <3> QED
      BY SMTT(30), <1>4, <1>7, <3>1 DEF Body, Gone, Data, RecordsOK
  <2>2. code'[a] = IF \E b \in D : \E l \in blocks[b].incoming : links[l] = a
                   THEN Slow ELSE code[a]
    BY <1>3, <2>1 DEF Invalidate
  <2> QED
    BY <2>1, <2>2
<1>8. RecordsOK'
  <2>1. \A b \in Ids : blocks'[b] \in Block
    <3> SUFFICES ASSUME NEW b \in Ids PROVE blocks'[b] \in Block
      OBVIOUS
    <3>1. blocks'[b] = IF b \in D THEN [blocks[b] EXCEPT !.valid = FALSE, !.incoming = {}]
                       ELSE blocks[b]
      BY DEF Invalidate, Ids
    <3>2. blocks[b] \in Block
      BY <1>3
    <3>3. CASE b \in D
      BY <3>1, <3>2, <3>3 DEF Block
    <3>4. CASE b \notin D
      BY <3>1, <3>2, <3>4
    <3> QED
      BY <3>3, <3>4
  <2>2. blocks' \in [Ids' -> Block]
    <3>1. blocks' = [b \in 1 .. nblocks |-> blocks'[b]]
      BY DEF Invalidate
    <3> QED
      BY <1>1, <2>1, <3>1 DEF Keeps, Ids
  <2>3. code' \in [1 .. code_ptr' -> {Slow, Body, Gone} \cup (1 .. code_ptr')]
    BY <1>1 DEF Keeps, Data, RecordsOK, Invalidate
  <2>4. free_links' \subseteq 1 .. nlinks'
    <3>1. free_links' = free_links \cup UNION {blocks[b].incoming : b \in D}
      BY DEF Invalidate
    <3>2. free_links \subseteq 1 .. nlinks /\ nlinks' = nlinks
      BY <1>1 DEF Keeps, Data, RecordsOK
    <3>3. \A b \in D : blocks[b].incoming \subseteq 1 .. nlinks
      BY <1>3 DEF Data, RecordsOK
    <3> QED
      BY <3>1, <3>2, <3>3
  <2>5. \A b \in Ids' : /\ blocks'[b].entry + blocks'[b].size - 1 <= code_ptr'
                        /\ DOMAIN blocks'[b].exits = 1 .. blocks'[b].size - 1
                        /\ blocks'[b].incoming \subseteq 1 .. nlinks'
    BY <1>1 DEF Keeps, Data, RecordsOK
  <2>6. \A b, o \in Ids' : b < o => blocks'[b].entry + blocks'[b].size <= blocks'[o].entry
    BY <1>1 DEF Keeps, Data, RecordsOK
  <2> QED
    BY <1>1, <2>2, <2>3, <2>4, <2>5, <2>6 DEF Keeps, Data, RecordsOK
<1>9. Entries'
  <2> SUFFICES ASSUME NEW b \in Ids
               PROVE  code'[blocks'[b].entry] = IF blocks'[b].valid THEN Body ELSE Gone
    BY <1>1 DEF Keeps, Entries
  <2>1. code[blocks[b].entry] = IF blocks[b].valid THEN Body ELSE Gone
    BY DEF Data, Entries
  <2>2. blocks[b].entry \in 1 .. code_ptr
    BY <1>4
  <2>3. CASE b \in D
    BY <1>1, <2>2, <2>3 DEF Keeps, Invalidate
  <2>4. CASE b \notin D
    <3>1. \A o \in D : blocks[b].entry # blocks[o].entry
      BY <1>3, <2>4, EntryOfOne DEF Data
    <3>2. code'[blocks[b].entry] = code[blocks[b].entry]
      BY <1>3, <1>6, <2>2, <3>1 DEF Invalidate
    <3> QED
      BY <1>1, <2>1, <2>4, <3>2 DEF Keeps
  <2> QED
    BY <2>3, <2>4
<1>10. JumpsGoHome'
  <2> SUFFICES ASSUME NEW b \in Ids, NEW k \in 1 .. blocks[b].size - 1,
                      code'[blocks[b].entry + k] # Slow
               PROVE  \E t \in Ids : /\ code'[blocks[b].entry + k] = blocks[t].entry
                                     /\ blocks[t].start = blocks[b].exits[k]
    BY <1>1 DEF Keeps, JumpsGoHome
  <2>1. blocks[b].entry + k \in 1 .. code_ptr
    <3>1. blocks[b].entry \in 1 .. code_ptr /\ blocks[b].size \in Nat \ {0}
          /\ blocks[b].entry + blocks[b].size - 1 <= code_ptr /\ code_ptr \in Nat
      BY BlockFields DEF Data, RecordsOK
    <3> QED
      BY <3>1
  <2>2. code[blocks[b].entry + k] # Slow
    BY <1>2, <2>1
  <2>3. PICK t \in Ids : /\ code[blocks[b].entry + k] = blocks[t].entry
                         /\ blocks[t].start = blocks[b].exits[k]
    BY <2>2 DEF Data, JumpsGoHome
  <2>4. code'[blocks[b].entry + k] = blocks[t].entry
    BY <1>7, <2>1, <2>3
  <2> QED
    BY <2>3, <2>4
<1>11. LinksAgree'
  <2>1. ASSUME NEW b \in Ids, NEW j \in Jumps(b), code'[j] # Slow
        PROVE  \E t \in Ids : /\ code'[j] = blocks'[t].entry
                              /\ \E l \in blocks'[t].incoming : links[l] = j
    <3>1. j \in 1 .. code_ptr
      BY <1>4
    <3>2. PICK t \in Ids : code[j] = blocks[t].entry /\ \E l \in blocks[t].incoming : links[l] = j
      BY <1>2, <2>1, <3>1 DEF Data, LinksAgree
    <3>3. code'[j] = code[j] /\ t \notin D
      BY <1>7, <2>1, <3>1, <3>2
    <3> QED
      BY <1>1, <3>2, <3>3 DEF Keeps
  <2>2. ASSUME NEW b \in Ids, NEW l \in blocks'[b].incoming
        PROVE  code'[links[l]] = blocks'[b].entry /\ \E o \in Ids : links[l] \in Jumps(o)
    <3>1. b \notin D /\ l \in blocks[b].incoming
      BY <1>1, <2>2 DEF Keeps
    <3>2. code[links[l]] = blocks[b].entry /\ \E o \in Ids : links[l] \in Jumps(o)
      BY <3>1 DEF Data, LinksAgree
    <3>3. \A d \in D : \A m \in blocks[d].incoming : links[m] # links[l]
      <4> SUFFICES ASSUME NEW d \in D, NEW m \in blocks[d].incoming, links[m] = links[l]
                   PROVE  FALSE
        OBVIOUS
      <4>1. code[links[m]] = blocks[d].entry
        BY <1>3 DEF Data, LinksAgree
      <4> QED
        BY <1>3, <3>1, <3>2, <4>1, EntryOfOne DEF Data
    <3>4. links[l] \in 1 .. code_ptr /\ \A d \in D : links[l] # blocks[d].entry
      BY <1>3, <1>5, <1>6, <3>1
    <3>5. code'[links[l]] = code[links[l]]
      BY <3>3, <3>4 DEF Invalidate
    <3> QED
      BY <1>1, <3>2, <3>5 DEF Keeps
  <2>3. ASSUME NEW l \in 1 .. nlinks
        PROVE  l \in free_links' <=> \A b \in Ids : l \notin blocks'[b].incoming
    <3>1. l \in free_links <=> \A b \in Ids : l \notin blocks[b].incoming
      BY DEF Data, LinksAgree
    <3>2. l \in free_links' <=> l \in free_links \/ \E b \in D : l \in blocks[b].incoming
      BY DEF Invalidate
    <3>3. \A b, o \in Ids : b # o => blocks[b].incoming \cap blocks[o].incoming = {}
      BY DEF Data, LinksAgree
    <3> QED
      BY <1>1, <1>3, <3>1, <3>2, <3>3 DEF Keeps
  <2>4. \A b, o \in Ids : b # o => blocks'[b].incoming \cap blocks'[o].incoming = {}
    BY <1>1 DEF Keeps, Data, LinksAgree
  <2>5. \A b \in Ids : Jumps(b)' = Jumps(b)
    BY <1>1 DEF Keeps, Jumps
  <2> QED
    BY <1>1, <2>1, <2>2, <2>3, <2>4, <2>5 DEF Keeps, LinksAgree
<1>12. TableAgrees'
  <2>1. htab = {b \in Ids : blocks[b].valid}
    BY DEF Data, TableAgrees
  <2>2. htab' = {b \in Ids : blocks'[b].valid}
    BY <1>1, <2>1 DEF Keeps
  <2>3. \A b, o \in htab' : blocks'[b].start = blocks'[o].start => b = o
    BY <1>1, <2>1 DEF Keeps, Data, TableAgrees
  <2> QED
    BY <1>1, <2>2, <2>3 DEF Keeps, TableAgrees
<1> QED
  BY <1>8, <1>9, <1>10, <1>11, <1>12 DEF Data

(* A change of words drops blocks of the table only, and keeps the cache in  *)
(* order.                                                                    *)
LEMMA InvalidateWordsData ==
  ASSUME Data, NEW S, InvalidateWords(S)
  PROVE  /\ Data'
         /\ Ids' = Ids /\ code_ptr' = code_ptr /\ htab' \subseteq htab
         /\ \A b \in Ids : /\ blocks'[b].start = blocks[b].start
                           /\ blocks'[b].entry = blocks[b].entry
                           /\ blocks'[b].size = blocks[b].size
                           /\ blocks'[b].exits = blocks[b].exits
         /\ \A a \in 1 .. code_ptr : code[a] = Slow => code'[a] = Slow
<1> DEFINE D == UNION {Drops(w) : w \in S}
<1>1. D \in SUBSET htab
  BY DropsInTable DEF Data
<1>2. Invalidate(D)
  BY DEF InvalidateWords
<1> HIDE DEF D
<1> QED
  BY <1>1, <1>2, InvalidateData, InvalidateKeeps

-----------------------------------------------------------------------------
(* Making, linking and giving up blocks *)

(* After a flush nothing is left to disagree (jit.c 323-332). *)
LEMMA FlushData ==
  ASSUME Flush
  PROVE  Data' /\ RingOK' /\ nblocks' = 0 /\ code_ptr' = 0
<1> USE CacheAssumption
<1>1. Ids' = {}
  BY DEF Flush, Ids
<1>2. RecordsOK'
  BY <1>1 DEF Flush, RecordsOK, Empty, Ids
<1>3. Entries' /\ JumpsGoHome' /\ LinksAgree' /\ TableAgrees'
  BY <1>1 DEF Flush, Entries, JumpsGoHome, LinksAgree, TableAgrees
<1>4. RingOK'
  BY DEF Flush, RingOK
<1> QED
  BY <1>2, <1>3, <1>4 DEF Data, Flush

(* A new block, with room for it and no block for its start, fits in (jit.c  *)
(* 1478-1655).                                                               *)
LEMMA EmitData ==
  ASSUME Data, Emit, eip \in Nat, ~Full, \A b \in htab : blocks[b].start # eip
  PROVE  /\ Data'
         /\ nblocks' = nblocks + 1 /\ code_ptr <= code_ptr'
         /\ \A b \in Ids : blocks'[b] = blocks[b]
         /\ blocks'[nblocks + 1].start = eip
         /\ \A a \in 1 .. code_ptr : code'[a] = code[a]
<1> USE CacheAssumption
<1>1. PICK n \in Extents(eip), k \in 0 .. MaxExits : \E exits \in Exits(k, eip, n) :
        LET b == [start |-> eip, n |-> n, entry |-> code_ptr + 1, size |-> k + 1,
                  exits |-> exits, valid |-> TRUE, incoming |-> {}]
        IN /\ nblocks' = nblocks + 1
           /\ blocks' = [i \in 1 .. nblocks + 1 |-> IF i = nblocks + 1 THEN b ELSE blocks[i]]
           /\ code_ptr' = code_ptr + b.size
           /\ code' = [a \in 1 .. code_ptr + b.size |->
                        IF a <= code_ptr THEN code[a]
                        ELSE IF a = b.entry THEN Body ELSE Slow]
  BY DEF Emit
<1>2. PICK exits \in Exits(k, eip, n) :
        LET b == [start |-> eip, n |-> n, entry |-> code_ptr + 1, size |-> k + 1,
                  exits |-> exits, valid |-> TRUE, incoming |-> {}]
        IN /\ nblocks' = nblocks + 1
           /\ blocks' = [i \in 1 .. nblocks + 1 |-> IF i = nblocks + 1 THEN b ELSE blocks[i]]
           /\ code_ptr' = code_ptr + b.size
           /\ code' = [a \in 1 .. code_ptr + b.size |->
                        IF a <= code_ptr THEN code[a]
                        ELSE IF a = b.entry THEN Body ELSE Slow]
  BY <1>1
<1> DEFINE new == [start |-> eip, n |-> n, entry |-> code_ptr + 1, size |-> k + 1,
                   exits |-> exits, valid |-> TRUE, incoming |-> {}]
           N == nblocks + 1
<1>3. /\ nblocks \in Nat /\ nblocks < MaxBlocks /\ N \in Nat
      /\ code_ptr \in Nat /\ code_ptr + MaxExits + 1 <= CodeSize
      /\ k \in Nat /\ k <= MaxExits /\ n \in 1 .. MaxBlock
  <2>1. nblocks \in 0 .. MaxBlocks /\ code_ptr \in 0 .. CodeSize
    BY DEF Data, RecordsOK
  <2>2. nblocks # MaxBlocks /\ ~(CodeSize - code_ptr < MaxExits + 1)
    BY DEF Full, Slack
  <2>3. n \in 1 .. MaxBlock
    BY DEF Extents
  <2>4. k \in Nat /\ k <= MaxExits
    OBVIOUS
  <2>5. nblocks \in Nat /\ nblocks < MaxBlocks /\ nblocks + 1 \in Nat
    BY <2>1, <2>2
  <2>6. code_ptr \in Nat /\ code_ptr + MaxExits + 1 <= CodeSize
    BY <2>1, <2>2
  <2> QED
    BY <2>3, <2>4, <2>5, <2>6
<1>4. exits \in [1 .. k -> Nat]
  <2>1. Targets \cup {eip + 3 * n} \subseteq Nat
    BY <1>3
  <2>2. exits \in [1 .. k -> Targets \cup {eip + 3 * n}]
    BY DEF Exits
  <2> QED
    BY <2>1, <2>2
<1>5. new \in Block
  <2>1. exits \in Seq(Nat)
    BY <1>3, <1>4
  <2> QED
    BY <1>3, <2>1 DEF Block, Slack
<1>6. /\ new.start = eip /\ new.n = n /\ new.entry = code_ptr + 1 /\ new.size = k + 1
      /\ new.exits = exits /\ new.valid = TRUE /\ new.incoming = {}
  OBVIOUS
<1>7. /\ nblocks' = N
      /\ blocks' = [i \in 1 .. N |-> IF i = N THEN new ELSE blocks[i]]
      /\ code_ptr' = code_ptr + k + 1
      /\ code' = [a \in 1 .. code_ptr + k + 1 |->
                   IF a <= code_ptr THEN code[a] ELSE IF a = code_ptr + 1 THEN Body ELSE Slow]
  BY <1>2, <1>3
<1> HIDE DEF new, N
<1>8. /\ Ids' = Ids \cup {N} /\ N \notin Ids
      /\ \A b \in Ids : blocks'[b] = blocks[b]
      /\ blocks'[N] = new
  BY <1>3, <1>7 DEF Ids, N
<1>9. /\ \A a \in 1 .. code_ptr : code'[a] = code[a] /\ a \in 1 .. code_ptr'
      /\ code'[code_ptr + 1] = Body
      /\ \A a \in 1 .. code_ptr' : a > code_ptr + 1 => code'[a] = Slow
  BY <1>3, <1>7
<1>10. /\ htab' = htab \cup {N}
       /\ nlinks' = nlinks /\ links' = links /\ free_links' = free_links
  BY DEF Emit, N
<1>11. \A b \in Ids : /\ blocks[b].entry \in 1 .. code_ptr /\ blocks[b].size \in Nat \ {0}
                      /\ blocks[b].entry + blocks[b].size - 1 <= code_ptr
                      /\ blocks[b].valid \in BOOLEAN /\ b \in Nat
  BY BlockFields DEF Data
<1>12. \A b \in Ids : /\ Jumps(b)' = Jumps(b) /\ Jumps(b) \subseteq 1 .. code_ptr
  <2>1. \A b \in Ids : Jumps(b)' = Jumps(b)
    BY <1>8 DEF Jumps
  <2>2. \A b \in Ids : Jumps(b) \subseteq 1 .. code_ptr
    BY <1>3, <1>11 DEF Jumps
  <2> QED
    BY <2>1, <2>2
<1>13. RecordsOK'
  <2>1. blocks' \in [Ids' -> Block]
    BY <1>5, <1>7, <1>8 DEF Data, RecordsOK, Ids
  <2>2. \A b \in Ids' : /\ blocks'[b].entry + blocks'[b].size - 1 <= code_ptr'
                        /\ DOMAIN blocks'[b].exits = 1 .. blocks'[b].size - 1
                        /\ blocks'[b].incoming \subseteq 1 .. nlinks'
    <3> SUFFICES ASSUME NEW b \in Ids'
                 PROVE  /\ blocks'[b].entry + blocks'[b].size - 1 <= code_ptr'
                        /\ DOMAIN blocks'[b].exits = 1 .. blocks'[b].size - 1
                        /\ blocks'[b].incoming \subseteq 1 .. nlinks'
      OBVIOUS
    <3>1. CASE b = N
      <4>1. /\ blocks'[b].entry = code_ptr + 1 /\ blocks'[b].size = k + 1
            /\ blocks'[b].exits = exits /\ blocks'[b].incoming = {}
        BY <1>6, <1>8, <3>1
      <4>2. code_ptr + 1 + (k + 1) - 1 <= code_ptr' /\ (k + 1) - 1 = k
        BY SMTT(30), <1>3, <1>7
      <4>3. DOMAIN exits = 1 .. k
        BY <1>4
      <4> QED
        BY <4>1, <4>2, <4>3
    <3>2. CASE b \in Ids
      <4>1. /\ blocks[b].entry + blocks[b].size - 1 <= code_ptr
            /\ DOMAIN blocks[b].exits = 1 .. blocks[b].size - 1
            /\ blocks[b].incoming \subseteq 1 .. nlinks
        BY <3>2 DEF Data, RecordsOK
      <4>2. code_ptr' = code_ptr + k + 1 /\ blocks'[b] = blocks[b] /\ nlinks' = nlinks
        BY <1>7, <1>8, <1>10, <3>2
      <4>3. blocks[b].entry \in Nat /\ blocks[b].size \in Nat
        BY <1>3, <1>11, <3>2
      <4>4. blocks[b].entry + blocks[b].size - 1 <= code_ptr + k + 1
        BY <1>3, <4>1, <4>3
      <4> QED
        BY <4>1, <4>2, <4>4
    <3> QED
      BY <1>8, <3>1, <3>2
  <2>3. ASSUME NEW b \in Ids', NEW o \in Ids', b < o
        PROVE  blocks'[b].entry + blocks'[b].size <= blocks'[o].entry
    <3>1. b \in Ids
      BY <1>3, <1>8, <2>3 DEF Ids, N
    <3>2. CASE o = N
      BY <1>3, <1>6, <1>8, <1>11, <3>1, <3>2
    <3>3. CASE o \in Ids
      BY <1>8, <2>3, <3>1, <3>3 DEF Data, RecordsOK
    <3> QED
      BY <1>8, <3>2, <3>3
  <2>4. code' \in [1 .. code_ptr' -> {Slow, Body, Gone} \cup (1 .. code_ptr')]
    <3>1. \A a \in 1 .. code_ptr : code[a] \in {Slow, Body, Gone} \cup (1 .. code_ptr)
      BY DEF Data, RecordsOK
    <3>2. \A a \in 1 .. code_ptr' : code'[a] \in {Slow, Body, Gone} \cup (1 .. code_ptr')
      BY <1>3, <1>7, <1>9, <3>1
    <3> QED
      BY <1>7, <3>2
  <2>5. links' \in [1 .. nlinks' -> 1 .. code_ptr']
    BY <1>3, <1>7, <1>10 DEF Data, RecordsOK
  <2>6. /\ nblocks' \in 0 .. MaxBlocks /\ code_ptr' \in 0 .. CodeSize /\ nlinks' \in 0 .. MaxLinks
        /\ free_links' \subseteq 1 .. nlinks' /\ htab' \subseteq Ids'
    BY <1>3, <1>7, <1>8, <1>10 DEF Data, RecordsOK, N
  <2> QED
    BY <2>1, <2>2, <2>3, <2>4, <2>5, <2>6 DEF RecordsOK
<1>14. Entries'
  BY <1>6, <1>8, <1>9, <1>11 DEF Data, Entries
<1>15. JumpsGoHome'
  <2> SUFFICES ASSUME NEW b \in Ids', NEW i \in 1 .. blocks'[b].size - 1,
                      code'[blocks'[b].entry + i] # Slow
               PROVE  \E t \in Ids' : /\ code'[blocks'[b].entry + i] = blocks'[t].entry
                                      /\ blocks'[t].start = blocks'[b].exits[i]
    BY DEF JumpsGoHome
  <2>1. CASE b = N
    <3>1. blocks'[b].entry = code_ptr + 1 /\ blocks'[b].size = k + 1
      BY <1>6, <1>8, <2>1
    <3>2. i \in 1 .. k
      BY <1>3, <3>1
    <3>3. code_ptr + 1 + i \in 1 .. code_ptr' /\ code_ptr + 1 + i > code_ptr + 1
      BY <1>3, <1>7, <3>2
    <3>4. code'[code_ptr + 1 + i] = Slow
      BY <1>9, <3>3
    <3> QED
      BY <3>1, <3>4
  <2>2. CASE b \in Ids
    <3>1. blocks'[b] = blocks[b] /\ blocks[b].entry + i \in 1 .. code_ptr
      BY <1>3, <1>8, <1>11, <2>2
    <3>2. code'[blocks[b].entry + i] = code[blocks[b].entry + i]
      BY <1>9, <3>1
    <3>3. PICK t \in Ids : /\ code[blocks[b].entry + i] = blocks[t].entry
                           /\ blocks[t].start = blocks[b].exits[i]
      BY <2>2, <3>1, <3>2 DEF Data, JumpsGoHome
    <3> QED
      BY <1>8, <3>1, <3>2, <3>3
  <2> QED
    BY <1>8, <2>1, <2>2
<1>16. LinksAgree'
  <2>1. ASSUME NEW b \in Ids', NEW j \in Jumps(b)', code'[j] # Slow
        PROVE  \E t \in Ids' : /\ code'[j] = blocks'[t].entry
                               /\ \E l \in blocks'[t].incoming : links'[l] = j
    <3>1. CASE b = N
      <4>1. blocks'[b].entry = code_ptr + 1 /\ blocks'[b].size = k + 1
        BY <1>6, <1>8, <3>1
      <4>2. j \in code_ptr + 1 + 1 .. code_ptr + 1 + (k + 1) - 1
        BY <4>1 DEF Jumps
      <4>3. j \in 1 .. code_ptr' /\ j > code_ptr + 1
        BY <1>3, <1>7, <4>2
      <4> QED
        BY <1>9, <2>1, <4>3
    <3>2. CASE b \in Ids
      <4>1. j \in Jumps(b) /\ j \in 1 .. code_ptr /\ code'[j] = code[j]
        BY <1>9, <1>12, <2>1, <3>2
      <4>2. PICK t \in Ids : code[j] = blocks[t].entry /\ \E l \in blocks[t].incoming : links[l] = j
        BY <2>1, <3>2, <4>1 DEF Data, LinksAgree
      <4> QED
        BY <1>8, <1>10, <4>1, <4>2
    <3> QED
      BY <1>8, <3>1, <3>2
  <2>2. ASSUME NEW b \in Ids', NEW l \in blocks'[b].incoming
        PROVE  code'[links'[l]] = blocks'[b].entry /\ \E o \in Ids' : links'[l] \in Jumps(o)'
    <3>1. b \in Ids /\ blocks'[b] = blocks[b] /\ l \in blocks[b].incoming
      BY <1>6, <1>8, <2>2
    <3>2. PICK o \in Ids : code[links[l]] = blocks[b].entry /\ links[l] \in Jumps(o)
      BY <3>1 DEF Data, LinksAgree
    <3>3. links[l] \in 1 .. code_ptr
      BY <1>12, <3>2
    <3> QED
      BY <1>8, <1>9, <1>10, <1>12, <3>1, <3>2, <3>3
  <2>3. \A l \in 1 .. nlinks' : l \in free_links' <=> \A b \in Ids' : l \notin blocks'[b].incoming
    BY <1>6, <1>8, <1>10 DEF Data, LinksAgree
  <2>4. \A b, o \in Ids' : b # o => blocks'[b].incoming \cap blocks'[o].incoming = {}
    BY <1>6, <1>8 DEF Data, LinksAgree
  <2> QED
    BY <2>1, <2>2, <2>3, <2>4 DEF LinksAgree
<1>17. TableAgrees'
  <2>1. htab = {b \in Ids : blocks[b].valid}
    BY DEF Data, TableAgrees
  <2>2. htab' = {b \in Ids' : blocks'[b].valid}
    BY <1>6, <1>8, <1>10, <2>1
  <2>3. \A b, o \in htab' : blocks'[b].start = blocks'[o].start => b = o
    BY <1>6, <1>8, <1>10, <2>1 DEF Data, TableAgrees
  <2> QED
    BY <2>2, <2>3 DEF TableAgrees
<1> QED
  BY <1>3, <1>6, <1>7, <1>8, <1>9, <1>13, <1>14, <1>15, <1>16, <1>17 DEF Data, N

(* Linking a jump that goes to its slow path, to a block for its target,     *)
(* keeps links and jumps in agreement (jit.c 1830-1843).                     *)
LEMMA LinkData ==
  ASSUME Data, NEW l \in 1 .. MaxLinks, LinkTo(l), cur \in Ids,
         NEW f \in Ids, NEW k \in 1 .. blocks[f].size - 1,
         site = blocks[f].entry + k, blocks[f].exits[k] = blocks[cur].start, code[site] = Slow
  PROVE  Data' /\ Ids' = Ids
<1> USE CacheAssumption
<1>1. /\ nblocks' = nblocks /\ code_ptr' = code_ptr /\ htab' = htab /\ Ids' = Ids
  BY DEF LinkTo, Ids
<1>2. \A b \in Ids : /\ b \in Nat /\ blocks[b].entry \in 1 .. code_ptr /\ blocks[b].size \in Nat \ {0}
                     /\ blocks[b].entry + blocks[b].size - 1 <= code_ptr
                     /\ blocks[b].valid \in BOOLEAN
  BY BlockFields DEF Data
<1>3. code_ptr \in Nat /\ nlinks \in Nat /\ nlinks <= MaxLinks
  BY DEF Data, RecordsOK
<1>4. site \in Jumps(f) /\ site \in 1 .. code_ptr
  BY <1>2, <1>3 DEF Jumps
<1>5. /\ \A b \in Ids : blocks[b] \in Block
      /\ blocks' = [blocks EXCEPT ![cur] = [blocks[cur] EXCEPT !.incoming = blocks[cur].incoming \cup {l}]]
      /\ blocks \in [Ids -> Block]
  BY DEF Data, RecordsOK, LinkTo
<1>6. /\ \A b \in Ids : b # cur => blocks'[b] = blocks[b]
      /\ blocks'[cur] = [blocks[cur] EXCEPT !.incoming = blocks[cur].incoming \cup {l}]
  BY <1>5
<1>7. ASSUME NEW b \in Ids
      PROVE  /\ blocks'[b].start = blocks[b].start /\ blocks'[b].entry = blocks[b].entry
             /\ blocks'[b].size = blocks[b].size /\ blocks'[b].exits = blocks[b].exits
             /\ blocks'[b].valid = blocks[b].valid
             /\ blocks'[b].incoming = IF b = cur THEN blocks[b].incoming \cup {l}
                                      ELSE blocks[b].incoming
  <2>1. CASE b = cur
    BY <1>5, <1>6, <2>1 DEF Block
  <2>2. CASE b # cur
    BY <1>6, <2>2
  <2> QED
    BY <2>1, <2>2
<1>8. /\ code'[site] = blocks[cur].entry
      /\ \A a \in 1 .. code_ptr : a # site => code'[a] = code[a]
      /\ DOMAIN code' = 1 .. code_ptr
  BY <1>4 DEF LinkTo, Data, RecordsOK
(* the record was in no list *)
<1>9. \A b \in Ids : l \notin blocks[b].incoming
  <2>1. CASE l \in free_links
    BY <2>1 DEF Data, LinksAgree, RecordsOK
  <2>2. CASE l = nlinks + 1
    <3>1. l \notin 1 .. nlinks
      BY <1>3, <2>2
    <3> QED
      BY <3>1 DEF Data, RecordsOK
  <2> QED
    BY <2>1, <2>2 DEF LinkTo
<1>10. /\ nlinks' \in 0 .. MaxLinks /\ 1 .. nlinks' = 1 .. nlinks \cup {l}
       /\ free_links' = free_links \ {l} /\ free_links' \subseteq 1 .. nlinks'
       /\ links' \in [1 .. nlinks' -> 1 .. code_ptr]
       /\ links'[l] = site /\ \A m \in 1 .. nlinks : m # l => links'[m] = links[m]
  <2>1. links \in [1 .. nlinks -> 1 .. code_ptr] /\ free_links \subseteq 1 .. nlinks
    BY DEF Data, RecordsOK
  <2>2. CASE /\ l \in free_links
             /\ free_links' = free_links \ {l} /\ links' = [links EXCEPT ![l] = site]
             /\ UNCHANGED nlinks
    BY <1>3, <1>4, <2>1, <2>2
  <2>3. CASE /\ free_links = {} /\ l = nlinks + 1
             /\ nlinks' = l /\ links' = [i \in 1 .. l |-> IF i = l THEN site ELSE links[i]]
             /\ UNCHANGED free_links
    BY <1>3, <1>4, <2>1, <2>3
  <2> QED
    BY <2>2, <2>3 DEF LinkTo
<1>11. \A b \in Ids : \A m \in blocks[b].incoming : /\ m \in 1 .. nlinks /\ m # l
                                                   /\ links'[m] = links[m] /\ links[m] # site
  <2> SUFFICES ASSUME NEW b \in Ids, NEW m \in blocks[b].incoming
               PROVE  m \in 1 .. nlinks /\ m # l /\ links'[m] = links[m] /\ links[m] # site
    OBVIOUS
  <2>1. m \in 1 .. nlinks /\ m # l
    BY <1>9 DEF Data, RecordsOK
  <2>2. code[links[m]] = blocks[b].entry
    BY DEF Data, LinksAgree
  <2>3. links[m] # site
    BY <1>2, <2>2 DEF Slow
  <2> QED
    BY <1>10, <2>1, <2>3
<1>12. \A b \in Ids : Jumps(b)' = Jumps(b) /\ Jumps(b) \subseteq 1 .. code_ptr
  <2>1. \A b \in Ids : Jumps(b)' = Jumps(b)
    BY <1>7 DEF Jumps
  <2>2. \A b \in Ids : Jumps(b) \subseteq 1 .. code_ptr
    BY <1>2, <1>3 DEF Jumps
  <2> QED
    BY <2>1, <2>2
<1>13. RecordsOK'
  <2>1. blocks' \in [Ids' -> Block]
    <3>1. [blocks[cur] EXCEPT !.incoming = blocks[cur].incoming \cup {l}] \in Block
      BY <1>5 DEF Block
    <3> QED
      BY <1>1, <1>5, <3>1
  <2>2. \A b \in Ids' : /\ blocks'[b].entry + blocks'[b].size - 1 <= code_ptr'
                        /\ DOMAIN blocks'[b].exits = 1 .. blocks'[b].size - 1
                        /\ blocks'[b].incoming \subseteq 1 .. nlinks'
    BY ZenonT(60), <1>1, <1>7, <1>10 DEF Data, RecordsOK
  <2>3. \A b, o \in Ids' : b < o => blocks'[b].entry + blocks'[b].size <= blocks'[o].entry
    BY <1>1, <1>7 DEF Data, RecordsOK
  <2>4. code' \in [1 .. code_ptr' -> {Slow, Body, Gone} \cup (1 .. code_ptr')]
    BY <1>1, <1>2, <1>4 DEF LinkTo, Data, RecordsOK
  <2> QED
    BY <1>1, <1>10, <2>1, <2>2, <2>3, <2>4 DEF Data, RecordsOK
<1>14. Entries'
  <2> SUFFICES ASSUME NEW b \in Ids
               PROVE  code'[blocks'[b].entry] = IF blocks'[b].valid THEN Body ELSE Gone
    BY <1>1 DEF Entries
  <2>1. code[blocks[b].entry] = IF blocks[b].valid THEN Body ELSE Gone
    BY DEF Data, Entries
  <2>2. blocks[b].entry # site
    BY <2>1 DEF Slow, Body, Gone
  <2>3. code'[blocks[b].entry] = code[blocks[b].entry]
    BY <1>2, <1>8, <2>2
  <2>4. blocks'[b].entry = blocks[b].entry /\ blocks'[b].valid = blocks[b].valid
    BY <1>7
  <2> QED
    BY <2>1, <2>3, <2>4
<1>15. JumpsGoHome'
  <2> SUFFICES ASSUME NEW b \in Ids, NEW i \in 1 .. blocks[b].size - 1,
                      code'[blocks[b].entry + i] # Slow
               PROVE  \E t \in Ids : /\ code'[blocks[b].entry + i] = blocks[t].entry
                                     /\ blocks[t].start = blocks[b].exits[i]
    <3>1. \A b \in Ids : /\ blocks'[b].start = blocks[b].start /\ blocks'[b].entry = blocks[b].entry
                         /\ blocks'[b].size = blocks[b].size /\ blocks'[b].exits = blocks[b].exits
      BY <1>7
    <3> QED
      BY <1>1, <3>1 DEF JumpsGoHome
  <2>1. blocks[b].entry + i \in Jumps(b) /\ blocks[b].entry + i \in 1 .. code_ptr
    BY <1>2, <1>3 DEF Jumps
  <2>2. CASE blocks[b].entry + i = site
    <3>1. b = f /\ i = k
      <4>1. b < f => blocks[b].entry + blocks[b].size <= blocks[f].entry
        BY DEF Data, RecordsOK
      <4>2. f < b => blocks[f].entry + blocks[f].size <= blocks[b].entry
        BY DEF Data, RecordsOK
      <4>3. /\ b \in Nat /\ f \in Nat /\ blocks[b].entry \in Nat /\ blocks[f].entry \in Nat
            /\ blocks[b].size \in Nat /\ blocks[f].size \in Nat
        BY <1>2, <1>3
      <4>4. b = f
        BY <2>2, <4>1, <4>2, <4>3
      <4> QED
        BY <2>2, <4>3, <4>4
    <3> QED
      BY <1>8, <2>2, <3>1
  <2>3. CASE blocks[b].entry + i # site
    <3>1. code'[blocks[b].entry + i] = code[blocks[b].entry + i]
      BY <1>8, <2>1, <2>3
    <3> QED
      BY <3>1 DEF Data, JumpsGoHome
  <2> QED
    BY <2>2, <2>3
<1>16. LinksAgree'
  <2>1. ASSUME NEW b \in Ids, NEW j \in Jumps(b), code'[j] # Slow
        PROVE  \E t \in Ids : /\ code'[j] = blocks'[t].entry
                              /\ \E m \in blocks'[t].incoming : links'[m] = j
    <3>1. CASE j = site
      <4>1. blocks'[cur].entry = blocks[cur].entry /\ l \in blocks'[cur].incoming
        BY <1>7
      <4> QED
        BY <1>8, <1>10, <3>1, <4>1
    <3>2. CASE j # site
      <4>1. code'[j] = code[j]
        BY <1>8, <1>12, <3>2
      <4>2. PICK t \in Ids : code[j] = blocks[t].entry /\ \E m \in blocks[t].incoming : links[m] = j
        BY <2>1, <4>1 DEF Data, LinksAgree
      <4> QED
        BY <1>7, <1>11, <4>1, <4>2
    <3> QED
      BY <3>1, <3>2
  <2>2. ASSUME NEW b \in Ids, NEW m \in blocks'[b].incoming
        PROVE  code'[links'[m]] = blocks'[b].entry /\ \E o \in Ids : links'[m] \in Jumps(o)
    <3>1. CASE m = l
      <4>1. b = cur
        BY <1>7, <1>9, <3>1
      <4> QED
        BY <1>4, <1>7, <1>8, <1>10, <3>1, <4>1
    <3>2. CASE m # l
      <4>1. m \in blocks[b].incoming
        BY <1>7, <3>2
      <4>2. code[links[m]] = blocks[b].entry /\ \E o \in Ids : links[m] \in Jumps(o)
        BY <4>1 DEF Data, LinksAgree
      <4>3. code'[links[m]] = code[links[m]]
        BY <1>8, <1>11, <1>12, <4>1, <4>2
      <4> QED
        BY <1>7, <1>11, <4>1, <4>2, <4>3
    <3> QED
      BY <3>1, <3>2
  <2>3. ASSUME NEW m \in 1 .. nlinks'
        PROVE  m \in free_links' <=> \A b \in Ids : m \notin blocks'[b].incoming
    <3>1. CASE m = l
      BY <1>7, <1>10, <3>1
    <3>2. CASE m # l
      <4>1. m \in 1 .. nlinks
        BY <1>10, <3>2
      <4>2. m \in free_links <=> \A b \in Ids : m \notin blocks[b].incoming
        BY <4>1 DEF Data, LinksAgree
      <4> QED
        BY <1>7, <1>10, <3>2, <4>2
    <3> QED
      BY <3>1, <3>2
  <2>4. \A b, o \in Ids : b # o => blocks'[b].incoming \cap blocks'[o].incoming = {}
    <3>1. \A b, o \in Ids : b # o => blocks[b].incoming \cap blocks[o].incoming = {}
      BY DEF Data, LinksAgree
    <3>2. \A b \in Ids : /\ b # cur => blocks'[b].incoming = blocks[b].incoming
                         /\ blocks'[b].incoming \subseteq blocks[b].incoming \cup {l}
      BY <1>7
    <3> QED
      BY <1>9, <3>1, <3>2
  <2> QED
    BY <1>1, <1>12, <2>1, <2>2, <2>3, <2>4 DEF LinksAgree
<1>17. TableAgrees'
  <2>1. \A b \in Ids : blocks'[b].start = blocks[b].start /\ blocks'[b].valid = blocks[b].valid
    BY <1>7
  <2>2. htab = {b \in Ids : blocks[b].valid}
    BY DEF Data, TableAgrees
  <2>3. htab' = {b \in Ids' : blocks'[b].valid}
    BY <1>1, <2>1, <2>2
  <2>4. \A b, o \in htab' : blocks'[b].start = blocks'[o].start => b = o
    BY <1>1, <2>1, <2>2 DEF Data, TableAgrees
  <2> QED
    BY <2>3, <2>4 DEF TableAgrees
<1> QED
  BY <1>1, <1>13, <1>14, <1>15, <1>16, <1>17 DEF Data

-----------------------------------------------------------------------------
(* The steps of jit_run *)

LEMMA SameCache ==
  ASSUME Data, RingOK, UNCHANGED cache
  PROVE  /\ Data' /\ RingOK' /\ Ids' = Ids /\ htab' = htab /\ blocks' = blocks
         /\ code' = code /\ Full' = Full
<1>1. UNCHANGED <<nblocks, blocks, code_ptr, code, nlinks, links, free_links, htab, pending>>
  BY DEF cache, records
<1>2. Ids' = Ids /\ Full' = Full /\ \A b : Jumps(b)' = Jumps(b)
  BY <1>1 DEF Ids, Full, Jumps
<1>3. RecordsOK' /\ Entries' /\ JumpsGoHome'
  BY <1>1, <1>2 DEF Data, RecordsOK, Entries, JumpsGoHome
<1>4. LinksAgree' /\ TableAgrees' /\ RingOK'
  BY <1>1, <1>2 DEF Data, LinksAgree, TableAgrees, RingOK
<1> QED
  BY <1>1, <1>2, <1>3, <1>4 DEF Data

(* Control that comes to an entry runs its block if it is valid, and goes to *)
(* the dispatcher for its start if not (jit.c 304-306, 1587-1589).           *)
LEMMA ArriveAt ==
  ASSUME Data, NEW t \in Ids, Arrive(blocks[t].entry)
  PROVE  \/ pc' = "drain" /\ eip' = blocks[t].start /\ cur' = None
         \/ pc' = "run" /\ cur' = t /\ blocks[t].valid /\ eip' = eip
<1> DEFINE a == blocks[t].entry
           c == CHOOSE b \in 1 .. nblocks : blocks[b].entry = a
<1>1. c \in Ids /\ blocks[c].entry = a
  BY DEF Ids
<1>2. c = t
  BY <1>1, EntryOfOne DEF Data
<1>3. code[a] = IF blocks[t].valid THEN Body ELSE Gone
  BY DEF Data, Entries
<1>4. CASE code[a] = Gone
  BY <1>2, <1>4 DEF Arrive
<1>5. CASE code[a] # Gone
  BY <1>2, <1>3, <1>5 DEF Arrive
<1> QED
  BY <1>4, <1>5

(* Steps that leave the cache alone and keep no jump *)
LEMMA ControlSteps ==
  ASSUME CacheInv,
         EnterRun \/ DrainDone \/ RevalDone \/ Leave \/ LookupFound \/ RunBudget \/ RunWatch
         \/ RunHoist \/ HoistDone \/ RunSmc \/ RunComputed \/ LinkNone
  PROVE  CacheInv'
<1> USE CacheAssumption
<1> USE DEF CacheInv
<1>1. UNCHANGED cache
  BY DEF EnterRun, DrainDone, RevalDone, Leave, LookupFound, RunBudget, RunWatch, RunHoist,
         HoistDone, RunSmc, RunComputed, LinkNone
<1>2. /\ Data' /\ RingOK' /\ Ids' = Ids /\ htab' = htab /\ blocks' = blocks
      /\ code' = code /\ Full' = Full
  BY <1>1, SameCache
<1>3. site' = None
  BY DEF EnterRun, DrainDone, RevalDone, Leave, LookupFound, RunBudget, RunWatch, RunHoist,
         HoistDone, RunSmc, RunComputed, LinkNone, Local
<1>4. SiteOK'
  BY <1>3 DEF SiteOK
<1>5. CASE EnterRun
  BY <1>2, <1>3, <1>4, <1>5 DEF EnterRun, Local, None
<1>6. CASE DrainDone \/ RevalDone \/ Leave \/ HoistDone \/ LinkNone
  BY <1>2, <1>3, <1>4, <1>6 DEF DrainDone, RevalDone, Leave, HoistDone, LinkNone, Local, None
<1>7. CASE LookupFound
  <2>1. LookUp(eip) \in htab /\ blocks[LookUp(eip)].start = eip
    BY <1>7, LookUpFinds DEF LookupFound, Data
  <2>2. LookUp(eip) \in Ids
    BY <2>1 DEF Data, RecordsOK
  <2>3. LookUp(eip) \in Nat
    BY <2>2 DEF Ids
  <2> QED
    BY <1>2, <1>3, <1>4, <1>7, <2>1, <2>2, <2>3 DEF LookupFound, Local, None
<1>8. CASE RunBudget \/ RunWatch \/ RunHoist
  <2>1. cur \in Ids /\ blocks[cur].start = goal
    BY <1>8 DEF RunBudget, RunWatch, RunHoist, Local
  <2> QED
    BY <1>2, <1>3, <1>4, <1>8, <2>1 DEF RunBudget, RunWatch, RunHoist, Local, None
<1>9. CASE RunSmc
  <2>1. cur \in Ids
    BY <1>9 DEF RunSmc, Local
  <2>2. blocks[cur].start \in Nat /\ blocks[cur].n \in Nat
    BY <2>1, BlockFields DEF Data
  <2>3. eip' \in Nat /\ goal' = eip'
    BY <1>9, <2>2 DEF RunSmc
  <2> QED
    BY <1>2, <1>3, <1>4, <1>9, <2>3 DEF RunSmc, Local, None
<1>10. CASE RunComputed
  BY <1>2, <1>3, <1>4, <1>10 DEF RunComputed, Local, None
<1> QED
  BY <1>2, <1>4, <1>5, <1>6, <1>7, <1>8, <1>9, <1>10

(* Steps that leave the cache alone while a jump may be kept to be linked *)
LEMMA KeepSteps ==
  ASSUME CacheInv, TranslateBegin \/ TranslateRoom \/ LinkFound
  PROVE  CacheInv'
<1> USE DEF CacheInv
<1>1. UNCHANGED <<cache, eip, site, flushed, goal>>
  BY DEF TranslateBegin, TranslateRoom, LinkFound
<1>2. /\ Data' /\ RingOK' /\ Ids' = Ids /\ htab' = htab /\ blocks' = blocks
      /\ code' = code /\ Full' = Full
  BY <1>1, SameCache
<1>3. SiteOK'
  BY <1>1, <1>2 DEF SiteOK
<1>4. CASE TranslateBegin
  <2>1. \A b \in htab : blocks[b].start # eip
    BY <1>4, LookUpFinds DEF TranslateBegin, Data
  <2> QED
    BY <1>1, <1>2, <1>3, <1>4, <2>1 DEF TranslateBegin, Local
<1>5. CASE TranslateRoom
  BY <1>1, <1>2, <1>3, <1>5 DEF TranslateRoom, Local
<1>6. CASE LinkFound
  <2>1. LookUp(eip) \in htab /\ blocks[LookUp(eip)].start = eip
    BY <1>6, LookUpFinds DEF LinkFound, Data
  <2>2. LookUp(eip) \in Ids
    BY <2>1 DEF Data, RecordsOK
  <2>3. LookUp(eip) \in Nat
    BY <2>2 DEF Ids
  <2> QED
    BY <1>1, <1>2, <1>3, <1>6, <2>1, <2>2, <2>3 DEF LinkFound, Local
<1> QED
  BY <1>4, <1>5, <1>6

(* Steps into a block and out of it by a jump *)
LEMMA JumpSteps ==
  ASSUME CacheInv, Enter \/ \E k \in 1 .. MaxExits : RunExit(k)
  PROVE  CacheInv'
<1> USE CacheAssumption
<1> USE DEF CacheInv
<1>1. UNCHANGED <<cache, flushed>> /\ site = None
  BY DEF Enter, RunExit, Local
<1>2. /\ Data' /\ RingOK' /\ Ids' = Ids /\ htab' = htab /\ blocks' = blocks
      /\ code' = code /\ Full' = Full
  BY <1>1, SameCache
<1>3. CASE Enter
  <2>1. cur \in Ids /\ blocks[cur].start = eip /\ eip = goal
    BY <1>3 DEF Enter, Local
  <2>2. \/ pc' = "drain" /\ eip' = blocks[cur].start /\ cur' = None
        \/ pc' = "run" /\ cur' = cur /\ blocks[cur].valid /\ eip' = eip
    BY <1>3, <2>1, ArriveAt DEF Enter
  <2>3. site' = None /\ goal' = goal
    BY <1>1, <1>3 DEF Enter
  <2>4. SiteOK'
    BY <2>3 DEF SiteOK
  <2> QED
    BY <1>1, <1>2, <2>1, <2>2, <2>3, <2>4 DEF Local, None
<1>4. ASSUME NEW k \in 1 .. MaxExits, RunExit(k)
      PROVE  CacheInv'
  <2> DEFINE jump == blocks[cur].entry + k
  <2>1. cur \in Ids /\ pc = "run" /\ k < blocks[cur].size /\ goal' = blocks[cur].exits[k]
    BY <1>4 DEF RunExit, Local
  <2>2. /\ blocks[cur].entry \in 1 .. code_ptr /\ blocks[cur].size \in Nat \ {0}
        /\ blocks[cur].entry + blocks[cur].size - 1 <= code_ptr
        /\ code_ptr \in 0 .. CodeSize
    BY <2>1, BlockFields DEF Data, RecordsOK
  <2>3. k \in 1 .. blocks[cur].size - 1 /\ jump \in 1 .. CodeSize
    BY <2>1, <2>2
  <2>4. blocks[cur].exits[k] \in Nat
    <3>1. blocks[cur].exits \in Seq(Nat)
      BY <2>1 DEF Data, RecordsOK, Block
    <3>2. DOMAIN blocks[cur].exits = 1 .. blocks[cur].size - 1
      BY <2>1 DEF Data, RecordsOK
    <3>3. blocks[cur].exits \in [DOMAIN blocks[cur].exits -> Nat]
      BY <3>1
    <3>4. k \in DOMAIN blocks[cur].exits
      BY <2>3, <3>2
    <3> QED
      BY <3>3, <3>4
  <2>5. CASE code[jump] = Slow
    <3>1. pc' = "link" /\ site' = jump /\ eip' = blocks[cur].exits[k] /\ cur' = None
      BY <1>4, <2>5 DEF RunExit
    <3>2. SiteOK'
      BY <1>2, <2>1, <2>3, <2>5, <3>1 DEF SiteOK
    <3> QED
      BY <1>1, <1>2, <2>1, <2>3, <2>4, <3>1, <3>2 DEF Local, None
  <2>6. CASE code[jump] # Slow
    <3>1. Arrive(code[jump]) /\ site' = site
      BY <1>4, <2>6 DEF RunExit
    <3>2. PICK t \in Ids : code[jump] = blocks[t].entry /\ blocks[t].start = blocks[cur].exits[k]
      BY <2>1, <2>3, <2>6 DEF Data, JumpsGoHome
    <3>3. \/ pc' = "drain" /\ eip' = blocks[t].start /\ cur' = None
          \/ pc' = "run" /\ cur' = t /\ blocks[t].valid /\ eip' = eip
      BY <3>1, <3>2, ArriveAt
    <3>4. SiteOK' /\ t \in Nat
      BY <1>1, <3>1 DEF SiteOK, Ids
    <3> QED
      BY <1>1, <1>2, <2>1, <2>4, <3>1, <3>2, <3>3, <3>4 DEF Local, None
  <2> QED
    BY <2>5, <2>6
<1> QED
  BY <1>3, <1>4

(* Steps that give up the cache *)
LEMMA FlushSteps ==
  ASSUME CacheInv, DrainOverflow \/ TranslateFlush
  PROVE  CacheInv'
<1> USE CacheAssumption
<1> USE DEF CacheInv
<1>1. Flush
  BY DEF DrainOverflow, TranslateFlush
<1>2. Data' /\ RingOK' /\ nblocks' = 0 /\ code_ptr' = 0 /\ htab' = {}
  BY <1>1, FlushData DEF Flush
<1>3. Full' = FALSE
  BY <1>2 DEF Full, Slack
<1>4. CASE DrainOverflow
  <2>1. site' = None
    BY <1>4 DEF DrainOverflow, Local
  <2>2. SiteOK'
    BY <2>1 DEF SiteOK
  <2> QED
    BY <1>2, <1>4, <2>1, <2>2 DEF DrainOverflow, Local
<1>5. CASE TranslateFlush
  <2>1. SiteOK'
    BY <1>5 DEF TranslateFlush, SiteOK
  <2> QED
    BY <1>2, <1>3, <1>5, <2>1 DEF TranslateFlush, Local
<1> QED
  BY <1>4, <1>5

(* What a drop of words leaves of the rest *)
LEMMA DropKeeps ==
  ASSUME CacheInv, NEW S, InvalidateWords(S)
  PROVE  /\ Data' /\ Ids' = Ids /\ htab' \subseteq htab
         /\ \A b \in Ids : blocks'[b].start = blocks[b].start
         /\ site' = site /\ flushed' = flushed /\ eip' = eip => SiteOK'
<1>1. /\ Data' /\ Ids' = Ids /\ code_ptr' = code_ptr /\ htab' \subseteq htab
      /\ \A b \in Ids : /\ blocks'[b].start = blocks[b].start
                        /\ blocks'[b].entry = blocks[b].entry
                        /\ blocks'[b].size = blocks[b].size
                        /\ blocks'[b].exits = blocks[b].exits
      /\ \A a \in 1 .. code_ptr : code[a] = Slow => code'[a] = Slow
  BY InvalidateWordsData DEF CacheInv
<1>2. ASSUME site' = site, flushed' = flushed, eip' = eip, site # None, ~flushed
      PROVE  \E b \in Ids' : \E k \in 1 .. blocks'[b].size - 1 :
               /\ site' = blocks'[b].entry + k /\ blocks'[b].exits[k] = eip' /\ code'[site'] = Slow
  <2>1. PICK b \in Ids : \E k \in 1 .. blocks[b].size - 1 :
               /\ site = blocks[b].entry + k /\ blocks[b].exits[k] = eip /\ code[site] = Slow
    BY <1>2 DEF CacheInv, SiteOK
  <2>2. PICK k \in 1 .. blocks[b].size - 1 :
               /\ site = blocks[b].entry + k /\ blocks[b].exits[k] = eip /\ code[site] = Slow
    BY <2>1
  <2>3. /\ blocks[b].entry \in 1 .. code_ptr /\ blocks[b].size \in Nat \ {0}
        /\ blocks[b].entry + blocks[b].size - 1 <= code_ptr /\ code_ptr \in Nat
    BY BlockFields DEF CacheInv, Data, RecordsOK
  <2>4. site \in 1 .. code_ptr
    BY <2>2, <2>3
  <2> QED
    BY <1>1, <1>2, <2>2, <2>4
<1> QED
  BY <1>1, <1>2 DEF SiteOK

(* A ring that is left as it is *)
LEMMA RingSame ==
  ASSUME RingOK, Ids' = Ids, pending' = pending
  PROVE  RingOK'
BY DEF RingOK

(* A ring that loses its oldest block *)
LEMMA RingTail ==
  ASSUME RingOK, Ids' = Ids, pending # <<>>, pending' = Tail(pending)
  PROVE  RingOK'
<1>1. pending \in Seq(Nat) /\ Len(pending) \in Nat \ {0}
  BY DEF RingOK
<1>2. /\ Tail(pending) \in Seq(Nat) /\ Len(Tail(pending)) = Len(pending) - 1
      /\ \A i \in 1 .. Len(pending) - 1 : Tail(pending)[i] = pending[i + 1]
  BY <1>1
<1>3. \A i \in 1 .. Len(pending) : pending[i] \in Ids
  BY DEF RingOK
<1>4. \A i \in 1 .. Len(pending) - 1 : i + 1 \in 1 .. Len(pending)
  BY <1>1
<1>5. \A i \in 1 .. Len(pending') : pending'[i] \in Ids'
  BY <1>2, <1>3, <1>4
<1>6. Len(pending) < PendingLen /\ PendingLen \in Nat
  BY CacheAssumption DEF RingOK
<1>7. Len(pending) - 1 < PendingLen
  BY <1>1, <1>6
<1>8. Len(pending') < PendingLen /\ pending' \in Seq(Nat)
  BY <1>2, <1>7
<1> QED
  BY <1>5, <1>8 DEF RingOK

(* Steps that drop the code of words *)
LEMMA DropSteps ==
  ASSUME CacheInv,
         LookupInterp \/ SmcInterp \/ CheckOldest \/ \E w \in Words : DrainWord(w) \/ HoistWord(w)
  PROVE  CacheInv'
<1> USE CacheAssumption
<1>1. ASSUME NEW w \in Words, DrainWord(w) \/ HoistWord(w)
      PROVE  CacheInv'
  <2>1. InvalidateWords({w}) /\ UNCHANGED <<pending, pc, eip, cur, site, flushed, goal>>
        /\ pc \in {"drain", "hoist"}
    BY <1>1 DEF DrainWord, HoistWord, run
  <2>2. /\ Data' /\ Ids' = Ids /\ htab' \subseteq htab
        /\ \A b \in Ids : blocks'[b].start = blocks[b].start
        /\ SiteOK'
    BY <2>1, DropKeeps
  <2>3. RingOK'
    <3>1. RingOK /\ Ids' = Ids /\ pending' = pending
      BY <2>1, <2>2 DEF CacheInv
    <3> QED
      BY <3>1, RingSame
  <2>4. Local'
    BY <2>1, <2>2 DEF CacheInv, Local
  <2> QED
    BY <2>2, <2>3, <2>4 DEF CacheInv
<1>2. ASSUME InterpStep, pc \in {"lookup", "smc"}
      PROVE  CacheInv'
  <2>1. /\ eip' \in Nat /\ goal' = eip' /\ pc' = "drain" /\ site = None
        /\ UNCHANGED <<pending, cur, site, flushed>>
    BY <1>2 DEF InterpStep, CacheInv, Local
  <2>2. SiteOK'
    BY <2>1 DEF SiteOK
  <2>3. Data' /\ Ids' = Ids
    <3>1. CASE UNCHANGED records
      BY <2>1, <3>1, SameCache DEF CacheInv, cache
    <3>2. CASE \E S : InvalidateWords(S)
      BY <3>2, DropKeeps
    <3> QED
      BY <1>2, <3>1, <3>2 DEF InterpStep
  <2>4. RingOK'
    <3>1. RingOK /\ Ids' = Ids /\ pending' = pending
      BY <2>1, <2>3 DEF CacheInv
    <3> QED
      BY <3>1, RingSame
  <2>5. Local'
    BY <2>1, <2>3 DEF CacheInv, Local
  <2> QED
    BY <2>2, <2>3, <2>4, <2>5 DEF CacheInv
<1>3. ASSUME CheckOldest
      PROVE  CacheInv'
  <2>1. /\ UNCHANGED <<pc, eip, cur, site, flushed, goal>> /\ pc \in {"reval", "room"}
        /\ pending' = Tail(pending)
    BY <1>3 DEF CheckOldest, run
  <2>2. pending # <<>>
    BY <1>3 DEF CheckOldest
  <2>3. CASE UNCHANGED records
    <3>1. UNCHANGED <<nblocks, blocks, code_ptr, code, nlinks, links, free_links, htab>>
      BY <2>3 DEF records
    <3>2. Ids' = Ids /\ Full' = Full /\ \A b : Jumps(b)' = Jumps(b)
      BY <3>1 DEF Ids, Full, Jumps
    <3>3. RecordsOK' /\ Entries' /\ JumpsGoHome'
      BY <3>1, <3>2 DEF CacheInv, Data, RecordsOK, Entries, JumpsGoHome
    <3>4. LinksAgree' /\ TableAgrees'
      BY <3>1, <3>2 DEF CacheInv, Data, LinksAgree, TableAgrees
    <3>5. RingOK'
      BY <2>1, <2>2, <3>2, RingTail DEF CacheInv
    <3>6. Local' /\ SiteOK'
      BY <2>1, <3>1, <3>2 DEF CacheInv, Local, SiteOK
    <3> QED
      BY <3>3, <3>4, <3>5, <3>6 DEF CacheInv, Data
  <2>4. CASE \E S : InvalidateWords(S)
    <3>1. /\ Data' /\ Ids' = Ids /\ htab' \subseteq htab
          /\ \A b \in Ids : blocks'[b].start = blocks[b].start
          /\ SiteOK'
      BY <2>1, <2>4, DropKeeps
    <3>2. RingOK'
      BY <2>1, <2>2, <3>1, RingTail DEF CacheInv
    <3>3. Local'
      BY <2>1, <3>1 DEF CacheInv, Local
    <3> QED
      BY <3>1, <3>2, <3>3 DEF CacheInv
  <2> QED
    BY <1>3, <2>3, <2>4 DEF CheckOldest
<1> QED
  BY <1>1, <1>2, <1>3 DEF LookupInterp, SmcInterp

(* A block is made and put into the ring *)
LEMMA MakeSteps ==
  ASSUME CacheInv, Emit \/ PutPending
  PROVE  CacheInv'
<1> USE CacheAssumption
<1> USE DEF CacheInv
<1>1. CASE Emit
  <2>1. eip \in Nat /\ ~Full /\ \A b \in htab : blocks[b].start # eip
    BY <1>1 DEF Emit, Local
  <2>2. /\ Data'
        /\ nblocks' = nblocks + 1 /\ code_ptr <= code_ptr'
        /\ \A b \in Ids : blocks'[b] = blocks[b]
        /\ blocks'[nblocks + 1].start = eip
        /\ \A a \in 1 .. code_ptr : code'[a] = code[a]
    BY <1>1, <2>1, EmitData
  <2>3. nblocks \in Nat /\ Ids \subseteq Ids' /\ nblocks + 1 \in Ids'
    BY <2>2 DEF Data, RecordsOK, Ids
  <2>4. /\ pc' \in {"wait", "room"} /\ cur' = nblocks + 1
        /\ UNCHANGED <<pending, eip, site, flushed, goal>> /\ pc = "emit"
    BY <1>1 DEF Emit
  <2>5. RingOK'
    BY <2>3, <2>4 DEF RingOK
  <2>6. Local'
    BY <2>2, <2>3, <2>4 DEF Local
  <2>7. SiteOK'
    <3> SUFFICES ASSUME site # None, ~flushed PROVE SiteOK'
      BY <2>4 DEF SiteOK
    <3>1. PICK b \in Ids : \E k \in 1 .. blocks[b].size - 1 :
               /\ site = blocks[b].entry + k /\ blocks[b].exits[k] = eip /\ code[site] = Slow
      BY DEF SiteOK
    <3>2. /\ blocks[b].entry \in 1 .. code_ptr /\ blocks[b].size \in Nat \ {0}
          /\ blocks[b].entry + blocks[b].size - 1 <= code_ptr /\ code_ptr \in Nat
      BY BlockFields DEF Data, RecordsOK
    <3>3. site \in 1 .. code_ptr
      BY <3>1, <3>2
    <3> QED
      BY <2>2, <2>3, <2>4, <3>1, <3>3 DEF SiteOK
  <2> QED
    BY <2>2, <2>5, <2>6, <2>7
<1>2. CASE PutPending
  <2>1. /\ UNCHANGED <<nblocks, blocks, code_ptr, code, nlinks, links, free_links, htab>>
        /\ UNCHANGED <<eip, cur, site, flushed, goal>>
        /\ pending' = Append(pending, cur) /\ pc \in {"wait", "room"}
        /\ pc' = IF site = None THEN "enter" ELSE "patch"
        /\ Len(pending) < PendingLen - 1
    BY <1>2 DEF PutPending, records
  <2>2. Ids' = Ids /\ Full' = Full /\ \A b : Jumps(b)' = Jumps(b)
    BY <2>1 DEF Ids, Full, Jumps
  <2>3. RecordsOK' /\ Entries' /\ JumpsGoHome'
    BY <2>1, <2>2 DEF Data, RecordsOK, Entries, JumpsGoHome
  <2>4. LinksAgree' /\ TableAgrees'
    BY <2>1, <2>2 DEF Data, LinksAgree, TableAgrees
  <2>5. RingOK'
    <3>1. cur \in Ids /\ cur \in Nat /\ pending \in Seq(Nat) /\ Len(pending) \in Nat
      BY <2>1 DEF Local, RingOK
    <3>2. /\ pending' \in Seq(Nat) /\ Len(pending') = Len(pending) + 1
          /\ \A i \in 1 .. Len(pending) : pending'[i] = pending[i]
          /\ pending'[Len(pending) + 1] = cur
      BY <2>1, <3>1
    <3>3. \A i \in 1 .. Len(pending') : i \in 1 .. Len(pending) \/ i = Len(pending) + 1
      BY <3>1, <3>2
    <3>4. \A i \in 1 .. Len(pending') : pending'[i] \in Ids'
      BY <2>2, <3>1, <3>2, <3>3 DEF RingOK
    <3>5. Len(pending') < PendingLen
      BY <2>1, <3>1, <3>2
    <3> QED
      BY <3>2, <3>4, <3>5 DEF RingOK
  <2>6. Local' /\ SiteOK'
    BY <2>1, <2>2 DEF Local, SiteOK
  <2> QED
    BY <2>3, <2>4, <2>5, <2>6 DEF Data
<1> QED
  BY <1>1, <1>2

(* A jump is linked, or not *)
LEMMA LinkStep ==
  ASSUME CacheInv, Link
  PROVE  CacheInv'
<1> USE DEF CacheInv
<1>1. /\ pc = "patch" /\ pc' = "drain" /\ site' = None /\ cur' = None /\ flushed' = FALSE
      /\ UNCHANGED <<eip, goal>>
      /\ cur \in Ids /\ blocks[cur].start = eip /\ site # None
  BY DEF Link, Local
<1>2. SiteOK'
  BY <1>1 DEF SiteOK
<1>3. Data' /\ RingOK'
  <2>1. CASE UNCHANGED cache
    BY <2>1, SameCache
  <2>2. ASSUME MayLink, NEW l \in 1 .. MaxLinks, LinkTo(l)
        PROVE  Data' /\ RingOK'
    <3>1. PICK b \in Ids : \E k \in 1 .. blocks[b].size - 1 :
               /\ site = blocks[b].entry + k /\ blocks[b].exits[k] = eip /\ code[site] = Slow
      BY <1>1, <2>2 DEF SiteOK, MayLink
    <3>2. Data' /\ Ids' = Ids
      BY <1>1, <2>2, <3>1, LinkData
    <3>3. pending' = pending
      BY <2>2 DEF LinkTo
    <3> QED
      BY <3>2, <3>3, RingSame
  <2> QED
    BY <2>1, <2>2 DEF Link
<1>4. Local'
  <2>1. eip \in Nat /\ goal \in Nat /\ eip = goal
    BY <1>1 DEF Local
  <2>2. None \in Nat /\ None \in 0 .. CodeSize
    BY CacheAssumption DEF None
  <2> QED
    BY <1>1, <2>1, <2>2 DEF Local
<1> QED
  BY <1>2, <1>3, <1>4

-----------------------------------------------------------------------------
(* The theorems *)

(* CacheInv holds at the start and is kept by every step of jit_run. *)
THEOREM CacheInvariant == Spec => []CacheInv
<1> USE CacheAssumption
<1>1. Init => CacheInv
  <2> SUFFICES ASSUME Init PROVE CacheInv
    OBVIOUS
  <2>1. Ids = {}
    BY DEF Init, Ids
  <2>2. Data
    BY <2>1 DEF Init, Data, RecordsOK, Entries, JumpsGoHome, LinksAgree, TableAgrees, Empty
  <2>3. RingOK /\ SiteOK
    BY DEF Init, RingOK, SiteOK
  <2>4. Local
    <3>1. eip \in Nat /\ goal = eip
      BY DEF Init
    <3>2. None \in Nat /\ None \in 0 .. CodeSize
      BY DEF None
    <3> QED
      BY <3>1, <3>2 DEF Init, Local
  <2> QED
    BY <2>2, <2>3, <2>4 DEF CacheInv
<1>2. CacheInv /\ [Next]_vars => CacheInv'
  <2> SUFFICES ASSUME CacheInv, [Next]_vars PROVE CacheInv'
    OBVIOUS
  <2>1. CASE UNCHANGED vars
    <3>1. UNCHANGED <<cache, pc, eip, cur, site, flushed, goal>>
      BY <2>1 DEF vars, run
    <3>2. /\ Data' /\ RingOK' /\ Ids' = Ids /\ htab' = htab /\ blocks' = blocks
          /\ code' = code /\ Full' = Full
      BY <3>1, SameCache DEF CacheInv
    <3> QED
      BY <3>1, <3>2 DEF CacheInv, Local, SiteOK
  <2>2. CASE Next
    BY <2>2, ControlSteps, KeepSteps, JumpSteps, FlushSteps, DropSteps, MakeSteps, LinkStep DEF Next
  <2> QED
    BY <2>1, <2>2
<1> QED
  BY <1>1, <1>2, PTL DEF Spec

(* Block records, code and link records stay within their space, and no two  *)
(* blocks share code, whatever is translated, linked and dropped (jit.c      *)
(* 1431, 1834).                                                              *)
THEOREM CacheTypeCorrect == Spec => []TypeOK
<1>1. CacheInv => TypeOK
  BY DEF CacheInv, Data, RingOK, Local, TypeOK
<1> QED
  BY <1>1, CacheInvariant, PTL

(* Translated code is the guest's own next instruction, however jumps were   *)
(* linked, dropped and linked again (jit.c 288-310, 1830-1843).              *)
THEOREM CacheFollowsGuest == Spec => []FollowsGuest
<1>1. CacheInv => FollowsGuest
  BY DEF CacheInv, Local, FollowsGuest
<1> QED
  BY <1>1, CacheInvariant, PTL

(* A block that runs, through the table or a patched jump, was not dropped   *)
(* and is the one the table has for its start (jit.c 288-310).               *)
THEOREM CacheRunsValidCode == Spec => []RunsValidCode
<1>1. CacheInv => RunsValidCode
  <2> SUFFICES ASSUME CacheInv, pc = "run"
               PROVE  blocks[cur].valid /\ LookUp(blocks[cur].start) = cur
    BY DEF RunsValidCode
  <2>1. cur \in Ids /\ blocks[cur].valid
    BY DEF CacheInv, Local
  <2>2. cur \in htab
    BY <2>1 DEF CacheInv, Data, TableAgrees
  <2> QED
    BY <2>1, <2>2, LookUpFinds DEF CacheInv, Data
<1> QED
  BY <1>1, CacheInvariant, PTL

(* Link records and patched jumps agree: a jump goes into a block if and     *)
(* only if that block lists it (jit.c 299-305).                              *)
THEOREM CacheLinksAgree == Spec => []LinksAgree
<1>1. CacheInv => LinksAgree
  BY DEF CacheInv, Data
<1> QED
  BY <1>1, CacheInvariant, PTL

(* Nothing points to a block that a flush gave up (jit.c 323-332).           *)
THEOREM CacheNoStalePointers == Spec => []NoStalePointers
<1>1. CacheInv => NoStalePointers
  BY DEF CacheInv, Data, RingOK, NoStalePointers
<1> QED
  BY <1>1, CacheInvariant, PTL

(* When the code of a word is dropped, no valid block has an instruction in  *)
(* that word: the window of invalidate_word() is wide enough (jit.c 312-321).*)
THEOREM CacheDrops == Spec => DropIsComplete
<1> USE CacheAssumption
<1>1. ASSUME CacheInv, NEW w \in Words, DrainWord(w) \/ HoistWord(w),
             NEW b \in 1 .. nblocks', blocks'[b].valid
      PROVE  w \notin Covered(blocks'[b])
  <2> SUFFICES ASSUME w \in Covered(blocks'[b]) PROVE FALSE
    OBVIOUS
  <2> DEFINE D == UNION {Drops(x) : x \in {w}}
  <2>1. Invalidate(D)
    BY <1>1 DEF DrainWord, HoistWord, InvalidateWords
  <2>2. D = Drops(w)
    OBVIOUS
  <2>3. D \in SUBSET htab
    BY <1>1, <2>2, DropsInTable DEF CacheInv, Data
  <2> HIDE DEF D
  <2>4. /\ b \in Ids /\ blocks'[b].start = blocks[b].start /\ blocks'[b].n = blocks[b].n
        /\ blocks[b].valid /\ b \notin D
    <3>1. b \in Ids
      BY <2>1 DEF Invalidate, Ids
    <3> QED
      BY <1>1, <2>1, <2>3, <3>1, InvalidateKeeps DEF CacheInv
  <2>5. b \in htab /\ LookUp(blocks[b].start) = b /\ b # None
    <3>1. b \in htab
      BY <1>1, <2>4 DEF CacheInv, Data, TableAgrees
    <3> QED
      BY <1>1, <2>4, <3>1, LookUpFinds DEF CacheInv, Data, Ids, None
  <2>6. blocks[b].start \in Nat /\ blocks[b].n \in Nat /\ blocks[b].n <= MaxBlock /\ w \in Nat
    BY <1>1, <2>4, BlockFields DEF CacheInv, Data, Words
  <2>7. blocks[b].start <= w /\ w < blocks[b].start + 3 * blocks[b].n
    BY <2>4, <2>6 DEF Covered
  <2>8. blocks[b].start \in (IF w >= 3 * MaxBlock THEN w - 3 * MaxBlock + 1 ELSE 0) .. w
    BY <2>6, <2>7
  <2>9. b \in Drops(w)
    BY <2>5, <2>7, <2>8 DEF Drops
  <2> QED
    BY <2>2, <2>4, <2>9
<1>2. CacheInv /\ [Next]_vars =>
        [\A w \in Words : DrainWord(w) \/ HoistWord(w) =>
           \A b \in 1 .. nblocks' : blocks'[b].valid => w \notin Covered(blocks'[b])]_vars
  BY <1>1
<1> QED
  BY <1>2, CacheInvariant, PTL DEF Spec, DropIsComplete
=============================================================================
