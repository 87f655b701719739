------------------------------ MODULE JitCache ------------------------------
(***************************************************************************)
(* One CPU's code cache (kernel/src/jit.c): block records, the table       *)
(* lookup() searches, translated code with the jumps that link_to()        *)
(* patches, the records of those links, and the ring of blocks to check    *)
(* again.  Nothing here is shared: other CPUs only say which words to      *)
(* drop, so that one CPU is enough.                                        *)
(*                                                                         *)
(* Guest addresses are words.  Code is a row of cells: a block has one for *)
(* its entry and one for each jump that may be linked.  A cell holds where *)
(* its jump goes, so that a patch of a cell that is not a jump, or of one  *)
(* whose memory was given to another block, does what it does on the       *)
(* machine.                                                                *)
(***************************************************************************)
EXTENDS Integers, Sequences

CONSTANTS
  MemSize,      \* words of guest memory (mem_size)
  MaxBlock,     \* instructions of a block (JIT_MAX_BLOCK)
  CopyLen,      \* instructions of the word copy loop (19)
  Targets,      \* where the guest's branches go
  CodeSize,     \* cells of code (code_end - code_base)
  MaxExits,     \* jumps of a block that may be linked
  MaxBlocks,    \* block records (max_blocks)
  MaxLinks,     \* link records (max_links)
  PendingLen    \* slots of the ring of blocks to check (PENDING_LEN)

ASSUME CacheAssumption ==
  /\ MemSize \in Nat /\ MaxBlock \in Nat \ {0} /\ CopyLen \in 1 .. MaxBlock
  /\ Targets \subseteq Nat /\ Targets # {}
  /\ MaxExits \in Nat /\ CodeSize \in Nat /\ CodeSize > MaxExits
  /\ MaxBlocks \in Nat \ {0} /\ MaxLinks \in Nat
  /\ PendingLen \in Nat \ {0, 1}

VARIABLES
  nblocks,      \* block records in use
  blocks,       \* the records, 1 .. nblocks
  code_ptr,     \* cells of code in use
  code,         \* the cells, 1 .. code_ptr
  nlinks,       \* link records in use
  links,        \* the cell that each of 1 .. nlinks patched
  free_links,   \* those given back
  htab,         \* the blocks lookup() finds
  pending,      \* blocks to check against memory again
  pc,           \* where jit_run is
  eip,          \* st.eip
  cur,          \* the block entered, running, made or linked to
  site,         \* the jump that left, while it is to be linked; else 0
  flushed,      \* gen # stats.flushes, for a jump to be linked
  goal          \* where the guest's program is (ghost)

records == <<nblocks, blocks, code_ptr, code, nlinks, links, free_links, htab>>
cache == <<records, pending>>
run == <<pc, eip, cur, site, flushed, goal>>
vars == <<cache, run>>

None == 0       \* no block, no jump
Slow == 0       \* a jump to the slow path behind it (site + 4)
Body == -1      \* an entry that goes on with the block
Gone == -2      \* an entry that jumps to inv_stub

Empty == [i \in {} |-> 0]
Words == 0 .. MemSize - 1
Slack == MaxExits + 1                   \* CODE_SLACK: the largest block

Covered(b) == b.start .. b.start + 3 * b.n - 1

-----------------------------------------------------------------------------
(* Blocks *)

(* The newest block of the chain with this start, as it is first in it *)
LookUp(a) ==
  LET found == {b \in htab : blocks[b].start = a}
  IN IF found = {} THEN None ELSE CHOOSE b \in found : \A o \in found : o <= b

(* Mutant: the window starts one word late *)
DropsShort(w) ==
  LET lo == IF w >= 3 * MaxBlock THEN w - 3 * MaxBlock + 2 ELSE 0
  IN {b \in {LookUp(s) : s \in lo .. w} \ {None} : w < blocks[b].start + 3 * blocks[b].n}

(* The blocks invalidate_word() drops for word w: it looks at every start    *)
(* that a block of the largest size could have to reach w                    *)
Drops(w) ==
  LET lo == IF w >= 3 * MaxBlock THEN w - 3 * MaxBlock + 1 ELSE 0
  IN {b \in {LookUp(s) : s \in lo .. w} \ {None} : w < blocks[b].start + 3 * blocks[b].n}

(* Mutant: the entries stay as they are, as the jumps to them were taken out *)
InvalidateOpen(D) ==
  /\ htab' = htab \ D
  /\ blocks' = [b \in 1 .. nblocks |->
                 IF b \in D THEN [blocks[b] EXCEPT !.valid = FALSE, !.incoming = {}]
                            ELSE blocks[b]]
  /\ code' = [a \in 1 .. code_ptr |->
               IF \E b \in D : \E l \in blocks[b].incoming : links[l] = a THEN Slow
               ELSE code[a]]
  /\ free_links' = free_links \cup UNION {blocks[b].incoming : b \in D}
  /\ UNCHANGED <<nblocks, code_ptr, nlinks, links>>

(* Mutant: link records are given back with their jumps still patched *)
InvalidateLinked(D) ==
  /\ htab' = htab \ D
  /\ blocks' = [b \in 1 .. nblocks |->
                 IF b \in D THEN [blocks[b] EXCEPT !.valid = FALSE, !.incoming = {}]
                            ELSE blocks[b]]
  /\ code' = [a \in 1 .. code_ptr |-> IF \E b \in D : a = blocks[b].entry THEN Gone ELSE code[a]]
  /\ free_links' = free_links \cup UNION {blocks[b].incoming : b \in D}
  /\ UNCHANGED <<nblocks, code_ptr, nlinks, links>>

(* invalidate() of each of these blocks, all valid: out of the table, the    *)
(* jumps linked to it back to their slow paths, their records free, and its  *)
(* entry to inv_stub                                                         *)
Invalidate(D) ==
  /\ htab' = htab \ D
  /\ blocks' = [b \in 1 .. nblocks |->
                 IF b \in D THEN [blocks[b] EXCEPT !.valid = FALSE, !.incoming = {}]
                            ELSE blocks[b]]
  /\ code' = [a \in 1 .. code_ptr |->
               IF \E b \in D : a = blocks[b].entry THEN Gone
               ELSE IF \E b \in D : \E l \in blocks[b].incoming : links[l] = a THEN Slow
               ELSE code[a]]
  /\ free_links' = free_links \cup UNION {blocks[b].incoming : b \in D}
  /\ UNCHANGED <<nblocks, code_ptr, nlinks, links>>

InvalidateWords(S) == Invalidate(UNION {Drops(w) : w \in S})

(* Mutant: the ring of blocks to check is kept *)
FlushKeepsPending ==
  /\ nblocks' = 0 /\ code_ptr' = 0 /\ nlinks' = 0
  /\ blocks' = Empty /\ code' = Empty /\ links' = Empty
  /\ free_links' = {} /\ htab' = {} /\ UNCHANGED pending

(* Code, records and table are given up, and their memory is used again *)
Flush ==
  /\ nblocks' = 0 /\ code_ptr' = 0 /\ nlinks' = 0
  /\ blocks' = Empty /\ code' = Empty /\ links' = Empty
  /\ free_links' = {} /\ htab' = {} /\ pending' = <<>>

-----------------------------------------------------------------------------
(* The dispatcher *)

Init ==
  /\ nblocks = 0 /\ code_ptr = 0 /\ nlinks = 0
  /\ blocks = Empty /\ code = Empty /\ links = Empty
  /\ free_links = {} /\ htab = {} /\ pending = <<>>
  /\ pc = "out" /\ eip \in Targets /\ goal = eip
  /\ cur = None /\ site = None /\ flushed = FALSE

(* jit_run() is called, where it left or elsewhere *)
EnterRun ==
  /\ pc = "out"
  /\ pc' = "drain"
  /\ eip' \in {eip} \cup Targets /\ goal' = eip'
  /\ UNCHANGED <<cache, cur, site, flushed>>

(* drain_queue() after an overflow *)
DrainOverflow ==
  /\ pc = "drain"
  /\ pc' = "reval"
  /\ Flush
  /\ UNCHANGED <<eip, cur, site, flushed, goal>>

(* A word another CPU dropped code for *)
DrainWord(w) ==
  /\ pc = "drain"
  /\ InvalidateWords({w})
  /\ UNCHANGED <<pending, run>>

DrainDone ==
  /\ pc = "drain"
  /\ pc' = "reval"
  /\ UNCHANGED <<cache, eip, cur, site, flushed, goal>>

(* One round of revalidate(), whose grace period is JitGrace's: the oldest   *)
(* block leaves the ring.  If it is valid and any of its static fields (here *)
(* any of its fields, as what they hold is not here) changed, all of them    *)
(* are dropped, which drops other blocks of the same words too.              *)
CheckOldest ==
  /\ pc \in {"reval", "room"} /\ pending # <<>>
  /\ pending' = Tail(pending)
  /\ LET b == blocks[Head(pending)]
     IN \/ UNCHANGED records
        \/ /\ b.valid
           /\ \E S \in (SUBSET Covered(b)) \ {{}} : InvalidateWords(S)
  /\ UNCHANGED run

RevalDone ==
  /\ pc = "reval"
  /\ pc' = "lookup"
  /\ UNCHANGED <<cache, eip, cur, site, flushed, goal>>

(* The budget is used up, or is not enough for the block found or made *)
Leave ==
  /\ pc \in {"lookup", "enter"}
  /\ pc' = "out" /\ cur' = None
  /\ UNCHANGED <<cache, eip, site, flushed, goal>>

(* lookup() finds a block *)
LookupFound ==
  /\ pc = "lookup" /\ LookUp(eip) # None
  /\ pc' = "enter" /\ cur' = LookUp(eip)
  /\ UNCHANGED <<cache, eip, site, flushed, goal>>

(* interp_step(): a store to words with code, at most two, drops that code,  *)
(* and the guest goes on at the next instruction or branches                 *)
InterpStep ==
  /\ \/ UNCHANGED records
     \/ \E w \in Words : \/ InvalidateWords({w})
                         \/ w + 1 \in Words /\ InvalidateWords({w, w + 1})
  /\ eip' \in Targets \cup {a \in {eip + 3} : a <= MemSize} /\ goal' = eip'
  /\ pc' = "drain"
  /\ UNCHANGED <<pending, cur, site, flushed>>

(* No block, none made, or not enough budget for all of it in a build that   *)
(* runs budgets out exactly: one instruction                                 *)
LookupInterp ==
  /\ pc = "lookup"
  /\ InterpStep

-----------------------------------------------------------------------------
(* Translation, of a block to enter or of one to link a jump to *)

(* Whether translate() returns a block (addresses that are not words have    *)
(* none either)                                                              *)
Translatable(a) == a + 3 <= MemSize

TranslateBegin ==
  /\ pc \in {"lookup", "link"}
  /\ LookUp(eip) = None /\ Translatable(eip)
  /\ pc' = "trans"
  /\ UNCHANGED <<cache, eip, cur, site, flushed, goal>>

(* Mutant: the last record is given out without looking *)
FullLate == CodeSize - code_ptr < Slack \/ nblocks > MaxBlocks

(* No room for the largest block.  The third test, for the list of words     *)
(* stored to, is left open: any translation may flush.                       *)
Full == CodeSize - code_ptr < Slack \/ nblocks = MaxBlocks

TranslateFlush ==
  /\ pc = "trans"
  /\ pc' = "emit"
  /\ Flush
  /\ flushed' = (site # None)
  /\ UNCHANGED <<eip, cur, site, goal>>

TranslateRoom ==
  /\ pc = "trans" /\ ~Full
  /\ pc' = "emit"
  /\ UNCHANGED <<cache, eip, cur, site, flushed, goal>>

(* Where a block of n instructions ends: memory, the largest size, and where *)
(* another block starts, unless it is the copy loop, which goes on           *)
Extents(start) ==
  {n \in 1 .. MaxBlock :
     /\ start + 3 * n <= MemSize
     /\ n = CopyLen \/ \A k \in 1 .. n - 1 : LookUp(start + 3 * k) = None}

(* Where its jumps that may be linked go: branches, and unless it ended with *)
(* a jump the way on behind it; jumps to computed addresses are not among    *)
(* them                                                                      *)
Exits(k, start, n) == [1 .. k -> Targets \cup {start + 3 * n}]

(* The block is emitted at code_ptr, recorded, and put into the table *)
Emit ==
  /\ pc = "emit"
  /\ \E n \in Extents(eip), k \in 0 .. MaxExits : \E exits \in Exits(k, eip, n) :
       LET b == [start |-> eip, n |-> n, entry |-> code_ptr + 1, size |-> k + 1,
                 exits |-> exits, valid |-> TRUE, incoming |-> {}]
       IN /\ nblocks' = nblocks + 1
          /\ blocks' = [i \in 1 .. nblocks + 1 |-> IF i = nblocks + 1 THEN b ELSE blocks[i]]
          /\ code_ptr' = code_ptr + b.size
          /\ code' = [a \in 1 .. code_ptr + b.size |->
                       IF a <= code_ptr THEN code[a]
                       ELSE IF a = b.entry THEN Body ELSE Slow]
  /\ htab' = htab \cup {nblocks + 1}
  /\ cur' = nblocks + 1
  /\ pc' = IF Len(pending) = PendingLen - 1 THEN "room" ELSE "wait"
  /\ UNCHANGED <<nlinks, links, free_links, pending, eip, site, flushed, goal>>

(* With a slot free, the block is to be checked.  With none, the rounds of    *)
(* revalidate() are to make room, and may drop this block too.               *)
PutPending ==
  /\ pc \in {"wait", "room"} /\ Len(pending) < PendingLen - 1
  /\ pending' = Append(pending, cur)
  /\ pc' = IF site = None THEN "enter" ELSE "patch"
  /\ UNCHANGED <<records, eip, cur, site, flushed, goal>>

-----------------------------------------------------------------------------
(* Translated code *)

(* Control comes to an entry: the block runs, or inv_stub leaves for the     *)
(* dispatcher with the block's start                                         *)
Arrive(a) ==
  LET b == CHOOSE b \in 1 .. nblocks : blocks[b].entry = a
  IN IF code[a] = Gone
     THEN pc' = "drain" /\ eip' = blocks[b].start /\ cur' = None
     ELSE pc' = "run" /\ cur' = b /\ UNCHANGED eip

(* jit_enter() *)
Enter ==
  /\ pc = "enter"
  /\ Arrive(blocks[cur].entry)
  /\ UNCHANGED <<cache, site, flushed, goal>>

(* Not enough budget for the block *)
RunBudget ==
  /\ pc = "run"
  /\ pc' = "drain" /\ eip' = blocks[cur].start /\ cur' = None
  /\ UNCHANGED <<cache, site, flushed, goal>>

(* The watched word changed *)
RunWatch ==
  /\ pc = "run"
  /\ pc' = "out" /\ eip' = blocks[cur].start /\ cur' = None
  /\ UNCHANGED <<cache, site, flushed, goal>>

(* A word it stores to, at an address known when it was made, holds code *)
RunHoist ==
  /\ pc = "run"
  /\ pc' = "hoist" /\ eip' = blocks[cur].start /\ cur' = None
  /\ UNCHANGED <<cache, site, flushed, goal>>

(* Each such word is dropped *)
HoistWord(w) ==
  /\ pc = "hoist"
  /\ InvalidateWords({w})
  /\ UNCHANGED <<pending, run>>

HoistDone ==
  /\ pc = "hoist"
  /\ pc' = "drain"
  /\ UNCHANGED <<cache, eip, cur, site, flushed, goal>>

(* An instruction of the block is about to store to code: it is interpreted *)
RunSmc ==
  /\ pc = "run"
  /\ \E i \in 0 .. blocks[cur].n - 1 :
       /\ eip' = blocks[cur].start + 3 * i /\ goal' = eip'
  /\ pc' = "smc" /\ cur' = None
  /\ UNCHANGED <<cache, site, flushed>>

SmcInterp ==
  /\ pc = "smc"
  /\ InterpStep

(* A jump to a computed address leaves for the dispatcher *)
RunComputed ==
  /\ pc = "run"
  /\ pc' = "drain" /\ eip' \in Targets /\ goal' = eip' /\ cur' = None
  /\ UNCHANGED <<cache, site, flushed>>

(* A jump that may be linked, to the guest's exits[k]: the slow path leaves, *)
(* with the address of the jump                                              *)
RunExit(k) ==
  /\ pc = "run" /\ k < blocks[cur].size
  /\ goal' = blocks[cur].exits[k]
  /\ LET jump == blocks[cur].entry + k
     IN \/ /\ code[jump] = Slow
           /\ pc' = "link" /\ site' = jump /\ eip' = blocks[cur].exits[k]
           /\ cur' = None
        \/ /\ code[jump] # Slow
           /\ Arrive(code[jump])
           /\ UNCHANGED site
  /\ UNCHANGED <<cache, flushed>>

-----------------------------------------------------------------------------
(* Linking *)

LinkFound ==
  /\ pc = "link" /\ LookUp(eip) # None
  /\ pc' = "patch" /\ cur' = LookUp(eip)
  /\ UNCHANGED <<cache, eip, site, flushed, goal>>

(* No block, and none can be made *)
LinkNone ==
  /\ pc = "link" /\ LookUp(eip) = None /\ ~Translatable(eip)
  /\ pc' = "drain" /\ site' = None
  /\ UNCHANGED <<cache, eip, cur, flushed, goal>>

(* Mutant: the flushes are not compared *)
MayLinkAlways == TRUE

(* The code that left is still there *)
MayLink == ~flushed

(* link_to(): a record given back or a new one, if there is one; the jump    *)
(* goes to the entry of the block                                            *)
LinkTo(l) ==
  /\ \/ /\ l \in free_links
        /\ free_links' = free_links \ {l} /\ links' = [links EXCEPT ![l] = site]
        /\ UNCHANGED nlinks
     \/ /\ free_links = {} /\ l = nlinks + 1
        /\ nlinks' = l /\ links' = [i \in 1 .. l |-> IF i = l THEN site ELSE links[i]]
        /\ UNCHANGED free_links
  /\ blocks' = [blocks EXCEPT ![cur].incoming = @ \cup {l}]
  /\ code' = [code EXCEPT ![site] = blocks[cur].entry]
  /\ UNCHANGED <<nblocks, code_ptr, htab, pending>>

Link ==
  /\ pc = "patch"
  /\ \/ MayLink /\ \E l \in 1 .. MaxLinks : LinkTo(l)
     \/ /\ MayLink => free_links = {} /\ nlinks = MaxLinks
        /\ UNCHANGED cache
  /\ pc' = "drain" /\ site' = None /\ cur' = None /\ flushed' = FALSE
  /\ UNCHANGED <<eip, goal>>

Next ==
  \/ EnterRun \/ DrainOverflow \/ DrainDone \/ CheckOldest \/ RevalDone
  \/ Leave \/ LookupFound \/ LookupInterp
  \/ TranslateBegin \/ TranslateFlush \/ TranslateRoom \/ Emit \/ PutPending
  \/ Enter \/ RunBudget \/ RunWatch \/ RunHoist \/ HoistDone \/ RunSmc \/ SmcInterp
  \/ RunComputed \/ LinkFound \/ LinkNone \/ Link
  \/ \E w \in Words : DrainWord(w) \/ HoistWord(w)
  \/ \E k \in 1 .. MaxExits : RunExit(k)

Spec == Init /\ [][Next]_vars

-----------------------------------------------------------------------------
(* Properties *)

Ids == 1 .. nblocks
Jumps(b) == blocks[b].entry + 1 .. blocks[b].entry + blocks[b].size - 1

Block ==
  [start : Nat, n : 1 .. MaxBlock, entry : 1 .. CodeSize, size : 1 .. Slack,
   exits : Seq(Nat),
   valid : BOOLEAN, incoming : SUBSET (1 .. MaxLinks)]

RecordsOK ==
  /\ nblocks \in 0 .. MaxBlocks /\ code_ptr \in 0 .. CodeSize /\ nlinks \in 0 .. MaxLinks
  /\ blocks \in [Ids -> Block]
  /\ \A b \in Ids : /\ blocks[b].entry + blocks[b].size - 1 <= code_ptr
                    /\ DOMAIN blocks[b].exits = 1 .. blocks[b].size - 1
                    /\ blocks[b].incoming \subseteq 1 .. nlinks
  /\ \A b, o \in Ids : b < o => blocks[b].entry + blocks[b].size <= blocks[o].entry
  /\ code \in [1 .. code_ptr -> {Slow, Body, Gone} \cup (1 .. code_ptr)]
  /\ links \in [1 .. nlinks -> 1 .. code_ptr]
  /\ free_links \subseteq 1 .. nlinks /\ htab \subseteq Ids

(* Records, code and links stay within their space, whatever is translated   *)
(* (jit.c 1431, 1834), and no two blocks share code.                         *)
TypeOK ==
  /\ RecordsOK
  /\ pending \in Seq(Nat) /\ Len(pending) < PendingLen
  /\ eip \in Nat /\ goal \in Nat /\ flushed \in BOOLEAN
  /\ cur \in Nat /\ site \in 0 .. CodeSize
  /\ pc \in {"out", "drain", "reval", "lookup", "trans", "emit", "wait", "room", "enter",
             "run", "hoist", "smc", "link", "patch"}

(* Where the guest is, translated code and dispatcher agree: a block that    *)
(* runs, however it was reached, is the one that starts where the guest's    *)
(* last branch went, and the dispatcher goes on there too.                   *)
FollowsGuest ==
  /\ pc = "run" => blocks[cur].start = goal
  /\ pc # "run" => eip = goal

(* A block that runs has not been dropped, though jumps were linked to it    *)
(* before, or while it was already dropped (jit.c 296-306, 1660-1664): it is *)
(* the one lookup() finds.                                                   *)
RunsValidCode ==
  pc = "run" => blocks[cur].valid /\ LookUp(blocks[cur].start) = cur

TableAgrees ==
  /\ htab = {b \in Ids : blocks[b].valid}
  /\ \A b, o \in htab : blocks[b].start = blocks[o].start => b = o

(* Whoever holds a pointer into the cache holds one to what was made since   *)
(* the last flush: the ring of blocks to check, and the table, which holds   *)
(* every valid block, one for each start, and no dropped one.                *)
NoStalePointers ==
  /\ \A i \in 1 .. Len(pending) : pending[i] \in Ids
  /\ TableAgrees

(* Links and jumps agree: the jumps that are linked are those of the link    *)
(* records in use, each in the list of the block its jump goes to, so that   *)
(* dropping the block finds it; no record is in two lists or in none.        *)
LinksAgree ==
  /\ \A b \in Ids : \A j \in Jumps(b) :
       code[j] # Slow => \E t \in Ids : /\ code[j] = blocks[t].entry
                                        /\ \E l \in blocks[t].incoming : links[l] = j
  /\ \A b \in Ids : \A l \in blocks[b].incoming :
       /\ code[links[l]] = blocks[b].entry
       /\ \E o \in Ids : links[l] \in Jumps(o)
  /\ \A l \in 1 .. nlinks : l \in free_links <=> \A b \in Ids : l \notin blocks[b].incoming
  /\ \A b, o \in Ids : b # o => blocks[b].incoming \cap blocks[o].incoming = {}

(* When a word's code is dropped, no block with an instruction in it is left *)
(* valid: the window of starts that invalidate_word() looks at is wide       *)
(* enough for every block.                                                   *)
DropIsComplete ==
  [][\A w \in Words : DrainWord(w) \/ HoistWord(w) =>
       \A b \in 1 .. nblocks' : blocks'[b].valid => w \notin Covered(blocks'[b])]_vars
=============================================================================
