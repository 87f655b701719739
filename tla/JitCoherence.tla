---------------------------- MODULE JitCoherence ----------------------------
(***************************************************************************)
(* How the CPUs of the SUBLEQ translator (kernel/src/jit.c) keep the code   *)
(* they translated in step with a memory that all of them write.            *)
(*                                                                          *)
(* Every CPU has a code cache of its own (htab, pending).  A block bakes in *)
(* the values of the instruction fields it takes as static and marks their  *)
(* words in static_map.  A store first tests static_map; a hit (smc_hit)    *)
(* turns the word dynamic, drops the blocks of this CPU that cover it and   *)
(* queues the word for the other CPUs, which drop theirs in drain_queue.    *)
(* A store that passed its test before the mark is caught by revalidate:    *)
(* a new block waits in pending until every CPU has been through its        *)
(* dispatcher (quiet, epoch), and is then compared with memory.             *)
(*                                                                          *)
(* A word is an aligned 8-byte field, a value what it holds, a block start  *)
(* an address the guest jumps to.  What the guest computes is left open: a  *)
(* CPU may run any block it has, interpret any instruction, store any value *)
(* in any word, and a block may end after any instruction and write any of  *)
(* its own fields.  The hash over the static fields (static_hash) stands    *)
(* for the fields themselves.                                               *)
(***************************************************************************)
EXTENDS Integers, FiniteSets, Sequences

CONSTANTS
  CPUs,         \* the CPUs given to jit_init
  Words,        \* the words of guest memory
  Values,       \* what a word can hold
  Starts,       \* the addresses blocks are translated from
  Fields,       \* the words the longest block from each start covers
  Pages,        \* the pages of guest memory
  PageOf,       \* the page a word is in
  QueueLen,     \* QUEUE_LEN, ring size of a CPU's queue of changed words
  PendingLen,   \* PENDING_LEN, ring size of a CPU's unchecked blocks
  StoreBuffer,  \* stores a CPU may hold back (x86 store buffer); 0: none
  MaxEpoch,     \* bound: no translation starts once epoch has reached it
  Translators,  \* bound: the CPUs that translate
  Idle,         \* the ~0 a CPU publishes outside of jit_run
  None          \* no value, no word, no start

ASSUME CoherenceAssumption ==
  /\ Fields \in [Starts -> SUBSET Words]
  /\ PageOf \in [Words -> Pages]
  /\ QueueLen \in Nat /\ QueueLen >= 2
  /\ PendingLen \in Nat /\ PendingLen >= 3
  /\ StoreBuffer \in Nat
  /\ MaxEpoch \in Nat
  /\ Idle \notin Nat
  /\ None \notin Values \cup Words \cup Pages
  /\ Words \cap Pages = {}

VARIABLES
  mem,          \* guest memory
  static_map,   \* words some translation took as static
  page_map,     \* pages with such a word, or that had one
  dyn_map,      \* words caught being written: dynamic from then on
  epoch,        \* counts translations
  quiet,        \* the epoch each CPU last published in its dispatcher
  queue,        \* words other CPUs changed, per CPU, oldest first
  qoverflow,    \* per CPU: a word did not fit its queue
  htab,         \* per CPU: the valid block of each start
  pending,      \* per CPU: blocks to be checked against memory, oldest first
  buf,          \* per CPU: stores issued and not yet visible, oldest first
  pc,           \* per CPU: where it is
  seen,         \* Publish: the epoch loaded
  armed,        \* words whose static_map test this CPU passed and may store to
  hits, hitw, to, after,   \* smc_hit: words left, the word, CPUs left, return
  unread, minq, back,      \* revalidate: CPUs left, least epoch, return
  tstart, tret, written, cover,  \* translate: start, return, own fields
                                 \* written, fields gone through
  insn, todo, raw, fixed, mask   \* translate_insn: fields, fields left, read,
                                 \* baked in, hashed

shared == <<mem, static_map, page_map, dyn_map>>
grace  == <<epoch, quiet, seen>>
queues == <<queue, qoverflow>>
cache  == <<htab, pending>>
hitv   == <<hits, hitw, to, after>>
revalv == <<unread, minq, back>>
transv == <<tstart, tret, written, cover, insn, todo, raw, fixed, mask>>
vars   == <<shared, grace, queues, cache, buf, pc, armed, hitv, revalv, transv>>

-----------------------------------------------------------------------------
(* Blocks.  stamp is the epoch the block was made in, 0 until it has one;   *)
(* stamps are never reused, so a pending entry names its block by them.     *)

Unknown == [w \in Words |-> None]

NoBlock == [valid |-> FALSE, cover |-> {}, val |-> Unknown, fixed |-> {},
            mask |-> {}, stamp |-> 0]

Block == [valid : BOOLEAN, cover : SUBSET Words,
          val : [Words -> Values \cup {None}],
          fixed : SUBSET Words, mask : SUBSET Words, stamp : Nat]

PendingEntry == [start : Starts, stamp : Nat]

(* Mutant: only the blocks that hash the word are dropped *)
InvalidateHashed(t, w) ==
  [s \in Starts |-> IF w \in t[s].mask THEN NoBlock ELSE t[s]]

(* invalidate_word: the blocks in table t that do not cover word w stay *)
InvalidateWord(t, w) ==
  [s \in Starts |-> IF w \in t[s].cover THEN NoBlock ELSE t[s]]

(* flush: an empty table, and nothing pending *)
Flushed == [s \in Starts |-> NoBlock]

(* A pending entry's block, unless it was dropped since *)
StillValid(c, e) == htab[c][e.start].valid /\ htab[c][e.start].stamp = e.stamp

Dispatcher == {"top", "publish", "drain", "drainq", "reval", "lookup"}
Hitting == {"hits", "hit", "clear", "send"}
Making == {"tinsn", "tread", "ttest", "tmark", "tset", "tpage"}
Translating == Making \cup {"twait"}
Labels == {"out", "run", "istore"} \cup Dispatcher \cup Hitting \cup Translating

Init ==
  /\ mem \in [Words -> Values]
  /\ static_map = {} /\ page_map = {} /\ dyn_map = {}
  /\ epoch = 1
  /\ quiet = [c \in CPUs |-> Idle]
  /\ seen = [c \in CPUs |-> 0]
  /\ queue = [c \in CPUs |-> <<>>]
  /\ qoverflow = [c \in CPUs |-> FALSE]
  /\ htab = [c \in CPUs |-> Flushed]
  /\ pending = [c \in CPUs |-> <<>>]
  /\ buf = [c \in CPUs |-> <<>>]
  /\ pc = [c \in CPUs |-> "out"]
  /\ armed = [c \in CPUs |-> {}]
  /\ hits = [c \in CPUs |-> {}]
  /\ hitw = [c \in CPUs |-> None]
  /\ to = [c \in CPUs |-> {}]
  /\ after = [c \in CPUs |-> "top"]
  /\ unread = [c \in CPUs |-> CPUs]
  /\ minq = [c \in CPUs |-> Idle]
  /\ back = [c \in CPUs |-> "lookup"]
  /\ tstart = [c \in CPUs |-> None]
  /\ tret = [c \in CPUs |-> "top"]
  /\ written = [c \in CPUs |-> {}]
  /\ cover = [c \in CPUs |-> {}]
  /\ insn = [c \in CPUs |-> {}]
  /\ todo = [c \in CPUs |-> {}]
  /\ raw = [c \in CPUs |-> Unknown]
  /\ fixed = [c \in CPUs |-> {}]
  /\ mask = [c \in CPUs |-> {}]

-----------------------------------------------------------------------------
(* Stores.  With a store buffer, a plain store is visible to the other CPUs *)
(* only once it has left the buffer, in order; a locked instruction waits   *)
(* for the buffer to be empty, and a CPU sees its own stores at once.       *)

Goto(c, l) == pc' = [pc EXCEPT ![c] = l]

StoreMem(c, w, v) ==
  IF StoreBuffer = 0
  THEN mem' = [mem EXCEPT ![w] = v] /\ UNCHANGED buf
  ELSE /\ Len(buf[c]) < StoreBuffer
       /\ buf' = [buf EXCEPT ![c] = Append(@, [at |-> w, val |-> v])]
       /\ UNCHANGED mem

StoreQuiet(c, q) ==
  IF StoreBuffer = 0
  THEN quiet' = [quiet EXCEPT ![c] = q] /\ UNCHANGED buf
  ELSE /\ Len(buf[c]) < StoreBuffer
       /\ buf' = [buf EXCEPT ![c] = Append(@, [at |-> None, val |-> q])]
       /\ UNCHANGED quiet

StorePage(c, p) ==
  IF StoreBuffer = 0
  THEN page_map' = page_map \cup {p} /\ UNCHANGED buf
  ELSE /\ Len(buf[c]) < StoreBuffer
       /\ buf' = [buf EXCEPT ![c] = Append(@, [at |-> p, val |-> 1])]
       /\ UNCHANGED page_map

(* The oldest buffered store becomes visible: at None, the CPU's quiet *)
DrainBuffer(c) ==
  /\ buf[c] # <<>>
  /\ LET e == Head(buf[c])
     IN \/ /\ e.at = None
           /\ quiet' = [quiet EXCEPT ![c] = e.val]
           /\ UNCHANGED <<mem, page_map>>
        \/ /\ e.at \in Pages
           /\ page_map' = page_map \cup {e.at}
           /\ UNCHANGED <<mem, quiet>>
        \/ /\ e.at \in Words
           /\ mem' = [mem EXCEPT ![e.at] = e.val]
           /\ UNCHANGED <<quiet, page_map>>
  /\ buf' = [buf EXCEPT ![c] = Tail(@)]
  /\ UNCHANGED <<static_map, dyn_map, epoch, seen, queues, cache, pc, armed,
                 hitv, revalv, transv>>

Locked(c) == buf[c] = <<>>

(* What CPU c reads at word w, or as its own quiet *)
OwnStores(c, w) == {i \in 1 .. Len(buf[c]) : buf[c][i].at = w}
Newest(c, w) == buf[c][CHOOSE i \in OwnStores(c, w) :
                           \A j \in OwnStores(c, w) : j <= i].val
Sees(c, w) == IF StoreBuffer = 0 \/ OwnStores(c, w) = {}
              THEN mem[w] ELSE Newest(c, w)
SeesQuiet(c, d) == IF StoreBuffer = 0 \/ d # c \/ OwnStores(c, None) = {}
                   THEN quiet[d] ELSE Newest(c, None)

-----------------------------------------------------------------------------
(* jit_run: the dispatcher *)

(* quiet[cpu] = epoch, a load and then a store *)
LoadEpoch(c, l) ==
  /\ pc[c] = l
  /\ seen' = [seen EXCEPT ![c] = epoch]
  /\ Goto(c, "publish")
  /\ UNCHANGED <<shared, epoch, quiet, queues, cache, buf, armed, hitv, revalv,
                 transv>>

EnterRun(c) == LoadEpoch(c, "out")
LoopTop(c) == LoadEpoch(c, "top")

Publish(c) ==
  /\ pc[c] = "publish"
  /\ StoreQuiet(c, seen[c])
  /\ seen' = [seen EXCEPT ![c] = 0]
  /\ Goto(c, "drain")
  /\ UNCHANGED <<shared, epoch, queues, cache, armed, hitv, revalv, transv>>

(* drain_queue: after an overflow, everything goes *)
DrainOverflow(c) ==
  /\ pc[c] = "drain"
  /\ qoverflow[c]
  /\ Locked(c)
  /\ qoverflow' = [qoverflow EXCEPT ![c] = FALSE]
  /\ queue' = [queue EXCEPT ![c] = <<>>]
  /\ htab' = [htab EXCEPT ![c] = Flushed]
  /\ pending' = [pending EXCEPT ![c] = <<>>]
  /\ Goto(c, "reval")
  /\ UNCHANGED <<shared, grace, buf, armed, hitv, revalv, transv>>

DrainNoOverflow(c) ==
  /\ pc[c] = "drain"
  /\ ~qoverflow[c]
  /\ Goto(c, "drainq")
  /\ UNCHANGED <<shared, grace, queues, cache, buf, armed, hitv, revalv, transv>>

DrainWord(c) ==
  /\ pc[c] = "drainq"
  /\ queue[c] # <<>>
  /\ htab' = [htab EXCEPT ![c] = InvalidateWord(@, Head(queue[c]))]
  /\ queue' = [queue EXCEPT ![c] = Tail(@)]
  /\ UNCHANGED <<shared, grace, qoverflow, pending, buf, pc, armed, hitv, revalv,
                 transv>>

DrainDone(c) ==
  /\ pc[c] = "drainq"
  /\ queue[c] = <<>>
  /\ Goto(c, "reval")
  /\ UNCHANGED <<shared, grace, queues, cache, buf, armed, hitv, revalv, transv>>

(* Nothing to run within the budget: quiet[cpu] = ~0, and out *)
LeaveRun(c) ==
  /\ StoreQuiet(c, Idle)
  /\ armed' = [armed EXCEPT ![c] = {}]
  /\ Goto(c, "out")
  /\ UNCHANGED <<shared, epoch, seen, queues, cache, hitv, revalv, transv>>

LookupEnd(c) == pc[c] = "lookup" /\ LeaveRun(c)

LookupRun(c) ==
  /\ pc[c] = "lookup"
  /\ \E s \in Starts : htab[c][s].valid
  /\ Goto(c, "run")
  /\ UNCHANGED <<shared, grace, queues, cache, buf, armed, hitv, revalv, transv>>

(* Mutant: the interpreter stores without store_check *)
InterpUnchecked(c, w) ==
  /\ armed' = [armed EXCEPT ![c] = {w}]
  /\ after' = [after EXCEPT ![c] = "istore"]
  /\ Goto(c, "istore")
  /\ UNCHANGED <<shared, grace, queues, cache, buf, hits, hitw, to, revalv, transv>>

(* interp_step: store_check on its target w, then the store *)
InterpStep(c, w) ==
  /\ hits' = [hits EXCEPT ![c] = {w}]
  /\ after' = [after EXCEPT ![c] = "istore"]
  /\ armed' = [armed EXCEPT ![c] = {}]
  /\ Goto(c, "hits")
  /\ UNCHANGED <<shared, grace, queues, cache, buf, hitw, to, revalv, transv>>

LookupInterp(c) == pc[c] = "lookup" /\ \E w \in Words : InterpStep(c, w)

InterpStore(c) ==
  /\ pc[c] = "istore"
  /\ \E w \in armed[c], v \in Values : StoreMem(c, w, v)
  /\ armed' = [armed EXCEPT ![c] = {}]
  /\ after' = [after EXCEPT ![c] = "top"]
  /\ Goto(c, "top")
  /\ UNCHANGED <<static_map, page_map, dyn_map, grace, queues, cache, hits, hitw,
                 to, revalv, transv>>

-----------------------------------------------------------------------------
(* jit_enter: translated code.  A block tests the words it stores to in     *)
(* static_map, the ones with a static address all on entry, and stores to   *)
(* them afterwards.  Linked blocks follow each other without the dispatcher. *)

(* A store through a computed address goes by the byte of the page first *)
Marked(w) == w \in static_map /\ PageOf[w] \in page_map

RunTest(c) ==
  /\ pc[c] = "run"
  /\ \E w \in Words : ~Marked(w) /\ armed' = [armed EXCEPT ![c] = @ \cup {w}]
  /\ UNCHANGED <<shared, grace, queues, cache, buf, pc, hitv, revalv, transv>>

RunStore(c) ==
  /\ pc[c] = "run"
  /\ \E w \in armed[c], v \in Values : StoreMem(c, w, v)
  /\ UNCHANGED <<static_map, page_map, dyn_map, grace, queues, cache, pc, armed,
                 hitv, revalv, transv>>

(* over a linked jump into another block, whose entry tests anew *)
RunLinked(c) ==
  /\ pc[c] = "run"
  /\ armed[c] # {}
  /\ armed' = [armed EXCEPT ![c] = {}]
  /\ UNCHANGED <<shared, grace, queues, cache, buf, pc, hitv, revalv, transv>>

(* exit 0 (budget, dropped block, computed jump), or a jump found in htab *)
RunLeave(c) ==
  /\ pc[c] = "run"
  /\ armed' = [armed EXCEPT ![c] = {}]
  /\ Goto(c, "top")
  /\ UNCHANGED <<shared, grace, queues, cache, buf, hitv, revalv, transv>>

(* exit 3: the watched status word changed *)
RunWatch(c) == pc[c] = "run" /\ LeaveRun(c)

(* exit 1: an instruction about to store to a marked word is interpreted *)
RunSmc(c) == pc[c] = "run" /\ \E w \in static_map : InterpStep(c, w)

(* exit 2: of the words H stored to through static addresses, some are      *)
(* marked: they are hit before the block is tried again                     *)
RunHoist(c) ==
  /\ pc[c] = "run"
  /\ \E H \in SUBSET Words :
       /\ H \cap static_map # {}
       /\ hits' = [hits EXCEPT ![c] = H]
  /\ after' = [after EXCEPT ![c] = "top"]
  /\ armed' = [armed EXCEPT ![c] = {}]
  /\ Goto(c, "hits")
  /\ UNCHANGED <<shared, grace, queues, cache, buf, hitw, to, revalv, transv>>

-----------------------------------------------------------------------------
(* store_check and smc_hit, on the words in hits.  revalidate hits them      *)
(* whatever their mark, the other callers only while it is set.              *)

Forced(c) == after[c] = "reval"

(* An interpreted instruction goes on to store to the word it checked *)
ArmIfStoring(c, w) ==
  armed' = [armed EXCEPT ![c] = IF after[c] = "istore" THEN @ \cup {w} ELSE @]

HitSkip(c) ==
  /\ pc[c] = "hits"
  /\ ~Forced(c)
  /\ \E w \in hits[c] \ static_map :
       /\ hits' = [hits EXCEPT ![c] = @ \ {w}]
       /\ ArmIfStoring(c, w)
  /\ UNCHANGED <<shared, grace, queues, cache, buf, pc, hitw, to, after, revalv,
                 transv>>

HitBegin(c) ==
  /\ pc[c] = "hits"
  /\ \E w \in hits[c] :
       /\ Forced(c) \/ w \in static_map
       /\ hits' = [hits EXCEPT ![c] = @ \ {w}]
       /\ hitw' = [hitw EXCEPT ![c] = w]
  /\ to' = [to EXCEPT ![c] = CPUs]
  /\ Goto(c, "hit")
  /\ UNCHANGED <<shared, grace, queues, cache, buf, armed, after, revalv, transv>>

(* bit_set(dyn_map, w) *)
HitDyn(c) ==
  /\ pc[c] = "hit"
  /\ Locked(c)
  /\ dyn_map' = dyn_map \cup {hitw[c]}
  /\ Goto(c, "clear")
  /\ UNCHANGED <<mem, static_map, page_map, grace, queues, cache, buf, armed, hitv,
                 revalv, transv>>

(* bit_clr(static_map, w), and this CPU's own blocks *)
HitClear(c) ==
  /\ pc[c] = "clear"
  /\ Locked(c)
  /\ static_map' = static_map \ {hitw[c]}
  /\ htab' = [htab EXCEPT ![c] = InvalidateWord(@, hitw[c])]
  /\ to' = [to EXCEPT ![c] = @ \ {c}]
  /\ Goto(c, "send")
  /\ UNCHANGED <<mem, page_map, dyn_map, grace, queues, pending, buf, armed, hits,
                 hitw, after, revalv, transv>>

(* Mutant: no test for a full ring *)
EnqueueUnbounded(d, w) ==
  queue' = [queue EXCEPT ![d] = Append(@, w)] /\ UNCHANGED qoverflow

(* under CPU d's qlock: the ring of QueueLen slots holds one word less *)
Enqueue(d, w) ==
  IF Len(queue[d]) = QueueLen - 1
  THEN qoverflow' = [qoverflow EXCEPT ![d] = TRUE] /\ UNCHANGED queue
  ELSE queue' = [queue EXCEPT ![d] = Append(@, w)] /\ UNCHANGED qoverflow

HitSend(c) ==
  /\ pc[c] = "send"
  /\ Locked(c)
  /\ \E d \in to[c] :
       /\ Enqueue(d, hitw[c])
       /\ to' = [to EXCEPT ![c] = @ \ {d}]
  /\ UNCHANGED <<shared, grace, cache, buf, pc, armed, hits, hitw, after, revalv,
                 transv>>

HitSent(c) ==
  /\ pc[c] = "send"
  /\ to[c] = {}
  /\ ArmIfStoring(c, hitw[c])
  /\ hitw' = [hitw EXCEPT ![c] = None]
  /\ Goto(c, "hits")
  /\ UNCHANGED <<shared, grace, queues, cache, buf, hits, to, after, revalv,
                 transv>>

HitsDone(c) ==
  /\ pc[c] = "hits"
  /\ hits[c] = {}
  /\ after' = [after EXCEPT ![c] = IF @ = "istore" THEN @ ELSE "top"]
  /\ Goto(c, after[c])
  /\ UNCHANGED <<shared, grace, queues, cache, buf, armed, hits, hitw, to, revalv,
                 transv>>

-----------------------------------------------------------------------------
(* revalidate *)

LeastQuiet(p, q) == CASE p = Idle -> q
                      [] q = Idle -> p
                      [] OTHER -> IF q < p THEN q ELSE p

(* Mutant: an epoch too early *)
PassedEarly(stamp, q) == q = Idle \/ stamp <= q + 1

(* stamp <= min *)
Passed(stamp, q) == q = Idle \/ stamp <= q

RevalReturn(c) ==
  /\ back' = [back EXCEPT ![c] = "lookup"]
  /\ Goto(c, back[c])

RevalNone(c) ==
  /\ pc[c] = "reval"
  /\ pending[c] = <<>> /\ unread[c] = CPUs
  /\ RevalReturn(c)
  /\ UNCHANGED <<shared, grace, queues, cache, buf, armed, hitv, unread, minq,
                 transv>>

ScanQuiet(c) ==
  /\ pc[c] = "reval"
  /\ pending[c] # <<>>
  /\ \E d \in unread[c] :
       /\ minq' = [minq EXCEPT ![c] = LeastQuiet(@, SeesQuiet(c, d))]
       /\ unread' = [unread EXCEPT ![c] = @ \ {d}]
  /\ UNCHANGED <<shared, grace, queues, cache, buf, pc, armed, hitv, back, transv>>

Ready(c) == pending[c] # <<>> /\ Passed(Head(pending[c]).stamp, minq[c])

(* Mutant: fields that changed are not noticed *)
SameFieldsAlways(c, b) == TRUE

(* static_hash: the fields taken as static are what they were *)
SameFields(c, b) == \A w \in b.mask : b.val[w] = Sees(c, w)

CheckOldest(c) ==
  /\ pc[c] = "reval" /\ unread[c] = {}
  /\ Ready(c)
  /\ LET e == Head(pending[c])
         b == htab[c][e.start]
     IN IF ~StillValid(c, e) \/ SameFields(c, b)
        THEN UNCHANGED <<pc, hits, after>>
        ELSE /\ hits' = [hits EXCEPT ![c] = b.mask]
             /\ after' = [after EXCEPT ![c] = "reval"]
             /\ Goto(c, "hits")
  /\ pending' = [pending EXCEPT ![c] = Tail(@)]
  /\ UNCHANGED <<shared, grace, queues, htab, buf, armed, hitw, to, revalv, transv>>

CheckDone(c) ==
  /\ pc[c] = "reval" /\ unread[c] = {}
  /\ ~Ready(c)
  /\ unread' = [unread EXCEPT ![c] = CPUs]
  /\ minq' = [minq EXCEPT ![c] = Idle]
  /\ RevalReturn(c)
  /\ UNCHANGED <<shared, grace, queues, cache, buf, armed, hitv, transv>>

-----------------------------------------------------------------------------
(* translate, of a block at a start that has none, either looked up by the   *)
(* dispatcher and then run, or the target of a jump that just left.  When    *)
(* the code cache is full, it is emptied first.                              *)

Translate(c, ret) ==
  /\ c \in Translators
  /\ epoch < MaxEpoch
  /\ \E s \in Starts :
       /\ ~htab[c][s].valid
       /\ tstart' = [tstart EXCEPT ![c] = s]
       /\ \E W \in SUBSET Fields[s] : written' = [written EXCEPT ![c] = W]
  /\ \/ UNCHANGED cache
     \/ /\ htab' = [htab EXCEPT ![c] = Flushed]
        /\ pending' = [pending EXCEPT ![c] = <<>>]
  /\ tret' = [tret EXCEPT ![c] = ret]
  /\ armed' = [armed EXCEPT ![c] = {}]
  /\ Goto(c, "tinsn")
  /\ UNCHANGED <<shared, grace, queues, buf, hitv, revalv, cover, insn, todo, raw,
                 fixed, mask>>

LookupTranslate(c) == pc[c] = "lookup" /\ Translate(c, "run")

RunTranslate(c) == pc[c] = "run" /\ Translate(c, "top")

(* translate_insn, of an instruction with the fields I, goes over them three *)
(* times: to read them, to test them, to mark them                           *)
NextInsn(c) ==
  /\ pc[c] = "tinsn"
  /\ \E I \in SUBSET (Fields[tstart[c]] \ cover[c]) :
       /\ I # {}
       /\ insn' = [insn EXCEPT ![c] = I]
       /\ todo' = [todo EXCEPT ![c] = I]
       /\ cover' = [cover EXCEPT ![c] = @ \cup I]
  /\ Goto(c, "tread")
  /\ UNCHANGED <<shared, grace, queues, cache, buf, armed, hitv, revalv, tstart,
                 tret, written, raw, fixed, mask>>

AllDone(c, l, next) ==
  /\ pc[c] = l
  /\ todo[c] = {}
  /\ todo' = [todo EXCEPT ![c] = insn[c]]
  /\ Goto(c, next)
  /\ UNCHANGED <<shared, grace, queues, cache, buf, armed, hitv, revalv, tstart,
                 tret, written, cover, insn, raw, fixed, mask>>

ReadsDone(c) == AllDone(c, "tread", "ttest")
TestsDone(c) == AllDone(c, "ttest", "tmark")

(* the raw fields are read *)
ReadField(c) ==
  /\ pc[c] = "tread"
  /\ \E w \in todo[c] :
       /\ raw' = [raw EXCEPT ![c][w] = Sees(c, w)]
       /\ todo' = [todo EXCEPT ![c] = @ \ {w}]
  /\ UNCHANGED <<pc, shared, grace, queues, cache, buf, armed, hitv, revalv, tstart,
                 tret, written, cover, insn, fixed, mask>>

(* is_dynamic: caught being written, or the block itself writes it *)
IsDynamic(c, w) == w \in dyn_map \/ w \in written[c]

(* it decides what the code is made of: fixed fields are baked in *)
TestField(c) ==
  /\ pc[c] = "ttest"
  /\ \E w \in todo[c] :
       /\ fixed' = [fixed EXCEPT ![c] = IF IsDynamic(c, w) THEN @ ELSE @ \cup {w}]
       /\ todo' = [todo EXCEPT ![c] = @ \ {w}]
  /\ UNCHANGED <<pc, shared, grace, queues, cache, buf, armed, hitv, revalv, tstart,
                 tret, written, cover, insn, raw, mask>>

(* and again, which fields are hashed and marked *)
TestMark(c) ==
  /\ pc[c] = "tmark"
  /\ \E w \in todo[c] :
       \/ /\ IsDynamic(c, w)
          /\ todo' = [todo EXCEPT ![c] = @ \ {w}]
          /\ UNCHANGED <<pc, mask>>
       \/ /\ ~IsDynamic(c, w)
          /\ mask' = [mask EXCEPT ![c] = @ \cup {w}]
          /\ Goto(c, "tset")
          /\ UNCHANGED todo
  /\ UNCHANGED <<shared, grace, queues, cache, buf, armed, hitv, revalv, tstart,
                 tret, written, cover, insn, raw, fixed>>

(* mark_static, of the field just added to the hash: its bit *)
MarkField(c) ==
  /\ pc[c] = "tset"
  /\ Locked(c)
  /\ static_map' = static_map \cup (mask[c] \cap todo[c])
  /\ Goto(c, "tpage")
  /\ UNCHANGED <<mem, page_map, dyn_map, grace, queues, cache, buf, armed, hitv,
                 revalv, transv>>

(* and then the byte of its page.  The code marks the page before it as well, *)
(* for a store that begins there and reaches into the word; a store here is   *)
(* to one word, and such stores are JitBlock's (MarkedPages).                 *)
MarkPage(c) ==
  /\ pc[c] = "tpage"
  /\ \E w \in mask[c] \cap todo[c] :
       /\ StorePage(c, PageOf[w])
       /\ todo' = [todo EXCEPT ![c] = @ \ {w}]
  /\ Goto(c, "tmark")
  /\ UNCHANGED <<mem, static_map, dyn_map, grace, queues, cache, armed, hitv, revalv,
                 tstart, tret, written, cover, insn, raw, fixed, mask>>

InsnDone(c) ==
  /\ pc[c] = "tmark"
  /\ todo[c] = {}
  /\ insn' = [insn EXCEPT ![c] = {}]
  /\ Goto(c, "tinsn")
  /\ UNCHANGED <<shared, grace, queues, cache, buf, armed, hitv, revalv, tstart,
                 tret, written, cover, todo, raw, fixed, mask>>

(* the block ends here, and goes into htab *)
Insert(c) ==
  /\ pc[c] = "tinsn"
  /\ cover[c] # {}
  /\ htab' = [htab EXCEPT ![c][tstart[c]] =
       [valid |-> TRUE, cover |-> cover[c], fixed |-> fixed[c],
        mask |-> mask[c], stamp |-> 0,
        val |-> [w \in Words |-> IF w \in fixed[c] THEN raw[c][w] ELSE None]]]
  /\ written' = [written EXCEPT ![c] = {}]
  /\ cover' = [cover EXCEPT ![c] = {}]
  /\ raw' = [raw EXCEPT ![c] = Unknown]
  /\ fixed' = [fixed EXCEPT ![c] = {}]
  /\ mask' = [mask EXCEPT ![c] = {}]
  /\ Goto(c, "twait")
  /\ UNCHANGED <<shared, grace, queues, pending, buf, armed, hitv, revalv, tstart,
                 tret, insn, todo>>

(* no room to have it checked later: revalidate, until there is *)
PendingFull(c) == Len(pending[c]) = PendingLen - 1

WaitPending(c) ==
  /\ pc[c] = "twait"
  /\ PendingFull(c)
  /\ back' = [back EXCEPT ![c] = "twait"]
  /\ Goto(c, "reval")
  /\ UNCHANGED <<shared, grace, queues, cache, buf, armed, hitv, unread, minq,
                 transv>>

(* The block joins pending; it may have been dropped while waiting *)
StampBlock(c, n) ==
  /\ pc[c] = "twait"
  /\ ~PendingFull(c)
  /\ epoch' = epoch + 1
  /\ pending' = [pending EXCEPT ![c] = Append(@, [start |-> tstart[c], stamp |-> n])]
  /\ htab' = IF htab[c][tstart[c]].valid
             THEN [htab EXCEPT ![c][tstart[c]].stamp = n] ELSE htab
  /\ tstart' = [tstart EXCEPT ![c] = None]
  /\ tret' = [tret EXCEPT ![c] = "top"]
  /\ Goto(c, tret[c])
  /\ UNCHANGED <<shared, quiet, seen, queues, buf, armed, hitv, revalv, written,
                 cover, insn, todo, raw, fixed, mask>>

(* Mutant: stamp = epoch++ *)
StampBefore(c) == Locked(c) /\ StampBlock(c, epoch)

(* Mutant: an increment that does not wait for the stores before it *)
StampRelaxed(c) == StampBlock(c, epoch + 1)

(* stamp = ++epoch, locked *)
Stamp(c) == Locked(c) /\ StampBlock(c, epoch + 1)

-----------------------------------------------------------------------------
Step(c) ==
  \/ LoopTop(c) \/ Publish(c)
  \/ DrainOverflow(c) \/ DrainNoOverflow(c) \/ DrainWord(c) \/ DrainDone(c)
  \/ LookupEnd(c) \/ LookupRun(c) \/ LookupInterp(c) \/ LookupTranslate(c)
  \/ InterpStore(c)
  \/ RunTest(c) \/ RunStore(c) \/ RunLinked(c) \/ RunLeave(c) \/ RunWatch(c)
  \/ RunSmc(c) \/ RunHoist(c) \/ RunTranslate(c)
  \/ HitSkip(c) \/ HitBegin(c) \/ HitDyn(c) \/ HitClear(c) \/ HitSend(c)
  \/ HitSent(c) \/ HitsDone(c)
  \/ RevalNone(c) \/ ScanQuiet(c) \/ CheckOldest(c) \/ CheckDone(c)
  \/ NextInsn(c) \/ ReadField(c) \/ ReadsDone(c) \/ TestField(c) \/ TestsDone(c)
  \/ TestMark(c) \/ MarkField(c) \/ MarkPage(c) \/ InsnDone(c) \/ Insert(c)
  \/ WaitPending(c) \/ Stamp(c)

Next == \E c \in CPUs : EnterRun(c) \/ Step(c) \/ DrainBuffer(c)

Spec == Init /\ [][Next]_vars

(* A CPU inside jit_run goes on, the budget ends every stay in translated   *)
(* code, and a store buffer drains; whether a CPU comes back to jit_run is   *)
(* for the guest to say (subleq.c).                                          *)
Fairness ==
  \A c \in CPUs : /\ WF_vars(Step(c))
                  /\ WF_vars(RunLeave(c))
                  /\ WF_vars(DrainBuffer(c))

FairSpec == Spec /\ Fairness

-----------------------------------------------------------------------------
(* Properties *)

(* Maps, queues and tables have their types, and no ring is overfull: one    *)
(* slot of queue and of pending stays empty (jit.c 346, 1660).               *)
TypeOK ==
  /\ mem \in [Words -> Values]
  /\ static_map \subseteq Words /\ dyn_map \subseteq Words
  /\ page_map \subseteq Pages
  /\ epoch \in Nat \ {0}
  /\ quiet \in [CPUs -> Nat \cup {Idle}]
  /\ seen \in [CPUs -> Nat]
  /\ queue \in [CPUs -> Seq(Words)]
  /\ \A c \in CPUs : Len(queue[c]) < QueueLen
  /\ qoverflow \in [CPUs -> BOOLEAN]
  /\ htab \in [CPUs -> [Starts -> Block]]
  /\ pending \in [CPUs -> Seq(PendingEntry)]
  /\ \A c \in CPUs : Len(pending[c]) < PendingLen
  /\ buf \in [CPUs -> Seq([at : Words \cup Pages \cup {None},
                           val : Values \cup Nat \cup {Idle}])]
  /\ pc \in [CPUs -> Labels]
  /\ armed \in [CPUs -> SUBSET Words]
  /\ hits \in [CPUs -> SUBSET Words]
  /\ hitw \in [CPUs -> Words \cup {None}]
  /\ to \in [CPUs -> SUBSET CPUs]
  /\ after \in [CPUs -> {"top", "istore", "reval"}]
  /\ unread \in [CPUs -> SUBSET CPUs]
  /\ minq \in [CPUs -> Nat \cup {Idle}]
  /\ back \in [CPUs -> {"lookup", "twait"}]
  /\ tstart \in [CPUs -> Starts \cup {None}]
  /\ tret \in [CPUs -> {"run", "top"}]
  /\ written \in [CPUs -> SUBSET Words] /\ cover \in [CPUs -> SUBSET Words]
  /\ insn \in [CPUs -> SUBSET Words] /\ todo \in [CPUs -> SUBSET Words]
  /\ raw \in [CPUs -> [Words -> Values \cup {None}]]
  /\ fixed \in [CPUs -> SUBSET Words] /\ mask \in [CPUs -> SUBSET Words]

(* CPU c is going to drop its blocks from word w without anyone storing to   *)
(* w again: w is in its queue, its queue overflowed, or a CPU in smc_hit     *)
(* has yet to reach c.                                                       *)
Dropping(c, w) ==
  \/ \E i \in 1 .. Len(queue[c]) : queue[c][i] = w
  \/ qoverflow[c]
  \/ \E d \in CPUs : hitw[d] = w /\ c \in to[d]
  \/ after[c] = "reval" /\ w \in hits[c]

Checked(c, s) ==
  /\ htab[c][s].valid
  /\ htab[c][s].stamp # 0
  /\ \A i \in 1 .. Len(pending[c]) :
       pending[c][i] # [start |-> s, stamp |-> htab[c][s].stamp]

(* What the marks, the queues and the grace periods are for (jit.c 11-35):   *)
(* once a block has been checked against memory (revalidate), every field    *)
(* baked into it stays what memory holds, unless the word is on its way to   *)
(* this CPU's next drain_queue.  A store that passed its test of static_map  *)
(* before the block was marked must have landed before that check.           *)
CheckedCodeIsCurrent ==
  \A c \in CPUs, s \in Starts :
    Checked(c, s) =>
      \A w \in htab[c][s].fixed :
        htab[c][s].val[w] = mem[w] \/ Dropping(c, w)

(* A word caught being written (dyn_map) is baked into no code that stays:   *)
(* a translation that read it as static a moment before is dropped.          *)
DynamicCodeIsDropped ==
  \A c \in CPUs, s \in Starts :
    htab[c][s].valid =>
      \A w \in htab[c][s].fixed \cap dyn_map : Dropping(c, w)

(* Every field baked into a block that can run, which has its stamp, is      *)
(* marked in static_map and page_map, so that a store finds it, unless the   *)
(* block is about to be dropped: translate tests dyn_map twice and marks     *)
(* what the second test says (jit.c 1171-1187).                              *)
BakedFieldsAreMarked ==
  \A c \in CPUs, s \in Starts :
    htab[c][s].valid /\ htab[c][s].stamp # 0 =>
      \A w \in htab[c][s].fixed : Marked(w) \/ Dropping(c, w)

Stale(c, s) ==
  /\ htab[c][s].valid
  /\ \E w \in htab[c][s].fixed : htab[c][s].val[w] # mem[w]

(* A CPU that is about to store to a word has no code of its own that bakes  *)
(* the word in, checked or not, but what its next drain_queue drops: smc_hit *)
(* drops it before the store it found is made (jit.c 383), and a word that   *)
(* passed its test stays out of this CPU's code until the block that tested  *)
(* it is left.                                                               *)
OwnStoresMissOwnCode ==
  \A c \in CPUs, s \in Starts :
    htab[c][s].valid =>
      \A w \in htab[c][s].fixed \cap armed[c] : Dropping(c, w)

(* "bounds how long a block translated from a word that was changing can     *)
(* survive" (jit.c 34): a stale block is dropped, or the CPU that has it     *)
(* never runs again.                                                         *)
StaleCodeGoes ==
  \A c \in CPUs, s \in Starts :
    Stale(c, s) ~> (~Stale(c, s) \/ [](pc[c] = "out"))

-----------------------------------------------------------------------------
(* The grace periods on their own *)

Place(c) ==
  CASE pc[c] = "drainq" -> "drain"
    [] pc[c] = "istore" -> "work"
    [] pc[c] \in Hitting -> IF Forced(c) THEN "reval" ELSE "work"
    [] pc[c] \in Translating \ {"twait"} -> "trans"
    [] OTHER -> pc[c]

Stamps(c) == [i \in 1 .. Len(pending[c]) |-> pending[c][i].stamp]

Grace == INSTANCE JitGrace WITH
           at <- [c \in CPUs |-> Place(c)],
           pend <- [c \in CPUs |-> Stamps(c)]

(* What the CPUs do with epoch, quiet and pending is what JitGrace says,     *)
(* whatever memory, marks and queues do meanwhile.                           *)
ImplementsGrace == Grace!Spec
=============================================================================
