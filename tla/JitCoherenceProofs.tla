------------------------- MODULE JitCoherenceProofs -------------------------
(***************************************************************************)
(* Proofs about JitCoherence, for any CPUs, words, values, blocks and ring   *)
(* sizes, when stores are visible at once (StoreBuffer = 0; with a store     *)
(* buffer the main property does not hold).                                  *)
(*                                                                          *)
(* The argument: a field is baked in only while its word is not in dyn_map,  *)
(* and a word enters dyn_map only by smc_hit, which then reaches every CPU:  *)
(* so code that bakes in a dynamic word is being dropped (Baked).  A field   *)
(* baked in is marked before its block is stamped, so a store that passed    *)
(* its test in spite of the block either found the word dynamic, or tested   *)
(* before the stamp and has not published since (Tested).  When revalidate   *)
(* takes a block from pending, every CPU has published since its stamp, so   *)
(* no such store is left, and the fields are compared with memory (Current). *)
(***************************************************************************)
EXTENDS JitCoherence, TLAPS

(* c's blocks from w will be dropped, whatever revalidate finds *)
DropQ(c, w) ==
  \/ \E i \in 1 .. Len(queue[c]) : queue[c][i] = w
  \/ qoverflow[c]
  \/ \E d \in CPUs : hitw[d] = w /\ c \in to[d]

(* Where CPU c is, and what that says of its local variables *)
Control(c) ==
  /\ quiet[c] = Idle => pc[c] \in {"out", "publish"}
  /\ quiet[c] # Idle => quiet[c] <= epoch
  /\ seen[c] <= epoch
  /\ armed[c] # {} => \/ pc[c] \in {"run", "istore"}
                      \/ pc[c] \in Hitting /\ after[c] = "istore"
  /\ pc[c] \in {"hit", "clear"} => to[c] = CPUs
  /\ pc[c] \notin {"hit", "clear", "send"} => to[c] = {}
  /\ pc[c] \in {"clear", "send"} => hitw[c] \in dyn_map
  /\ unread[c] # CPUs => pc[c] = "reval" \/ after[c] = "reval"
  /\ \A i \in 1 .. Len(pending[c]) : pending[c][i].stamp # 0

(* The block CPU c is translating *)
Building(c) ==
  /\ fixed[c] # {} => pc[c] \in Making
  /\ pc[c] \in Making =>
       /\ fixed[c] \cup insn[c] \subseteq cover[c] /\ todo[c] \subseteq insn[c]
       /\ fixed[c] \cap written[c] = {}
  /\ pc[c] \notin Making \/ pc[c] = "tinsn" => insn[c] = {} /\ todo[c] = {}
  /\ pc[c] = "tread" => fixed[c] \cap insn[c] = {}
  /\ pc[c] = "ttest" => fixed[c] \cap todo[c] = {}
  /\ pc[c] = "tpage" => mask[c] \cap todo[c] \subseteq static_map \cup dyn_map
  /\ \A w \in fixed[c] :
       \/ w \in dyn_map
       \/ w \in mask[c] /\ Marked(w)
       \/ pc[c] = "ttest" /\ w \in insn[c]
       \/ pc[c] \in {"tmark", "tset", "tpage"} /\ w \in todo[c]
  /\ \A w \in fixed[c] \cap dyn_map : DropQ(c, w)

(* CPU c's block at s *)
Baked(c, s) ==
  /\ htab[c][s].fixed \subseteq htab[c][s].cover
  /\ \A w \in htab[c][s].fixed :
       /\ w \in dyn_map => DropQ(c, w)
       /\ w \in dyn_map \/ Marked(w)
       /\ w \in dyn_map \/ w \in htab[c][s].mask

(* Stores CPU d may still make to a word baked into c's block at s *)
Tested(c, s, d) ==
  \A w \in htab[c][s].fixed \cap armed[d] :
    /\ htab[c][s].stamp # 0 => w \in dyn_map \/ quiet[d] < htab[c][s].stamp
    /\ \A i \in 1 .. Len(pending[c]) :
         /\ pending[c][i] = [start |-> s, stamp |-> htab[c][s].stamp]
         /\ Passed(pending[c][i].stamp, minq[c])
         /\ d \notin unread[c]
         => w \in dyn_map
    /\ Checked(c, s) => w \in dyn_map

(* Stores CPU c may still make to a word baked into its own block at s *)
OwnTested(c, s) == htab[c][s].fixed \cap armed[c] \subseteq dyn_map

(* A checked block of c has what memory has, or revalidate is at it *)
Current(c, s) ==
  Checked(c, s) =>
    \A w \in htab[c][s].fixed :
      \/ htab[c][s].val[w] = mem[w]
      \/ w \in dyn_map
      \/ after[c] = "reval" /\ (w \in hits[c] \/ (pc[c] = "hit" /\ hitw[c] = w))

NoBuffer == buf = [c \in CPUs |-> <<>>]

(* The word being hit and the start being translated, while there is one *)
Locals(c) ==
  /\ pc[c] \in {"hit", "clear", "send"} => hitw[c] \in Words
  /\ pc[c] \in Translating \/ back[c] = "twait" => tstart[c] \in Starts
  /\ back[c] = "twait" => pc[c] = "reval" \/ after[c] = "reval"
  /\ after[c] = "reval" => pc[c] \in Hitting

Typed == TypeOK /\ NoBuffer /\ \A c \in CPUs : Locals(c)

CodeInv ==
  /\ Typed
  /\ \A c \in CPUs : Control(c) /\ Building(c)
  /\ \A c \in CPUs, s \in Starts : Baked(c, s) /\ OwnTested(c, s) /\ Current(c, s)
  /\ \A c, d \in CPUs, s \in Starts : Tested(c, s, d)

-----------------------------------------------------------------------------
(* Types *)

LEMMA NoBlockType == NoBlock \in Block /\ Flushed \in [Starts -> Block]
  BY DEF NoBlock, Flushed, Block, Unknown

LEMMA InvalidateType ==
  ASSUME NEW t \in [Starts -> Block], NEW w
  PROVE  InvalidateWord(t, w) \in [Starts -> Block]
  BY NoBlockType DEF InvalidateWord

LEMMA EmptySeq == \A S : <<>> \in Seq(S) /\ Len(<<>>) = 0
  OBVIOUS

(* A word queued, or the flag set: the queues stay what they are *)
LEMMA EnqueueType ==
  ASSUME TypeOK, NEW d \in CPUs, NEW w \in Words, Enqueue(d, w)
  PROVE  /\ queue' \in [CPUs -> Seq(Words)]
         /\ \A c \in CPUs : Len(queue'[c]) < QueueLen
         /\ qoverflow' \in [CPUs -> BOOLEAN]
<1>1. CASE Len(queue[d]) = QueueLen - 1
  BY <1>1 DEF Enqueue, TypeOK
<1>2. CASE Len(queue[d]) # QueueLen - 1
  <2>1. queue' = [queue EXCEPT ![d] = Append(queue[d], w)] /\ UNCHANGED qoverflow
    BY <1>2 DEF Enqueue
  <2>2. queue[d] \in Seq(Words) /\ Len(queue[d]) + 1 < QueueLen
    <3>1. queue[d] \in Seq(Words) /\ Len(queue[d]) < QueueLen
      BY DEF TypeOK
    <3> QED
      BY <1>2, <3>1, CoherenceAssumption
  <2>3. Append(queue[d], w) \in Seq(Words) /\ Len(Append(queue[d], w)) < QueueLen
    BY <2>2
  <2> QED
    BY <2>1, <2>3 DEF TypeOK
<1> QED
  BY <1>1, <1>2

LEMMA TypedInit == Init => Typed
  BY NoBlockType, EmptySeq, CoherenceAssumption
     DEF Init, Typed, NoBuffer, TypeOK, Locals, Labels, Dispatcher, Hitting,
         Making, Translating, Unknown

LEMMA TypedNext ==
  ASSUME StoreBuffer = 0, Typed, [Next]_vars
  PROVE  Typed'
<1> USE CoherenceAssumption DEF Goto, Labels, Dispatcher, Hitting, Translating, Making
<1> USE DEF shared, grace, queues, cache, hitv, revalv, transv
<1>1. CASE UNCHANGED vars
  BY <1>1 DEF vars, Typed, TypeOK, NoBuffer, Locals
<1>2. ASSUME NEW c \in CPUs, EnterRun(c) \/ Step(c) \/ DrainBuffer(c)
      PROVE  Typed'
  <2>1. CASE EnterRun(c)
    BY <2>1 DEF EnterRun, LoadEpoch, Typed, TypeOK, NoBuffer, Locals
  <2>2. CASE LoopTop(c)
    BY <2>2 DEF LoopTop, LoadEpoch, Typed, TypeOK, NoBuffer, Locals
  <2>3. CASE Publish(c)
    <3>1. quiet' = [quiet EXCEPT ![c] = seen[c]] /\ buf' = buf
      BY <2>3 DEF Publish, StoreQuiet
    <3> QED
      BY <2>3, <3>1 DEF Publish, Typed, TypeOK, NoBuffer, Locals
  <2>4. CASE DrainOverflow(c)
    BY <2>4, NoBlockType, EmptySeq DEF DrainOverflow, Typed, TypeOK, NoBuffer, Locals
  <2>5. CASE DrainNoOverflow(c)
    BY <2>5 DEF DrainNoOverflow, Typed, TypeOK, NoBuffer, Locals
  <2>6. CASE DrainWord(c)
    <3>1. InvalidateWord(htab[c], Head(queue[c])) \in [Starts -> Block]
      BY InvalidateType DEF Typed, TypeOK
    <3>2. Tail(queue[c]) \in Seq(Words) /\ Len(Tail(queue[c])) < QueueLen
      BY <2>6 DEF DrainWord, Typed, TypeOK
    <3> QED
      BY <2>6, <3>1, <3>2 DEF DrainWord, Typed, TypeOK, NoBuffer, Locals
  <2>7. CASE DrainDone(c)
    BY <2>7 DEF DrainDone, Typed, TypeOK, NoBuffer, Locals
  <2>8. CASE LookupEnd(c)
    <3>1. quiet' = [quiet EXCEPT ![c] = Idle] /\ buf' = buf
      BY <2>8 DEF LookupEnd, LeaveRun, StoreQuiet
    <3> QED
      BY <2>8, <3>1 DEF LookupEnd, LeaveRun, Typed, TypeOK, NoBuffer, Locals
  <2>9. CASE LookupRun(c)
    BY SMTT(30), <2>9 DEF LookupRun, Typed, TypeOK, NoBuffer, Locals
  <2>10. CASE LookupInterp(c)
    BY <2>10 DEF LookupInterp, InterpStep, Typed, TypeOK, NoBuffer, Locals
  <2>11. CASE LookupTranslate(c)
    <3>1. \/ UNCHANGED cache
          \/ /\ htab' = [htab EXCEPT ![c] = Flushed]
             /\ pending' = [pending EXCEPT ![c] = <<>>]
      BY <2>11 DEF LookupTranslate, Translate
    <3>2. /\ htab' \in [CPUs -> [Starts -> Block]]
          /\ pending' \in [CPUs -> Seq(PendingEntry)]
          /\ \A d \in CPUs : Len(pending'[d]) < PendingLen
      <4>1. CASE UNCHANGED cache
        BY <4>1 DEF Typed, TypeOK
      <4>2. CASE /\ htab' = [htab EXCEPT ![c] = Flushed]
                 /\ pending' = [pending EXCEPT ![c] = <<>>]
        BY <4>2, NoBlockType, EmptySeq DEF Typed, TypeOK
      <4> QED
        BY <3>1, <4>1, <4>2
    <3>3. /\ tstart'[c] \in Starts
          /\ tstart' \in [CPUs -> Starts \cup {None}]
          /\ written' \in [CPUs -> SUBSET Words]
          /\ \A d \in CPUs \ {c} : tstart'[d] = tstart[d]
      BY <2>11 DEF LookupTranslate, Translate, Typed, TypeOK
    <3> HIDE DEF cache
    <3> QED
      BY <2>11, <3>2, <3>3 DEF LookupTranslate, Translate, Typed, TypeOK, NoBuffer, Locals
  <2>12. CASE InterpStore(c)
    <3>1. /\ buf' = buf
          /\ \E w \in armed[c], v \in Values : mem' = [mem EXCEPT ![w] = v]
      BY <2>12 DEF InterpStore, StoreMem
    <3>2. mem' \in [Words -> Values]
      BY <3>1 DEF Typed, TypeOK
    <3> QED
      BY SMTT(30), <2>12, <3>1, <3>2 DEF InterpStore, Typed, TypeOK, NoBuffer, Locals
  <2>13. CASE RunTest(c)
    BY SMTT(30), <2>13 DEF RunTest, Typed, TypeOK, NoBuffer, Locals
  <2>14. CASE RunStore(c)
    <3>1. /\ buf' = buf
          /\ \E w \in armed[c], v \in Values : mem' = [mem EXCEPT ![w] = v]
      BY <2>14 DEF RunStore, StoreMem
    <3>2. mem' \in [Words -> Values]
      BY <3>1 DEF Typed, TypeOK
    <3> QED
      BY <2>14, <3>1, <3>2 DEF RunStore, Typed, TypeOK, NoBuffer, Locals
  <2>15. CASE RunLinked(c)
    BY <2>15 DEF RunLinked, Typed, TypeOK, NoBuffer, Locals
  <2>16. CASE RunLeave(c)
    BY <2>16 DEF RunLeave, Typed, TypeOK, NoBuffer, Locals
  <2>17. CASE RunWatch(c)
    <3>1. quiet' = [quiet EXCEPT ![c] = Idle] /\ buf' = buf
      BY <2>17 DEF RunWatch, LeaveRun, StoreQuiet
    <3> QED
      BY <2>17, <3>1 DEF RunWatch, LeaveRun, Typed, TypeOK, NoBuffer, Locals
  <2>18. CASE RunSmc(c)
    BY <2>18 DEF RunSmc, InterpStep, Typed, TypeOK, NoBuffer, Locals
  <2>19. CASE RunHoist(c)
    BY <2>19 DEF RunHoist, Typed, TypeOK, NoBuffer, Locals
  <2>20. CASE RunTranslate(c)
    <3>1. \/ UNCHANGED cache
          \/ /\ htab' = [htab EXCEPT ![c] = Flushed]
             /\ pending' = [pending EXCEPT ![c] = <<>>]
      BY <2>20 DEF RunTranslate, Translate
    <3>2. /\ htab' \in [CPUs -> [Starts -> Block]]
          /\ pending' \in [CPUs -> Seq(PendingEntry)]
          /\ \A d \in CPUs : Len(pending'[d]) < PendingLen
      <4>1. CASE UNCHANGED cache
        BY <4>1 DEF Typed, TypeOK
      <4>2. CASE /\ htab' = [htab EXCEPT ![c] = Flushed]
                 /\ pending' = [pending EXCEPT ![c] = <<>>]
        BY <4>2, NoBlockType, EmptySeq DEF Typed, TypeOK
      <4> QED
        BY <3>1, <4>1, <4>2
    <3>3. /\ tstart'[c] \in Starts
          /\ tstart' \in [CPUs -> Starts \cup {None}]
          /\ written' \in [CPUs -> SUBSET Words]
          /\ \A d \in CPUs \ {c} : tstart'[d] = tstart[d]
      BY <2>20 DEF RunTranslate, Translate, Typed, TypeOK
    <3> HIDE DEF cache
    <3> QED
      BY SMTT(30), <2>20, <3>2, <3>3 DEF RunTranslate, Translate, Typed, TypeOK, NoBuffer, Locals
  <2>21. CASE HitSkip(c)
    BY SMTT(30), <2>21 DEF HitSkip, ArmIfStoring, Typed, TypeOK, NoBuffer, Locals
  <2>22. CASE HitBegin(c)
    BY <2>22 DEF HitBegin, Typed, TypeOK, NoBuffer, Locals
  <2>23. CASE HitDyn(c)
    BY <2>23 DEF HitDyn, Typed, TypeOK, NoBuffer, Locals
  <2>24. CASE HitClear(c)
    <3>1. InvalidateWord(htab[c], hitw[c]) \in [Starts -> Block]
      BY InvalidateType DEF Typed, TypeOK
    <3> QED
      BY SMTT(30), <2>24, <3>1 DEF HitClear, Typed, TypeOK, NoBuffer, Locals
  <2>25. CASE HitSend(c)
    <3>1. PICK d \in to[c] : Enqueue(d, hitw[c]) /\ to' = [to EXCEPT ![c] = @ \ {d}]
      BY <2>25 DEF HitSend
    <3>2. d \in CPUs /\ hitw[c] \in Words
      BY <2>25 DEF HitSend, Typed, TypeOK, NoBuffer, Locals
    <3> QED
      BY <2>25, <3>1, <3>2, EnqueueType DEF HitSend, Typed, TypeOK, NoBuffer, Locals
  <2>26. CASE HitSent(c)
    BY <2>26 DEF HitSent, ArmIfStoring, Typed, TypeOK, NoBuffer, Locals
  <2>27. CASE HitsDone(c)
    BY <2>27 DEF HitsDone, Typed, TypeOK, NoBuffer, Locals
  <2>28. CASE RevalNone(c)
    <3>1. pc' = [pc EXCEPT ![c] = back[c]] /\ back[c] \in {"lookup", "twait"}
      BY <2>28 DEF RevalNone, RevalReturn, Typed, TypeOK
    <3>2. pc[c] = "reval" /\ back' = [back EXCEPT ![c] = "lookup"]
      BY <2>28 DEF RevalNone, RevalReturn
    <3> QED
      BY SMTT(30), <2>28, <3>1, <3>2 DEF RevalNone, Typed, TypeOK, NoBuffer, Locals
  <2>29. CASE ScanQuiet(c)
    <3>1. PICK d \in unread[c] :
            /\ minq' = [minq EXCEPT ![c] = LeastQuiet(@, quiet[d])]
            /\ unread' = [unread EXCEPT ![c] = @ \ {d}]
      BY <2>29 DEF ScanQuiet, SeesQuiet
    <3>2. LeastQuiet(minq[c], quiet[d]) \in Nat \cup {Idle}
      BY DEF LeastQuiet, Typed, TypeOK
    <3> QED
      BY <2>29, <3>1, <3>2 DEF ScanQuiet, Typed, TypeOK, NoBuffer, Locals
  <2>30. CASE CheckOldest(c)
    <3>1. /\ Tail(pending[c]) \in Seq(PendingEntry)
          /\ Len(Tail(pending[c])) < PendingLen
          /\ Head(pending[c]) \in PendingEntry
      BY <2>30 DEF CheckOldest, Ready, Typed, TypeOK
    <3>2. htab[c][Head(pending[c]).start].mask \subseteq Words
      BY <3>1 DEF Typed, TypeOK, PendingEntry, Block
    <3>3. \/ UNCHANGED <<pc, hits, after>>
          \/ /\ hits' = [hits EXCEPT ![c] = htab[c][Head(pending[c]).start].mask]
             /\ after' = [after EXCEPT ![c] = "reval"]
             /\ Goto(c, "hits")
      BY <2>30 DEF CheckOldest
    <3>4. /\ pc[c] = "reval"
          /\ pending' = [pending EXCEPT ![c] = Tail(@)]
          /\ UNCHANGED <<shared, grace, queues, htab, buf, armed, hitw, to,
                         revalv, transv>>
      BY <2>30 DEF CheckOldest
    <3>5. CASE UNCHANGED <<pc, hits, after>>
      BY SMTT(30), <3>1, <3>4, <3>5 DEF Typed, TypeOK, NoBuffer, Locals
    <3>6. CASE /\ hits' = [hits EXCEPT ![c] = htab[c][Head(pending[c]).start].mask]
               /\ after' = [after EXCEPT ![c] = "reval"]
               /\ Goto(c, "hits")
      BY SMTT(30), <3>1, <3>2, <3>4, <3>6 DEF Typed, TypeOK, NoBuffer, Locals
    <3> QED
      BY <3>3, <3>5, <3>6
  <2>31. CASE CheckDone(c)
    BY SMTT(30), <2>31 DEF CheckDone, RevalReturn, Typed, TypeOK, NoBuffer, Locals
  <2>32. CASE ReadField(c)
    BY <2>32 DEF ReadField, Sees, Typed, TypeOK, NoBuffer, Locals
  <2>33. CASE ReadsDone(c)
    BY <2>33 DEF ReadsDone, AllDone, Typed, TypeOK, NoBuffer, Locals
  <2>34. CASE TestField(c)
    BY <2>34 DEF TestField, Typed, TypeOK, NoBuffer, Locals
  <2>35. CASE TestsDone(c)
    BY <2>35 DEF TestsDone, AllDone, Typed, TypeOK, NoBuffer, Locals
  <2>36. CASE TestMark(c)
    <3>1. PICK w \in todo[c] :
            \/ todo' = [todo EXCEPT ![c] = @ \ {w}] /\ UNCHANGED <<pc, mask>>
            \/ /\ mask' = [mask EXCEPT ![c] = @ \cup {w}]
               /\ Goto(c, "tset")
               /\ UNCHANGED todo
      BY <2>36 DEF TestMark
    <3>0. /\ pc[c] = "tmark"
          /\ UNCHANGED <<shared, grace, queues, cache, buf, armed, hitv, revalv,
                         tstart, tret, written, cover, insn, raw, fixed>>
      BY <2>36 DEF TestMark
    <3>2. CASE todo' = [todo EXCEPT ![c] = @ \ {w}] /\ UNCHANGED <<pc, mask>>
      BY <3>0, <3>2 DEF Typed, TypeOK, NoBuffer, Locals
    <3>3. CASE /\ mask' = [mask EXCEPT ![c] = @ \cup {w}]
               /\ Goto(c, "tset") /\ UNCHANGED todo
      <4>1. mask' \in [CPUs -> SUBSET Words]
        BY <3>3 DEF Typed, TypeOK
      <4> QED
        BY SMTT(30), <3>0, <3>3, <4>1 DEF Typed, TypeOK, NoBuffer, Locals
    <3> QED
      BY <3>1, <3>2, <3>3
  <2>37. CASE MarkField(c)
    BY <2>37 DEF MarkField, Typed, TypeOK, NoBuffer, Locals
  <2>38. CASE Insert(c)
    <3> DEFINE b == [valid |-> TRUE, cover |-> cover[c], fixed |-> fixed[c],
                     mask |-> mask[c], stamp |-> 0,
                     val |-> [w \in Words |-> IF w \in fixed[c] THEN raw[c][w]
                                                               ELSE None]]
    <3>1. b \in Block
      BY DEF Block, Typed, TypeOK
    <3>2. tstart[c] \in Starts
      BY <2>38 DEF Insert, Typed, Locals
    <3>3. htab' = [htab EXCEPT ![c][tstart[c]] = b]
      BY <2>38 DEF Insert
    <3>4. htab' \in [CPUs -> [Starts -> Block]]
      BY <3>1, <3>2, <3>3 DEF Typed, TypeOK
    <3> QED
      BY SMTT(30), <2>38, <3>4 DEF Insert, Unknown, Typed, TypeOK, NoBuffer, Locals
  <2>39. CASE WaitPending(c)
    BY ZenonT(60), <2>39 DEF WaitPending, Typed, TypeOK, NoBuffer, Locals
  <2>40. CASE Stamp(c)
    <3>1. tstart[c] \in Starts
      BY <2>40 DEF Stamp, StampBlock, Typed, Locals
    <3> DEFINE e == [start |-> tstart[c], stamp |-> epoch + 1]
    <3>2. e \in PendingEntry
      BY <3>1 DEF PendingEntry, Typed, TypeOK
    <3>3. /\ Append(pending[c], e) \in Seq(PendingEntry)
          /\ Len(Append(pending[c], e)) < PendingLen
      BY <2>40, <3>2 DEF Stamp, StampBlock, PendingFull, Typed, TypeOK
    <3>4. /\ pending' \in [CPUs -> Seq(PendingEntry)]
          /\ \A d \in CPUs : Len(pending'[d]) < PendingLen
      BY <2>40, <3>3 DEF Stamp, StampBlock, Typed, TypeOK
    <3>5. htab' \in [CPUs -> [Starts -> Block]]
      <4>1. CASE ~htab[c][tstart[c]].valid
        BY <2>40, <4>1 DEF Stamp, StampBlock, Typed, TypeOK
      <4>2. CASE htab[c][tstart[c]].valid
        <5>1. htab' = [htab EXCEPT ![c][tstart[c]].stamp = epoch + 1]
          BY <2>40, <4>2 DEF Stamp, StampBlock
        <5>2. [htab[c][tstart[c]] EXCEPT !.stamp = epoch + 1] \in Block
          <6>1. htab[c][tstart[c]] \in Block /\ epoch + 1 \in Nat
            BY <3>1 DEF Typed, TypeOK
          <6> QED
            BY <6>1 DEF Block
        <5> QED
          BY <3>1, <5>1, <5>2 DEF Typed, TypeOK
      <4> QED
        BY <4>1, <4>2
    <3>6. /\ pc[c] = "twait" /\ epoch' = epoch + 1
          /\ tstart' = [tstart EXCEPT ![c] = None]
          /\ tret' = [tret EXCEPT ![c] = "top"]
          /\ Goto(c, tret[c])
          /\ UNCHANGED <<shared, quiet, seen, queues, buf, armed, hitv, revalv,
                         written, cover, insn, todo, raw, fixed, mask>>
      BY <2>40 DEF Stamp, StampBlock
    <3> QED
      BY SMTT(30), <3>4, <3>5, <3>6 DEF Typed, TypeOK, NoBuffer, Locals
  <2>41. CASE DrainBuffer(c)
    BY <2>41 DEF DrainBuffer, Typed, TypeOK, NoBuffer, Locals
  <2>42. CASE NextInsn(c)
    BY <2>42 DEF NextInsn, Typed, TypeOK, NoBuffer, Locals
  <2>43. CASE MarkPage(c)
    <3>1. buf' = buf /\ page_map' \subseteq Pages
      BY <2>43 DEF MarkPage, StorePage, Typed, TypeOK
    <3> QED
      BY SMTT(30), <2>43, <3>1 DEF MarkPage, Typed, TypeOK, NoBuffer, Locals
  <2>44. CASE InsnDone(c)
    BY SMTT(30), <2>44 DEF InsnDone, Typed, TypeOK, NoBuffer, Locals
  <2> QED
    BY <1>2, <2>1, <2>2, <2>3, <2>4, <2>5, <2>6, <2>7, <2>8, <2>9, <2>10, <2>11, <2>12, <2>13, <2>14, <2>15, <2>16, <2>17, <2>18, <2>19, <2>20, <2>21, <2>22, <2>23, <2>24, <2>25, <2>26, <2>27, <2>28, <2>29, <2>30, <2>31, <2>32, <2>33, <2>34, <2>35, <2>36, <2>37, <2>38, <2>39, <2>40, <2>41, <2>42, <2>43, <2>44 DEF Step
<1> QED
  BY <1>1, <1>2 DEF Next

(* Every variable keeps its type, and no ring holds more than it can. *)
THEOREM CoherenceTypeCorrect ==
  ASSUME StoreBuffer = 0
  PROVE  Spec => []TypeOK
<1>1. Init => Typed
  BY TypedInit
<1>2. Typed /\ [Next]_vars => Typed'
  BY TypedNext
<1>3. Typed => TypeOK
  BY DEF Typed
<1> QED
  BY <1>1, <1>2, <1>3, PTL DEF Spec

-----------------------------------------------------------------------------
(* Control *)

LEMMA ControlNext ==
  ASSUME StoreBuffer = 0, Typed, Typed', [Next]_vars, NEW d \in CPUs, Control(d)
  PROVE  Control(d)'
<1> USE CoherenceAssumption DEF Goto, Hitting, Translating, Making
<1> USE DEF shared, grace, queues, cache, hitv, revalv, transv
<1>1. CASE UNCHANGED vars
  BY <1>1 DEF vars, Control
<1>2. ASSUME NEW c \in CPUs, EnterRun(c) \/ Step(c) \/ DrainBuffer(c)
      PROVE  Control(d)'
  <2>1. CASE EnterRun(c)
    BY <2>1 DEF EnterRun, LoadEpoch, Control, Typed, TypeOK, NoBuffer, Locals
  <2>2. CASE LoopTop(c)
    BY <2>2 DEF LoopTop, LoadEpoch, Control, Typed, TypeOK, NoBuffer, Locals
  <2>3. CASE Publish(c)
    BY <2>3 DEF Publish, StoreQuiet, Control, Typed, TypeOK, NoBuffer, Locals
  <2>4. CASE DrainOverflow(c)
    BY <2>4 DEF DrainOverflow, Control, Typed, TypeOK, NoBuffer, Locals
  <2>5. CASE DrainNoOverflow(c)
    BY <2>5 DEF DrainNoOverflow, Control, Typed, TypeOK, NoBuffer, Locals
  <2>6. CASE DrainWord(c)
    BY <2>6 DEF DrainWord, Control, Typed, TypeOK, NoBuffer, Locals
  <2>7. CASE DrainDone(c)
    BY <2>7 DEF DrainDone, Control, Typed, TypeOK, NoBuffer, Locals
  <2>8. CASE LookupEnd(c)
    BY <2>8 DEF LookupEnd, LeaveRun, StoreQuiet, Control, Typed, TypeOK, NoBuffer, Locals
  <2>9. CASE LookupRun(c)
    BY <2>9 DEF LookupRun, Control, Typed, TypeOK, NoBuffer, Locals
  <2>10. CASE LookupInterp(c)
    BY <2>10 DEF LookupInterp, InterpStep, Control, Typed, TypeOK, NoBuffer, Locals
  <2>11. CASE LookupTranslate(c)
    <3>1. \A i \in 1 .. Len(pending'[d]) : pending'[d][i].stamp # 0
      <4>1. CASE UNCHANGED cache
        BY <4>1 DEF Control
      <4>2. CASE pending' = [pending EXCEPT ![c] = <<>>]
        BY <4>2, EmptySeq DEF Control, Typed, TypeOK
      <4> QED
        BY <2>11, <4>1, <4>2 DEF LookupTranslate, Translate
    <3> QED
      BY <2>11, <3>1 DEF LookupTranslate, Translate, Control, Typed, TypeOK, NoBuffer, Locals
  <2>12. CASE InterpStore(c)
    BY <2>12 DEF InterpStore, StoreMem, Control, Typed, TypeOK, NoBuffer, Locals
  <2>13. CASE RunTest(c)
    BY <2>13 DEF RunTest, Control, Typed, TypeOK, NoBuffer, Locals
  <2>14. CASE RunStore(c)
    BY <2>14 DEF RunStore, StoreMem, Control, Typed, TypeOK, NoBuffer, Locals
  <2>15. CASE RunLinked(c)
    BY <2>15 DEF RunLinked, Control, Typed, TypeOK, NoBuffer, Locals
  <2>16. CASE RunLeave(c)
    BY <2>16 DEF RunLeave, Control, Typed, TypeOK, NoBuffer, Locals
  <2>17. CASE RunWatch(c)
    BY <2>17 DEF RunWatch, LeaveRun, StoreQuiet, Control, Typed, TypeOK, NoBuffer, Locals
  <2>18. CASE RunSmc(c)
    BY <2>18 DEF RunSmc, InterpStep, Control, Typed, TypeOK, NoBuffer, Locals
  <2>19. CASE RunHoist(c)
    BY <2>19 DEF RunHoist, Control, Typed, TypeOK, NoBuffer, Locals
  <2>20. CASE RunTranslate(c)
    <3>1. \A i \in 1 .. Len(pending'[d]) : pending'[d][i].stamp # 0
      <4>1. CASE UNCHANGED cache
        BY <4>1 DEF Control
      <4>2. CASE pending' = [pending EXCEPT ![c] = <<>>]
        BY <4>2, EmptySeq DEF Control, Typed, TypeOK
      <4> QED
        BY <2>20, <4>1, <4>2 DEF RunTranslate, Translate
    <3> QED
      BY <2>20, <3>1 DEF RunTranslate, Translate, Control, Typed, TypeOK, NoBuffer, Locals
  <2>21. CASE HitSkip(c)
    BY <2>21 DEF HitSkip, ArmIfStoring, Control, Typed, TypeOK, NoBuffer, Locals
  <2>22. CASE HitBegin(c)
    BY <2>22 DEF HitBegin, Control, Typed, TypeOK, NoBuffer, Locals
  <2>23. CASE HitDyn(c)
    BY <2>23 DEF HitDyn, Control, Typed, TypeOK, NoBuffer, Locals
  <2>24. CASE HitClear(c)
    BY <2>24 DEF HitClear, Control, Typed, TypeOK, NoBuffer, Locals
  <2>25. CASE HitSend(c)
    BY SMTT(30), <2>25 DEF HitSend, Enqueue, Control, Typed, TypeOK, NoBuffer, Locals
  <2>26. CASE HitSent(c)
    BY <2>26 DEF HitSent, ArmIfStoring, Control, Typed, TypeOK, NoBuffer, Locals
  <2>27. CASE HitsDone(c)
    BY <2>27 DEF HitsDone, Control, Typed, TypeOK, NoBuffer, Locals
  <2>28. CASE RevalNone(c)
    <3>1. pc' = [pc EXCEPT ![c] = back[c]] /\ back[c] \in {"lookup", "twait"}
      BY <2>28 DEF RevalNone, RevalReturn, Typed, TypeOK
    <3>2. pc[c] = "reval"
      BY <2>28 DEF RevalNone
    <3> QED
      BY <2>28, <3>1, <3>2 DEF RevalNone, RevalReturn, Control, Typed, TypeOK, NoBuffer, Locals
  <2>29. CASE ScanQuiet(c)
    <3>1. /\ pc[c] = "reval"
          /\ UNCHANGED <<shared, grace, queues, cache, buf, pc, armed, hitv, back,
                         transv>>
          /\ \A e \in CPUs \ {c} : unread'[e] = unread[e]
      BY <2>29 DEF ScanQuiet, Typed, TypeOK
    <3> QED
      BY <3>1 DEF Control, Typed, TypeOK, NoBuffer, Locals
  <2>30. CASE CheckOldest(c)
    BY SMTT(30), <2>30 DEF CheckOldest, Control, Typed, TypeOK, NoBuffer, Locals
  <2>31. CASE CheckDone(c)
    <3>1. pc' = [pc EXCEPT ![c] = back[c]] /\ back[c] \in {"lookup", "twait"}
      BY <2>31 DEF CheckDone, RevalReturn, Typed, TypeOK
    <3>2. pc[c] = "reval"
      BY <2>31 DEF CheckDone
    <3> QED
      BY <2>31, <3>1, <3>2 DEF CheckDone, RevalReturn, Control, Typed, TypeOK, NoBuffer, Locals
  <2>32. CASE ReadField(c)
    BY <2>32 DEF ReadField, Sees, Control, Typed, TypeOK, NoBuffer, Locals
  <2>33. CASE ReadsDone(c)
    BY <2>33 DEF ReadsDone, AllDone, Control, Typed, TypeOK, NoBuffer, Locals
  <2>34. CASE TestField(c)
    BY <2>34 DEF TestField, Control, Typed, TypeOK, NoBuffer, Locals
  <2>35. CASE TestsDone(c)
    BY <2>35 DEF TestsDone, AllDone, Control, Typed, TypeOK, NoBuffer, Locals
  <2>36. CASE TestMark(c)
    BY <2>36 DEF TestMark, Control, Typed, TypeOK, NoBuffer, Locals
  <2>37. CASE MarkField(c)
    BY <2>37 DEF MarkField, Control, Typed, TypeOK, NoBuffer, Locals
  <2>38. CASE Insert(c)
    BY <2>38 DEF Insert, Control, Typed, TypeOK, NoBuffer, Locals
  <2>39. CASE WaitPending(c)
    BY <2>39 DEF WaitPending, Control, Typed, TypeOK, NoBuffer, Locals
  <2>40. CASE Stamp(c)
    <3>1. \A i \in 1 .. Len(pending'[d]) : pending'[d][i].stamp # 0
      <4>1. CASE d = c
        <5>1. pending'[d] = Append(pending[d], [start |-> tstart[c], stamp |-> epoch + 1])
          BY <2>40, <4>1 DEF Stamp, StampBlock, Typed, TypeOK
        <5>2. pending[d] \in Seq(PendingEntry) /\ epoch + 1 # 0
          BY DEF Typed, TypeOK
        <5> QED
          BY SMTT(30), <5>1, <5>2 DEF Control
      <4>2. CASE d # c
        BY <2>40, <4>2 DEF Stamp, StampBlock, Control, Typed, TypeOK
      <4> QED
        BY <4>1, <4>2
    <3>2. tret[c] \in {"run", "top"} /\ unread[d] = unread'[d] /\ epoch \in Nat
      BY <2>40 DEF Stamp, StampBlock, Typed, TypeOK
    <3>3. /\ pc[c] = "twait" /\ epoch' = epoch + 1
          /\ Goto(c, tret[c])
          /\ UNCHANGED <<shared, quiet, seen, queues, armed, hitv, revalv>>
      BY <2>40 DEF Stamp, StampBlock
    <3> QED
      BY SMTT(30), <3>1, <3>2, <3>3 DEF Control, Typed, TypeOK, NoBuffer, Locals
  <2>41. CASE DrainBuffer(c)
    BY <2>41 DEF DrainBuffer, Control, Typed, TypeOK, NoBuffer, Locals
  <2>42. CASE NextInsn(c)
    BY <2>42 DEF NextInsn, Control, Typed, TypeOK, NoBuffer, Locals
  <2>43. CASE MarkPage(c)
    <3>1. buf' = buf /\ page_map' \subseteq Pages
      BY <2>43 DEF MarkPage, StorePage, Typed, TypeOK
    <3> QED
      BY <2>43, <3>1 DEF MarkPage, Control, Typed, TypeOK, NoBuffer, Locals
  <2>44. CASE InsnDone(c)
    BY <2>44 DEF InsnDone, Control, Typed, TypeOK, NoBuffer, Locals
  <2> QED
    BY <1>2, <2>1, <2>2, <2>3, <2>4, <2>5, <2>6, <2>7, <2>8, <2>9, <2>10, <2>11, <2>12, <2>13, <2>14, <2>15, <2>16, <2>17, <2>18, <2>19, <2>20, <2>21, <2>22, <2>23, <2>24, <2>25, <2>26, <2>27, <2>28, <2>29, <2>30, <2>31, <2>32, <2>33, <2>34, <2>35, <2>36, <2>37, <2>38, <2>39, <2>40, <2>41, <2>42, <2>43, <2>44 DEF Step
<1> QED
  BY <1>1, <1>2 DEF Next

-----------------------------------------------------------------------------
(* What most steps leave alone *)

CpuStep(c) == EnterRun(c) \/ Step(c) \/ DrainBuffer(c)

USE DEF shared, grace, queues, cache, hitv, revalv, transv

LEMMA StepFrame ==
  ASSUME Typed, NEW c \in CPUs, CpuStep(c)
  PROVE  /\ \/ UNCHANGED <<queue, qoverflow, hitw, to>>
            \/ DrainOverflow(c) \/ DrainWord(c)
            \/ HitBegin(c) \/ HitClear(c) \/ HitSend(c) \/ HitSent(c)
         /\ \/ UNCHANGED <<static_map, page_map, dyn_map>>
            \/ HitDyn(c) \/ HitClear(c) \/ MarkField(c) \/ MarkPage(c)
         /\ \/ UNCHANGED <<htab, pending>>
            \/ DrainOverflow(c) \/ DrainWord(c) \/ LookupTranslate(c)
            \/ RunTranslate(c) \/ HitClear(c) \/ CheckOldest(c) \/ Insert(c)
            \/ Stamp(c)
         /\ UNCHANGED mem \/ InterpStore(c) \/ RunStore(c)
         /\ UNCHANGED quiet \/ Publish(c) \/ LookupEnd(c) \/ RunWatch(c)
         /\ \/ UNCHANGED armed \/ armed' = [armed EXCEPT ![c] = {}]
            \/ RunTest(c) \/ HitSkip(c) \/ HitSent(c)
         /\ UNCHANGED <<unread, minq>> \/ ScanQuiet(c) \/ CheckDone(c)
         /\ UNCHANGED <<fixed, mask>> \/ TestField(c) \/ TestMark(c) \/ Insert(c)
         /\ \/ UNCHANGED <<fixed, insn, todo>> /\ pc[c] \notin Making /\ pc'[c] \notin Making
            \/ LookupTranslate(c) \/ RunTranslate(c) \/ NextInsn(c) \/ ReadField(c)
            \/ ReadsDone(c) \/ TestField(c) \/ TestsDone(c) \/ TestMark(c)
            \/ MarkField(c) \/ MarkPage(c) \/ InsnDone(c) \/ Insert(c)
         /\ pc[c] \in Hitting =>
              \/ HitSkip(c) \/ HitBegin(c) \/ HitDyn(c) \/ HitClear(c)
              \/ HitSend(c) \/ HitSent(c) \/ HitsDone(c)
<1>0. NoBuffer
  BY DEF Typed
<1> USE <1>0 DEF CpuStep, Step, NoBuffer, EnterRun, LoadEpoch, LoopTop, Publish, StoreQuiet,
         DrainOverflow, DrainNoOverflow, DrainWord, DrainDone,
         LookupEnd, LeaveRun, LookupRun, LookupInterp, InterpStep,
         LookupTranslate, Translate, InterpStore, StoreMem, RunTest,
         RunStore, RunLinked, RunLeave, RunWatch, RunSmc, RunHoist,
         RunTranslate, HitSkip, HitBegin, HitDyn, HitClear, HitSend,
         HitSent, HitsDone, RevalNone, RevalReturn, ScanQuiet,
         CheckOldest, CheckDone, NextInsn, ReadField, ReadsDone,
         TestField, TestsDone, TestMark, MarkField, MarkPage, StorePage,
         InsnDone, Insert, WaitPending,
         Stamp, StampBlock, DrainBuffer, Goto, AllDone
<1>1. \/ UNCHANGED <<queue, qoverflow, hitw, to>>
      \/ DrainOverflow(c) \/ DrainWord(c)
      \/ HitBegin(c) \/ HitClear(c) \/ HitSend(c) \/ HitSent(c)
  OBVIOUS
<1>2. \/ UNCHANGED <<static_map, page_map, dyn_map>>
      \/ HitDyn(c) \/ HitClear(c) \/ MarkField(c) \/ MarkPage(c)
  OBVIOUS
<1>3. \/ UNCHANGED <<htab, pending>>
      \/ DrainOverflow(c) \/ DrainWord(c) \/ LookupTranslate(c)
      \/ RunTranslate(c) \/ HitClear(c) \/ CheckOldest(c) \/ Insert(c)
      \/ Stamp(c)
  OBVIOUS
<1>4. UNCHANGED mem \/ InterpStore(c) \/ RunStore(c)
  OBVIOUS
<1>5. UNCHANGED quiet \/ Publish(c) \/ LookupEnd(c) \/ RunWatch(c)
  OBVIOUS
<1>6. \/ UNCHANGED armed \/ armed' = [armed EXCEPT ![c] = {}]
      \/ RunTest(c) \/ HitSkip(c) \/ HitSent(c)
  OBVIOUS
<1>7. UNCHANGED <<unread, minq>> \/ ScanQuiet(c) \/ CheckDone(c)
  OBVIOUS
<1>8. UNCHANGED <<fixed, mask>> \/ TestField(c) \/ TestMark(c) \/ Insert(c)
  OBVIOUS
<1>9. \/ UNCHANGED <<fixed, insn, todo>> /\ pc[c] \notin Making /\ pc'[c] \notin Making
      \/ LookupTranslate(c) \/ RunTranslate(c) \/ NextInsn(c) \/ ReadField(c)
      \/ ReadsDone(c) \/ TestField(c) \/ TestsDone(c) \/ TestMark(c)
      \/ MarkField(c) \/ MarkPage(c) \/ InsnDone(c) \/ Insert(c)
  <2>1. /\ DOMAIN pc = CPUs /\ back[c] \notin Making
        /\ after[c] \notin Making /\ tret[c] \notin Making
    BY DEF Making, Typed, TypeOK
  <2>2. pc = [e \in CPUs |-> pc[e]]
    BY DEF Typed, TypeOK
  <2> QED
    BY ZenonT(60), <2>1, <2>2 DEF Making
<1>10. pc[c] \in Hitting =>
         \/ HitSkip(c) \/ HitBegin(c) \/ HitDyn(c) \/ HitClear(c)
         \/ HitSend(c) \/ HitSent(c) \/ HitsDone(c)
  BY DEF Hitting
<1> HIDE DEF CpuStep, Step, NoBuffer, EnterRun, LoadEpoch, LoopTop, Publish, StoreQuiet,
         DrainOverflow, DrainNoOverflow, DrainWord, DrainDone,
         LookupEnd, LeaveRun, LookupRun, LookupInterp, InterpStep,
         LookupTranslate, Translate, InterpStore, StoreMem, RunTest,
         RunStore, RunLinked, RunLeave, RunWatch, RunSmc, RunHoist,
         RunTranslate, HitSkip, HitBegin, HitDyn, HitClear, HitSend,
         HitSent, HitsDone, RevalNone, RevalReturn, ScanQuiet,
         CheckOldest, CheckDone, NextInsn, ReadField, ReadsDone,
         TestField, TestsDone, TestMark, MarkField, MarkPage, StorePage,
         InsnDone, Insert, WaitPending,
         Stamp, StampBlock, DrainBuffer, Goto, AllDone
<1> QED
  BY <1>1, <1>2, <1>3, <1>4, <1>5, <1>6, <1>7, <1>8, <1>9, <1>10

-----------------------------------------------------------------------------
(* The queues *)

(* Word w leaves the ways by which c's blocks from it get dropped *)
Drops(c, w) ==
  \/ DrainOverflow(c)
  \/ DrainWord(c) /\ Head(queue[c]) = w
  \/ HitClear(c) /\ hitw[c] = w

(* A word on its way to a CPU stays so until that CPU drops its blocks. *)
LEMMA DropStays ==
  ASSUME Typed, Typed', NEW c \in CPUs, CpuStep(c), Control(c),
         NEW d \in CPUs, NEW w \in Words, DropQ(d, w)
  PROVE  DropQ(d, w)' \/ (c = d /\ Drops(c, w))
<1>1. CASE UNCHANGED <<queue, qoverflow, hitw, to>>
  BY <1>1 DEF DropQ
<1>2. CASE DrainOverflow(c)
  BY <1>2 DEF DrainOverflow, DropQ, Drops, Typed, TypeOK
<1>3. CASE DrainWord(c)
  <2>1. CASE d # c
    BY <1>3, <2>1 DEF DrainWord, DropQ, Typed, TypeOK
  <2>2. CASE d = c /\ Head(queue[c]) # w
    <3>1. queue[c] \in Seq(Words) /\ queue[c] # <<>> /\ queue'[c] = Tail(queue[c])
      BY <1>3 DEF DrainWord, Typed, TypeOK
    <3>2. ASSUME NEW i \in 1 .. Len(queue[c]), queue[c][i] = w
          PROVE  \E j \in 1 .. Len(queue'[c]) : queue'[c][j] = w
      <4>1. i # 1 /\ i - 1 \in 1 .. Len(queue'[c]) /\ queue'[c][i - 1] = w
        BY <2>2, <3>1, <3>2
      <4> QED
        BY <4>1
    <3> QED
      BY <1>3, <2>2, <3>2 DEF DrainWord, DropQ
  <2> QED
    BY <1>3, <2>1, <2>2 DEF Drops
<1>4. CASE HitBegin(c)
  BY <1>4 DEF HitBegin, DropQ, Control, Typed, TypeOK
<1>5. CASE HitClear(c)
  BY <1>5 DEF HitClear, DropQ, Drops, Typed, TypeOK
<1>6. CASE HitSend(c)
  <2>1. PICK e \in to[c] : Enqueue(e, hitw[c]) /\ to' = [to EXCEPT ![c] = @ \ {e}]
    BY <1>6 DEF HitSend
  <2>2. e \in CPUs /\ hitw' = hitw
    BY <1>6 DEF HitSend, Typed, TypeOK
  <2>3. CASE Len(queue[e]) = QueueLen - 1
    <3>1. qoverflow' = [qoverflow EXCEPT ![e] = TRUE] /\ queue' = queue
      BY <2>1, <2>3 DEF Enqueue
    <3> QED
      BY <2>1, <2>2, <3>1 DEF DropQ, Typed, TypeOK
  <2>4. CASE Len(queue[e]) # QueueLen - 1
    <3>1. queue' = [queue EXCEPT ![e] = Append(@, hitw[c])] /\ qoverflow' = qoverflow
      BY <2>1, <2>4 DEF Enqueue
    <3>2. queue[e] \in Seq(Words) /\ queue'[e] = Append(queue[e], hitw[c])
      BY <2>2, <3>1 DEF Typed, TypeOK
    <3>3. /\ Len(queue'[e]) = Len(queue[e]) + 1
          /\ queue'[e][Len(queue'[e])] = hitw[c]
          /\ \A i \in 1 .. Len(queue[e]) : queue'[e][i] = queue[e][i]
      BY <3>2
    <3>4. ASSUME NEW i \in 1 .. Len(queue[d]), queue[d][i] = w
          PROVE  \E k \in 1 .. Len(queue'[d]) : queue'[d][k] = w
      <4>1. CASE e = d
        BY <3>2, <3>3, <3>4, <4>1
      <4>2. CASE e # d
        BY <2>2, <3>1, <3>4, <4>2 DEF Typed, TypeOK
      <4> QED
        BY <4>1, <4>2
    <3>5. ASSUME NEW f \in CPUs, hitw[f] = w, d \in to[f]
          PROVE  \/ \E k \in 1 .. Len(queue'[d]) : queue'[d][k] = w
                 \/ hitw'[f] = w /\ d \in to'[f]
      <4>1. CASE f = c /\ e = d
        BY <3>2, <3>3, <3>5, <4>1
      <4>2. CASE f # c \/ e # d
        BY <2>1, <2>2, <3>5, <4>2 DEF Typed, TypeOK
      <4> QED
        BY <4>1, <4>2
    <3> QED
      BY <3>1, <3>4, <3>5 DEF DropQ
  <2> QED
    BY <2>3, <2>4
<1>7. CASE HitSent(c)
  BY <1>7 DEF HitSent, DropQ, Control, Typed, TypeOK
<1> QED
  BY <1>1, <1>2, <1>3, <1>4, <1>5, <1>6, <1>7, StepFrame DEF Typed

(* A word turns dynamic only in smc_hit, which has every CPU still to reach, *)
(* and loses its mark only once dynamic.                                     *)
LEMMA MapStep ==
  ASSUME Typed, NEW c \in CPUs, CpuStep(c), Control(c)
  PROVE  /\ dyn_map \subseteq dyn_map'
         /\ \A w \in dyn_map' \ dyn_map, d \in CPUs : DropQ(d, w)'
         /\ \A w \in static_map : w \in static_map' \/ w \in dyn_map'
         /\ page_map \subseteq page_map'
<1>1. CASE UNCHANGED <<static_map, page_map, dyn_map>>
  BY <1>1
<1>2. CASE HitDyn(c)
  <2>1. /\ dyn_map' = dyn_map \cup {hitw[c]} /\ UNCHANGED <<static_map, page_map, hitw, to>>
        /\ to[c] = CPUs
    BY <1>2 DEF HitDyn, Control
  <2> QED
    BY <2>1 DEF DropQ
<1>3. CASE HitClear(c)
  BY <1>3 DEF HitClear, Control
<1>4. CASE MarkField(c)
  BY <1>4 DEF MarkField
<1>5. CASE MarkPage(c)
  BY <1>5 DEF MarkPage, StorePage
<1> QED
  BY <1>1, <1>2, <1>3, <1>4, <1>5, StepFrame DEF Typed

(* A mark stays until its word is dynamic. *)
LEMMA MarkedStays ==
  ASSUME Typed, NEW c \in CPUs, CpuStep(c), Control(c), NEW w, Marked(w)
  PROVE  Marked(w)' \/ w \in dyn_map'
  BY MapStep DEF Marked

-----------------------------------------------------------------------------
(* The blocks *)

(* The block translate leaves in htab *)
NewBlock(c) ==
  [valid |-> TRUE, cover |-> cover[c], fixed |-> fixed[c], mask |-> mask[c],
   stamp |-> 0,
   val |-> [w \in Words |-> IF w \in fixed[c] THEN raw[c][w] ELSE None]]

(* What a step makes of a block: nothing, no block, the new block, a stamp. *)
LEMMA BlockStep ==
  ASSUME Typed, NEW c \in CPUs, CpuStep(c), NEW d \in CPUs, NEW s \in Starts
  PROVE  \/ htab'[d][s] = htab[d][s]
         \/ htab'[d][s] = NoBlock
         \/ Insert(c) /\ d = c /\ s = tstart[c] /\ htab'[d][s] = NewBlock(c)
         \/ /\ Stamp(c) /\ d = c /\ s = tstart[c] /\ htab[d][s].valid
            /\ htab'[d][s] = [htab[d][s] EXCEPT !.stamp = epoch + 1]
<1>1. CASE UNCHANGED <<htab, pending>>
  BY <1>1
<1>2. CASE DrainOverflow(c)
  BY <1>2 DEF DrainOverflow, Flushed, Typed, TypeOK
<1>3. CASE DrainWord(c)
  BY <1>3 DEF DrainWord, InvalidateWord, Typed, TypeOK
<1>4. CASE LookupTranslate(c) \/ RunTranslate(c)
  <2>1. UNCHANGED htab \/ htab' = [htab EXCEPT ![c] = Flushed]
    BY <1>4 DEF LookupTranslate, RunTranslate, Translate
  <2> QED
    BY <2>1 DEF Flushed, Typed, TypeOK
<1>5. CASE HitClear(c)
  BY <1>5 DEF HitClear, InvalidateWord, Typed, TypeOK
<1>6. CASE CheckOldest(c)
  BY <1>6 DEF CheckOldest
<1>7. CASE Insert(c)
  <2>1. htab' = [htab EXCEPT ![c][tstart[c]] = NewBlock(c)] /\ tstart[c] \in Starts
    BY <1>7 DEF Insert, NewBlock, Typed, Locals, Making, Translating
  <2> QED
    BY <1>7, <2>1 DEF Typed, TypeOK
<1>8. CASE Stamp(c)
  <2>1. tstart[c] \in Starts
    BY <1>8 DEF Stamp, StampBlock, Typed, Locals, Making, Translating
  <2>2. htab' = IF htab[c][tstart[c]].valid
                THEN [htab EXCEPT ![c][tstart[c]].stamp = epoch + 1] ELSE htab
    BY <1>8 DEF Stamp, StampBlock
  <2>3. CASE ~htab[c][tstart[c]].valid
    BY <2>2, <2>3
  <2>4. CASE d # c \/ s # tstart[c]
    <3>1. DOMAIN htab = CPUs /\ \A e \in CPUs : DOMAIN htab[e] = Starts
      BY DEF Typed, TypeOK
    <3>2. htab'[d][s] = htab[d][s]
      BY <2>1, <2>2, <2>4, <3>1
    <3> QED
      BY <3>2
  <2>5. CASE htab[c][tstart[c]].valid /\ d = c /\ s = tstart[c]
    <3>1. DOMAIN htab = CPUs /\ \A e \in CPUs : DOMAIN htab[e] = Starts
      BY DEF Typed, TypeOK
    <3>2. htab'[d][s] = [htab[d][s] EXCEPT !.stamp = epoch + 1]
      BY <2>2, <2>5, <3>1
    <3> QED
      BY <1>8, <2>5, <3>2
  <2> QED
    BY <2>3, <2>4, <2>5
<1> QED
  BY <1>1, <1>2, <1>3, <1>4, <1>5, <1>6, <1>7, <1>8, StepFrame DEF Typed

(* A CPU that drops what came from a word has no block left from it. *)
LEMMA DroppedGone ==
  ASSUME Typed, NEW c \in CPUs, NEW s \in Starts, NEW w \in htab[c][s].cover,
         Drops(c, w)
  PROVE  htab'[c][s] = NoBlock
<1>1. CASE DrainOverflow(c)
  BY <1>1 DEF DrainOverflow, Flushed, Typed, TypeOK
<1>2. CASE DrainWord(c) /\ Head(queue[c]) = w
  BY <1>2 DEF DrainWord, InvalidateWord, Typed, TypeOK
<1>3. CASE HitClear(c) /\ hitw[c] = w
  BY <1>3 DEF HitClear, InvalidateWord, Typed, TypeOK
<1> QED
  BY <1>1, <1>2, <1>3 DEF Drops

(* A step changes no other CPU's local variables. *)
LEMMA OthersLocal ==
  ASSUME StoreBuffer = 0, Typed, NEW c \in CPUs, CpuStep(c), NEW d \in CPUs \ {c}
  PROVE  /\ pc'[d] = pc[d] /\ armed'[d] = armed[d] /\ quiet'[d] = quiet[d]
         /\ hits'[d] = hits[d] /\ hitw'[d] = hitw[d] /\ after'[d] = after[d]
         /\ unread'[d] = unread[d] /\ minq'[d] = minq[d]
         /\ pending'[d] = pending[d] /\ htab'[d] = htab[d]
         /\ written'[d] = written[d] /\ cover'[d] = cover[d]
         /\ insn'[d] = insn[d] /\ todo'[d] = todo[d]
         /\ fixed'[d] = fixed[d] /\ mask'[d] = mask[d]
<1>1. CASE EnterRun(c) \/ LoopTop(c) \/ Publish(c) \/ LookupEnd(c)
  BY <1>1 DEF Typed, TypeOK, Goto, AllDone, ArmIfStoring, EnterRun, LoopTop,
              Publish, LookupEnd, LoadEpoch, LeaveRun, StoreQuiet
<1>2. CASE DrainOverflow(c) \/ DrainNoOverflow(c) \/ DrainWord(c) \/ DrainDone(c)
  BY <1>2 DEF Typed, TypeOK, Goto, AllDone, ArmIfStoring, DrainOverflow,
              DrainNoOverflow, DrainWord, DrainDone
<1>3. CASE LookupRun(c) \/ LookupInterp(c) \/ LookupTranslate(c) \/ InterpStore(c)
  BY <1>3 DEF Typed, TypeOK, Goto, AllDone, ArmIfStoring, LookupRun, LookupInterp,
              LookupTranslate, InterpStore, InterpStep, Translate, StoreMem
<1>4. CASE RunTest(c) \/ RunStore(c) \/ RunLinked(c) \/ RunLeave(c)
  BY <1>4 DEF Typed, TypeOK, Goto, AllDone, ArmIfStoring, RunTest, RunStore,
              RunLinked, RunLeave, StoreMem, LeaveRun
<1>5. CASE RunWatch(c) \/ RunSmc(c) \/ RunHoist(c) \/ RunTranslate(c)
  <2>1. CASE RunWatch(c)
    BY <2>1 DEF Typed, TypeOK, Goto, RunWatch, LeaveRun, StoreQuiet
  <2>2. CASE RunSmc(c)
    BY <2>2 DEF Typed, TypeOK, Goto, RunSmc, InterpStep
  <2>3. CASE RunHoist(c)
    BY <2>3 DEF Typed, TypeOK, Goto, RunHoist
  <2>4. CASE RunTranslate(c)
    <3>1. /\ pc' = [pc EXCEPT ![c] = "tinsn"] /\ armed' = [armed EXCEPT ![c] = {}]
          /\ \E W : written' = [written EXCEPT ![c] = W]
          /\ \/ UNCHANGED cache
             \/ /\ htab' = [htab EXCEPT ![c] = Flushed]
                /\ pending' = [pending EXCEPT ![c] = <<>>]
          /\ UNCHANGED <<quiet, hits, hitw, after, unread, minq, cover, insn, todo, fixed, mask>>
      BY <2>4 DEF RunTranslate, Translate, Goto
    <3>2. /\ DOMAIN pc = CPUs /\ DOMAIN armed = CPUs /\ DOMAIN written = CPUs
          /\ DOMAIN htab = CPUs /\ DOMAIN pending = CPUs
      BY DEF Typed, TypeOK
    <3> QED
      BY <3>1, <3>2
  <2> QED
    BY <1>5, <2>1, <2>2, <2>3, <2>4
<1>6. CASE HitSkip(c) \/ HitBegin(c) \/ HitDyn(c) \/ HitClear(c)
  BY <1>6 DEF Typed, TypeOK, Goto, AllDone, ArmIfStoring, HitSkip, HitBegin,
              HitDyn, HitClear
<1>7. CASE HitSend(c) \/ HitSent(c) \/ HitsDone(c) \/ RevalNone(c)
  BY <1>7 DEF Typed, TypeOK, Goto, AllDone, ArmIfStoring, HitSend, HitSent,
              HitsDone, RevalNone, RevalReturn
<1>8. CASE ScanQuiet(c) \/ CheckOldest(c) \/ CheckDone(c)
  BY <1>8 DEF Typed, TypeOK, Goto, AllDone, ArmIfStoring, ScanQuiet, CheckOldest,
              CheckDone, RevalReturn
<1>9. CASE NextInsn(c) \/ ReadField(c) \/ ReadsDone(c) \/ TestField(c)
  BY <1>9 DEF Typed, TypeOK, Goto, AllDone, ArmIfStoring, NextInsn, ReadField,
              ReadsDone, TestField
<1>10. CASE TestsDone(c) \/ TestMark(c) \/ MarkField(c) \/ MarkPage(c)
  BY <1>10 DEF Typed, TypeOK, Goto, AllDone, ArmIfStoring, TestsDone, TestMark,
              MarkField, MarkPage, StorePage
<1>11. CASE InsnDone(c) \/ Insert(c) \/ WaitPending(c) \/ Stamp(c)
  BY <1>11 DEF Typed, TypeOK, Goto, AllDone, ArmIfStoring, InsnDone, Insert,
              WaitPending, Stamp, StampBlock
<1>12. CASE DrainBuffer(c)
  BY <1>12 DEF DrainBuffer, Typed, NoBuffer
<1> QED
  BY <1>1, <1>2, <1>3, <1>4, <1>5, <1>6, <1>7, <1>8, <1>9, <1>10, <1>11, <1>12
     DEF CpuStep, Step


LEMMA BuildingNext ==
  ASSUME StoreBuffer = 0, Typed, Typed', NEW c \in CPUs, CpuStep(c), Control(c),
         NEW d \in CPUs, Building(d)
  PROVE  Building(d)'
<1>1. ASSUME NEW w \in fixed'[d] \cap dyn_map' PROVE DropQ(d, w)'
  <2>1. w \in Words
    BY DEF Typed, TypeOK
  <2>2. CASE w \notin dyn_map
    BY <2>2, MapStep
  <2>3. CASE w \in fixed[d] /\ w \in dyn_map
    <3>1. DropQ(d, w) /\ pc[d] \in Making
      BY <2>3 DEF Building
    <3>2. ~(c = d /\ Drops(c, w))
      BY <3>1 DEF Making, Drops, DrainOverflow, DrainWord, HitClear
    <3> QED
      BY <2>1, <3>1, <3>2, DropStays
  <2>4. ASSUME w \notin fixed[d], w \in dyn_map PROVE FALSE
    <3>1. d = c
      BY <2>4, OthersLocal
    <3>2. CASE TestField(c)
      BY <2>4, <3>1, <3>2 DEF TestField, IsDynamic, Typed, TypeOK
    <3>3. CASE TestMark(c) \/ UNCHANGED fixed
      BY <2>4, <3>3 DEF TestMark
    <3>4. CASE Insert(c)
      BY <2>4, <3>1, <3>4 DEF Insert, Typed, TypeOK
    <3> QED
      BY <3>2, <3>3, <3>4, StepFrame
  <2> QED
    BY <2>2, <2>3, <2>4
<1>2. /\ dyn_map \subseteq dyn_map' /\ page_map \subseteq page_map'
      /\ static_map \subseteq static_map' \cup dyn_map'
  BY MapStep
<1> DEFINE Shape ==
      /\ fixed[d] # {} => pc[d] \in Making
      /\ pc[d] \in Making =>
           /\ fixed[d] \cup insn[d] \subseteq cover[d] /\ todo[d] \subseteq insn[d]
           /\ fixed[d] \cap written[d] = {}
      /\ pc[d] \notin Making \/ pc[d] = "tinsn" => insn[d] = {} /\ todo[d] = {}
      /\ pc[d] = "tread" => fixed[d] \cap insn[d] = {}
      /\ pc[d] = "ttest" => fixed[d] \cap todo[d] = {}
      /\ pc[d] = "tpage" => mask[d] \cap todo[d] \subseteq static_map \cup dyn_map
      /\ \A w \in fixed[d] :
           \/ w \in dyn_map
           \/ w \in mask[d] /\ w \in static_map /\ PageOf[w] \in page_map
           \/ pc[d] = "ttest" /\ w \in insn[d]
           \/ pc[d] \in {"tmark", "tset", "tpage"} /\ w \in todo[d]
<1>4. Shape
  BY DEF Building, Marked
<1>5. Shape'
  <2>1. CASE d # c
    BY <1>2, <1>4, <2>1, OthersLocal
  <2>2. CASE /\ d = c /\ UNCHANGED <<fixed, insn, todo>>
             /\ pc[c] \notin Making /\ pc'[c] \notin Making
    BY <1>4, <2>2 DEF Making
  <2> USE DEF Goto, Making, Typed, TypeOK
  <2>3. CASE d = c /\ (LookupTranslate(c) \/ RunTranslate(c))
    <3>1. pc[d] \notin Making /\ pc'[d] = "tinsn" /\ fixed' = fixed
      BY <2>3 DEF LookupTranslate, RunTranslate, Translate
    <3>2. insn' = insn /\ todo' = todo
      BY <2>3 DEF LookupTranslate, RunTranslate, Translate
    <3> QED
      BY <1>4, <3>1, <3>2
  <2>4. CASE d = c /\ NextInsn(c)
    BY <1>4, <2>4 DEF NextInsn
  <2>5. CASE d = c /\ ReadField(c)
    BY <1>4, <2>5 DEF ReadField
  <2>6. CASE d = c /\ (ReadsDone(c) \/ TestsDone(c))
    BY <1>4, <2>6 DEF ReadsDone, TestsDone, AllDone
  <2>7. CASE d = c /\ TestField(c)
    BY <1>4, <2>7 DEF TestField, IsDynamic
  <2>8. CASE d = c /\ TestMark(c)
    BY <1>4, <2>8 DEF TestMark, IsDynamic
  <2>9. CASE d = c /\ MarkField(c)
    BY <1>4, <2>9 DEF MarkField
  <2>10. CASE d = c /\ MarkPage(c)
    BY <1>4, <2>10 DEF MarkPage, StorePage
  <2>11. CASE d = c /\ InsnDone(c)
    BY <1>4, <2>11 DEF InsnDone
  <2>12. CASE d = c /\ Insert(c)
    BY <1>4, <2>12 DEF Insert
  <2> HIDE DEF Goto, Making, Typed, TypeOK
  <2> QED
    BY <2>1, <2>2, <2>3, <2>4, <2>5, <2>6, <2>7, <2>8, <2>9, <2>10, <2>11, <2>12,
       StepFrame
<1> QED
  BY <1>1, <1>5 DEF Building, Marked

LEMMA BakedNext ==
  ASSUME StoreBuffer = 0, Typed, Typed', NEW c \in CPUs, CpuStep(c), Control(c),
         Building(c), NEW d \in CPUs, NEW s \in Starts, Baked(d, s)
  PROVE  Baked(d, s)'
<1>1. dyn_map \subseteq dyn_map'
  BY MapStep
<1>2. \A w : Marked(w) => Marked(w)' \/ w \in dyn_map'
  BY MarkedStays
<1>3. ASSUME htab'[d][s].fixed = htab[d][s].fixed,
             htab'[d][s].mask = htab[d][s].mask,
             htab'[d][s].cover = htab[d][s].cover
      PROVE  Baked(d, s)'
  <2>1. ASSUME NEW w \in htab'[d][s].fixed, w \in dyn_map' PROVE DropQ(d, w)'
    <3>1. w \in htab[d][s].cover /\ w \in Words
      BY <1>3, <2>1 DEF Baked, Block, Typed, TypeOK
    <3>2. CASE w \notin dyn_map
      BY <2>1, <3>2, MapStep
    <3>3. CASE w \in dyn_map
      <4>1. DropQ(d, w)
        BY <1>3, <2>1, <3>3 DEF Baked
      <4>2. ASSUME c = d, Drops(c, w) PROVE FALSE
        BY <2>1, <3>1, <4>2, DroppedGone DEF NoBlock
      <4> QED
        BY <3>1, <4>1, <4>2, DropStays
    <3> QED
      BY <3>2, <3>3
  <2> QED
    BY <1>1, <1>2, <1>3, <2>1 DEF Baked
<1>4. CASE htab'[d][s] = htab[d][s]
  BY <1>3, <1>4
<1>5. CASE htab'[d][s] = NoBlock
  BY <1>5 DEF NoBlock, Baked
<1>6. CASE Insert(c) /\ d = c /\ s = tstart[c] /\ htab'[d][s] = NewBlock(c)
  <2>1. /\ pc[c] = "tinsn"
        /\ UNCHANGED <<static_map, page_map, dyn_map, queue, qoverflow, hitw, to>>
    BY <1>6 DEF Insert
  <2>2. \A w : DropQ(c, w) => DropQ(c, w)'
    BY <2>1 DEF DropQ
  <2>3. /\ htab'[d][s].fixed = fixed[c] /\ htab'[d][s].mask = mask[c]
        /\ htab'[d][s].cover = cover[c] /\ fixed[c] \subseteq cover[c]
    BY <1>6, <2>1 DEF NewBlock, Building, Making
  <2> QED
    BY <1>6, <2>1, <2>2, <2>3 DEF Baked, Building, Marked
<1>7. CASE /\ Stamp(c) /\ d = c /\ s = tstart[c] /\ htab[d][s].valid
           /\ htab'[d][s] = [htab[d][s] EXCEPT !.stamp = epoch + 1]
  <2>1. htab[d][s] \in Block
    BY DEF Typed, TypeOK
  <2> QED
    BY <1>3, <1>7, <2>1 DEF Block
<1> QED
  BY <1>4, <1>5, <1>6, <1>7, BlockStep

-----------------------------------------------------------------------------
(* The unchecked blocks *)

(* What a step makes of the unchecked blocks of CPU d: all are dropped with *)
(* their code, the oldest is checked, or a new one joins.                   *)
LEMMA PendingStep ==
  ASSUME StoreBuffer = 0, Typed, NEW c \in CPUs, CpuStep(c), NEW d \in CPUs
  PROVE  \/ pending'[d] = pending[d]
         \/ pending'[d] = <<>> /\ \A s \in Starts : htab'[d][s] = NoBlock
         \/ CheckOldest(c) /\ d = c /\ pending'[d] = Tail(pending[d])
         \/ /\ Stamp(c) /\ d = c
            /\ pending'[d] = Append(pending[d], [start |-> tstart[c],
                                                 stamp |-> epoch + 1])
<1>1. CASE d # c
  BY <1>1, OthersLocal
<1>2. CASE UNCHANGED <<htab, pending>> \/ DrainWord(c) \/ HitClear(c) \/ Insert(c)
  BY <1>2 DEF DrainWord, HitClear, Insert
<1>3. CASE d = c /\ DrainOverflow(c)
  BY <1>3 DEF DrainOverflow, Flushed, Typed, TypeOK
<1>4. CASE d = c /\ (LookupTranslate(c) \/ RunTranslate(c))
  <2>1. \/ UNCHANGED pending
        \/ htab' = [htab EXCEPT ![c] = Flushed] /\ pending' = [pending EXCEPT ![c] = <<>>]
    BY <1>4 DEF LookupTranslate, RunTranslate, Translate
  <2> QED
    BY <1>4, <2>1 DEF Flushed, Typed, TypeOK
<1>5. CASE d = c /\ CheckOldest(c)
  BY <1>5 DEF CheckOldest, Typed, TypeOK
<1>6. CASE d = c /\ Stamp(c)
  BY <1>6 DEF Stamp, StampBlock, Typed, TypeOK
<1> QED
  BY <1>1, <1>2, <1>3, <1>4, <1>5, <1>6, StepFrame

(* A block no longer waiting to be checked was just checked, or dropped. *)
LEMMA CheckedStep ==
  ASSUME StoreBuffer = 0, Typed, NEW c \in CPUs, CpuStep(c), NEW d \in CPUs,
         NEW s \in Starts, Checked(d, s)', ~Checked(d, s),
         htab'[d][s] = htab[d][s]
  PROVE  /\ CheckOldest(c) /\ d = c
         /\ Head(pending[c]) = [start |-> s, stamp |-> htab[d][s].stamp]
<1>1. PICK i \in 1 .. Len(pending[d]) :
        pending[d][i] = [start |-> s, stamp |-> htab[d][s].stamp]
  BY DEF Checked
<1>2. pending[d] \in Seq(PendingEntry) /\ htab'[d][s].valid
  BY DEF Typed, TypeOK, Checked
<1>3. \A j \in 1 .. Len(pending'[d]) :
        pending'[d][j] # [start |-> s, stamp |-> htab[d][s].stamp]
  BY DEF Checked
<1>4. pending'[d] # pending[d]
  BY <1>1, <1>3
<1>5. ~ \A r \in Starts : htab'[d][r] = NoBlock
  BY <1>2 DEF NoBlock
<1>6. CASE CheckOldest(c) /\ d = c /\ pending'[d] = Tail(pending[d])
  <2>1. CASE i = 1
    BY <1>1, <1>2, <1>6, <2>1
  <2>2. CASE i # 1
    <3>1. i - 1 \in 1 .. Len(pending'[d]) /\ pending'[d][i - 1] = pending[d][i]
      BY <1>2, <1>6, <2>2
    <3> QED
      BY <1>1, <1>3, <3>1
  <2> QED
    BY <2>1, <2>2
<1>7. ASSUME NEW e, pending'[d] = Append(pending[d], e) PROVE FALSE
  <2>1. i \in 1 .. Len(pending'[d]) /\ pending'[d][i] = pending[d][i]
    BY <1>2, <1>7
  <2> QED
    BY <1>1, <1>3, <2>1
<1> QED
  BY <1>4, <1>5, <1>6, <1>7, PendingStep

(* stamp <= min(p, q) only if stamp <= p and stamp <= q *)
LEMMA PassedLeast ==
  ASSUME NEW n \in Nat, NEW p \in Nat \cup {Idle}, NEW q \in Nat \cup {Idle},
         Passed(n, LeastQuiet(p, q))
  PROVE  Passed(n, p) /\ Passed(n, q)
  BY CoherenceAssumption DEF Passed, LeastQuiet

(* A CPU with a tested store has published an epoch, and no scan of a       *)
(* translating CPU is going on.                                             *)
LEMMA ArmedPublished ==
  ASSUME Typed, NEW d \in CPUs, Control(d), armed[d] # {}
  PROVE  quiet[d] \in Nat /\ quiet[d] <= epoch
  BY DEF Control, Typed, TypeOK, Hitting

LEMMA StampUnread ==
  ASSUME Typed, NEW c \in CPUs, Control(c), Stamp(c)
  PROVE  unread'[c] = CPUs
<1>1. pc[c] = "twait" /\ unread' = unread
  BY DEF Stamp, StampBlock
<1> QED
  BY <1>1 DEF Control, Typed, Locals, Hitting

(* A word newly tested is not baked into the block, or is dynamic. *)
LEMMA ArmedStep ==
  ASSUME StoreBuffer = 0, Typed, NEW c \in CPUs, CpuStep(c), Control(c),
         NEW d \in CPUs, NEW w \in armed'[d], w \notin armed[d]
  PROVE  w \in dyn_map \/ ~Marked(w)
<1>1. d = c
  BY OthersLocal
<1>2. CASE UNCHANGED armed \/ armed' = [armed EXCEPT ![c] = {}]
  BY <1>1, <1>2 DEF Typed, TypeOK
<1>3. CASE RunTest(c)
  BY <1>1, <1>3 DEF RunTest, Typed, TypeOK
<1>4. CASE HitSkip(c)
  BY <1>1, <1>4 DEF HitSkip, ArmIfStoring, Marked, Typed, TypeOK
<1>5. CASE HitSent(c)
  BY <1>1, <1>5 DEF HitSent, ArmIfStoring, Control, Typed, TypeOK
<1> QED
  BY <1>2, <1>3, <1>4, <1>5, StepFrame

(* While a CPU has a store it tested, it publishes nothing. *)
LEMMA ArmedQuiet ==
  ASSUME StoreBuffer = 0, Typed, NEW c \in CPUs, CpuStep(c), Control(c),
         NEW d \in CPUs, NEW w \in armed'[d] \cap armed[d]
  PROVE  quiet'[d] = quiet[d]
<1>1. CASE d # c
  BY <1>1, OthersLocal
<1>2. CASE d = c /\ Publish(c)
  BY <1>2 DEF Publish, Control, Hitting
<1>3. CASE d = c /\ (LookupEnd(c) \/ RunWatch(c))
  BY <1>3 DEF LookupEnd, RunWatch, LeaveRun, Typed, TypeOK
<1> QED
  BY <1>1, <1>2, <1>3, StepFrame

LEMMA TestedNext ==
  ASSUME StoreBuffer = 0, Typed, Typed', NEW a \in CPUs, CpuStep(a), Control(a),
         NEW c \in CPUs, NEW d \in CPUs, NEW s \in Starts,
         Control(c), Control(d), Control(c)', Baked(c, s), Tested(c, s, d)
  PROVE  Tested(c, s, d)'
<1> SUFFICES ASSUME NEW w \in htab'[c][s].fixed \cap armed'[d], w \notin dyn_map'
             PROVE  /\ htab'[c][s].stamp # 0 => quiet'[d] < htab'[c][s].stamp
                    /\ ~ \E i \in 1 .. Len(pending'[c]) :
                           /\ pending'[c][i] =
                                [start |-> s, stamp |-> htab'[c][s].stamp]
                           /\ Passed(pending'[c][i].stamp, minq'[c])
                           /\ d \notin unread'[c]
                    /\ ~Checked(c, s)'
  BY DEF Tested
<1>1. w \notin dyn_map
  BY MapStep
<1>2. CASE htab'[c][s] = NoBlock
  BY <1>2 DEF NoBlock
<1>3. CASE Insert(a) /\ c = a /\ s = tstart[a] /\ htab'[c][s] = NewBlock(a)
  <2>1. htab'[c][s].stamp = 0
    BY <1>3 DEF NewBlock
  <2>2. \A i \in 1 .. Len(pending'[c]) : pending'[c][i].stamp # 0
    BY DEF Control
  <2> QED
    BY <2>1, <2>2 DEF Checked
<1>4. CASE /\ Stamp(a) /\ c = a /\ s = tstart[a] /\ htab[c][s].valid
           /\ htab'[c][s] = [htab[c][s] EXCEPT !.stamp = epoch + 1]
  <2>1. armed' = armed /\ quiet' = quiet
    BY <1>4 DEF Stamp, StampBlock
  <2>2. htab[c][s] \in Block /\ epoch \in Nat /\ pending[c] \in Seq(PendingEntry)
    BY DEF Typed, TypeOK
  <2>3. htab'[c][s].stamp = epoch + 1
    BY <1>4, <2>2 DEF Block
  <2>4. quiet'[d] < epoch + 1
    BY <2>1, <2>2, ArmedPublished
  <2>5. unread'[c] = CPUs
    BY <1>4, StampUnread
  <2>6. pending'[c] = Append(pending[c], [start |-> s, stamp |-> epoch + 1])
    BY <1>4 DEF Stamp, StampBlock, Typed, TypeOK
  <2>7. /\ Len(pending'[c]) \in 1 .. Len(pending'[c])
        /\ pending'[c][Len(pending'[c])] = [start |-> s, stamp |-> epoch + 1]
    BY <2>2, <2>6
  <2> QED
    BY <2>3, <2>4, <2>5, <2>7 DEF Checked
<1>5. CASE htab'[c][s] = htab[c][s]
  <2> DEFINE n == htab[c][s].stamp
  <2> DEFINE E == [start |-> s, stamp |-> n]
  <2>1. w \in armed[d]
    BY <1>1, <1>5, ArmedStep DEF Baked
  <2>2. quiet'[d] = quiet[d] /\ quiet[d] \in Nat
    BY <2>1, ArmedQuiet, ArmedPublished
  <2>3. n # 0 => quiet[d] < n
    BY <1>1, <1>5, <2>1 DEF Tested
  <2>4. \A i \in 1 .. Len(pending[c]) :
          pending[c][i] = E /\ Passed(n, minq[c]) => d \in unread[c]
    BY <1>1, <1>5, <2>1 DEF Tested
  <2>5. ~Checked(c, s)
    BY <1>1, <1>5, <2>1 DEF Tested
  <2>6. ~Checked(c, s)'
    <3> SUFFICES ASSUME Checked(c, s)' PROVE FALSE
      OBVIOUS
    <3>1. CheckOldest(a) /\ c = a /\ Head(pending[c]) = E
      BY <1>5, <2>5, CheckedStep
    <3>2. unread[c] = {} /\ pending[c] # <<>> /\ Passed(Head(pending[c]).stamp, minq[c])
      BY <3>1 DEF CheckOldest, Ready
    <3>3. pending[c] \in Seq(PendingEntry)
      BY DEF Typed, TypeOK
    <3>4. 1 \in 1 .. Len(pending[c]) /\ pending[c][1] = E
      BY <3>1, <3>2, <3>3
    <3> QED
      BY <2>4, <3>1, <3>2, <3>4
  <2>7. ASSUME NEW i \in 1 .. Len(pending'[c]), pending'[c][i] = E,
               Passed(n, minq'[c]), d \notin unread'[c]
        PROVE  FALSE
    <3>1. n \in Nat /\ n # 0 /\ pending[c] \in Seq(PendingEntry)
      <4>1. htab[c][s] \in Block /\ pending[c] \in Seq(PendingEntry)
        BY DEF Typed, TypeOK
      <4> QED
        BY <2>7, <4>1 DEF Control, Block
    <3>2. \E j \in 1 .. Len(pending[c]) : pending[c][j] = E
      <4>1. CASE pending'[c] = pending[c]
        BY <2>7, <4>1
      <4>2. CASE pending'[c] = <<>>
        BY <2>7, <4>2, EmptySeq
      <4>3. CASE CheckOldest(a) /\ c = a /\ pending'[c] = Tail(pending[c])
        <5>1. pending[c] # <<>>
          BY <4>3 DEF CheckOldest, Ready
        <5>2. i + 1 \in 1 .. Len(pending[c]) /\ pending[c][i + 1] = pending'[c][i]
          BY <3>1, <4>3, <5>1, <2>7
        <5> QED
          BY <2>7, <5>2
      <4>4. CASE Stamp(a) /\ c = a
        BY <2>7, <4>4, StampUnread
      <4> QED
        BY <4>1, <4>2, <4>3, <4>4, PendingStep
    <3>3. CASE UNCHANGED <<unread, minq>>
      BY <2>4, <2>7, <3>2, <3>3
    <3>4. CASE c # a
      BY <2>4, <2>7, <3>2, <3>4, OthersLocal
    <3>5. CASE c = a /\ CheckDone(a)
      BY <2>7, <3>5 DEF CheckDone, Typed, TypeOK
    <3>6. CASE c = a /\ ScanQuiet(a)
      <4>1. PICK e \in unread[c] :
              /\ minq' = [minq EXCEPT ![c] = LeastQuiet(@, quiet[e])]
              /\ unread' = [unread EXCEPT ![c] = @ \ {e}]
        BY <3>6 DEF ScanQuiet, SeesQuiet
      <4>2. /\ minq'[c] = LeastQuiet(minq[c], quiet[e])
            /\ unread'[c] = unread[c] \ {e}
            /\ minq[c] \in Nat \cup {Idle} /\ quiet[e] \in Nat \cup {Idle}
        <5>1. /\ unread \in [CPUs -> SUBSET CPUs]
              /\ minq \in [CPUs -> Nat \cup {Idle}]
              /\ quiet \in [CPUs -> Nat \cup {Idle}]
          BY DEF Typed, TypeOK
        <5>2. e \in CPUs
          BY <5>1
        <5> QED
          BY <4>1, <5>1, <5>2
      <4>3. Passed(n, minq[c]) /\ Passed(n, quiet[e])
        <5> HIDE DEF n
        <5>1. Passed(n, LeastQuiet(minq[c], quiet[e]))
          BY <2>7, <4>2
        <5> QED
          BY <3>1, <4>2, <5>1, PassedLeast
      <4>4. d \in unread[c]
        BY <2>4, <3>2, <4>3
      <4>5. d = e
        BY <2>7, <4>2, <4>4
      <4> QED
        BY <2>2, <2>3, <3>1, <4>3, <4>5, CoherenceAssumption DEF Passed
    <3> QED
      BY <3>3, <3>4, <3>5, <3>6, StepFrame
  <2> QED
    BY <1>5, <2>2, <2>3, <2>6, <2>7
<1> QED
  BY <1>2, <1>3, <1>4, <1>5, BlockStep

(* A CPU makes no block while it has a store it tested, and tests no store   *)
(* to a word one of its blocks bakes in but one that is dynamic by then.     *)
LEMMA OwnTestedNext ==
  ASSUME StoreBuffer = 0, Typed, NEW a \in CPUs, CpuStep(a), Control(a),
         NEW c \in CPUs, NEW s \in Starts, Baked(c, s), OwnTested(c, s)
  PROVE  OwnTested(c, s)'
<1> SUFFICES ASSUME NEW w \in htab'[c][s].fixed, w \in armed'[c] PROVE w \in dyn_map'
  BY DEF OwnTested
<1>1. CASE htab'[c][s] = NoBlock
  BY <1>1 DEF NoBlock
<1>2. CASE Insert(a) /\ c = a /\ s = tstart[a] /\ htab'[c][s] = NewBlock(a)
  BY <1>2 DEF Insert, Control, Hitting
<1>3. CASE htab'[c][s].fixed = htab[c][s].fixed
  <2>1. w \in dyn_map
    BY <1>3, ArmedStep DEF OwnTested, Baked
  <2> QED
    BY <2>1, MapStep
<1>4. CASE /\ Stamp(a) /\ c = a /\ s = tstart[a] /\ htab[c][s].valid
           /\ htab'[c][s] = [htab[c][s] EXCEPT !.stamp = epoch + 1]
  BY <1>3, <1>4 DEF Typed, TypeOK, Block
<1> QED
  BY <1>1, <1>2, <1>3, <1>4, BlockStep

-----------------------------------------------------------------------------
(* What memory holds *)

(* A word revalidate is about to turn dynamic stays so until it has. *)
AboutToHit(c, w) ==
  after[c] = "reval" /\ (w \in hits[c] \/ (pc[c] = "hit" /\ hitw[c] = w))

LEMMA AboutToHitStays ==
  ASSUME StoreBuffer = 0, Typed, NEW a \in CPUs, CpuStep(a), NEW c \in CPUs, NEW w,
         AboutToHit(c, w)
  PROVE  AboutToHit(c, w)' \/ w \in dyn_map'
<1>1. CASE a # c
  BY <1>1, OthersLocal DEF AboutToHit
<1>2. CASE a = c
  <2>1. pc[c] \in Hitting
    BY DEF AboutToHit, Typed, Locals
  <2> USE DEF AboutToHit, Goto, Typed, TypeOK
  <2>2. CASE HitSkip(c)
    BY <2>2 DEF HitSkip, Forced
  <2>3. CASE HitBegin(c)
    BY <2>3 DEF HitBegin
  <2>4. CASE HitDyn(c)
    BY <2>4 DEF HitDyn
  <2>5. CASE HitClear(c)
    BY <2>5 DEF HitClear
  <2>6. CASE HitSend(c)
    BY <2>6 DEF HitSend
  <2>7. CASE HitSent(c)
    BY <2>7 DEF HitSent
  <2>8. CASE HitsDone(c)
    BY <2>8 DEF HitsDone
  <2> HIDE DEF AboutToHit, Goto, Typed, TypeOK
  <2> QED
    BY <1>2, <2>1, <2>2, <2>3, <2>4, <2>5, <2>6, <2>7, <2>8, StepFrame
<1> QED
  BY <1>1, <1>2

LEMMA CurrentNext ==
  ASSUME StoreBuffer = 0, Typed, Typed', NEW a \in CPUs, CpuStep(a), Control(a),
         NEW c \in CPUs, NEW s \in Starts, Baked(c, s), Tested(c, s, a),
         Current(c, s)
  PROVE  Current(c, s)'
<1> SUFFICES ASSUME Checked(c, s)', NEW w \in htab'[c][s].fixed, w \notin dyn_map'
             PROVE  htab'[c][s].val[w] = mem'[w] \/ AboutToHit(c, w)'
  BY DEF Current, AboutToHit
<1>1. w \notin dyn_map
  BY MapStep
<1>2. CASE htab'[c][s] = NoBlock
  BY <1>2 DEF NoBlock
<1>3. CASE Insert(a) /\ c = a /\ s = tstart[a] /\ htab'[c][s] = NewBlock(a)
  BY <1>3 DEF NewBlock, Checked
<1>4. CASE /\ Stamp(a) /\ c = a /\ s = tstart[a] /\ htab[c][s].valid
           /\ htab'[c][s] = [htab[c][s] EXCEPT !.stamp = epoch + 1]
  <2>1. htab[c][s] \in Block /\ pending[c] \in Seq(PendingEntry)
    BY DEF Typed, TypeOK
  <2>2. htab'[c][s].stamp = epoch + 1
    BY <1>4, <2>1 DEF Block
  <2>3. pending'[c] = Append(pending[c], [start |-> s, stamp |-> epoch + 1])
    BY <1>4 DEF Stamp, StampBlock, Typed, TypeOK
  <2>4. /\ Len(pending'[c]) \in 1 .. Len(pending'[c])
        /\ pending'[c][Len(pending'[c])] = [start |-> s, stamp |-> epoch + 1]
    BY <2>1, <2>3
  <2> QED
    BY <2>2, <2>4 DEF Checked
<1>5. CASE htab'[c][s] = htab[c][s] /\ Checked(c, s)
  <2>1. htab[c][s].val[w] = mem[w] \/ AboutToHit(c, w)
    BY <1>1, <1>5 DEF Current, AboutToHit
  <2>2. w \notin armed[a]
    BY <1>1, <1>5 DEF Tested
  <2>3. mem'[w] = mem[w]
    <3>1. CASE InterpStore(a) \/ RunStore(a)
      <4>1. \E x \in armed[a], v \in Values : mem' = [mem EXCEPT ![x] = v]
        BY <3>1 DEF InterpStore, RunStore, StoreMem
      <4> QED
        BY <2>2, <4>1 DEF Typed, TypeOK
    <3> QED
      BY <3>1, StepFrame
  <2> QED
    BY <1>5, <2>1, <2>3, AboutToHitStays
<1>6. CASE htab'[c][s] = htab[c][s] /\ ~Checked(c, s)
  <2>1. /\ CheckOldest(a) /\ c = a
        /\ Head(pending[a]) = [start |-> s, stamp |-> htab[c][s].stamp]
    BY <1>6, CheckedStep
  <2>2. w \in htab[c][s].mask
    BY <1>1, <1>6 DEF Baked
  <2>3. StillValid(c, Head(pending[c]))
    BY <1>6, <2>1 DEF StillValid, Checked
  <2>4. CASE SameFields(c, htab[c][s])
    <3>1. mem' = mem
      BY <2>1 DEF CheckOldest
    <3> QED
      BY <1>6, <2>2, <2>4, <3>1 DEF SameFields, Sees
  <2>5. CASE ~SameFields(c, htab[c][s])
    <3>1. /\ hits' = [hits EXCEPT ![c] = htab[c][s].mask]
          /\ after' = [after EXCEPT ![c] = "reval"]
      BY <2>1, <2>3, <2>5 DEF CheckOldest
    <3> QED
      BY <2>2, <3>1 DEF AboutToHit, Typed, TypeOK
  <2> QED
    BY <2>4, <2>5
<1> QED
  BY <1>2, <1>3, <1>4, <1>5, <1>6, BlockStep

-----------------------------------------------------------------------------
(* Together *)

LEMMA CodeInvInit == Init => CodeInv
<1> SUFFICES ASSUME Init PROVE CodeInv
  OBVIOUS
<1>1. Typed
  BY TypedInit
<1>2. ASSUME NEW c \in CPUs PROVE Control(c) /\ Building(c)
  BY EmptySeq, CoherenceAssumption DEF Init, Control, Building, Making, Hitting
<1>3. ASSUME NEW c \in CPUs, NEW s \in Starts PROVE htab[c][s] = NoBlock
  BY DEF Init, Flushed
<1> QED
  BY <1>1, <1>2, <1>3 DEF CodeInv, Baked, OwnTested, Current, Checked, Tested, NoBlock

LEMMA CodeInvNext ==
  ASSUME StoreBuffer = 0, CodeInv, [Next]_vars
  PROVE  CodeInv'
<1>1. CASE UNCHANGED vars
  <2> USE <1>1 DEF vars, CodeInv
  <2>1. Typed'
    BY TypedNext
  <2>2. ASSUME NEW c \in CPUs PROVE Control(c)' /\ Building(c)'
    BY DEF Control, Building, DropQ, Marked
  <2>3. ASSUME NEW c \in CPUs, NEW s \in Starts
        PROVE  Baked(c, s)' /\ OwnTested(c, s)' /\ Current(c, s)'
    BY DEF Baked, OwnTested, Current, Checked, DropQ, Marked
  <2>4. ASSUME NEW c \in CPUs, NEW d \in CPUs, NEW s \in Starts PROVE Tested(c, s, d)'
    BY DEF Tested, Checked
  <2> HIDE DEF vars
  <2> QED
    BY <2>1, <2>2, <2>3, <2>4
<1>2. ASSUME NEW a \in CPUs, CpuStep(a) PROVE CodeInv'
  <2>1. Typed /\ Typed' /\ \A c \in CPUs : Control(c) /\ Building(c)
    BY <1>2, TypedNext DEF CodeInv, Next, CpuStep
  <2>2. ASSUME NEW c \in CPUs PROVE Control(c)'
    BY <1>2, <2>1, ControlNext DEF Next, CpuStep
  <2>3. ASSUME NEW c \in CPUs PROVE Building(c)'
    BY <1>2, <2>1, BuildingNext
  <2>4. ASSUME NEW c \in CPUs, NEW s \in Starts PROVE Baked(c, s)'
    BY <1>2, <2>1, BakedNext DEF CodeInv
  <2>5. ASSUME NEW c \in CPUs, NEW s \in Starts PROVE Current(c, s)'
    BY <1>2, <2>1, CurrentNext DEF CodeInv
  <2>6. ASSUME NEW c \in CPUs, NEW d \in CPUs, NEW s \in Starts PROVE Tested(c, s, d)'
    BY <1>2, <2>1, <2>2, TestedNext DEF CodeInv
  <2>7. ASSUME NEW c \in CPUs, NEW s \in Starts PROVE OwnTested(c, s)'
    BY <1>2, <2>1, OwnTestedNext DEF CodeInv
  <2> QED
    BY <2>1, <2>2, <2>3, <2>4, <2>5, <2>6, <2>7 DEF CodeInv
<1> QED
  BY <1>1, <1>2 DEF Next, CpuStep

(* What the invariant says of each property *)
LEMMA CodeInvProperties ==
  ASSUME CodeInv
  PROVE  /\ CheckedCodeIsCurrent /\ DynamicCodeIsDropped /\ BakedFieldsAreMarked
         /\ OwnStoresMissOwnCode
<1>1. ASSUME NEW c \in CPUs, NEW w, DropQ(c, w) PROVE Dropping(c, w)
  BY <1>1 DEF DropQ, Dropping
<1>2. DynamicCodeIsDropped /\ BakedFieldsAreMarked
  BY <1>1 DEF CodeInv, Baked, DynamicCodeIsDropped, BakedFieldsAreMarked
<1>3. ASSUME NEW c \in CPUs, NEW s \in Starts, Checked(c, s), NEW w \in htab[c][s].fixed
      PROVE  htab[c][s].val[w] = mem[w] \/ Dropping(c, w)
  <2>1. CASE w \in dyn_map
    BY <1>1, <1>3, <2>1 DEF CodeInv, Baked
  <2>2. CASE pc[c] = "hit" /\ hitw[c] = w
    BY <2>2 DEF CodeInv, Control, Dropping
  <2>3. CASE after[c] = "reval" /\ w \in hits[c]
    BY <2>3 DEF Dropping
  <2> QED
    BY <1>3, <2>1, <2>2, <2>3 DEF CodeInv, Current
<1>4. OwnStoresMissOwnCode
  BY <1>1 DEF CodeInv, Baked, OwnTested, OwnStoresMissOwnCode
<1> QED
  BY <1>2, <1>3, <1>4 DEF CheckedCodeIsCurrent

(* The translated code of every CPU is coherent with memory, for any number *)
(* of CPUs, words, values and blocks, and any ring sizes (jit.c 11-35).     *)
THEOREM CoherenceCurrent ==
  ASSUME StoreBuffer = 0
  PROVE  Spec => []CheckedCodeIsCurrent
<1>1. CodeInv /\ [Next]_vars => CodeInv'
  BY CodeInvNext
<1> QED
  BY <1>1, CodeInvInit, CodeInvProperties, PTL DEF Spec

(* No CPU keeps code made of a word that was caught being written (dyn_map). *)
THEOREM CoherenceDynamic ==
  ASSUME StoreBuffer = 0
  PROVE  Spec => []DynamicCodeIsDropped
<1>1. CodeInv /\ [Next]_vars => CodeInv'
  BY CodeInvNext
<1> QED
  BY <1>1, CodeInvInit, CodeInvProperties, PTL DEF Spec

(* A store finds the mark of every field baked into code that stays.        *)
THEOREM CoherenceMarks ==
  ASSUME StoreBuffer = 0
  PROVE  Spec => []BakedFieldsAreMarked
<1>1. CodeInv /\ [Next]_vars => CodeInv'
  BY CodeInvNext
<1> QED
  BY <1>1, CodeInvInit, CodeInvProperties, PTL DEF Spec

(* The stores a CPU is about to make, interpreted or in translated code,     *)
(* miss the code it keeps (jit.c 383).                                       *)
THEOREM CoherenceOwnStores ==
  ASSUME StoreBuffer = 0
  PROVE  Spec => []OwnStoresMissOwnCode
<1>1. CodeInv /\ [Next]_vars => CodeInv'
  BY CodeInvNext
<1> QED
  BY <1>1, CodeInvInit, CodeInvProperties, PTL DEF Spec

-----------------------------------------------------------------------------
(* JitCoherence implements JitGrace: what the CPUs do with epoch, quiet and  *)
(* their rings of unchecked blocks is a behaviour of the small module, the   *)
(* blocks read as their stamps and the places of the code as its places      *)
(* (Place, Stamps).  Every step of a CPU is one step of that CPU there, or   *)
(* changes nothing it sees.                                                  *)

(* A ring of blocks, read as their stamps *)
StampsOf(s) == [i \in 1 .. Len(s) |-> s[i].stamp]

-----------------------------------------------------------------------------
LEMMA SameSeq ==
  ASSUME NEW S, NEW s \in Seq(S), NEW t \in Seq(S), Len(s) = Len(t),
         \A i \in 1 .. Len(s) : s[i] = t[i]
  PROVE  s = t
  OBVIOUS

LEMMA StampsOfType ==
  ASSUME NEW s \in Seq(PendingEntry)
  PROVE  /\ StampsOf(s) \in Seq(Nat)
         /\ Len(StampsOf(s)) = Len(s)
         /\ \A i \in 1 .. Len(s) : StampsOf(s)[i] = s[i].stamp
         /\ StampsOf(s) = <<>> <=> s = <<>>
         /\ s # <<>> => Head(StampsOf(s)) = Head(s).stamp
<1>1. Len(s) \in Nat /\ \A i \in 1 .. Len(s) : s[i].stamp \in Nat
  <2>1. \A e \in PendingEntry : e.stamp \in Nat
    BY DEF PendingEntry
  <2>2. Len(s) \in Nat /\ \A i \in 1 .. Len(s) : s[i] \in PendingEntry
    OBVIOUS
  <2> QED
    BY <2>1, <2>2
<1>2. StampsOf(s) \in Seq(Nat) /\ Len(StampsOf(s)) = Len(s)
  BY <1>1 DEF StampsOf
<1>3. \A i \in 1 .. Len(s) : StampsOf(s)[i] = s[i].stamp
  BY DEF StampsOf
<1>4. StampsOf(s) = <<>> <=> s = <<>>
  BY <1>1, <1>2
<1>5. s # <<>> => Head(StampsOf(s)) = Head(s).stamp
  BY <1>1, <1>2, <1>3, <1>4
<1> QED
  BY <1>2, <1>3, <1>4, <1>5

LEMMA StampsOfTail ==
  ASSUME NEW s \in Seq(PendingEntry), s # <<>>
  PROVE  StampsOf(Tail(s)) = Tail(StampsOf(s))
<1>1. /\ Tail(s) \in Seq(PendingEntry) /\ Len(Tail(s)) = Len(s) - 1
      /\ \A i \in 1 .. Len(s) - 1 : Tail(s)[i] = s[i + 1]
  OBVIOUS
<1>2. /\ StampsOf(s) \in Seq(Nat) /\ Len(StampsOf(s)) = Len(s) /\ StampsOf(s) # <<>>
      /\ \A i \in 1 .. Len(s) : StampsOf(s)[i] = s[i].stamp
  BY StampsOfType
<1>3. /\ Tail(StampsOf(s)) \in Seq(Nat) /\ Len(Tail(StampsOf(s))) = Len(s) - 1
      /\ \A i \in 1 .. Len(s) - 1 : Tail(StampsOf(s))[i] = StampsOf(s)[i + 1]
  BY <1>2
<1>4. /\ StampsOf(Tail(s)) \in Seq(Nat) /\ Len(StampsOf(Tail(s))) = Len(s) - 1
      /\ \A i \in 1 .. Len(s) - 1 : StampsOf(Tail(s))[i] = Tail(s)[i].stamp
  BY <1>1, StampsOfType
<1>5. \A i \in 1 .. Len(s) - 1 : i + 1 \in 1 .. Len(s)
  OBVIOUS
<1>6. \A i \in 1 .. Len(s) - 1 : StampsOf(Tail(s))[i] = Tail(StampsOf(s))[i]
  BY <1>1, <1>2, <1>3, <1>4, <1>5
<1> QED
  BY <1>3, <1>4, <1>6, SameSeq

LEMMA StampsOfAppend ==
  ASSUME NEW s \in Seq(PendingEntry), NEW e \in PendingEntry
  PROVE  StampsOf(Append(s, e)) = Append(StampsOf(s), e.stamp)
<1>1. /\ Append(s, e) \in Seq(PendingEntry) /\ Len(Append(s, e)) = Len(s) + 1
      /\ \A i \in 1 .. Len(s) : Append(s, e)[i] = s[i]
      /\ Append(s, e)[Len(s) + 1] = e
  OBVIOUS
<1>2. /\ StampsOf(s) \in Seq(Nat) /\ Len(StampsOf(s)) = Len(s) /\ e.stamp \in Nat
      /\ \A i \in 1 .. Len(s) : StampsOf(s)[i] = s[i].stamp
  BY StampsOfType DEF PendingEntry
<1>3. /\ Append(StampsOf(s), e.stamp) \in Seq(Nat)
      /\ Len(Append(StampsOf(s), e.stamp)) = Len(s) + 1
      /\ \A i \in 1 .. Len(s) : Append(StampsOf(s), e.stamp)[i] = s[i].stamp
      /\ Append(StampsOf(s), e.stamp)[Len(s) + 1] = e.stamp
  BY <1>2
<1>4. /\ StampsOf(Append(s, e)) \in Seq(Nat)
      /\ Len(StampsOf(Append(s, e))) = Len(s) + 1
      /\ \A i \in 1 .. Len(s) + 1 : StampsOf(Append(s, e))[i] = Append(s, e)[i].stamp
  BY <1>1, StampsOfType
<1>5. \A i \in 1 .. Len(s) + 1 : i \in 1 .. Len(s) \/ i = Len(s) + 1
  OBVIOUS
<1>6. \A i \in 1 .. Len(s) + 1 :
        StampsOf(Append(s, e))[i] = Append(StampsOf(s), e.stamp)[i]
  BY <1>1, <1>3, <1>4, <1>5
<1> QED
  BY <1>3, <1>4, <1>6, SameSeq

-----------------------------------------------------------------------------
(* Where a CPU is in JitGrace, by where it is in the code *)

At == [d \in CPUs |-> Place(d)]
Pend == [d \in CPUs |-> Stamps(d)]

LEMMA Places ==
  ASSUME NEW c \in CPUs
  PROVE  /\ pc[c] \in {"out", "top", "publish", "drain", "reval", "lookup", "run",
                       "twait"}
              => Place(c) = pc[c]
         /\ pc[c] = "drainq" => Place(c) = "drain"
         /\ pc[c] = "istore" => Place(c) = "work"
         /\ pc[c] \in Hitting
              => Place(c) = IF after[c] = "reval" THEN "reval" ELSE "work"
         /\ pc[c] \in Making => Place(c) = "trans"
  BY DEF Place, Forced, Hitting, Making, Translating

LEMMA PlacesNext ==
  ASSUME NEW c \in CPUs
  PROVE  /\ pc'[c] \in {"out", "top", "publish", "drain", "reval", "lookup", "run",
                        "twait"}
              => Place(c)' = pc'[c]
         /\ pc'[c] = "drainq" => Place(c)' = "drain"
         /\ pc'[c] = "istore" => Place(c)' = "work"
         /\ pc'[c] \in Hitting
              => Place(c)' = IF after'[c] = "reval" THEN "reval" ELSE "work"
         /\ pc'[c] \in Making => Place(c)' = "trans"
  BY DEF Place, Forced, Hitting, Making, Translating

(* What JitGrace sees of the other CPUs does not change. *)
LEMMA OthersStay ==
  ASSUME StoreBuffer = 0, Typed, NEW c \in CPUs, CpuStep(c)
  PROVE  /\ At' = [At EXCEPT ![c] = Place(c)'] /\ At[c] = Place(c)
         /\ Pend' = [Pend EXCEPT ![c] = Stamps(c)'] /\ Pend[c] = Stamps(c)
         /\ Place(c)' = Place(c) => At' = At
         /\ pending' = pending => Pend' = Pend
<1>1. \A d \in CPUs \ {c} : Place(d)' = Place(d) /\ Stamps(d)' = Stamps(d)
  BY OthersLocal DEF Place, Stamps, Forced
<1>2. At' = [d \in CPUs |-> Place(d)'] /\ Pend' = [d \in CPUs |-> Stamps(d)']
  BY DEF At, Pend
<1>3. [At EXCEPT ![c] = Place(c)'] = [d \in CPUs |-> Place(d)']
  BY <1>1 DEF At
<1>4. [Pend EXCEPT ![c] = Stamps(c)'] = [d \in CPUs |-> Stamps(d)']
  BY <1>1 DEF Pend
<1>5. At[c] = Place(c) /\ Pend[c] = Stamps(c)
  BY DEF At, Pend
<1>6. Place(c)' = Place(c) => At' = At
  BY <1>1, <1>2 DEF At
<1>7. pending' = pending => Pend' = Pend
  BY DEF Pend, Stamps
<1> QED
  BY <1>2, <1>3, <1>4, <1>5, <1>6, <1>7

-----------------------------------------------------------------------------
(* The steps of JitCoherence, by what they are in JitGrace *)

GraceStep(c) == Grace!EnterRun(c) \/ Grace!Step(c) \/ UNCHANGED Grace!vars

(* Nothing JitGrace sees of the dispatcher's variables changes. *)
GraceSame == UNCHANGED <<epoch, quiet, seen, unread, minq, back, tret>>

LEMMA QueueSteps ==
  ASSUME StoreBuffer = 0, Typed, NEW c \in CPUs, CpuStep(c),
         DrainNoOverflow(c) \/ DrainWord(c)
  PROVE  UNCHANGED Grace!vars
<1>1. GraceSame /\ UNCHANGED pending
  BY DEF DrainNoOverflow, DrainWord, GraceSame
<1>2. Place(c)' = Place(c)
  <2>1. pc[c] \in {"drain", "drainq"} /\ pc'[c] = "drainq"
    BY DEF DrainNoOverflow, DrainWord, Goto, Typed, TypeOK
  <2> QED
    BY <2>1, Places, PlacesNext
<1> QED
  BY <1>1, <1>2, OthersStay DEF GraceSame, Grace!vars, At, Pend

LEMMA RunSteps ==
  ASSUME StoreBuffer = 0, Typed, NEW c \in CPUs, CpuStep(c),
         RunTest(c) \/ RunStore(c) \/ RunLinked(c)
  PROVE  UNCHANGED Grace!vars
<1>1. GraceSame /\ UNCHANGED <<pc, pending>> /\ pc[c] = "run"
  BY DEF RunTest, RunStore, RunLinked, GraceSame
<1>2. Place(c)' = Place(c)
  BY <1>1, Places, PlacesNext
<1> QED
  BY <1>1, <1>2, OthersStay DEF GraceSame, Grace!vars, At, Pend

LEMMA HitSteps ==
  ASSUME StoreBuffer = 0, Typed, NEW c \in CPUs, CpuStep(c),
         \/ HitSkip(c) \/ HitBegin(c) \/ HitDyn(c) \/ HitClear(c)
         \/ HitSend(c) \/ HitSent(c)
  PROVE  UNCHANGED Grace!vars
<1>1. GraceSame /\ UNCHANGED <<pending, after>>
  BY DEF HitSkip, HitBegin, HitDyn, HitClear, HitSend, HitSent, GraceSame
<1>2. Place(c)' = Place(c)
  <2>1. pc[c] \in Hitting /\ pc'[c] \in Hitting
    BY DEF HitSkip, HitBegin, HitDyn, HitClear, HitSend, HitSent, Goto, Hitting,
           Typed, TypeOK
  <2> QED
    BY <1>1, <2>1, Places, PlacesNext
<1> QED
  BY <1>1, <1>2, OthersStay DEF GraceSame, Grace!vars, At, Pend

LEMMA MakingSteps ==
  ASSUME StoreBuffer = 0, Typed, NEW c \in CPUs, CpuStep(c),
         \/ NextInsn(c) \/ ReadField(c) \/ ReadsDone(c) \/ TestField(c)
         \/ TestsDone(c) \/ TestMark(c) \/ MarkField(c) \/ MarkPage(c) \/ InsnDone(c)
  PROVE  UNCHANGED Grace!vars
<1> USE DEF NextInsn, ReadField, ReadsDone, TestField, TestsDone, AllDone, TestMark,
            MarkField, MarkPage, StorePage, InsnDone
<1>1. GraceSame /\ UNCHANGED pending
  BY DEF GraceSame
<1>2. Place(c)' = Place(c)
  <2>1. pc[c] \in Making /\ pc'[c] \in Making
    BY DEF Goto, Making, Typed, TypeOK
  <2> QED
    BY <2>1, Places, PlacesNext
<1> HIDE DEF NextInsn, ReadField, ReadsDone, TestField, TestsDone, AllDone, TestMark,
             MarkField, MarkPage, StorePage, InsnDone
<1> QED
  BY <1>1, <1>2, OthersStay DEF GraceSame, Grace!vars, At, Pend

LEMMA DispatcherSteps ==
  ASSUME StoreBuffer = 0, Typed, NEW c \in CPUs, CpuStep(c)
  PROVE  /\ EnterRun(c) => Grace!EnterRun(c)
         /\ LoopTop(c) => Grace!LoopTop(c)
         /\ Publish(c) => Grace!Publish(c)
         /\ LookupEnd(c) \/ RunWatch(c) => Grace!LeaveRun(c)
         /\ LookupRun(c) => Grace!LookupRun(c)
<1>1. ASSUME EnterRun(c) PROVE Grace!EnterRun(c)
  <2>1. pc[c] = "out" /\ pc'[c] = "publish" /\ pending' = pending
    BY <1>1 DEF EnterRun, LoadEpoch, Goto, Typed, TypeOK
  <2>2. Place(c) = "out" /\ Place(c)' = "publish"
    BY <2>1, Places, PlacesNext
  <2> QED
    BY <1>1, <2>1, <2>2, OthersStay
       DEF EnterRun, LoadEpoch, Grace!EnterRun, Grace!LoadEpoch, Grace!Goto, At, Pend
<1>2. ASSUME LoopTop(c) PROVE Grace!LoopTop(c)
  <2>1. pc[c] = "top" /\ pc'[c] = "publish" /\ pending' = pending
    BY <1>2 DEF LoopTop, LoadEpoch, Goto, Typed, TypeOK
  <2>2. Place(c) = "top" /\ Place(c)' = "publish"
    BY <2>1, Places, PlacesNext
  <2> QED
    BY <1>2, <2>1, <2>2, OthersStay
       DEF LoopTop, LoadEpoch, Grace!LoopTop, Grace!LoadEpoch, Grace!Goto, At, Pend
<1>3. ASSUME Publish(c) PROVE Grace!Publish(c)
  <2>1. pc[c] = "publish" /\ pc'[c] = "drain" /\ pending' = pending
    BY <1>3 DEF Publish, Goto, Typed, TypeOK
  <2>2. Place(c) = "publish" /\ Place(c)' = "drain"
    BY <2>1, Places, PlacesNext
  <2> QED
    BY <1>3, <2>1, <2>2, OthersStay
       DEF Publish, StoreQuiet, Grace!Publish, Grace!Goto, At, Pend
<1>4. ASSUME LookupEnd(c) \/ RunWatch(c) PROVE Grace!LeaveRun(c)
  <2>1. pc[c] \in {"lookup", "run"} /\ pc'[c] = "out" /\ pending' = pending /\ LeaveRun(c)
    BY <1>4 DEF LookupEnd, RunWatch, LeaveRun, Goto, Typed, TypeOK
  <2>2. Place(c) \in {"lookup", "run"} /\ Place(c)' = "out"
    BY <2>1, Places, PlacesNext
  <2> QED
    BY <2>1, <2>2, OthersStay
       DEF LeaveRun, StoreQuiet, Grace!LeaveRun, Grace!Goto, At, Pend
<1>5. ASSUME LookupRun(c) PROVE Grace!LookupRun(c)
  <2>1. pc[c] = "lookup" /\ pc'[c] = "run" /\ pending' = pending
    BY <1>5 DEF LookupRun, Goto, Typed, TypeOK
  <2>2. Place(c) = "lookup" /\ Place(c)' = "run"
    BY <2>1, Places, PlacesNext
  <2> QED
    BY <1>5, <2>1, <2>2, OthersStay
       DEF LookupRun, Grace!LookupRun, Grace!Goto, At, Pend
<1> QED
  BY <1>1, <1>2, <1>3, <1>4, <1>5

(* An empty ring has no stamps. *)
LEMMA FlushedRing ==
  ASSUME NEW c \in CPUs, pending'[c] = <<>>
  PROVE  Stamps(c)' = <<>>
<1>1. Stamps(c)' = StampsOf(pending'[c])
  BY DEF Stamps, StampsOf
<1>2. StampsOf(<<>>) = <<>>
  BY EmptySeq, StampsOfType
<1> QED
  BY <1>1, <1>2

LEMMA DrainSteps ==
  ASSUME StoreBuffer = 0, Typed, NEW c \in CPUs, CpuStep(c),
         DrainOverflow(c) \/ DrainDone(c)
  PROVE  Grace!Drain(c)
<1>1. /\ pc[c] \in {"drain", "drainq"} /\ pc'[c] = "reval" /\ GraceSame
      /\ pending' = pending \/ pending'[c] = <<>>
  BY DEF DrainOverflow, DrainDone, Goto, GraceSame, Typed, TypeOK
<1>2. Place(c) = "drain" /\ Place(c)' = "reval"
  BY <1>1, Places, PlacesNext
<1>3. Pend' = Pend \/ Pend' = [Pend EXCEPT ![c] = <<>>]
  BY <1>1, OthersStay, FlushedRing
<1> QED
  BY <1>1, <1>2, <1>3, OthersStay
     DEF GraceSame, Grace!Drain, Grace!MayFlush, Grace!Goto, At, Pend

LEMMA WorkSteps ==
  ASSUME StoreBuffer = 0, Typed, NEW c \in CPUs, CpuStep(c)
  PROVE  /\ LookupInterp(c) \/ RunSmc(c) \/ RunHoist(c) => Grace!Work(c)
         /\ InterpStore(c) \/ RunLeave(c) => Grace!BackToTop(c)
         /\ HitsDone(c) => Grace!BackToTop(c) \/ UNCHANGED Grace!vars
<1>1. ASSUME LookupInterp(c) \/ RunSmc(c) \/ RunHoist(c) PROVE Grace!Work(c)
  <2>1. /\ pc[c] \in {"lookup", "run"} /\ pc'[c] = "hits" /\ after'[c] # "reval"
        /\ GraceSame /\ pending' = pending
    BY <1>1 DEF LookupInterp, RunSmc, RunHoist, InterpStep, Goto, GraceSame, Typed, TypeOK
  <2>2. Place(c) \in {"lookup", "run"} /\ Place(c)' = "work"
    BY <2>1, Places, PlacesNext DEF Hitting
  <2> QED
    BY <2>1, <2>2, OthersStay DEF GraceSame, Grace!Work, Grace!Goto, At, Pend
<1>2. ASSUME InterpStore(c) \/ RunLeave(c) PROVE Grace!BackToTop(c)
  <2>1. /\ pc[c] \in {"istore", "run"} /\ pc'[c] = "top"
        /\ GraceSame /\ pending' = pending
    BY <1>2 DEF InterpStore, RunLeave, Goto, GraceSame, Typed, TypeOK
  <2>2. Place(c) \in {"work", "run"} /\ Place(c)' = "top"
    BY <2>1, Places, PlacesNext
  <2> QED
    BY <2>1, <2>2, OthersStay DEF GraceSame, Grace!BackToTop, Grace!Goto, At, Pend
<1>3. ASSUME HitsDone(c) PROVE Grace!BackToTop(c) \/ UNCHANGED Grace!vars
  <2>1. /\ pc[c] = "hits" /\ pc'[c] = after[c] /\ after[c] \in {"top", "istore", "reval"}
        /\ GraceSame /\ pending' = pending
    BY <1>3 DEF HitsDone, Goto, GraceSame, Typed, TypeOK
  <2>2. CASE after[c] = "top"
    <3>1. Place(c) = "work" /\ Place(c)' = "top"
      BY <2>1, <2>2, Places, PlacesNext DEF Hitting
    <3> QED
      BY <2>1, <3>1, OthersStay DEF GraceSame, Grace!BackToTop, Grace!Goto, At, Pend
  <2>3. CASE after[c] # "top"
    <3>1. Place(c)' = Place(c)
      BY <2>1, <2>3, Places, PlacesNext DEF Hitting
    <3> QED
      BY <2>1, <3>1, OthersStay DEF GraceSame, Grace!vars, At, Pend
  <2> QED
    BY <2>2, <2>3
<1> QED
  BY <1>1, <1>2, <1>3

(* The oldest block is ready in one module when it is in the other. *)
LEMMA SameReady ==
  ASSUME Typed, NEW c \in CPUs
  PROVE  /\ Grace!Ready(c) <=> Ready(c)
         /\ Pend[c] = <<>> <=> pending[c] = <<>>
         /\ Grace!PendingFull(c) <=> PendingFull(c)
<1>1. pending[c] \in Seq(PendingEntry) /\ Pend[c] = StampsOf(pending[c])
  BY DEF Typed, TypeOK, Pend, Stamps, StampsOf
<1>2. /\ Pend[c] = <<>> <=> pending[c] = <<>>
      /\ pending[c] # <<>> => Head(Pend[c]) = Head(pending[c]).stamp
      /\ Len(Pend[c]) = Len(pending[c])
  BY <1>1, StampsOfType
<1> QED
  BY <1>2 DEF Grace!Ready, Grace!Passed, Grace!PendingFull, Ready, Passed, PendingFull,
              Pend

LEMMA RevalSteps ==
  ASSUME StoreBuffer = 0, Typed, NEW c \in CPUs, CpuStep(c)
  PROVE  /\ RevalNone(c) => Grace!RevalNone(c)
         /\ ScanQuiet(c) => Grace!ScanQuiet(c)
         /\ CheckOldest(c) => Grace!CheckOldest(c)
         /\ CheckDone(c) => Grace!CheckDone(c)
<1>1. ASSUME RevalNone(c) \/ CheckDone(c)
      PROVE  /\ At[c] = "reval" /\ At' = [At EXCEPT ![c] = back[c]]
             /\ back' = [back EXCEPT ![c] = "lookup"] /\ Pend' = Pend
  <2>1. /\ pc[c] = "reval" /\ pc'[c] = back[c] /\ back[c] \in {"lookup", "twait"}
        /\ pending' = pending /\ back' = [back EXCEPT ![c] = "lookup"]
    BY <1>1 DEF RevalNone, CheckDone, RevalReturn, Goto, Typed, TypeOK
  <2>2. Place(c) = "reval" /\ Place(c)' = back[c]
    BY <2>1, Places, PlacesNext
  <2> QED
    BY <2>1, <2>2, OthersStay
<1>2. ASSUME RevalNone(c) PROVE Grace!RevalNone(c)
  <2>1. Pend[c] = <<>>
    BY <1>2, SameReady DEF RevalNone
  <2> QED
    BY <1>1, <1>2, <2>1
       DEF RevalNone, Grace!RevalNone, Grace!RevalReturn, Grace!Goto, At, Pend
<1>3. ASSUME CheckDone(c) PROVE Grace!CheckDone(c)
  <2>1. ~Grace!Ready(c)
    BY <1>3, SameReady DEF CheckDone
  <2> QED
    BY <1>1, <1>3, <2>1
       DEF CheckDone, Grace!CheckDone, Grace!RevalReturn, Grace!Goto, At, Pend
<1>4. ASSUME ScanQuiet(c) PROVE Grace!ScanQuiet(c)
  <2>1. pc[c] = "reval" /\ pc' = pc /\ pending' = pending
    BY <1>4 DEF ScanQuiet
  <2>2. Place(c) = "reval" /\ Place(c)' = "reval"
    BY <2>1, Places, PlacesNext
  <2>3. Pend[c] # <<>>
    BY <1>4, SameReady DEF ScanQuiet
  <2>4. \E d \in unread[c] :
          /\ minq' = [minq EXCEPT ![c] = LeastQuiet(@, quiet[d])]
          /\ unread' = [unread EXCEPT ![c] = @ \ {d}]
    BY <1>4 DEF ScanQuiet, SeesQuiet
  <2> QED
    BY <1>4, <2>1, <2>2, <2>3, <2>4, OthersStay
       DEF ScanQuiet, Grace!ScanQuiet, LeastQuiet, Grace!LeastQuiet, At, Pend
<1>5. ASSUME CheckOldest(c) PROVE Grace!CheckOldest(c)
  <2>1. /\ pc[c] = "reval"
        /\ pc'[c] = "reval" \/ (pc'[c] = "hits" /\ after'[c] = "reval")
        /\ pending'[c] = Tail(pending[c]) /\ pending[c] # <<>>
    BY <1>5 DEF CheckOldest, Ready, Goto, Typed, TypeOK
  <2>2. Place(c) = "reval" /\ Place(c)' = "reval"
    BY <2>1, Places, PlacesNext DEF Hitting
  <2>3. Stamps(c)' = Tail(Stamps(c))
    <3>1. Stamps(c) = StampsOf(pending[c]) /\ Stamps(c)' = StampsOf(pending'[c])
      BY DEF Stamps, StampsOf
    <3>2. pending[c] \in Seq(PendingEntry)
      BY DEF Typed, TypeOK
    <3> QED
      BY <2>1, <3>1, <3>2, StampsOfTail
  <2>4. Grace!Ready(c)
    BY <1>5, SameReady DEF CheckOldest
  <2> QED
    BY <1>5, <2>2, <2>3, <2>4, OthersStay
       DEF CheckOldest, Grace!CheckOldest, At, Pend
<1> QED
  BY <1>2, <1>3, <1>4, <1>5

LEMMA TranslateSteps ==
  ASSUME StoreBuffer = 0, Typed, NEW c \in CPUs, CpuStep(c)
  PROVE  /\ LookupTranslate(c) \/ RunTranslate(c) => Grace!Translate(c)
         /\ Insert(c) => Grace!Translated(c)
         /\ WaitPending(c) => Grace!WaitPending(c)
         /\ Stamp(c) => Grace!Stamp(c)
<1>1. ASSUME LookupTranslate(c) \/ RunTranslate(c) PROVE Grace!Translate(c)
  <2>1. /\ \/ pc[c] = "lookup" /\ tret' = [tret EXCEPT ![c] = "run"]
           \/ pc[c] = "run" /\ tret' = [tret EXCEPT ![c] = "top"]
        /\ pc'[c] = "tinsn" /\ epoch < MaxEpoch
        /\ UNCHANGED <<epoch, quiet, seen, unread, minq, back>>
        /\ pending' = pending \/ pending'[c] = <<>>
    BY <1>1 DEF LookupTranslate, RunTranslate, Translate, Goto, Typed, TypeOK
  <2>2. Place(c)' = "trans"
    BY <2>1, PlacesNext DEF Making
  <2>3. pc[c] \in {"lookup", "run"} => Place(c) = pc[c]
    BY Places
  <2>4. Pend' = Pend \/ Pend' = [Pend EXCEPT ![c] = <<>>]
    BY <2>1, OthersStay, FlushedRing
  <2> QED
    BY <2>1, <2>2, <2>3, <2>4, OthersStay
       DEF Grace!Translate, Grace!MayFlush, Grace!Goto, At, Pend
<1>2. ASSUME Insert(c) PROVE Grace!Translated(c)
  <2>1. pc[c] = "tinsn" /\ pc'[c] = "twait" /\ pending' = pending /\ GraceSame
    BY <1>2 DEF Insert, Goto, GraceSame, Typed, TypeOK
  <2>2. Place(c) = "trans" /\ Place(c)' = "twait"
    BY <2>1, Places, PlacesNext DEF Making
  <2> QED
    BY <2>1, <2>2, OthersStay DEF GraceSame, Grace!Translated, Grace!Goto, At, Pend
<1>3. ASSUME WaitPending(c) PROVE Grace!WaitPending(c)
  <2>1. pc[c] = "twait" /\ pc'[c] = "reval" /\ pending' = pending
    BY <1>3 DEF WaitPending, Goto, Typed, TypeOK
  <2>2. Place(c) = "twait" /\ Place(c)' = "reval"
    BY <2>1, Places, PlacesNext
  <2>3. Grace!PendingFull(c)
    BY <1>3, SameReady DEF WaitPending
  <2> QED
    BY <1>3, <2>1, <2>2, <2>3, OthersStay
       DEF WaitPending, Grace!WaitPending, Grace!Goto, At, Pend
<1>4. ASSUME Stamp(c) PROVE Grace!Stamp(c)
  <2>1. /\ pc[c] = "twait" /\ pc'[c] = tret[c] /\ tret[c] \in {"run", "top"}
        /\ pending'[c] = Append(pending[c], [start |-> tstart[c], stamp |-> epoch + 1])
    BY <1>4 DEF Stamp, StampBlock, Goto, Typed, TypeOK
  <2>2. Place(c) = "twait" /\ Place(c)' = tret[c]
    BY <2>1, Places, PlacesNext
  <2>3. Stamps(c)' = Append(Stamps(c), epoch + 1)
    <3>1. Stamps(c) = StampsOf(pending[c]) /\ Stamps(c)' = StampsOf(pending'[c])
      BY DEF Stamps, StampsOf
    <3>2. pending[c] \in Seq(PendingEntry) /\ epoch + 1 \in Nat
      BY DEF Typed, TypeOK
    <3>3. tstart[c] \in Starts
      BY <2>1 DEF Typed, Locals, Translating
    <3>4. [start |-> tstart[c], stamp |-> epoch + 1] \in PendingEntry
      BY <3>2, <3>3 DEF PendingEntry
    <3> QED
      BY <2>1, <3>1, <3>2, <3>4, StampsOfAppend
  <2>4. ~Grace!PendingFull(c)
    BY <1>4, SameReady DEF Stamp, StampBlock
  <2> QED
    BY <1>4, <2>2, <2>3, <2>4, OthersStay
       DEF Stamp, StampBlock, Grace!Stamp, Grace!Goto, At, Pend
<1> QED
  BY <1>1, <1>2, <1>3, <1>4

-----------------------------------------------------------------------------
LEMMA GraceInit == Init => Grace!Init
<1> SUFFICES ASSUME Init PROVE Grace!Init
  OBVIOUS
<1>1. ASSUME NEW c \in CPUs PROVE Place(c) = "out" /\ Stamps(c) = <<>>
  <2>1. pc[c] = "out" /\ pending[c] = <<>>
    BY DEF Init
  <2>2. Stamps(c) = StampsOf(pending[c])
    BY DEF Stamps, StampsOf
  <2> QED
    BY <2>1, <2>2, Places, EmptySeq, StampsOfType
<1> QED
  BY <1>1 DEF Init, Grace!Init

LEMMA GraceNext ==
  ASSUME StoreBuffer = 0, Typed, [Next]_vars
  PROVE  [Grace!Next]_Grace!vars
<1>1. CASE UNCHANGED vars
  BY <1>1 DEF vars, Grace!vars, Place, Stamps, Forced
<1>2. ASSUME NEW c \in CPUs, CpuStep(c) PROVE GraceStep(c)
  <2>1. ~DrainBuffer(c)
    BY DEF DrainBuffer, Typed, NoBuffer
  <2> QED
    BY <1>2, <2>1, QueueSteps, RunSteps, HitSteps, MakingSteps, DispatcherSteps,
       DrainSteps, WorkSteps, RevalSteps, TranslateSteps
       DEF CpuStep, Step, GraceStep, Grace!Step
<1> QED
  BY <1>1, <1>2 DEF Next, CpuStep, GraceStep, Grace!Next

(* What the CPUs do with epoch, quiet and pending is what JitGrace says,     *)
(* for any number of CPUs and any ring sizes (jit.c 11-35, 1640-1667).       *)
THEOREM CoherenceImplementsGrace ==
  ASSUME StoreBuffer = 0
  PROVE  Spec => ImplementsGrace
<1>1. Typed /\ [Next]_vars => Typed'
  BY TypedNext
<1>2. Typed /\ [Next]_vars => [Grace!Next]_Grace!vars
  BY GraceNext
<1> QED
  BY <1>1, <1>2, TypedInit, GraceInit, PTL DEF Spec, ImplementsGrace, Grace!Spec

GraceProofs == INSTANCE JitGraceProofs WITH
                 at <- [c \in CPUs |-> Place(c)],
                 pend <- [c \in CPUs |-> Stamps(c)]

(* So the wait for room in pending is never circular in the whole translator *)
(* either, whatever memory, marks and queues do (jit.c 1657-1667).            *)
THEOREM CoherenceNoCircularWait ==
  ASSUME StoreBuffer = 0
  PROVE  Spec => []Grace!NoCircularWait
<1>1. Grace!Init => GraceProofs!Init
  BY DEF Grace!Init, GraceProofs!Init
<1>2. [Grace!Next]_Grace!vars => [GraceProofs!Next]_GraceProofs!vars
  BY DEF Grace!EnterRun, GraceProofs!EnterRun, Grace!LoadEpoch,
         GraceProofs!LoadEpoch, Grace!LoopTop, GraceProofs!LoopTop,
         Grace!Goto, GraceProofs!Goto, Grace!Publish,
         GraceProofs!Publish, Grace!MayFlush, GraceProofs!MayFlush,
         Grace!Drain, GraceProofs!Drain, Grace!LeaveRun,
         GraceProofs!LeaveRun, Grace!LookupRun, GraceProofs!LookupRun,
         Grace!Work, GraceProofs!Work, Grace!BackToTop,
         GraceProofs!BackToTop, Grace!RevalReturn,
         GraceProofs!RevalReturn, Grace!RevalNone,
         GraceProofs!RevalNone, Grace!LeastQuiet,
         GraceProofs!LeastQuiet, Grace!ScanQuiet,
         GraceProofs!ScanQuiet, Grace!Passed, GraceProofs!Passed,
         Grace!Ready, GraceProofs!Ready, Grace!CheckOldest,
         GraceProofs!CheckOldest, Grace!CheckDone,
         GraceProofs!CheckDone, Grace!Translate,
         GraceProofs!Translate, Grace!Translated,
         GraceProofs!Translated, Grace!PendingFull,
         GraceProofs!PendingFull, Grace!WaitPending,
         GraceProofs!WaitPending, Grace!Stamp, GraceProofs!Stamp,
         Grace!Step, GraceProofs!Step, Grace!Next, GraceProofs!Next,
         Grace!vars, GraceProofs!vars
<1>3. GraceProofs!NoCircularWait => Grace!NoCircularWait
  BY DEF GraceProofs!NoCircularWait, GraceProofs!WaitsFor, GraceProofs!PendingFull,
         GraceProofs!Passed,
         Grace!NoCircularWait, Grace!WaitsFor, Grace!PendingFull, Grace!Passed
<1>4. Spec => ImplementsGrace
  BY CoherenceImplementsGrace
<1>5. GraceProofs!GraceAssumption
  BY CoherenceAssumption DEF GraceProofs!GraceAssumption
<1>6. GraceProofs!Spec => []GraceProofs!NoCircularWait
  BY <1>5, GraceProofs!GraceNoCircularWait
<1> QED
  BY <1>1, <1>2, <1>3, <1>4, <1>6, PTL DEF ImplementsGrace, Grace!Spec, GraceProofs!Spec
=============================================================================
