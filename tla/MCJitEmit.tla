------------------------------- MODULE MCJitEmit -------------------------------
EXTENDS JitEmit, TLC

\* words 0, 3, 6 and the device word 9 hold 1, INT64_MIN, -1 and 2; or 3, 1,
\* -2 and 0
Mem1 == [b \in Bytes |-> IF b \in {2, 3, 6, 7, 8, 10} THEN 1 ELSE 0]
Mem2 == [b \in Bytes |-> IF b \in {1, 2, 5, 6, 7} THEN 1 ELSE 0]

\* every kind of field, a few instructions; one word translated, whose store
\* was not tested on entry; the MOV idiom on three words; unaligned operands
AllBlocks ==
  {[a |-> {0, 1, 3, 6}, b |-> {0, 1, 3, 6, 9}, c |-> {7, 0}, dyn |-> {0, 3}, len |-> 3,
    mem |-> Mem1, marked |-> {}, hoist |-> Words],
   [a |-> {0, 4, 6}, b |-> {0, 3, 5, 6, 8}, c |-> {7, 1}, dyn |-> {0, 3}, len |-> 2,
    mem |-> Mem2, marked |-> {6}, hoist |-> {0}],
   [a |-> {0, 3, 6}, b |-> {0, 3, 6}, c |-> {7}, dyn |-> {}, len |-> 6,
    mem |-> Mem1, marked |-> {}, hoist |-> Words],
   [a |-> {0, 1, 3, 5}, b |-> {0, 2, 3, 4}, c |-> {7, 0}, dyn |-> {}, len |-> 4,
    mem |-> Mem2, marked |-> {}, hoist |-> Words]}

\* a block whose second instruction may store to its own computed target
OwnCBlocks ==
  {[a |-> {3, 6}, b |-> {0}, c |-> {7}, dyn |-> {0}, len |-> 2,
    mem |-> Mem1, marked |-> {}, hoist |-> Words]}

Runs ==
  [s : {122, 124, 126, 127, 128, 134, 152, 153}, d : {124, 126, 127, 128, 134, 136, 152},
   c : {-128, -8, -7, -5}, m : {-2}, budget : {76, 94, 200}, pages : {{}, {8}},
   words : {<< >>}, dyn : {{}}]

\* where words of two bytes put the fields of the loop and its variables
FieldAt(k, f) == 6 * k + 2 * f
AtT2 == 116
AtS == 118
AtD == 120

Others ==
  [s : {126}, d : {136}, c : {-8}, m : {-2, -1}, budget : {18, 200}, pages : {{}},
   words : {FieldAt(16, 1) :> AtD @@ FieldAt(17, 1) :> AtS,
            FieldAt(17, 1) :> AtS,
            FieldAt(12, 0) :> AtT2,
            FieldAt(7, 2) :> 0,
            << >>},
   dyn : {{}, {FieldAt(3, 0)}, {FieldAt(5, 0)}}]

AllScenarios == Runs \cup Others
NoScenarios == {}
===============================================================================
