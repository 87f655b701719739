--------------------------- MODULE MCJitCoherence ---------------------------
(* Small instances of JitCoherence for TLC. *)
EXTENDS JitCoherence, TLC

(* Every block covers every word *)
AllFields == [s \in Starts |-> Words]

(* A page with every word *)
OnePage == [w \in Words |-> CHOOSE p \in Pages : TRUE]

(* The guest is arbitrary, so CPUs, words, values and starts are             *)
(* interchangeable.                                                          *)
Symmetry ==
  {p @@ q @@ r @@ s : p \in Permutations(CPUs), q \in Permutations(Words),
                      r \in Permutations(Values), s \in Permutations(Starts)}

(* As above, where not all CPUs translate *)
GuestSymmetry ==
  {q @@ r @@ s : q \in Permutations(Words), r \in Permutations(Values),
                 s \in Permutations(Starts)}
=============================================================================
