--------------------------- MODULE MCLearningStore ---------------------------
(* Every skill is about one name, every memory about one key; values are    *)
(* the proposals' own, so that any two of one kind clash.                   *)
EXTENDS LearningStore, TLC

CONSTANTS s1, s2, m1, m2, m3, k1

MCSubject == [p \in Proposals \cup Known |-> IF p \in Skills THEN "name" ELSE "key"]
MCContent == [p \in Proposals \cup Known |-> p]

Symmetry == Permutations(Skills) \cup Permutations(Memories)
==============================================================================
