--------------------------- MODULE MCCheckpointStore ---------------------------
EXTENDS CheckpointStore, TLC
CONSTANTS s1, s2, p1, p2, x, y
OneByte   == [c \in Contents |-> 1]
Symmetry == Permutations(Sessions) \cup Permutations(Paths) \cup Permutations(Contents)
=============================================================================
