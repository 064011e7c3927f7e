--------------------------- MODULE MCNightlyAnchor ---------------------------
(* Small instances of NightlyAnchor for TLC. *)
EXTENDS NightlyAnchor, TLC

CONSTANTS p1, p2, t1, t2

Symmetry == Permutations(Readers) \cup Permutations(Txs)
=============================================================================
