-------------------------- MODULE MCWorkerSupervisor --------------------------
(* Small instances of WorkerSupervisor for TLC. *)
EXTENDS WorkerSupervisor, TLC

CONSTANTS c1, c2, d1, d2

Symmetry == Permutations(Calls)
=============================================================================
