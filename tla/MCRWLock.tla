------------------------------ MODULE MCRWLock ------------------------------
(* RWLock for TLC: the processors are interchangeable. *)
EXTENDS RWLock, TLC

Symmetry == Permutations(CPUs)
=============================================================================
