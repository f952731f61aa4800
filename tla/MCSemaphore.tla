---------------------------- MODULE MCSemaphore -----------------------------
(* Instances of Semaphore for TLC. *)
EXTENDS Semaphore, TLC
TaskSymmetry == Permutations(Tasks) \cup Permutations(Cpus)
=============================================================================
