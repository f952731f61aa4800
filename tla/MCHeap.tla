------------------------------- MODULE MCHeap -------------------------------
(***************************************************************************)
(* An instance of Heap for TLC.  A major of the least size, two pages,     *)
(* holds three of the small blocks or a small and a middle one; the large  *)
(* one takes three pages.  A page table has two entries, so the pages of a *)
(* major may lie under two tables.                                         *)
(***************************************************************************)
EXTENDS Heap

CONSTANTS c1, c2

(* A register above the memory, not at its page's beginning *)
Register == {NPages * PageSize + 3}
OneChunk == <<3>>

(* Bounds: the number of blocks, with those that a realloc is about to     *)
(* get; one realloc at a time, which may be c1's, and c2 comes between its *)
(* parts (by symmetry nothing else is lost); and the boot's allocations    *)
(* before its mappings, and both before the first block.                   *)
CONSTANT MaxBlocks
Bounds ==
  /\ Cardinality(blocks) + Cardinality({c \in Callers : job[c].pc = "malloc"}) <= MaxBlocks
  /\ job[c2] = NoJob /\ (lock = c2 => job[c1] # NoJob)
  /\ {Page(a) : a \in Devices} \cap mapped # {} => chunks = <<>>
  /\ blocks # {} => {Page(a) : a \in Devices} \subseteq mapped
=============================================================================
