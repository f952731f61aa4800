--------------------------- MODULE HeapAllocator ----------------------------
(***************************************************************************)
(* What the callers of malloc, realloc and free rely on: a block is        *)
(* aligned, lies in the memory the heap may use, and shares no byte with a *)
(* block that somebody still has.                                          *)
(***************************************************************************)
EXTENDS Integers

CONSTANTS
  Alignment,  \* what every pointer is a multiple of
  Memory,     \* the addresses that the heap may hand out
  Sizes       \* the sizes that callers ask for

VARIABLE blocks  \* the blocks that callers have, as [ptr, len]

Bytes(b) == b.ptr .. b.ptr + b.len - 1

Init == blocks = {}

Give(b) ==
  /\ b.ptr % Alignment = 0
  /\ blocks' = blocks \cup {b}
  /\ Bytes(b) \subseteq Memory
  /\ \A x \in blocks : Bytes(x) \cap Bytes(b) = {}

TakeBack(b) == blocks' = blocks \ {b}

Shrink(b, n) ==
  /\ n <= b.len
  /\ blocks' = (blocks \ {b}) \cup {[b EXCEPT !.len = n]}

Next ==
  \/ \E p \in Memory, n \in Sizes : Give([ptr |-> p, len |-> n])
  \/ \E b \in blocks : TakeBack(b) \/ \E n \in Sizes : Shrink(b, n)

Spec == Init /\ [][Next]_blocks
=============================================================================
