--------------------------- MODULE ReadersWriters ---------------------------
(***************************************************************************)
(* What a readers/writers lock promises its callers (the four rules of     *)
(* doc/Datastructures.md 6.1.3): who is inside, and when one may enter.    *)
(***************************************************************************)
CONSTANT Callers

VARIABLES
  readers,  \* the callers between a read acquire and its release
  writers   \* the callers between a write acquire and its release

Init == readers = {} /\ writers = {}

(* A reader enters while no writer is inside. *)
EnterRead(c) ==
  /\ c \notin readers
  /\ writers = {}
  /\ readers' = readers \cup {c}
  /\ UNCHANGED writers

(* A writer enters an empty lock. *)
EnterWrite(c) ==
  /\ readers = {} /\ writers = {}
  /\ writers' = {c}
  /\ UNCHANGED readers

LeaveRead(c) ==
  /\ c \in readers
  /\ readers' = readers \ {c}
  /\ UNCHANGED writers

LeaveWrite(c) ==
  /\ c \in writers
  /\ writers' = writers \ {c}
  /\ UNCHANGED readers

Next == \E c \in Callers : EnterRead(c) \/ EnterWrite(c) \/ LeaveRead(c) \/ LeaveWrite(c)

Spec == Init /\ [][Next]_<<readers, writers>>
=============================================================================
