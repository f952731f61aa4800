--------------------------- MODULE FrameAllocator ---------------------------
(***************************************************************************)
(* What the users of pageframe_alloc.h rely on: a range of pages that is   *)
(* handed out is free until then, and is nobody else's until it is freed.  *)
(***************************************************************************)
EXTENDS Integers

CONSTANTS
  NPages,      \* the number of pages
  Kernel,      \* the pages that are never handed out
  Requests,    \* the numbers of pages that callers ask for
  Reservable   \* the ranges that callers reserve, as [start, n] records

VARIABLES
  held,   \* the ranges that callers hold
  taken   \* the pages that may not be handed out

Span(r) == r.start .. r.start + r.n - 1

Init == held = {} /\ taken = Kernel

Give(n) ==
  \E p \in 0 .. NPages :
    LET r == [start |-> p, n |-> n] IN
    /\ Span(r) \cap taken = {}
    /\ held' = held \cup {r}
    /\ taken' = taken \cup Span(r)

TakeBack(r) ==
  /\ r \in held
  /\ held' = held \ {r}
  /\ taken' = taken \ Span(r)

Reserve(r) ==
  /\ taken' = taken \cup Span(r)
  /\ UNCHANGED held

Next ==
  \/ \E n \in Requests : Give(n)
  \/ \E r \in held : TakeBack(r)
  \/ \E r \in Reservable : Reserve(r)

Spec == Init /\ [][Next]_<<held, taken>>
=============================================================================
