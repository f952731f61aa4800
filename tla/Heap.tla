-------------------------------- MODULE Heap --------------------------------
(***************************************************************************)
(* kernel/mmu/liballoc.c, liballoc_hooks.c and mmu.c: malloc, realloc and  *)
(* free over the page frames (FrameAllocator) and the page tables (Paging).*)
(*                                                                         *)
(* The heap is a list of majors, runs of pages with a header; a major has  *)
(* a chain of minors, a header and the bytes of one block each, in the     *)
(* order of their addresses.  A call holds mmulock from its first look at  *)
(* the list to its result; realloc holds it three times, and other callers *)
(* come between.  malloc is modelled a major at a time, and a page at a    *)
(* time where it maps new memory.                                          *)
(***************************************************************************)
EXTENDS Paging, Seqs

CONSTANTS
  Callers,     \* tasks that use the heap
  Requests,    \* the sizes that they ask for
  NPages,      \* pages of memory
  Major,       \* sizeof(struct liballoc_major)
  Minor,       \* sizeof(struct liballoc_minor)
  Alignment,   \* ALIGNMENT
  Info,        \* ALIGN_INFO
  PageCount,   \* l_pageCount: the least number of pages of a major
  Devices,     \* addresses of registers and tables that the boot maps
  Chunks       \* the sizes that the boot takes from kmalloc, in order

KernelPages == KernelRegions * Entries
Memory == KernelPages * PageSize .. NPages * PageSize - 1
Bases == {p * PageSize : p \in KernelPages .. NPages - 1}
Nobody == "nobody"
NULL == 0

ASSUME HeapAssumption ==
  /\ Nobody \notin Callers
  /\ Requests \subseteq Nat \ {0}
  /\ NPages \in Nat /\ NPages <= Regions * Entries
  /\ Major \in Nat /\ Minor \in Nat \ {0} /\ Info \in Nat
  /\ Alignment \in Nat \ {0} /\ PageCount \in Nat \ {0}
  /\ Devices \subseteq Addresses
  /\ Chunks \in Seq(Nat)

VARIABLES
  held, taken,  \* the page frames: see FrameAllocator
  majors,       \* the list from l_memRoot
  block,        \* the majors: pages, usage and the chain of minors
  l_bestBet,    \* the major that malloc looks at first, or NULL
  l_inuse, l_allocated,
  lock,         \* who holds mmulock
  call,         \* the locals of the malloc that is running under it
  job,          \* what each caller does: a realloc between its three parts
  blocks,       \* the blocks that callers have, as [ptr, len]
  chunks        \* what the boot has still to take from kmalloc

heap == <<majors, block, l_bestBet, l_inuse, l_allocated>>
frames == <<held, taken>>
vars == <<pagingVars, frames, heap, lock, call, job, blocks, chunks>>

Frames == INSTANCE FrameAllocator WITH
  Kernel <- 0 .. KernelPages - 1, Requests <- Nat, Reservable <- {}

Minors == [at : Nat, size : Nat, req_size : Nat]
Blocks == [ptr : Nat, len : Nat]
NoBlock == [ptr |-> NULL, len |-> 0]
NoCall == [pc |-> "none", req |-> 0, maj |-> NULL, startedBet |-> FALSE, bestSize |-> 0,
           new |-> NULL, pages |-> 0, done |-> 0]
NoJob == [pc |-> "none", old |-> NoBlock, len |-> 0]
Empty == [pages |-> 0, usage |-> 0, chain |-> <<>>]
PCs == {"none", "root", "start", "loop", "case1", "case5", "map_root", "map_case1",
        "map_case5", "case2", "fail"}
Calls == [pc : PCs, req : Nat, maj : Bases \cup {NULL}, startedBet : BOOLEAN, bestSize : Int,
          new : Bases \cup {NULL}, pages : Nat, done : Nat]
Jobs == [pc : {"none", "malloc", "free"}, old : Blocks, len : Nat]
Majors == [pages : Nat, usage : Int, chain : Seq(Minors)]

TypeOK ==
  /\ heap_cur \in Nat
  /\ majors \in Seq(Bases)
  /\ block \in [Bases -> Majors]
  /\ l_bestBet \in Bases \cup {NULL}
  /\ l_inuse \in Int /\ l_allocated \in Int
  /\ lock \in Callers \cup {Nobody}
  /\ call \in Calls
  /\ job \in [Callers -> Jobs]
  /\ blocks \subseteq Blocks
  /\ held \subseteq [start : Nat, n : Nat] /\ taken \subseteq Nat
  /\ chunks \in Seq(Nat)

Init ==
  /\ PagingInit
  /\ Frames!Init
  /\ majors = <<>> /\ block = [m \in Bases |-> Empty] /\ l_bestBet = NULL
  /\ l_inuse = 0 /\ l_allocated = 0
  /\ lock = Nobody /\ call = NoCall
  /\ job = [c \in Callers |-> NoJob]
  /\ blocks = {}
  /\ chunks = Chunks

-----------------------------------------------------------------------------
(* A link is made behind the k-th of a list, and the i-th is unlinked.     *)
Insert(s, k, e) == SubSeq(s, 1, k) \o <<e>> \o SubSeq(s, k + 1, Len(s))
Remove(s, i) == SubSeq(s, 1, i - 1) \o SubSeq(s, i + 1, Len(s))

(* The layout of a major.  Gap k is what is free behind its k-th minor,    *)
(* gap 0 what is free before the first.                                    *)
End(m) == m + block[m].pages * PageSize
Free(m) == block[m].pages * PageSize - block[m].usage
GapStart(m, k) ==
  IF k = 0 THEN m + Major
           ELSE block[m].chain[k].at + Minor + block[m].chain[k].size

(* Mutant of GapEnd: the minor behind the gap is overlooked. *)
GapEndOfMajor(m, k) == End(m)

GapEnd(m, k) == IF k = Len(block[m].chain) THEN End(m) ELSE block[m].chain[k + 1].at
Gap(m, k) == GapEnd(m, k) - GapStart(m, k)
Gaps(m) == 0 .. Len(block[m].chain)

(* The size that malloc looks for, and with the header of the minor. *)
Size(req) == req + Alignment + Info
Need(req) == Size(req) + Minor

(* Mutant of Fits: the header of the new minor is forgotten. *)
FitsNoHeader(m, req) ==
  IF block[m].chain = <<>> THEN {0} ELSE {k \in Gaps(m) : Gap(m, k) >= Size(req)}

(* The gaps that have room.  A major without minors is not asked (CASE 2). *)
Fits(m, req) ==
  IF block[m].chain = <<>> THEN {0} ELSE {k \in Gaps(m) : Gap(m, k) >= Need(req)}

(* ALIGN: the pointer that malloc returns for the minor at a.  The way     *)
(* back (UNALIGN) is stored in front of it.                                *)
Align(a) ==
  LET p == a + Minor + Info IN
  IF p % Alignment = 0 THEN p ELSE p + Alignment - (p % Alignment)

Position(m) == CHOOSE i \in 1 .. Len(majors) : majors[i] = m
NextMajor(m) == majors[Position(m) + 1]
IsLast(m) == majors[Len(majors)] = m

-----------------------------------------------------------------------------
(* The boot: paging_init, then kmalloc for the bitmap and the stacks of    *)
(* the processors, and the pages of tables and registers that are mapped   *)
(* and set aside before the heap could hand them out.                      *)
BootMap ==
  /\ paging_init
  /\ UNCHANGED <<frames, heap, lock, call, job, blocks, chunks>>

BootAlloc ==
  /\ PagingOn /\ lock = Nobody /\ chunks # <<>>
  /\ Kmalloc(Head(chunks))
  /\ chunks' = Tail(chunks)
  /\ UNCHANGED <<frames, heap, lock, call, job, blocks>>

BootDevice(a) ==
  /\ PagingOn /\ lock = Nobody
  /\ Page(a) \notin mapped
  /\ MapPage(a)
  /\ Frames!Reserve([start |-> Page(a), n |-> 1])
  /\ UNCHANGED <<heap, lock, call, job, blocks, chunks>>

-----------------------------------------------------------------------------
(* malloc *)
Enter(c, n) ==
  /\ PagingOn /\ lock = Nobody
  /\ lock' = c
  /\ call' = [NoCall EXCEPT !.pc = IF majors = <<>> THEN "root" ELSE "start", !.req = n]

Malloc(c, n) ==
  /\ job[c].pc = "none"
  /\ Enter(c, n)
  /\ UNCHANGED <<pagingVars, frames, heap, job, blocks, chunks>>

(* The search starts at l_bestBet if that has more than enough, else at    *)
(* the root.                                                               *)
Start ==
  LET bet == l_bestBet # NULL
      size == IF bet THEN Free(l_bestBet) ELSE 0
      started == bet /\ size > Need(call.req)
  IN
  /\ call.pc = "start"
  /\ call' = [call EXCEPT !.pc = "loop", !.bestSize = size, !.startedBet = started,
                          !.maj = IF started THEN l_bestBet ELSE Head(majors)]
  /\ UNCHANGED <<pagingVars, frames, heap, lock, job, blocks, chunks>>

(* The lock is given back, with the result or NULL. *)
Leave ==
  /\ lock' = Nobody
  /\ call' = NoCall
  /\ job' = [job EXCEPT ![lock] = IF @.pc = "malloc" THEN [@ EXCEPT !.pc = "free"] ELSE @]

(* A new minor in gap k of m: CASE 2, 3, 4.1 and 4.2 *)
Put(m, k) ==
  LET at == GapStart(m, k) IN
  /\ block' = [block EXCEPT
       ![m].chain = Insert(@, k, [at |-> at, size |-> Size(call.req), req_size |-> call.req]),
       ![m].usage = @ + Need(call.req)]
  /\ l_inuse' = l_inuse + Size(call.req)
  /\ blocks' = blocks \cup {[ptr |-> Align(at), len |-> call.req]}
  /\ Leave

(* The best bet is the roomiest major this search has met. *)
Notice(m) == l_bestBet' = IF call.bestSize < Free(m) THEN m ELSE l_bestBet
Noticed(m) == IF call.bestSize < Free(m) THEN Free(m) ELSE call.bestSize

(* No room in m: CASE 1, by the number of bytes that are free, or CASE 5   *)
Full(m) == Free(m) < Need(call.req) \/ Fits(m, call.req) = {}

(* An iteration of the loop that finds room. *)
Found ==
  LET m == call.maj IN
  /\ call.pc = "loop" /\ ~Full(m)
  /\ Notice(m)
  /\ \E k \in Fits(m, call.req) :
       /\ \A j \in Fits(m, call.req) : k <= j
       /\ Put(m, k)
  /\ UNCHANGED <<pagingVars, frames, majors, l_allocated, chunks>>

To(pc, maj) == [call EXCEPT !.pc = pc, !.maj = maj, !.bestSize = Noticed(call.maj)]

(* Mutant of Onward: after a start at the best bet, the majors before it   *)
(* are not searched.                                                       *)
OnwardNoRestart(m) ==
  IF ~IsLast(m) THEN To("loop", NextMajor(m))
                ELSE To(IF Free(m) < Need(call.req) THEN "case1" ELSE "case5", m)

(* Mutant of Onward: startedBet is not reset. *)
OnwardForever(m) ==
  CASE ~IsLast(m) -> To("loop", NextMajor(m))
    [] IsLast(m) /\ call.startedBet -> To("loop", Head(majors))
    [] OTHER -> To(IF Free(m) < Need(call.req) THEN "case1" ELSE "case5", m)

(* From a major without room to the next, to the root if the search began  *)
(* at the best bet, or to a new major                                      *)
Onward(m) ==
  CASE ~IsLast(m) -> To("loop", NextMajor(m))
    [] IsLast(m) /\ call.startedBet -> [To("loop", Head(majors)) EXCEPT !.startedBet = FALSE]
    [] OTHER -> To(IF Free(m) < Need(call.req) THEN "case1" ELSE "case5", m)

(* An iteration of the loop that finds none. *)
GoOn ==
  LET m == call.maj IN
  /\ call.pc = "loop" /\ Full(m)
  /\ Notice(m)
  /\ call' = Onward(m)
  /\ UNCHANGED <<pagingVars, frames, majors, block, l_inuse, l_allocated, lock, job, blocks, chunks>>

-----------------------------------------------------------------------------
(* allocate_new_page *)
CeilDiv(a, b) == IF a % b = 0 THEN a \div b ELSE a \div b + 1
PagesFor(req) ==
  LET st == CeilDiv(Size(req) + Major + Minor, PageSize) IN
  IF st < PageCount THEN PageCount ELSE st

FreeStarts(n) ==
  {p \in KernelPages .. NPages - n : p .. p + n - 1 \cap taken = {}}

(* A major has l_pageCount (16) pages or more, for which pageframe_alloc   *)
(* takes the first fit.                                                    *)
Grow ==
  /\ call.pc \in {"root", "case1", "case5"}
  /\ \E p \in FreeStarts(PagesFor(call.req)) :
       /\ \A q \in FreeStarts(PagesFor(call.req)) : p <= q
       /\ Frames!Give(PagesFor(call.req))
       /\ [start |-> p, n |-> PagesFor(call.req)] \in held' \ held
       /\ call' = [call EXCEPT !.new = p * PageSize, !.pages = PagesFor(call.req),
            !.pc = CASE @ = "root" -> "map_root"
                     [] @ = "case1" -> "map_case1"
                     [] @ = "case5" -> "map_case5"]
  /\ UNCHANGED <<pagingVars, heap, lock, job, blocks, chunks>>

OutOfPages ==
  /\ call.pc \in {"root", "case1", "case5"}
  /\ FreeStarts(PagesFor(call.req)) = {}
  /\ call' = [call EXCEPT !.pc = "fail"]
  /\ UNCHANGED <<pagingVars, frames, heap, lock, job, blocks, chunks>>

Fail ==
  /\ call.pc = "fail"
  /\ Leave
  /\ UNCHANGED <<pagingVars, frames, heap, blocks, chunks>>

Mapping == call.pc \in {"map_root", "map_case1", "map_case5"}

(* Mutant of MapNext: the address does not move on. *)
MapNextSame ==
  /\ Mapping /\ call.done < call.pages
  /\ MapPage(call.new)
  /\ call' = [call EXCEPT !.done = @ + 1]
  /\ UNCHANGED <<frames, heap, lock, job, blocks, chunks>>

(* pageframe_alloc_liballoc maps the new pages, *)
MapNext ==
  /\ Mapping /\ call.done < call.pages
  /\ MapPage(call.new + call.done * PageSize)
  /\ call' = [call EXCEPT !.done = @ + 1]
  /\ UNCHANGED <<frames, heap, lock, job, blocks, chunks>>

(* and the new major becomes the last of the list.  After CASE 1 its first *)
(* minor is made at once; after CASE 5 the loop looks at it.               *)
Link ==
  /\ Mapping /\ call.done = call.pages
  /\ majors' = Append(majors, call.new)
  /\ block' = [block EXCEPT ![call.new] = [pages |-> call.pages, usage |-> Major, chain |-> <<>>]]
  /\ l_allocated' = l_allocated + call.pages * PageSize
  /\ call' = [call EXCEPT !.pages = 0, !.done = 0, !.new = NULL, !.maj = call.new,
       !.pc = CASE @ = "map_root" -> "start"
                [] @ = "map_case1" -> "case2"
                [] @ = "map_case5" -> "loop"]
  /\ UNCHANGED <<pagingVars, frames, l_bestBet, l_inuse, lock, job, blocks, chunks>>

Case2 ==
  /\ call.pc = "case2"
  /\ Put(call.maj, 0)
  /\ UNCHANGED <<pagingVars, frames, majors, l_bestBet, l_allocated, chunks>>

-----------------------------------------------------------------------------
(* free *)

(* Mutant of Unlink: the best bet is not reset when its major goes. *)
UnlinkKeepBet(m, i) ==
  /\ majors' = Remove(majors, Position(m))
  /\ block' = [block EXCEPT ![m] = Empty]
  /\ l_allocated' = l_allocated - block[m].pages * PageSize
  /\ Frames!TakeBack([start |-> Page(m), n |-> block[m].pages])
  /\ UNCHANGED l_bestBet

(* The last minor of m goes: its pages are given back. *)
Unlink(m, i) ==
  /\ majors' = Remove(majors, Position(m))
  /\ block' = [block EXCEPT ![m] = Empty]
  /\ l_bestBet' = IF l_bestBet = m THEN NULL ELSE l_bestBet
  /\ l_allocated' = l_allocated - block[m].pages * PageSize
  /\ Frames!TakeBack([start |-> Page(m), n |-> block[m].pages])

(* Mutant of Drop: what was asked for is subtracted, not what was taken. *)
DropAsked(m, i) ==
  LET free == Free(m) + block[m].chain[i].req_size + Minor IN
  /\ block' = [block EXCEPT ![m].chain = Remove(@, i),
                            ![m].usage = @ - (block[m].chain[i].req_size + Minor)]
  /\ l_bestBet' = l_bestBet
  /\ UNCHANGED <<majors, l_allocated, frames>>

(* Another minor goes; m may now be the best bet. *)
Drop(m, i) ==
  LET free == Free(m) + block[m].chain[i].size + Minor IN
  /\ block' = [block EXCEPT ![m].chain = Remove(@, i),
                            ![m].usage = @ - (block[m].chain[i].size + Minor)]
  /\ l_bestBet' = IF /\ l_bestBet # NULL
                     /\ free > (IF l_bestBet = m THEN free ELSE Free(l_bestBet))
                  THEN m ELSE l_bestBet
  /\ UNCHANGED <<majors, l_allocated, frames>>

(* The minor that a pointer belongs to is found by undoing the alignment. *)
FreeBlock(b) ==
  /\ PagingOn /\ lock = Nobody
  /\ \E m \in Elements(majors) : \E i \in 1 .. Len(block[m].chain) :
       /\ Align(block[m].chain[i].at) = b.ptr
       /\ l_inuse' = l_inuse - block[m].chain[i].size
       /\ IF Len(block[m].chain) = 1 THEN Unlink(m, i) ELSE Drop(m, i)
  /\ blocks' = blocks \ {b}
  /\ UNCHANGED <<pagingVars, lock, call, chunks>>

(* A block is freed by whoever has it, not while realloc works on it. *)
Idle(b) == \A c \in Callers : job[c].old # b
FreeCall(b) ==
  /\ Idle(b)
  /\ FreeBlock(b)
  /\ UNCHANGED job

-----------------------------------------------------------------------------
(* realloc: a block that is large enough only gets its new size, *)
Shrink(b, n) ==
  /\ PagingOn /\ lock = Nobody /\ Idle(b)
  /\ b.len >= n
  /\ \E m \in Elements(majors) : \E i \in 1 .. Len(block[m].chain) :
       /\ Align(block[m].chain[i].at) = b.ptr
       /\ block' = [block EXCEPT ![m].chain[i].req_size = n]
  /\ blocks' = (blocks \ {b}) \cup {[b EXCEPT !.len = n]}
  /\ UNCHANGED <<pagingVars, frames, majors, l_bestBet, l_inuse, l_allocated, lock, call, job, chunks>>

(* otherwise the lock is given back, *)
Realloc(c, b, n) ==
  /\ PagingOn /\ lock = Nobody /\ Idle(b)
  /\ job[c].pc = "none"
  /\ b.len < n
  /\ job' = [job EXCEPT ![c] = [pc |-> "malloc", old |-> b, len |-> n]]
  /\ UNCHANGED <<pagingVars, frames, heap, lock, call, blocks, chunks>>

(* a new block is asked for, *)
ReallocMalloc(c) ==
  /\ job[c].pc = "malloc"
  /\ Enter(c, job[c].len)
  /\ UNCHANGED <<pagingVars, frames, heap, job, blocks, chunks>>

(* and the old one is freed, whether or not there is a new one. *)
ReallocFree(c) ==
  /\ job[c].pc = "free"
  /\ FreeBlock(job[c].old)
  /\ job' = [job EXCEPT ![c] = NoJob]

-----------------------------------------------------------------------------
MallocStep == Start \/ Found \/ GoOn \/ Grow \/ OutOfPages \/ Fail \/ MapNext \/ Link \/ Case2

Next ==
  \/ BootMap \/ BootAlloc
  \/ \E a \in Devices : BootDevice(a)
  \/ \E c \in Callers, n \in Requests : Malloc(c, n)
  \/ MallocStep
  \/ \E b \in blocks : FreeCall(b)
  \/ \E b \in blocks, n \in Requests : Shrink(b, n)
  \/ \E c \in Callers, b \in blocks, n \in Requests : Realloc(c, b, n)
  \/ \E c \in Callers : ReallocMalloc(c) \/ ReallocFree(c)

Spec == Init /\ [][Next]_vars

(* The holder of the lock runs with interrupts off, so it gets on. *)
FairSpec == Spec /\ WF_vars(MallocStep)

-----------------------------------------------------------------------------
(* The calls keep what a caller of malloc relies on, though the blocks are *)
(* squeezed between others, behind, before and after them, and a realloc   *)
(* lets others in between its parts (liballoc.c:199-687): blocks are       *)
(* aligned, in memory that is the heap's, and never overlap.               *)
Promise == INSTANCE HeapAllocator WITH Sizes <- Requests
ImplementsHeapAllocator == Promise!Spec

(* No header is overwritten: the minors of a major lie one behind the      *)
(* other, each with its header, between the major's own header and its     *)
(* end, and a block, with the word in front of it that leads back to the   *)
(* header, is inside its minor (liballoc.c:321, 356, 400, 435).            *)
ChainsIntact ==
  \A m \in Elements(majors) :
    /\ \A k \in Gaps(m) : Gap(m, k) >= 0
    /\ \A x \in Elements(block[m].chain) :
         /\ Align(x.at) - Info >= x.at + Minor
         /\ Align(x.at) + x.req_size <= x.at + Minor + x.size

(* The books are right whenever nobody is inside: usage is the header and  *)
(* what the minors take, l_inuse and l_allocated are the totals, there is  *)
(* a minor for every block and no other, and the heap has the pages of its *)
(* majors and no other, so none is lost (liballoc.c:187, 329, 563-585).    *)
Sum(s, f(_)) == LET Add(n, x) == n + f(x) IN Fold(Add, 0, s)
Accounted ==
  lock = Nobody =>
    /\ \A m \in Elements(majors) :
         block[m].usage = Major + Sum(block[m].chain, LAMBDA x : x.size + Minor)
    /\ l_inuse = Sum(majors, LAMBDA m : Sum(block[m].chain, LAMBDA x : x.size))
    /\ l_allocated = Sum(majors, LAMBDA m : block[m].pages * PageSize)
    /\ blocks = UNION {{[ptr |-> Align(x.at), len |-> x.req_size] : x \in Elements(block[m].chain)} :
                         m \in Elements(majors)}
    /\ held = {[start |-> Page(m), n |-> block[m].pages] : m \in Elements(majors)}

(* Every byte of a block is in a page that is mapped to itself: the pages  *)
(* of a major are mapped before its first block is handed out, and no      *)
(* later mapping undoes it (liballoc_hooks.c:23-25).                       *)
BlocksMapped ==
  \A b \in blocks : \A p \in Page(b.ptr) .. Page(b.ptr + b.len - 1) : Translate(p) = p

(* malloc gives up only if there is no room for the block in any major: a  *)
(* search that starts at the best bet goes round to the majors before it   *)
(* (liballoc.c:299-304, 476-480) before it asks for pages in vain.         *)
NullOnlyIfFull ==
  call.pc = "fail" => \A m \in Elements(majors) : \A k \in Gaps(m) : Gap(m, k) < Need(call.req)

(* The best bet, and the major that malloc looks at, are in the list: the  *)
(* pages behind a pointer to another may be anybody's (liballoc.c:580).    *)
NoStaleMajor ==
  /\ l_bestBet \in Elements(majors) \cup {NULL}
  /\ call.pc \in {"loop", "case1", "case2", "case5", "map_case1", "map_case5"} =>
       call.maj \in Elements(majors)

(* Every malloc ends: it goes round at most once and makes at most one new *)
(* major, which has room (liballoc.c:274-491), so that a caller that waits *)
(* for mmulock gets it.                                                    *)
MallocReturns == lock # Nobody ~> lock = Nobody
=============================================================================
