----------------------------- MODULE PageFrames -----------------------------
(***************************************************************************)
(* kernel/mmu/pageframe_alloc.c: the allocator of physical pages.  A       *)
(* request for at most Width (8) pages takes the tightest hole of the      *)
(* first bitmap byte that has one; a longer request takes the first fit.   *)
(*                                                                         *)
(* The loops are modelled an iteration at a time, so that what they have   *)
(* established so far can be stated.  The bitmap is the set of the pages   *)
(* whose bit is 1.  Calls do not overlap: they are made by one CPU during  *)
(* the boot, and afterwards by liballoc under its lock.                    *)
(***************************************************************************)
EXTENDS Integers, FiniteSets

CONSTANTS
  Width,        \* bits in a byte of the bitmap: 8
  NPages,       \* _pages_total_phys
  KernelPages,  \* pages set aside for the kernel: 2048
  Requests,     \* numbers of pages asked for
  Reservable    \* ranges passed to pageframe_set_page_from_addr

(* kmalloc_align gets NPages / 8 bytes: the bits of the last pages are in  *)
(* memory that the heap hands out to others.                               *)
Bytes == NPages \div Width
Uncovered == Bytes * Width .. NPages - 1
Kernel == 0 .. KernelPages - 1

ASSUME SizesAssumption ==
  /\ Width \in Nat \ {0}
  /\ NPages \in Nat
  /\ KernelPages \in Nat
  /\ Width <= KernelPages
  /\ Requests \subseteq Nat
  /\ Reservable \subseteq [start : Nat, n : Nat]

VARIABLES
  initialized,   \* _is_initialized
  bitmap,        \* _pageframe_bitmap: the pages that are marked
  held,          \* what callers got and have not freed, as [start, n]
  ip,            \* where the running call is
  pages,         \* the request
  i, j, cur_len, best_fit_len, best_fit_pos, last_one, page_no  \* its locals

locals == <<i, j, cur_len, best_fit_len, best_fit_pos, last_one, page_no>>
framesVars == <<initialized, bitmap, held, ip, pages, locals>>

Span(r) == r.start .. r.start + r.n - 1
Ranges == [start : Nat, n : Nat]

FramesTypeOK ==
  /\ initialized \in BOOLEAN
  /\ bitmap \subseteq Nat
  /\ held \subseteq Ranges
  /\ ip \in {"idle", "byte", "bit", "skip", "run", "mark", "fail"}
  /\ pages \in Nat
  /\ i \in Nat /\ page_no \in Nat
  /\ j \in 0 .. Width
  /\ best_fit_len \in 0 .. Width + 1
  /\ best_fit_pos \in -1 .. Width /\ last_one \in -1 .. Width - 1
  /\ cur_len \in Nat

FramesInit ==
  /\ initialized = FALSE
  /\ bitmap = {}
  /\ held = {}
  /\ ip = "idle"
  /\ pages = 0
  /\ i = 0 /\ j = 0 /\ cur_len = 0 /\ best_fit_len = 0
  /\ best_fit_pos = -1 /\ last_one = -1 /\ page_no = 0

(* A call is over: its locals are gone. *)
Leave ==
  /\ ip' = "idle"
  /\ pages' = 0
  /\ i' = 0 /\ j' = 0 /\ cur_len' = 0 /\ best_fit_len' = 0
  /\ best_fit_pos' = -1 /\ last_one' = -1 /\ page_no' = 0

Page(b, k) == b * Width + k
Full(b) == \A k \in 0 .. Width - 1 : Page(b, k) \in bitmap

-----------------------------------------------------------------------------
(* pageframe_alloc, with pageframe_alloc_init in the first call *)
Alloc(n) ==
  /\ ip = "idle"
  /\ initialized' = TRUE
  /\ bitmap' = IF initialized THEN bitmap ELSE Kernel
  /\ pages' = n
  /\ ip' = IF n > Width THEN "skip" ELSE "byte"
  /\ UNCHANGED <<held, locals>>

(* Mutant of ByteFull: the loop does not go on to the next byte. *)
ByteFullAgain ==
  /\ ip = "byte" /\ i < Bytes /\ Full(i)
  /\ UNCHANGED framesVars

(* pageframe_alloc_bestfit: the next byte has no hole, *)
ByteFull ==
  /\ ip = "byte" /\ i < Bytes /\ Full(i)
  /\ i' = i + 1
  /\ UNCHANGED <<initialized, bitmap, held, ip, pages, j, cur_len, best_fit_len, best_fit_pos,
                 last_one, page_no>>

(* or its bits are examined, *)
ByteOpen ==
  /\ ip = "byte" /\ i < Bytes /\ ~Full(i)
  /\ ip' = "bit"
  /\ j' = 0 /\ cur_len' = 0 /\ best_fit_len' = Width + 1 /\ best_fit_pos' = -1 /\ last_one' = -1
  /\ UNCHANGED <<initialized, bitmap, held, pages, i, page_no>>

(* Mutant of Bit: a hole that ends with the byte is not considered. *)
BitNoLast ==
  /\ ip = "bit" /\ j < Width
  /\ LET free == Page(i, j) \notin bitmap
         len == IF free THEN cur_len + 1 ELSE cur_len
         better == ~free /\ best_fit_len > len /\ len >= pages
     IN
     /\ best_fit_len' = IF better THEN len ELSE best_fit_len
     /\ best_fit_pos' = IF better THEN last_one + 1 ELSE best_fit_pos
     /\ cur_len' = IF free THEN len ELSE 0
     /\ last_one' = IF free THEN last_one ELSE j
  /\ j' = j + 1
  /\ UNCHANGED <<initialized, bitmap, held, ip, pages, i, page_no>>

(* Mutant of Bit: the loop goes one bit too far. *)
BitTooFar ==
  /\ ip = "bit" /\ j <= Width
  /\ j' = j + 1
  /\ UNCHANGED <<initialized, bitmap, held, ip, pages, i, cur_len, best_fit_len, best_fit_pos,
                 last_one, page_no>>

(* a bit at a time: a hole ends at a 1 or with the byte,                   *)
Bit ==
  /\ ip = "bit" /\ j < Width
  /\ LET free == Page(i, j) \notin bitmap
         len == IF free THEN cur_len + 1 ELSE cur_len
         better == (~free \/ j = Width - 1) /\ best_fit_len > len /\ len >= pages
     IN
     /\ best_fit_len' = IF better THEN len ELSE best_fit_len
     /\ best_fit_pos' = IF better THEN last_one + 1 ELSE best_fit_pos
     /\ cur_len' = IF free THEN len ELSE 0
     /\ last_one' = IF free THEN last_one ELSE j
  /\ j' = j + 1
  /\ UNCHANGED <<initialized, bitmap, held, ip, pages, i, page_no>>

(* and the best hole is taken if there was one.                            *)
ByteDone ==
  /\ ip = "bit" /\ j = Width
  /\ IF best_fit_pos >= 0
     THEN ip' = "mark" /\ page_no' = Page(i, best_fit_pos) /\ UNCHANGED i
     ELSE ip' = "byte" /\ i' = i + 1 /\ UNCHANGED page_no
  /\ UNCHANGED <<initialized, bitmap, held, pages, j, cur_len, best_fit_len, best_fit_pos, last_one>>

NoByte ==
  /\ ip = "byte" /\ i >= Bytes
  /\ ip' = "fail"
  /\ UNCHANGED <<initialized, bitmap, held, pages, locals>>

-----------------------------------------------------------------------------
(* pageframe_alloc_firstfit: skip the full bytes, *)
Skip ==
  /\ ip = "skip"
  /\ IF i < Bytes /\ Full(i)
     THEN i' = i + 1 /\ page_no' = page_no + Width /\ UNCHANGED <<ip, cur_len>>
     ELSE ip' = "run" /\ i' = page_no /\ cur_len' = 0 /\ UNCHANGED page_no
  /\ UNCHANGED <<initialized, bitmap, held, pages, j, best_fit_len, best_fit_pos, last_one>>

(* The bits a read may find clear: past the bitmap, whatever is there. *)
Clear(p) == IF p \in Uncovered THEN BOOLEAN ELSE {p \notin bitmap}

(* Mutant of Run: the next run starts on the allocated page. *)
RunStays ==
  /\ ip = "run" /\ i < NPages
  /\ \E free \in Clear(i) :
       IF free
       THEN /\ cur_len' = cur_len + 1
            /\ IF cur_len + 1 = pages THEN ip' = "mark" /\ UNCHANGED i ELSE i' = i + 1 /\ UNCHANGED ip
            /\ UNCHANGED page_no
       ELSE page_no' = page_no + cur_len /\ cur_len' = 0 /\ i' = i + 1 /\ UNCHANGED ip
  /\ UNCHANGED <<initialized, bitmap, held, pages, j, best_fit_len, best_fit_pos, last_one>>

(* and count free pages until there are enough, from anew after each 1.    *)
Run ==
  /\ ip = "run" /\ i < NPages
  /\ \E free \in Clear(i) :
       IF free
       THEN /\ cur_len' = cur_len + 1
            /\ IF cur_len + 1 = pages THEN ip' = "mark" /\ UNCHANGED i ELSE i' = i + 1 /\ UNCHANGED ip
            /\ UNCHANGED page_no
       ELSE page_no' = page_no + cur_len + 1 /\ cur_len' = 0 /\ i' = i + 1 /\ UNCHANGED ip
  /\ UNCHANGED <<initialized, bitmap, held, pages, j, best_fit_len, best_fit_pos, last_one>>

RunEnd ==
  /\ ip = "run" /\ i >= NPages
  /\ ip' = "fail"
  /\ UNCHANGED <<initialized, bitmap, held, pages, locals>>

-----------------------------------------------------------------------------
(* Mutant of Mark: the last page is not marked. *)
MarkOneLess ==
  /\ ip = "mark"
  /\ bitmap' = bitmap \cup (page_no .. page_no + pages - 2)
  /\ held' = held \cup {[start |-> page_no, n |-> pages]}
  /\ Leave
  /\ UNCHANGED initialized

(* pageframe_alloc_set_pages(page_no, pages), and the return of the range; *)
Mark ==
  /\ ip = "mark"
  /\ LET r == [start |-> page_no, n |-> pages] IN
     /\ bitmap' = bitmap \cup Span(r)
     /\ held' = held \cup {r}
  /\ Leave
  /\ UNCHANGED initialized

(* or the return of NULL                                                   *)
Fail ==
  /\ ip = "fail"
  /\ Leave
  /\ UNCHANGED <<initialized, bitmap, held>>

(* Mutant of Free: the page after the range is freed as well. *)
FreeOneMore(r) ==
  /\ ip = "idle"
  /\ bitmap' = bitmap \ (r.start .. r.start + r.n)
  /\ held' = held \ {r}
  /\ UNCHANGED <<initialized, ip, pages, locals>>

(* pageframe_free of a range that was handed out *)
Free(r) ==
  /\ ip = "idle"
  /\ bitmap' = bitmap \ Span(r)
  /\ held' = held \ {r}
  /\ UNCHANGED <<initialized, ip, pages, locals>>

(* pageframe_set_page_from_addr, for tables and registers that are not in  *)
(* memory that was handed out; kmain calls it after mmu_init.              *)
Reserve(r) ==
  /\ ip = "idle"
  /\ initialized
  /\ \A s \in held : Span(r) \cap Span(s) = {}
  /\ bitmap' = bitmap \cup Span(r)
  /\ UNCHANGED <<initialized, held, ip, pages, locals>>

Search == ByteFull \/ ByteOpen \/ Bit \/ ByteDone \/ NoByte \/ Skip \/ Run \/ RunEnd
FramesNext ==
  \/ \E n \in Requests : Alloc(n)
  \/ Search \/ Mark \/ Fail
  \/ \E r \in held : Free(r)
  \/ \E r \in Reservable : Reserve(r)

FramesSpec == FramesInit /\ [][FramesNext]_framesVars
FramesFairSpec == FramesSpec /\ WF_framesVars(Search \/ Mark \/ Fail)

-----------------------------------------------------------------------------
(* Properties *)

(* No page is in two ranges that callers hold, none is the kernel's, the   *)
(* bit of each is set, and no range starts at address 0, which the callers *)
(* take for failure: whatever was freed and reserved in between, whichever *)
(* of the two searches found them, and also for a request of no pages.     *)
NoPageTwice ==
  /\ \A r \in held : r.start # 0 /\ Span(r) \subseteq bitmap /\ Span(r) \cap Kernel = {}
  /\ \A r, s \in held : r # s => Span(r) \cap Span(s) = {}

Available(p, n) == p + n <= NPages /\ \A q \in p .. p + n - 1 : q \notin bitmap

(* pageframe_alloc.c:109-112: the long search finds the first place where  *)
(* the request fits, and gives up only if there is none.                   *)
FirstFit ==
  pages > Width =>
    /\ ip = "mark" => Available(page_no, pages) /\ \A p \in 0 .. page_no - 1 : ~Available(p, pages)
    /\ ip = "fail" => \A p \in 0 .. NPages : ~Available(p, pages)

(* The holes of a byte: its maximal runs of clear bits. *)
Holes(b) ==
  {r \in [start : 0 .. Width - 1, n : 1 .. Width] :
     /\ r.start + r.n <= Width
     /\ \A k \in Span(r) : Page(b, k) \notin bitmap
     /\ r.start > 0 => Page(b, r.start - 1) \in bitmap
     /\ r.start + r.n < Width => Page(b, r.start + r.n) \in bitmap}
Fitting(b) == {r \in Holes(b) : r.n >= pages}

(* pageframe_alloc.c:60, "Find best match (e.g. request 2 pages, provide   *)
(* shortest 2 free bits)": the short search takes the first of the         *)
(* shortest holes that are long enough, in the first byte that has one,    *)
(* and gives up only if no byte has one.                                   *)
BestFit ==
  pages \in 1 .. Width =>
    /\ ip = "mark" =>
         /\ \A b \in 0 .. i - 1 : Fitting(b) = {}
         /\ \E r \in Fitting(i) :
              /\ page_no = Page(i, r.start)
              /\ \A s \in Fitting(i) : r.n < s.n \/ (r.n = s.n /\ r.start <= s.start)
    /\ ip = "fail" => \A b \in 0 .. Bytes - 1 : Fitting(b) = {}

(* Every call of pageframe_alloc returns. *)
CallReturns == ip # "idle" ~> ip = "idle"

(* The two searches implement an allocator that hands out any free range.  *)
FramesAbstract == INSTANCE FrameAllocator WITH taken <- IF initialized THEN bitmap ELSE Kernel
ImplementsAllocator == FramesAbstract!Spec
=============================================================================
