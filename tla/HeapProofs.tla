----------------------------- MODULE HeapProofs -----------------------------
(***************************************************************************)
(* Proofs about Heap: no header is overwritten, no pointer is stale, every *)
(* block is mapped, and malloc, realloc and free keep what HeapAllocator   *)
(* promises, for every size of a page, of the headers and of the memory,   *)
(* and every number of callers.                                            *)
(***************************************************************************)
EXTENDS HeapLemmas

-----------------------------------------------------------------------------
(* One more of its pages is mapped. *)
LEMMA MapNextInv ==
  ASSUME Inv, MapNext
  PROVE  Inv'
<1> DEFINE p == Page(call.new)
           a == call.new + call.done * PageSize
<1>1. /\ Mapping /\ call \in Calls /\ lock # Nobody /\ call.done < call.pages
      /\ call.req \in Requests /\ call.new \in Bases /\ call.new \notin Elements(majors)
      /\ call.pages = PagesFor(call.req) /\ NewPages \in held
      /\ \A q \in p .. p + call.done - 1 : q \in mapped
  BY DEF MapNext, Inv, TypeOK, CallInv, Mapping
<1>2. /\ MapPage(a) /\ call' = [call EXCEPT !.done = call.done + 1]
      /\ UNCHANGED <<frames, heap, lock, job, blocks, chunks>>
  BY DEF MapNext
<1>3. call.done \in Nat /\ call.pages \in Nat
  BY <1>1 DEF Calls
<1>4. p \in Nat /\ call.new = p * PageSize /\ p + call.pages <= NPages
  <2>1. p \in Nat /\ call.new = p * PageSize
    BY <1>1, BaseProps
  <2>2. NewPages.start = p /\ NewPages.n = call.pages
    BY DEF NewPages
  <2> QED BY <1>1, <2>1, <2>2 DEF Inv, FramesInv
<1> HIDE DEF p
<1>5. a = (p + call.done) * PageSize /\ a \in Addresses /\ Page(a) = p + call.done
  <2>1. p + call.done \in Nat /\ p + call.done + 1 <= Regions * Entries
        /\ Regions * Entries \in Nat
    <3>1. Regions * Entries \in Nat /\ NPages <= Regions * Entries /\ NPages \in Nat
      BY Sizes, HeapAssumption
    <3> QED BY <1>1, <1>3, <1>4, <3>1
  <2>2. a = (p + call.done) * PageSize
    BY <1>3, <1>4, Sizes
  <2> DEFINE k == p + call.done
             R == Regions * Entries
  <2> HIDE DEF k, R
  <2>3. k \in Nat /\ R \in Nat /\ k + 1 <= R /\ PageSize \in Nat \ {0}
    BY <2>1, Sizes DEF k, R
  <2>4. (k + 1) * PageSize <= R * PageSize /\ R * PageSize \in Nat
    BY <2>3, TimesMonotonic
  <2>5. (k + 1) * PageSize = k * PageSize + PageSize /\ k * PageSize \in Nat
    BY <2>3
  <2>6. k * PageSize \in 0 .. R * PageSize - 1
    BY <2>3, <2>4, <2>5
  <2>7. (k * PageSize) \div PageSize = k
    <3>1. k * PageSize + 0 = k * PageSize /\ 0 \in 0 .. PageSize - 1
      BY <2>3, <2>5
    <3> QED BY <2>3, <3>1, DivModUnique
  <2> QED BY <2>2, <2>6, <2>7 DEF Addresses, Page, k, R
<1> HIDE DEF a
<1>6. PagingInv' /\ mapped' = mapped \cup {p + call.done}
  BY <1>2, <1>5, MapPageInv DEF Inv
<1>7. /\ call' \in Calls /\ call'.done = call.done + 1 /\ call'.pc = call.pc
      /\ call'.new = call.new /\ call'.pages = call.pages /\ call'.req = call.req
      /\ call'.maj = call.maj
  BY <1>1, <1>2, <1>3 DEF Calls
<1>8. CallInv'
  <2>1. Mapping' /\ NewPages' = NewPages /\ held' = held /\ majors' = majors /\ lock' = lock
    BY <1>1, <1>2, <1>7 DEF Mapping, NewPages, heap, frames
  <2>2. call'.done <= call'.pages
    BY <1>1, <1>3, <1>7
  <2>3. \A q \in Page(call'.new) .. Page(call'.new) + call'.done - 1 : q \in mapped'
    <3>1. Page(call'.new) = p
      BY <1>7 DEF p
    <3>2. \A q \in p .. p + (call.done + 1) - 1 : q \in p .. p + call.done - 1 \/ q = p + call.done
      BY <1>3, <1>4
    <3> QED BY <1>1, <1>6, <1>7, <3>1, <3>2, Zenon DEF p
  <2>4. call.pc \in Visits => call.maj \in Elements(majors)
    BY Zenon DEF Inv, CallInv
  <2> QED BY <1>1, <1>7, <2>1, <2>2, <2>3, <2>4, Zenon DEF CallInv, Mapping
<1>9. FramesInv' /\ ListInv' /\ JobInv' /\ BlockInv'
  <2>1. l_bestBet' \in Elements(majors) \cup {NULL}
    BY <1>2, Zenon DEF Inv, ListInv, heap
  <2> QED BY <1>2, <1>6, <2>1, Kept DEF heap, frames
<1>10. TypeOK'
  BY <1>2, <1>6, <1>7 DEF Inv, TypeOK, heap, frames, PagingInv
<1> QED BY <1>6, <1>8, <1>9, <1>10 DEF Inv

(* The new major is linked: it has its layout, and its pages are mapped. *)
LEMMA LinkInv ==
  ASSUME Inv, Link
  PROVE  Inv'
<1> DEFINE new == call.new
           b == [pages |-> call.pages, usage |-> Major, chain |-> <<>>]
           n == Len(majors)
<1>1. /\ Mapping /\ call \in Calls /\ lock # Nobody /\ call.done = call.pages
      /\ call.req \in Requests /\ new \in Bases /\ new \notin Elements(majors)
      /\ call.pages = PagesFor(call.req) /\ NewPages \in held
      /\ \A q \in Page(new) .. Page(new) + call.pages - 1 : q \in mapped
  BY DEF Link, Inv, TypeOK, CallInv, Mapping
<1>2. /\ majors' = Append(majors, new) /\ block' = [block EXCEPT ![new] = b]
      /\ UNCHANGED <<pagingVars, frames, l_bestBet, l_inuse, lock, job, blocks, chunks>>
      /\ l_allocated' = l_allocated + call.pages * PageSize
      /\ call' = [call EXCEPT !.pages = 0, !.done = 0, !.new = NULL, !.maj = new,
           !.pc = CASE @ = "map_root" -> "start"
                    [] @ = "map_case1" -> "case2"
                    [] @ = "map_case5" -> "loop"]
  BY DEF Link
<1>3. majors \in Seq(Bases) /\ block \in [Bases -> Majors] /\ n \in Nat
  BY DEF Inv, TypeOK
<1>4. call.pages \in Nat \ {0} /\ Major <= call.pages * PageSize /\ call.pages * PageSize \in Nat
  <2>1. /\ PagesFor(call.req) \in Nat \ {0} /\ PageSize \in Nat /\ Major \in Nat
        /\ Major + Need(call.req) <= PagesFor(call.req) * PageSize /\ Need(call.req) \in Nat
    BY <1>1, NewMajorHasRoom, RequestSizes, Sizes
  <2>2. PagesFor(call.req) * PageSize \in Nat
    BY <2>1
  <2> DEFINE z == PagesFor(call.req) * PageSize
  <2> HIDE DEF z
  <2>3. Major <= z
    BY <2>1, <2>2 DEF z
  <2> QED BY <1>1, <2>1, <2>2, <2>3 DEF z
<1>5. b \in Majors /\ b.pages = call.pages /\ b.usage = Major /\ b.chain = <<>>
  BY <1>4, Sizes, SMTT(40) DEF Majors
<1>6. /\ majors' \in Seq(Bases) /\ Len(majors') = n + 1 /\ majors'[n + 1] = new
      /\ \A i \in 1 .. n : majors'[i] = majors[i]
  <2> HIDE DEF new
  <2> QED BY <1>1, <1>2, <1>3
<1>7. \A x : x \in Elements(majors') <=> x \in Elements(majors) \/ x = new
  <2>1. \A x : x \in Elements(majors) <=> \E i \in 1 .. n : majors[i] = x
    BY <1>3, InList
  <2>2. \A x : x \in Elements(majors') <=> \E i \in 1 .. n + 1 : majors'[i] = x
    BY <1>6, InList
  <2>3. \A i \in 1 .. n + 1 : i \in 1 .. n \/ i = n + 1
    BY <1>3
  <2>4. n + 1 \in 1 .. n + 1 /\ \A i \in 1 .. n : i \in 1 .. n + 1
    BY <1>3
  <2> HIDE DEF n, new
  <2> QED BY <1>6, <2>1, <2>2, <2>3, <2>4
<1>8. /\ block' \in [Bases -> Majors] /\ block'[new] = b
      /\ \A m \in Elements(majors) : block'[m] = block[m]
  <2>1. \A m \in Elements(majors) : m \in Bases /\ m # new
    BY <1>1, ListWalk
  <2> HIDE DEF new, b
  <2> QED BY <1>1, <1>2, <1>3, <1>5, <2>1
<1>9. Laid(new, b)
  <2>1. Len(b.chain) = 0 /\ b.chain \in Seq(Minors) /\ 1 .. 0 = {}
    BY <1>5
  <2>2. new \in Nat
    BY <1>1, BaseProps
  <2> HIDE DEF b, new
  <2>3. Counted(new, b)
    BY <1>4, <1>5, <2>2, NewCounted, Zenon
  <2> QED BY <1>4, <1>5, <2>1, <2>3, Zenon DEF Laid
<1> HIDE DEF b
<1>10. /\ majors' # <<>> /\ held' = held /\ mapped' = mapped /\ taken' = taken
  BY <1>2, <1>3, <1>6 DEF frames, pagingVars
<1>11. ListInv'
  <2>1. \A i, j \in 1 .. Len(majors') : majors'[i] = majors'[j] => i = j
    <3>1. \A i \in 1 .. n : majors[i] # new
      BY <1>1, <1>3, InList, Zenon
    <3>2. \A i, j \in 1 .. n : majors[i] = majors[j] => i = j
      BY DEF Inv, ListInv
    <3>3. \A i \in 1 .. n + 1 : i \in 1 .. n \/ i = n + 1
      BY <1>3
    <3> HIDE DEF n, new
    <3> QED BY <1>6, <3>1, <3>2, <3>3, Zenon
  <2>2. l_bestBet' \in Elements(majors') \cup {NULL}
    BY <1>2, <1>7 DEF Inv, ListInv
  <2>3. ASSUME NEW m \in Elements(majors)
        PROVE  /\ Laid(m, block'[m]) /\ [start |-> Page(m), n |-> block'[m].pages] \in held'
               /\ Frames!Span([start |-> Page(m), n |-> block'[m].pages]) \subseteq mapped'
    BY <1>8, <1>10, Zenon DEF Inv, ListInv, Held
  <2>4. /\ Laid(new, block'[new]) /\ [start |-> Page(new), n |-> block'[new].pages] \in held'
        /\ Frames!Span([start |-> Page(new), n |-> block'[new].pages]) \subseteq mapped'
    <3>1. [start |-> Page(new), n |-> block'[new].pages] = NewPages
      BY <1>5, <1>8, Zenon DEF NewPages
    <3>2. Frames!Span(NewPages) = Page(new) .. Page(new) + call.pages - 1
      BY DEF Frames!Span, NewPages
    <3> QED BY <1>1, <1>8, <1>9, <1>10, <3>1, <3>2, Zenon
  <2>5. \A m \in Elements(majors') :
          /\ Laid(m, block'[m]) /\ [start |-> Page(m), n |-> block'[m].pages] \in held'
          /\ Frames!Span([start |-> Page(m), n |-> block'[m].pages]) \subseteq mapped'
    BY <1>7, <2>3, <2>4, Zenon
  <2> QED BY <2>1, <2>2, <2>5, Zenon DEF ListInv, Held, Frames!Span
<1>12. /\ call' \in Calls /\ call'.pc \in {"start", "case2", "loop"} /\ call'.maj = new
       /\ call'.req = call.req /\ call'.done = 0
  <2> DEFINE pc == CASE call.pc = "map_root" -> "start"
                     [] call.pc = "map_case1" -> "case2"
                     [] call.pc = "map_case5" -> "loop"
  <2>1. pc \in {"start", "case2", "loop"} /\ pc \in PCs
    BY <1>1 DEF PCs, Mapping
  <2>2. call' = [call EXCEPT !.pages = 0, !.done = 0, !.new = NULL, !.maj = new, !.pc = pc]
    BY <1>1, <1>2
  <2> HIDE DEF pc, new
  <2> QED BY <1>1, <2>1, <2>2, Zenon DEF Calls
<1>13. CallInv'
  <2>1. /\ block'[call'.maj].chain = <<>> /\ block'[call'.maj].pages = PagesFor(call'.req)
        /\ call'.maj \in Elements(majors')
    BY <1>1, <1>5, <1>7, <1>8, <1>12, Zenon
  <2>2. lock' # Nobody
    BY <1>1, <1>2, Zenon
  <2> QED BY <1>1, <1>10, <1>12, <2>1, <2>2, Zenon DEF CallInv, Visits, Mapping
<1>14. BlockInv'
  BY <1>2, <1>7, <1>8 DEF Inv, BlockInv, IsBlock
<1>15. PagingInv' /\ FramesInv' /\ JobInv'
  BY <1>2, <1>10, Kept
<1>16. TypeOK'
  <2>1. l_allocated' \in Int
    BY <1>2, <1>4 DEF Inv, TypeOK
  <2> QED BY <1>2, <1>6, <1>8, <1>12, <2>1, Zenon DEF Inv, TypeOK, frames, pagingVars
<1> QED BY <1>11, <1>13, <1>14, <1>15, <1>16 DEF Inv

(* A step that changes one major and keeps its pages *)
LEMMA ListKept ==
  ASSUME Inv, NEW m \in Elements(majors), UNCHANGED <<majors, held, mapped>>,
         Laid(m, block'[m]), block'[m].pages = block[m].pages,
         \A o \in Elements(majors) : o # m => block'[o] = block[o],
         l_bestBet' \in Elements(majors) \cup {NULL}
  PROVE  ListInv'
<1>1. \A o \in Elements(majors) :
        /\ Laid(o, block[o]) /\ [start |-> Page(o), n |-> block[o].pages] \in held
        /\ Frames!Span([start |-> Page(o), n |-> block[o].pages]) \subseteq mapped
  BY Zenon DEF Inv, ListInv, Held
<1>2. \A o \in Elements(majors) : Laid(o, block'[o]) /\ block'[o].pages = block[o].pages
  BY <1>1, Zenon
<1>3. \A o \in Elements(majors) :
        /\ Laid(o, block'[o]) /\ [start |-> Page(o), n |-> block'[o].pages] \in held
        /\ Frames!Span([start |-> Page(o), n |-> block'[o].pages]) \subseteq mapped
  BY <1>1, <1>2, Zenon
<1>4. \A i, j \in 1 .. Len(majors) : majors[i] = majors[j] => i = j
  BY Zenon DEF Inv, ListInv
<1> QED BY <1>3, <1>4, Zenon DEF ListInv, Held, Frames!Span

(* A new minor is put into a gap with room, and malloc leaves: the blocks  *)
(* keep their minors, and the new block has the new one.                   *)
LEMMA PutInv ==
  ASSUME Inv, NEW m \in Elements(majors), NEW k \in Gaps(m), Gap(m, k) >= Need(call.req),
         call.pc # "none", Put(m, k), l_bestBet' \in Elements(majors) \cup {NULL},
         UNCHANGED <<pagingVars, frames, majors, l_allocated, chunks>>
  PROVE  Inv'
<1> DEFINE b == block[m]
           c == block'[m]
           at == GapStart(m, k)
           to == GapEnd(m, k)
           req == call.req
           x == [at |-> at, size |-> Size(req), req_size |-> req]
<1>1. /\ lock # Nobody /\ req \in Requests /\ block \in [Bases -> Majors]
  BY Zenon DEF Inv, CallInv, TypeOK
<1>2. m \in Bases /\ m \in Nat /\ b \in Majors /\ Laid(m, b)
  BY MajorProps, Zenon
<1>3. /\ block' = [block EXCEPT ![m].chain = Insert(@, k, x), ![m].usage = @ + Need(req)]
      /\ l_inuse' = l_inuse + Size(req)
      /\ blocks' = blocks \cup {[ptr |-> Align(at), len |-> req]}
      /\ Leave
  BY DEF Put
<1>4. /\ c = [pages |-> b.pages, usage |-> b.usage + Need(req), chain |-> Insert(b.chain, k, x)]
      /\ \A o \in Bases : o # m => block'[o] = block[o]
      /\ DOMAIN block' = Bases
  <2> DEFINE t == Insert(b.chain, k, x)
             u == b.usage + Need(req)
  <2>1. block' = [block EXCEPT ![m].chain = t, ![m].usage = u]
    BY <1>1, <1>2, <1>3 DEF Majors
  <2> HIDE DEF t, u
  <2>2. c = [[b EXCEPT !.chain = t] EXCEPT !.usage = u]
    BY <1>1, <1>2, <2>1
  <2>3. c = [pages |-> b.pages, usage |-> u, chain |-> t]
    BY <1>2, <2>2, Zenon DEF Majors
  <2>4. (\A o \in Bases : o # m => block'[o] = block[o]) /\ DOMAIN block' = Bases
    BY <1>1, <1>2, <2>1
  <2> QED BY <2>3, <2>4, Zenon DEF t, u
<1>5. PutAt(m, b, c, k, req, at, to)
  <2>1. at = IF k = 0 THEN m + Major ELSE After(b.chain[k])
    BY Zenon DEF GapStart, After
  <2>2. to = IF k = Len(b.chain) THEN m + b.pages * PageSize ELSE b.chain[k + 1].at
    BY Zenon DEF GapEnd, End
  <2>3. to - at >= Need(req)
    BY Zenon DEF Gap
  <2>4. c.pages = b.pages /\ c.usage = b.usage + Need(req) /\ c.chain = Insert(b.chain, k, x)
    BY <1>4, SMTT(40)
  <2> QED BY <2>1, <2>2, <2>3, <2>4, Zenon DEF PutAt
<1>6. k \in 0 .. Len(b.chain)
  BY DEF Gaps
<1> HIDE DEF b, c, at, to, req
<1>7. /\ Laid(m, c) /\ at \in Nat
      /\ Len(c.chain) = Len(b.chain) + 1
      /\ c.chain[k + 1] = x
      /\ \A i \in 1 .. k : c.chain[i] = b.chain[i]
      /\ \A i \in k + 1 .. Len(b.chain) : c.chain[i + 1] = b.chain[i]
  <2>1. Laid(m, c) /\ at \in Nat /\ WithNew(Minors, c.chain, b.chain, k, x)
    <3>1. b.usage \in Int
      BY <1>2, Zenon DEF Majors
    <3> QED BY <1>1, <1>2, <1>5, <1>6, <3>1, PutLaid, Zenon
  <2> HIDE DEF x
  <2> QED BY <2>1, Zenon DEF WithNew
<1>8. /\ Len(b.chain) \in Nat /\ b.usage \in Int /\ b.pages \in Nat
      /\ c.chain \in Seq(Minors)
  BY <1>2, <1>7, SMTT(40) DEF Majors, Laid
<1>9. Need(req) \in Nat /\ Size(req) \in Nat /\ req \in Nat
  BY <1>1, RequestSizes
<1>10. c.pages = b.pages /\ c \in Majors
  <2> HIDE DEF x
  <2>1. c.pages = b.pages /\ c.usage = b.usage + Need(req)
    BY <1>4, Zenon
  <2>2. c = [pages |-> b.pages, usage |-> b.usage + Need(req), chain |-> c.chain]
    BY <1>4, Zenon
  <2> QED BY <1>8, <1>9, <2>1, <2>2, SMTT(40) DEF Majors
<1>11. ListInv'
  <2>1. \A o \in Elements(majors) : o # m => block'[o] = block[o]
    BY <1>4, ListWalk, Zenon
  <2>2. UNCHANGED <<majors, held, mapped>>
    BY Zenon DEF frames, pagingVars
  <2> QED BY <1>7, <1>10, <2>1, <2>2, ListKept, Zenon DEF b, c
<1>12. /\ CallInv' /\ JobInv'
       /\ lock' \in Callers \cup {Nobody} /\ call' \in Calls /\ job' \in [Callers -> Jobs]
  <2>1. blocks \subseteq blocks'
    BY <1>3
  <2> QED BY <1>1, <1>3, <2>1, LeaveInv
<1>13. BlockInv'
  <2>1. ASSUME NEW d \in blocks
        PROVE  \E o \in Elements(majors) : \E i \in 1 .. Len(block'[o].chain) :
                 IsBlock(d, block'[o].chain[i])
    <3>1. PICK o \in Elements(majors) : \E i \in 1 .. Len(block[o].chain) :
                 IsBlock(d, block[o].chain[i])
      BY Zenon DEF Inv, BlockInv
    <3>2. PICK i \in 1 .. Len(block[o].chain) : IsBlock(d, block[o].chain[i])
      BY <3>1, Zenon
    <3>3. CASE o # m
      <4>1. block'[o] = block[o]
        BY <1>4, <3>3, ListWalk, Zenon
      <4> QED BY <3>2, <4>1, Zenon
    <3>4. CASE o = m
      <4>1. i \in 1 .. Len(b.chain) /\ IsBlock(d, b.chain[i])
        BY <3>2, <3>4, Zenon DEF b
      <4>2. \E j \in 1 .. Len(c.chain) : c.chain[j] = b.chain[i]
        <5>1. CASE i <= k
          <6>1. i \in 1 .. k /\ i \in 1 .. Len(c.chain)
            BY <1>6, <1>7, <1>8, <4>1, <5>1, SMTT(40)
          <6> QED BY <1>7, <6>1, Zenon
        <5>2. CASE i > k
          <6>1. i \in k + 1 .. Len(b.chain) /\ i + 1 \in 1 .. Len(c.chain)
            BY <1>6, <1>7, <1>8, <4>1, <5>2, SMTT(40)
          <6> QED BY <1>7, <6>1, Zenon
        <5> QED BY <1>6, <4>1, <5>1, <5>2, SMTT(40)
      <4>3. \E j \in 1 .. Len(c.chain) : IsBlock(d, c.chain[j])
        BY <4>1, <4>2, Zenon
      <4> QED BY <4>3, Zenon DEF c
    <3> QED BY <3>3, <3>4, Zenon
  <2>2. ASSUME NEW d, d = [ptr |-> Align(at), len |-> req]
        PROVE  \E i \in 1 .. Len(block'[m].chain) : IsBlock(d, block'[m].chain[i])
    <3>1. k + 1 \in 1 .. Len(c.chain)
      BY <1>6, <1>7, <1>8, SMTT(40)
    <3>2. IsBlock(d, c.chain[k + 1])
      BY <1>7, <2>2, SMTT(40) DEF IsBlock
    <3> QED BY <3>1, <3>2, Zenon DEF c
  <2>3. \A d \in blocks' : \E o \in Elements(majors) : \E i \in 1 .. Len(block'[o].chain) :
                 IsBlock(d, block'[o].chain[i])
    BY <1>3, <2>1, <2>2, Zenon
  <2> QED BY <2>3, Zenon DEF BlockInv, IsBlock
<1>14. PagingInv' /\ FramesInv'
  BY Kept DEF frames
<1>15. TypeOK'
  <2>1. block' \in [Bases -> Majors]
    <3>1. \A o \in Bases : block'[o] \in Majors
      BY <1>1, <1>4, <1>10, Zenon DEF c
    <3>2. block' = [o \in Bases |-> block'[o]]
      BY <1>1, <1>3, <1>4, Zenon
    <3> QED BY <3>1, <3>2
  <2>2. blocks' \subseteq Blocks
    <3>1. Align(at) \in Nat
      BY <1>7, AlignProps, Zenon
    <3> QED BY <1>3, <1>9, <3>1 DEF Inv, TypeOK, Blocks
  <2>3. l_bestBet' \in Bases \cup {NULL} /\ l_inuse' \in Int
    BY <1>3, <1>9, ListWalk DEF Inv, TypeOK
  <2> QED BY <1>12, <2>1, <2>2, <2>3, Zenon DEF Inv, TypeOK, frames, pagingVars
<1> QED BY <1>11, <1>12, <1>13, <1>14, <1>15 DEF Inv

(* A major without minors has room if enough of its bytes are free. *)
LEMMA EmptyHasRoom ==
  ASSUME Inv, NEW m \in Elements(majors), block[m].chain = <<>>, call.req \in Requests,
         Major + Need(call.req) <= block[m].pages * PageSize
  PROVE  0 \in Gaps(m) /\ Gap(m, 0) >= Need(call.req)
<1>1. /\ m \in Nat /\ block[m].pages * PageSize \in Nat /\ Major \in Nat /\ Need(call.req) \in Nat
  BY MajorProps, Sizes, RequestSizes, Zenon
<1>2. Len(block[m].chain) = 0
  BY SMTT(40)
<1>3. Gap(m, 0) = (m + block[m].pages * PageSize) - (m + Major)
  BY <1>2, Zenon DEF Gap, GapEnd, GapStart, End
<1>4. \A a, l, h, n \in Nat : l + n <= h => (a + h) - (a + l) >= n
  OBVIOUS
<1>5. 0 \in Gaps(m)
  BY <1>2 DEF Gaps
<1>6. (m + block[m].pages * PageSize) - (m + Major) >= Need(call.req)
  BY <1>1, <1>4, Zenon
<1> QED BY <1>3, <1>5, <1>6, Zenon

(* The search finds room, *)
LEMMA FoundInv ==
  ASSUME Inv, Found
  PROVE  Inv'
<1> DEFINE m == call.maj
           req == call.req
<1>1. /\ call.pc = "loop" /\ ~Full(m) /\ Notice(m) /\ m \in Elements(majors) /\ req \in Requests
      /\ UNCHANGED <<pagingVars, frames, majors, l_allocated, chunks>>
  BY Zenon DEF Found, Inv, CallInv, Visits
<1>2. PICK k \in Fits(m, req) : Put(m, k)
  BY Zenon DEF Found
<1>3. l_bestBet' \in Elements(majors) \cup {NULL}
  BY <1>1, NoticeBet
<1>4. k \in Gaps(m) /\ Gap(m, k) >= Need(req)
  <2>1. CASE block[m].chain # <<>>
    BY <1>2, <2>1, Zenon DEF Fits
  <2>2. CASE block[m].chain = <<>>
    <3>1. k = 0
      BY <1>2, <2>2, Zenon DEF Fits
    <3>2. /\ block[m].usage = Major /\ block[m].pages * PageSize \in Nat
          /\ Major \in Nat /\ Need(req) \in Nat
      BY <1>1, <2>2, MajorProps, Sizes, RequestSizes, Zenon DEF Laid
    <3>3. ~(block[m].pages * PageSize - Major < Need(req))
      BY <1>1, <3>2, Zenon DEF Full, Free
    <3>4. \A l, n, h \in Nat : ~(h - l < n) => l + n <= h
      OBVIOUS
    <3>5. Major + Need(req) <= block[m].pages * PageSize
      BY <3>2, <3>3, <3>4, Zenon
    <3> QED BY <1>1, <2>2, <3>1, <3>5, EmptyHasRoom, Zenon
  <2> QED BY <2>1, <2>2, Zenon
<1> QED BY <1>1, <1>2, <1>3, <1>4, PutInv, Zenon

(* or a new major is made, which has room. *)
LEMMA Case2Inv ==
  ASSUME Inv, Case2
  PROVE  Inv'
<1> DEFINE m == call.maj
<1>1. /\ call.pc = "case2" /\ m \in Elements(majors) /\ call.req \in Requests /\ Put(m, 0)
      /\ UNCHANGED <<pagingVars, frames, majors, l_bestBet, l_allocated, chunks>>
      /\ block[m].chain = <<>> /\ block[m].pages = PagesFor(call.req)
  BY Zenon DEF Case2, Inv, CallInv, Visits
<1>2. l_bestBet' \in Elements(majors) \cup {NULL}
  BY <1>1, Zenon DEF Inv, ListInv
<1>3. 0 \in Gaps(m) /\ Gap(m, 0) >= Need(call.req)
  BY <1>1, NewMajorHasRoom, EmptyHasRoom, Zenon
<1> QED BY <1>1, <1>2, <1>3, PutInv, Zenon

(* A block is freed.  The step gives back the minor at place i of major m, *)
(* which is the block's own; the other blocks keep theirs.                 *)
LEMMA FreedMinor ==
  ASSUME Inv, NEW b \in blocks, NEW m \in Elements(majors), NEW i \in 1 .. Len(block[m].chain),
         Align(block[m].chain[i].at) = b.ptr
  PROVE  /\ IsBlock(b, block[m].chain[i])
         /\ \A d \in blocks \ {b} : \E o \in Elements(majors) : \E j \in 1 .. Len(block[o].chain) :
              IsBlock(d, block[o].chain[j]) /\ (o # m \/ j # i)
<1>1. IsBlock(b, block[m].chain[i])
  <2>1. PICK o \in Elements(majors) : \E j \in 1 .. Len(block[o].chain) :
               IsBlock(b, block[o].chain[j])
    BY Zenon DEF Inv, BlockInv
  <2>2. PICK j \in 1 .. Len(block[o].chain) : IsBlock(b, block[o].chain[j])
    BY <2>1, Zenon
  <2>3. o = m /\ j = i
    <3>1. Align(block[o].chain[j].at) = Align(block[m].chain[i].at)
      BY <2>2, Zenon DEF IsBlock
    <3> QED BY <3>1, PointerUnique, Zenon
  <2> QED BY <2>2, <2>3, Zenon
<1>2. ASSUME NEW d \in blocks \ {b}
      PROVE  \E o \in Elements(majors) : \E j \in 1 .. Len(block[o].chain) :
               IsBlock(d, block[o].chain[j]) /\ (o # m \/ j # i)
  <2>1. PICK o \in Elements(majors) : \E j \in 1 .. Len(block[o].chain) :
               IsBlock(d, block[o].chain[j])
    BY Zenon DEF Inv, BlockInv
  <2>2. PICK j \in 1 .. Len(block[o].chain) : IsBlock(d, block[o].chain[j])
    BY <2>1, Zenon
  <2>3. o # m \/ j # i
    <3>1. b \in Blocks /\ d \in Blocks /\ b # d
      BY Zenon DEF Inv, TypeOK
    <3> QED BY <1>1, <2>2, <3>1, SMTT(40) DEF IsBlock, Blocks
  <2> QED BY <2>2, <2>3, Zenon
<1> QED BY <1>1, <1>2, Zenon

(* The last minor of a major goes, and the major with it. *)
LEMMA UnlinkInv ==
  ASSUME Inv, lock = Nobody, NEW b \in blocks, NEW m \in Elements(majors),
         NEW i \in 1 .. Len(block[m].chain), Align(block[m].chain[i].at) = b.ptr,
         Len(block[m].chain) = 1, Unlink(m, i), blocks' = blocks \ {b},
         UNCHANGED <<pagingVars, lock, call>>
  PROVE  /\ FramesInv' /\ ListInv' /\ CallInv' /\ BlockInv' /\ majors' \in Seq(Bases)
         /\ block' \in [Bases -> Majors] /\ l_bestBet' \in Bases \cup {NULL}
         /\ l_allocated' \in Int /\ held' \subseteq held /\ taken' \subseteq taken
<1> DEFINE p == Position(m)
           h == Held(m)
<1>1. /\ majors' = Remove(majors, p) /\ block' = [block EXCEPT ![m] = Empty]
      /\ l_bestBet' = (IF l_bestBet = m THEN NULL ELSE l_bestBet)
      /\ l_allocated' = l_allocated - block[m].pages * PageSize
      /\ held' = held \ {h} /\ taken' = taken \ Frames!Span(h)
  BY Zenon DEF Unlink, Frames!TakeBack, Held
<1>2. majors \in Seq(Bases) /\ block \in [Bases -> Majors] /\ l_allocated \in Int
  BY Zenon DEF Inv, TypeOK
<1>3. p \in 1 .. Len(majors) /\ majors[p] = m
  <2>1. \E j \in 1 .. Len(majors) : majors[j] = m
    BY <1>2, InList, Zenon
  <2> QED BY <2>1, Zenon DEF Position
<1> HIDE DEF p
<1>4. Without(Bases, majors', majors, p)
  BY <1>1, <1>2, <1>3, Removed, Zenon
<1>5. /\ majors' \in Seq(Bases) /\ Len(majors) \in Nat /\ Len(majors') = Len(majors) - 1
  BY <1>2, <1>4, SMTT(40) DEF Without
<1>6. /\ \A j \in 1 .. Len(majors) : j # p => \E k \in 1 .. Len(majors') : majors'[k] = majors[j]
      /\ \A k \in 1 .. Len(majors') : \E j \in 1 .. Len(majors) \ {p} :
           majors'[k] = majors[j] /\ j = IF k < p THEN k ELSE k + 1
  <2>1. Places(majors', majors, p)
    BY <1>2, <1>3, <1>4, RemovedPlaces, Zenon
  <2> QED BY <2>1, Zenon DEF Places
<1>7. \A j, k \in 1 .. Len(majors) : majors[j] = majors[k] => j = k
  BY Zenon DEF Inv, ListInv
<1>8. \A o : o \in Elements(majors') <=> o \in Elements(majors) /\ o # m
  <2>1. \A o : o \in Elements(majors) <=> \E j \in 1 .. Len(majors) : majors[j] = o
    BY <1>2, InList, Zenon
  <2>2. \A o : o \in Elements(majors') <=> \E j \in 1 .. Len(majors') : majors'[j] = o
    BY <1>5, InList, Zenon
  <2>3. ASSUME NEW o, o \in Elements(majors')
        PROVE  o \in Elements(majors) /\ o # m
    <3>1. PICK k \in 1 .. Len(majors') : majors'[k] = o
      BY <2>2, <2>3, Zenon
    <3>2. PICK j \in 1 .. Len(majors) \ {p} : o = majors[j]
      BY <1>6, <3>1, Zenon
    <3> QED BY <1>3, <1>7, <2>1, <3>2, Zenon
  <2>4. ASSUME NEW o, o \in Elements(majors), o # m
        PROVE  o \in Elements(majors')
    <3>1. PICK j \in 1 .. Len(majors) : majors[j] = o
      BY <2>1, <2>4, Zenon
    <3>2. j # p
      BY <1>3, <2>4, <3>1, Zenon
    <3> QED BY <1>6, <2>2, <3>1, <3>2, Zenon
  <2> QED BY <2>3, <2>4, Zenon
<1>9. \A j, k \in 1 .. Len(majors') : majors'[j] = majors'[k] => j = k
  <2> SUFFICES ASSUME NEW j \in 1 .. Len(majors'), NEW k \in 1 .. Len(majors'),
                      majors'[j] = majors'[k]
               PROVE  j = k
    BY Zenon
  <2>1. PICK u \in 1 .. Len(majors) \ {p} :
               majors'[j] = majors[u] /\ u = IF j < p THEN j ELSE j + 1
    BY <1>6, Zenon
  <2>2. PICK v \in 1 .. Len(majors) \ {p} :
               majors'[k] = majors[v] /\ v = IF k < p THEN k ELSE k + 1
    BY <1>6, Zenon
  <2>3. u = v
    BY <1>7, <2>1, <2>2, Zenon
  <2> QED BY <1>3, <1>5, <2>1, <2>2, <2>3, SMTT(40)
<1>10. \A o \in Elements(majors') : o \in Bases /\ block'[o] = block[o]
  BY <1>1, <1>2, <1>8, ListWalk, Zenon
<1>11. \A o \in Elements(majors') : Held(o) \in held /\ Held(o) # h
  <2>1. \A o \in Elements(majors) : Held(o).start = Page(o) /\ o = Page(o) * PageSize
    BY MajorProps, Zenon DEF Held
  <2> QED BY <1>8, <2>1, MajorProps, Zenon DEF h
<1>12. ListInv'
  <2>1. l_bestBet' \in Elements(majors') \cup {NULL}
    BY <1>1, <1>8, Zenon DEF Inv, ListInv
  <2>2. \A o \in Elements(majors') :
          /\ Laid(o, block'[o]) /\ [start |-> Page(o), n |-> block'[o].pages] \in held'
          /\ Frames!Span([start |-> Page(o), n |-> block'[o].pages]) \subseteq mapped'
    <3> HIDE DEF h
    <3>1. mapped' = mapped
      BY Zenon DEF pagingVars
    <3> QED BY <1>1, <1>8, <1>10, <1>11, <3>1, SMTT(40) DEF Inv, ListInv, Held
  <2> QED BY <1>9, <2>1, <2>2, Zenon DEF ListInv, Held, Frames!Span
<1>13. FramesInv'
  <2>1. h \in held
    BY MajorProps, Zenon
  <2> HIDE DEF h
  <2>2. \A r \in held' : /\ r.n # 0 /\ KernelPages <= r.start /\ r.start + r.n <= NPages
                         /\ Frames!Span(r) \subseteq taken /\ Frames!Span(r) \cap Frames!Span(h) = {}
    BY <1>1, <2>1, Zenon DEF Inv, FramesInv
  <2>3. \A r, s \in held' : r # s => Frames!Span(r) \cap Frames!Span(s) = {}
    BY <1>1, Zenon DEF Inv, FramesInv
  <2>4. \A r \in held' : Frames!Span(r) \subseteq taken'
    BY <1>1, <2>2, Zenon
  <2> QED BY <2>2, <2>3, <2>4, Zenon DEF FramesInv, Frames!Span
<1>14. CallInv'
  <2>1. call.pc = "none" /\ call.done = 0
    BY Zenon DEF Inv, CallInv, Mapping
  <2> QED BY <2>1, Zenon DEF CallInv, Visits, Mapping
<1>15. BlockInv'
  <2>1. ASSUME NEW d \in blocks \ {b}
        PROVE  \E o \in Elements(majors') : \E j \in 1 .. Len(block'[o].chain) :
                 IsBlock(d, block'[o].chain[j])
    <3>1. PICK o \in Elements(majors) : \E j \in 1 .. Len(block[o].chain) :
               IsBlock(d, block[o].chain[j]) /\ (o # m \/ j # i)
      BY FreedMinor, SMTT(40)
    <3>2. PICK j \in 1 .. Len(block[o].chain) :
               IsBlock(d, block[o].chain[j]) /\ (o # m \/ j # i)
      BY <3>1, Zenon
    <3>3. o # m
      <4> SUFFICES ASSUME o = m PROVE FALSE
        BY Zenon
      <4>1. i \in 1 .. 1 /\ j \in 1 .. 1
        BY <3>2, Zenon
      <4> QED BY <3>2, <4>1, SMTT(40)
    <3>4. o \in Elements(majors') /\ block'[o] = block[o]
      BY <1>8, <1>10, <3>3, Zenon
    <3> QED BY <3>2, <3>4, Zenon
  <2> QED BY <2>1, Zenon DEF BlockInv, IsBlock
<1>16. block' \in [Bases -> Majors]
  <2>1. Empty \in Majors
    BY SMTT(40) DEF Empty, Majors
  <2> QED BY <1>1, <1>2, <2>1, Zenon
<1>17. l_allocated' \in Int
  <2>1. block[m].pages * PageSize \in Nat
    BY MajorProps, Zenon
  <2> QED BY <1>1, <1>2, <2>1, SMTT(40)
<1>18. l_bestBet' \in Bases \cup {NULL}
  BY <1>1, ListWalk, Zenon DEF Inv, ListInv
<1> QED BY <1>1, <1>5, <1>12, <1>13, <1>14, <1>15, <1>16, <1>17, <1>18, Zenon

(* Another minor goes, and the major stays. *)
LEMMA DropInv ==
  ASSUME Inv, lock = Nobody, NEW b \in blocks, NEW m \in Elements(majors),
         NEW i \in 1 .. Len(block[m].chain), Align(block[m].chain[i].at) = b.ptr,
         Len(block[m].chain) # 1, Drop(m, i), blocks' = blocks \ {b},
         UNCHANGED <<pagingVars, lock, call>>
  PROVE  /\ FramesInv' /\ ListInv' /\ CallInv' /\ BlockInv' /\ majors' \in Seq(Bases)
         /\ block' \in [Bases -> Majors] /\ l_bestBet' \in Bases \cup {NULL}
         /\ l_allocated' \in Int /\ held' \subseteq held /\ taken' \subseteq taken
<1> DEFINE f == block[m]
           g == block'[m]
           s == f.chain
           t == Remove(s, i)
           u == f.usage - (s[i].size + Minor)
<1>1. /\ block' = [block EXCEPT ![m].chain = Remove(@, i),
                                ![m].usage = @ - (block[m].chain[i].size + Minor)]
      /\ l_bestBet' \in {m, l_bestBet}
      /\ UNCHANGED <<majors, l_allocated, held, taken>>
  BY DEF Drop, frames
<1>2. majors \in Seq(Bases) /\ block \in [Bases -> Majors] /\ l_allocated \in Int
  BY Zenon DEF Inv, TypeOK
<1>3. m \in Bases /\ f \in Majors /\ Laid(m, f) /\ i \in 1 .. Len(s) /\ Len(s) # 1
  BY MajorProps, Zenon
<1>4. u \in Int
  <2>1. s[i].size \in Nat
    BY MinorProps, Zenon
  <2> QED BY <1>3, <2>1, Sizes, SMTT(40) DEF Majors
<1>5. block' = [block EXCEPT ![m].chain = t, ![m].usage = u]
  BY <1>1, <1>2, <1>3 DEF Majors
<1> HIDE DEF t, u
<1>6. /\ g = [pages |-> f.pages, usage |-> u, chain |-> t]
      /\ \A o \in Bases : o # m => block'[o] = block[o]
      /\ block' = [o \in Bases |-> block'[o]]
  <2>1. g = [[f EXCEPT !.chain = t] EXCEPT !.usage = u]
    BY <1>2, <1>3, <1>5
  <2>2. g = [pages |-> f.pages, usage |-> u, chain |-> t]
    BY <1>3, <2>1, Zenon DEF Majors
  <2> QED BY <1>2, <1>3, <1>5, <2>2, Zenon
<1>7. DropAt(f, g, i) /\ g.pages = f.pages
  <2>1. g.pages = f.pages /\ g.usage = u /\ g.chain = t
    BY <1>6, SMTT(40)
  <2> QED BY <1>3, <2>1, Zenon DEF DropAt, t, u
<1> HIDE DEF f, g
<1>8. Laid(m, g) /\ Without(Minors, g.chain, s, i)
  <2>1. m \in Nat
    BY MajorProps, Zenon
  <2>2. f.usage \in Int
    BY <1>3, Zenon DEF Majors
  <2> QED BY <1>3, <1>7, <2>1, <2>2, DropLaid, Zenon
<1>9. Places(g.chain, s, i)
  <2>1. s \in Seq(Minors)
    BY <1>3, Zenon DEF Laid
  <2> QED BY <1>3, <1>8, <2>1, RemovedPlaces, Zenon
<1>10. g \in Majors
  <2>1. g.chain \in Seq(Minors) /\ f.pages \in Nat
    BY <1>3, <1>8, Zenon DEF Without, Majors
  <2>2. g = [pages |-> f.pages, usage |-> u, chain |-> g.chain]
    BY <1>6, Zenon
  <2> QED BY <1>4, <2>1, <2>2 DEF Majors
<1>11. block' \in [Bases -> Majors]
  <2>1. \A o \in Bases : block'[o] \in Majors
    BY <1>2, <1>6, <1>10 DEF g
  <2> QED BY <1>6, <2>1
<1>12. \A o \in Elements(majors) : o # m => block'[o] = block[o]
  BY <1>6, ListWalk, Zenon
<1>13. l_bestBet' \in Elements(majors) \cup {NULL} /\ l_bestBet' \in Bases \cup {NULL}
  BY <1>1, ListWalk DEF Inv, ListInv
<1>14. ListInv'
  <2>1. UNCHANGED <<majors, held, mapped>>
    BY <1>1 DEF pagingVars
  <2> QED BY <1>7, <1>8, <1>12, <1>13, <2>1, ListKept, Zenon DEF f, g
<1>15. CallInv'
  <2>1. call.pc = "none" /\ call.done = 0
    BY Zenon DEF Inv, CallInv, Mapping
  <2> QED BY <2>1, Zenon DEF CallInv, Visits, Mapping
<1>16. BlockInv'
  <2>1. ASSUME NEW d \in blocks \ {b}
        PROVE  \E o \in Elements(majors) : \E j \in 1 .. Len(block'[o].chain) :
                 IsBlock(d, block'[o].chain[j])
    <3>1. PICK o \in Elements(majors) : \E j \in 1 .. Len(block[o].chain) :
               IsBlock(d, block[o].chain[j]) /\ (o # m \/ j # i)
      BY FreedMinor, SMTT(40)
    <3>2. PICK j \in 1 .. Len(block[o].chain) :
               IsBlock(d, block[o].chain[j]) /\ (o # m \/ j # i)
      BY <3>1, Zenon
    <3>3. CASE o # m
      BY <1>12, <3>2, <3>3, Zenon
    <3>4. CASE o = m
      <4>1. j \in 1 .. Len(s) /\ j # i /\ IsBlock(d, s[j])
        BY <3>2, <3>4, Zenon DEF f
      <4>2. PICK k \in 1 .. Len(g.chain) : g.chain[k] = s[j]
        BY <1>9, <4>1, Zenon DEF Places
      <4> QED BY <4>1, <4>2, Zenon DEF g
    <3> QED BY <3>3, <3>4, Zenon
  <2>2. majors' = majors
    BY <1>1, Zenon
  <2> QED BY <2>1, <2>2, Zenon DEF BlockInv, IsBlock
<1>17. FramesInv'
  BY <1>1, Kept
<1> QED BY <1>1, <1>2, <1>11, <1>13, <1>14, <1>15, <1>16, <1>17

(* free, by a caller or at the end of a realloc *)
LEMMA FreeInv ==
  ASSUME Inv, NEW b \in blocks, FreeBlock(b), JobInv', job' \in [Callers -> Jobs]
  PROVE  Inv'
<1>1. PICK m \in Elements(majors) : \E i \in 1 .. Len(block[m].chain) :
        /\ Align(block[m].chain[i].at) = b.ptr
        /\ l_inuse' = l_inuse - block[m].chain[i].size
        /\ IF Len(block[m].chain) = 1 THEN Unlink(m, i) ELSE Drop(m, i)
  BY Zenon DEF FreeBlock
<1>2. PICK i \in 1 .. Len(block[m].chain) :
        /\ Align(block[m].chain[i].at) = b.ptr
        /\ l_inuse' = l_inuse - block[m].chain[i].size
        /\ IF Len(block[m].chain) = 1 THEN Unlink(m, i) ELSE Drop(m, i)
  BY <1>1, Zenon
<1>3. /\ lock = Nobody /\ blocks' = blocks \ {b} /\ UNCHANGED <<pagingVars, lock, call>>
      /\ chunks' = chunks
  BY Zenon DEF FreeBlock
<1>4. /\ FramesInv' /\ ListInv' /\ CallInv' /\ BlockInv' /\ majors' \in Seq(Bases)
      /\ block' \in [Bases -> Majors] /\ l_bestBet' \in Bases \cup {NULL}
      /\ l_allocated' \in Int /\ held' \subseteq held /\ taken' \subseteq taken
  <2>1. CASE Len(block[m].chain) = 1
    <3>1. Unlink(m, i)
      BY <1>2, <2>1, Zenon
    <3> QED BY <1>2, <1>3, <2>1, <3>1, UnlinkInv, Zenon
  <2>2. CASE Len(block[m].chain) # 1
    <3>1. Drop(m, i)
      BY <1>2, <2>2, Zenon
    <3> QED BY <1>2, <1>3, <2>2, <3>1, DropInv, Zenon
  <2> QED BY <2>1, <2>2, Zenon
<1>5. l_inuse' \in Int
  <2>1. block[m].chain[i].size \in Nat
    BY MinorProps, Zenon
  <2> QED BY <1>2, <2>1, SMTT(40) DEF Inv, TypeOK
<1>6. TypeOK'
  BY <1>3, <1>4, <1>5, Zenon DEF Inv, TypeOK, pagingVars
<1>7. PagingInv'
  BY <1>3, Kept, Zenon
<1> QED BY <1>4, <1>6, <1>7 DEF Inv

(* A free by whoever has the block: no realloc works on it. *)
LEMMA FreeCallInv ==
  ASSUME Inv, NEW b \in blocks, FreeCall(b)
  PROVE  Inv'
<1>1. Idle(b) /\ FreeBlock(b) /\ job' = job /\ blocks' = blocks \ {b}
  BY Zenon DEF FreeCall, FreeBlock
<1>2. JobInv'
  BY <1>1, Zenon DEF Inv, JobInv, Idle
<1>3. job' \in [Callers -> Jobs]
  BY <1>1 DEF Inv, TypeOK
<1> QED BY <1>1, <1>2, <1>3, FreeInv

(* The end of a realloc: the old block is there, and no other works on it. *)
LEMMA ReallocFreeInv ==
  ASSUME Inv, NEW c \in Callers, ReallocFree(c)
  PROVE  Inv'
<1> DEFINE b == job[c].old
<1>1. /\ job[c].pc = "free" /\ FreeBlock(b) /\ job' = [job EXCEPT ![c] = NoJob]
      /\ blocks' = blocks \ {b}
  BY Zenon DEF ReallocFree, FreeBlock
<1>2. b \in blocks /\ job \in [Callers -> Jobs]
  BY <1>1, Zenon DEF Inv, JobInv, TypeOK
<1>3. job'[c] = NoJob /\ NoJob.pc = "none" /\ \A d \in Callers : d # c => job'[d] = job[d]
  BY <1>1, <1>2, Zenon DEF NoJob
<1>4. JobInv'
  BY <1>1, <1>3, SMTT(40) DEF Inv, JobInv
<1>5. job' \in [Callers -> Jobs]
  <2>1. NoJob \in Jobs
    BY DEF NoJob, Jobs, NoBlock, Blocks, NULL
  <2> QED BY <1>1, <1>2, <2>1
<1> QED BY <1>1, <1>2, <1>4, <1>5, FreeInv

(* The first part of a realloc that needs a larger block *)
LEMMA ReallocInv ==
  ASSUME Inv, NEW c \in Callers, NEW b \in blocks, NEW n \in Requests, Realloc(c, b, n)
  PROVE  Inv'
<1> DEFINE j == [pc |-> "malloc", old |-> b, len |-> n]
<1>1. /\ Idle(b) /\ job' = [job EXCEPT ![c] = j]
      /\ UNCHANGED <<pagingVars, frames, heap, lock, call, blocks, chunks>>
  BY DEF Realloc
<1>2. job \in [Callers -> Jobs] /\ b \in Blocks /\ n \in Nat
  BY RequestSizes DEF Inv, TypeOK
<1>3. j \in Jobs
  BY <1>2 DEF Jobs
<1>4. job' \in [Callers -> Jobs] /\ job'[c] = j /\ \A d \in Callers : d # c => job'[d] = job[d]
  <2> HIDE DEF j
  <2> QED BY <1>1, <1>2, <1>3
<1>5. JobInv'
  <2>1. JobInv /\ \A d \in Callers : job[d].old # b
    BY <1>1, Zenon DEF Inv, Idle
  <2>2. job'[c].old = b /\ job'[c].len = n /\ blocks' = blocks
    BY <1>1, <1>4
  <2> HIDE DEF j
  <2>3. \A d \in Callers : job'[d].pc # "none" => job'[d].old \in blocks' /\ job'[d].len \in Requests
    BY <1>4, <2>1, <2>2, Zenon DEF JobInv
  <2>4. \A d, e \in Callers :
          job'[d].pc # "none" /\ job'[e].pc # "none" /\ d # e => job'[d].old # job'[e].old
    <3> TAKE d, e \in Callers
    <3>1. CASE d = c \/ e = c
      BY <1>4, <2>1, <2>2, <3>1, Zenon
    <3>2. CASE d # c /\ e # c
      <4>1. job'[d] = job[d] /\ job'[e] = job[e]
        BY <1>4, <3>2, Zenon
      <4> QED BY <2>1, <4>1, Zenon DEF JobInv
    <3> QED BY <3>1, <3>2, Zenon
  <2> QED BY <2>3, <2>4, Zenon DEF JobInv
<1>6. PagingInv' /\ FramesInv' /\ ListInv' /\ CallInv' /\ BlockInv'
  <2>1. l_bestBet' \in Elements(majors) \cup {NULL}
    BY <1>1, Zenon DEF Inv, ListInv, heap
  <2> QED BY <1>1, <2>1, Kept, Zenon DEF heap, frames, pagingVars
<1>7. TypeOK'
  BY <1>1, <1>4, Zenon DEF Inv, TypeOK, heap, frames, pagingVars
<1> QED BY <1>5, <1>6, <1>7 DEF Inv

(* A realloc that does not need more: the minor gets the new size, and so  *)
(* does the block.                                                         *)
LEMMA ShrinkInv ==
  ASSUME Inv, NEW b \in blocks, NEW n \in Requests, Shrink(b, n)
  PROVE  Inv'
<1> DEFINE e == [b EXCEPT !.len = n]
<1>1. /\ Idle(b) /\ b.len >= n /\ blocks' = (blocks \ {b}) \cup {e}
      /\ UNCHANGED <<pagingVars, frames, majors, l_bestBet, l_inuse, l_allocated, lock, call, job,
                     chunks>>
      /\ lock = Nobody
  BY DEF Shrink
<1>2. PICK m \in Elements(majors) : \E i \in 1 .. Len(block[m].chain) :
        /\ Align(block[m].chain[i].at) = b.ptr
        /\ block' = [block EXCEPT ![m].chain[i].req_size = n]
  BY Zenon DEF Shrink
<1>3. PICK i \in 1 .. Len(block[m].chain) :
        /\ Align(block[m].chain[i].at) = b.ptr
        /\ block' = [block EXCEPT ![m].chain[i].req_size = n]
  BY <1>2, Zenon
<1>4. b \in Blocks /\ n \in Nat /\ e \in Blocks /\ e.ptr = b.ptr /\ e.len = n
  <2>1. b \in Blocks /\ n \in Nat
    BY RequestSizes DEF Inv, TypeOK
  <2> QED BY <2>1 DEF Blocks
<1> HIDE DEF e
<1> DEFINE f == block[m]
           g == block'[m]
<1>5. m \in Bases /\ f \in Majors /\ Laid(m, f) /\ i \in 1 .. Len(f.chain)
      /\ block \in [Bases -> Majors]
  BY MajorProps, Zenon DEF Inv, TypeOK
<1>6. /\ IsBlock(b, f.chain[i])
      /\ \A d \in blocks \ {b} : \E o \in Elements(majors) : \E j \in 1 .. Len(block[o].chain) :
           IsBlock(d, block[o].chain[j]) /\ (o # m \/ j # i)
  BY <1>3, FreedMinor
<1>7. /\ g = [f EXCEPT !.chain[i].req_size = n]
      /\ \A o \in Bases : o # m => block'[o] = block[o]
      /\ block' = [o \in Bases |-> block'[o]]
  BY <1>3, <1>5, Zenon
<1>8. ShrinkAt(f, g, i, n)
  <2>1. n <= f.chain[i].req_size
    BY <1>1, <1>6, Zenon DEF IsBlock
  <2> QED BY <1>7, <2>1 DEF ShrinkAt
<1> HIDE DEF f, g
<1>9. /\ Laid(m, g) /\ Len(g.chain) = Len(f.chain) /\ g.pages = f.pages
      /\ \A j \in 1 .. Len(f.chain) :
           /\ g.chain[j].at = f.chain[j].at
           /\ g.chain[j].req_size = IF j = i THEN n ELSE f.chain[j].req_size
  BY <1>5, <1>8, ShrinkLaid, SMTT(40)
<1>10. g \in Majors
  <2>1. g.chain \in Seq(Minors)
    BY <1>9, Zenon DEF Laid
  <2>2. f = [pages |-> f.pages, usage |-> f.usage, chain |-> f.chain]
        /\ f.pages \in Nat /\ f.usage \in Int
    BY <1>5 DEF Majors
  <2>3. g = [pages |-> f.pages, usage |-> f.usage, chain |-> g.chain]
    BY <1>7, <2>2
  <2> QED BY <2>1, <2>2, <2>3 DEF Majors
<1>11. block' \in [Bases -> Majors]
  <2>1. \A o \in Bases : block'[o] \in Majors
    BY <1>5, <1>7, <1>10, Zenon DEF g
  <2> QED BY <1>7, <2>1
<1>12. \A o \in Elements(majors) : o # m => block'[o] = block[o]
  BY <1>7, ListWalk
<1>13. ListInv'
  <2>1. UNCHANGED <<majors, held, mapped>> /\ l_bestBet' \in Elements(majors) \cup {NULL}
    BY <1>1, Zenon DEF pagingVars, frames, Inv, ListInv
  <2> QED BY <1>9, <1>12, <2>1, ListKept, Zenon DEF f, g
<1>14. CallInv'
  <2>1. call.pc = "none" /\ call.done = 0
    BY <1>1, Zenon DEF Inv, CallInv, Mapping
  <2> QED BY <1>1, <2>1, Zenon DEF CallInv, Visits, Mapping
<1>15. BlockInv'
  <2>1. ASSUME NEW d \in blocks \ {b}
        PROVE  \E o \in Elements(majors) : \E j \in 1 .. Len(block'[o].chain) :
                 IsBlock(d, block'[o].chain[j])
    <3>1. PICK o \in Elements(majors) : \E j \in 1 .. Len(block[o].chain) :
               IsBlock(d, block[o].chain[j]) /\ (o # m \/ j # i)
      BY <1>6, Zenon
    <3>2. PICK j \in 1 .. Len(block[o].chain) :
               IsBlock(d, block[o].chain[j]) /\ (o # m \/ j # i)
      BY <3>1, Zenon
    <3>3. CASE o # m
      BY <1>12, <3>2, <3>3, Zenon
    <3>4. CASE o = m
      <4>1. j \in 1 .. Len(f.chain) /\ j # i /\ IsBlock(d, f.chain[j])
        BY <3>2, <3>4, Zenon DEF f
      <4>2. j \in 1 .. Len(g.chain) /\ IsBlock(d, g.chain[j])
        BY <1>9, <4>1, Zenon DEF IsBlock
      <4> QED BY <4>2, Zenon DEF g
    <3> QED BY <3>3, <3>4, Zenon
  <2>2. \E j \in 1 .. Len(block'[m].chain) : IsBlock(e, block'[m].chain[j])
    <3>1. i \in 1 .. Len(g.chain) /\ IsBlock(e, g.chain[i])
      BY <1>4, <1>5, <1>6, <1>9, Zenon DEF IsBlock
    <3> QED BY <3>1, Zenon DEF g
  <2>3. \A d \in blocks' : \E o \in Elements(majors) : \E j \in 1 .. Len(block'[o].chain) :
                 IsBlock(d, block'[o].chain[j])
    BY <1>1, <2>1, <2>2, Zenon
  <2>4. majors' = majors
    BY <1>1
  <2> QED BY <2>3, <2>4, Zenon DEF BlockInv, IsBlock
<1>16. JobInv'
  BY <1>1, Zenon DEF Inv, JobInv, Idle
<1>17. PagingInv' /\ FramesInv'
  BY <1>1, Kept, Zenon DEF frames
<1>18. TypeOK'
  <2>1. blocks' \subseteq Blocks
    BY <1>1, <1>4, Zenon DEF Inv, TypeOK
  <2> QED BY <1>1, <1>11, <2>1, Zenon DEF Inv, TypeOK, frames, pagingVars
<1> QED BY <1>13, <1>14, <1>15, <1>16, <1>17, <1>18 DEF Inv

(* Every step keeps the invariant. *)
LEMMA NextInv ==
  ASSUME Inv, [Next]_vars
  PROVE  Inv'
<1>1. CASE BootMap \/ BootAlloc \/ \E a \in Devices : BootDevice(a)
  BY <1>1, BootInv
<1>2. ASSUME NEW c \in Callers, NEW n \in Requests, Malloc(c, n)
      PROVE  Inv'
  BY <1>2, EnterInv, Zenon DEF Malloc
<1>3. CASE MallocStep
  BY <1>3, StartInv, FoundInv, GoOnInv, GrowInv, OutOfPagesInv, FailInv, MapNextInv, LinkInv,
     Case2Inv DEF MallocStep
<1>4. ASSUME NEW b \in blocks, FreeCall(b)
      PROVE  Inv'
  BY <1>4, FreeCallInv
<1>5. ASSUME NEW b \in blocks, NEW n \in Requests, Shrink(b, n)
      PROVE  Inv'
  BY <1>5, ShrinkInv
<1>6. ASSUME NEW c \in Callers, NEW b \in blocks, NEW n \in Requests, Realloc(c, b, n)
      PROVE  Inv'
  BY <1>6, ReallocInv
<1>7. ASSUME NEW c \in Callers, ReallocMalloc(c)
      PROVE  Inv'
  <2>1. /\ job[c].pc = "malloc" /\ Enter(c, job[c].len)
        /\ UNCHANGED <<pagingVars, frames, heap, job, blocks, chunks>>
    BY <1>7, Zenon DEF ReallocMalloc
  <2>2. job[c].len \in Requests
    BY <2>1, Zenon DEF Inv, JobInv
  <2> QED BY <2>1, <2>2, EnterInv, Zenon
<1>8. ASSUME NEW c \in Callers, ReallocFree(c)
      PROVE  Inv'
  BY <1>8, ReallocFreeInv
<1>9. CASE UNCHANGED vars
  <2>1. /\ UNCHANGED <<pagingVars, frames, majors, block, l_inuse, l_allocated, lock, job, blocks,
                       chunks>>
        /\ call' = call /\ l_bestBet' = l_bestBet
    BY <1>9, Zenon DEF vars, heap
  <2>2. l_bestBet' \in Elements(majors) \cup {NULL} /\ call' \in Calls
    BY <2>1, Zenon DEF Inv, ListInv, TypeOK
  <2>3. CallInv'
    BY <2>1, Kept, Zenon DEF frames, pagingVars
  <2> QED BY <2>1, <2>2, <2>3, SearchInv, Zenon
<1> QED BY <1>1, <1>2, <1>3, <1>4, <1>5, <1>6, <1>7, <1>8, <1>9, Zenon DEF Next

-----------------------------------------------------------------------------
(* The heap's structure is kept by every interleaving of calls (liballoc.c *)
(* 199-687): the inductive invariant.                                      *)
THEOREM HeapInvariant == Spec => []Inv
<1>1. Init => Inv
  BY InitInv
<1>2. Inv /\ [Next]_vars => Inv'
  BY NextInv
<1> QED BY <1>1, <1>2, PTL DEF Spec

(* NoStaleMajor (liballoc.c:580): the best bet, and the major that malloc  *)
(* looks at, are in the list.                                              *)
THEOREM NoPointerStale == Spec => []NoStaleMajor
<1>1. Inv => NoStaleMajor
  BY Zenon DEF Inv, ListInv, CallInv, Visits, NoStaleMajor
<1> QED BY <1>1, HeapInvariant, PTL

(* MappingKept (paging.c:57-102): a page that was mapped stays mapped to   *)
(* itself, whatever the heap and the boot map after it.                    *)
THEOREM MappingStays == Spec => []MappingKept
<1>1. Inv => MappingKept
  BY MappedToSelf DEF Inv
<1> QED BY <1>1, HeapInvariant, PTL

(* The gaps between the minors of a major are not negative, and what is    *)
(* free is not less than any of them.                                      *)
LEMMA GapsHaveRoom ==
  ASSUME Inv, NEW m \in Elements(majors), NEW k \in Gaps(m)
  PROVE  Gap(m, k) \in Nat /\ Gap(m, k) >= 0 /\ Free(m) \in Int /\ Gap(m, k) <= Free(m)
<1> DEFINE b == block[m]
           n == Len(b.chain)
<1>1. b \in Majors /\ Laid(m, b) /\ b.pages * PageSize \in Nat
  BY MajorProps, Zenon
<1>2. n \in Nat /\ k \in 0 .. n /\ Free(m) \in Int
  <2>1. b.chain \in Seq(Minors) /\ b.usage \in Int
    BY <1>1, Zenon DEF Majors
  <2> QED BY <1>1, <2>1 DEF Gaps, Free
<1>3. Gap(m, k) = GapOf(m, b, k)
  BY Zenon DEF Gap, GapEnd, GapStart, End, GapOf, Upper, Lower, After
<1>4. (\A j \in 0 .. n : GapOf(m, b, j) \in Nat) /\ Tally(n, RoomOf(m, b), Free(m))
  BY <1>1, Zenon DEF Laid, Counted, Free
<1>5. RoomOf(m, b) \in [0 .. n -> Nat] /\ RoomOf(m, b)[k] = GapOf(m, b, k)
  BY <1>2, <1>4 DEF RoomOf
<1>6. RoomOf(m, b)[k] <= Free(m)
  BY <1>2, <1>4, <1>5, TallyBounds, Zenon
<1>7. \A x \in Nat : x >= 0
  OBVIOUS
<1> QED BY <1>2, <1>3, <1>4, <1>5, <1>6, <1>7, Zenon

(* ChainsIntact (liballoc.c:321, 356, 400, 435): no header is overwritten. *)
THEOREM HeadersKept == Spec => []ChainsIntact
<1>1. ASSUME Inv PROVE ChainsIntact
  <2> SUFFICES ASSUME NEW m \in Elements(majors)
               PROVE  /\ \A k \in Gaps(m) : Gap(m, k) >= 0
                      /\ \A x \in Elements(block[m].chain) :
                           /\ Align(x.at) - Info >= x.at + Minor
                           /\ Align(x.at) + x.req_size <= x.at + Minor + x.size
    BY Zenon DEF ChainsIntact
  <2>1. \A k \in Gaps(m) : Gap(m, k) >= 0
    BY <1>1, GapsHaveRoom
  <2>2. ASSUME NEW x \in Elements(block[m].chain)
        PROVE  /\ Align(x.at) - Info >= x.at + Minor
               /\ Align(x.at) + x.req_size <= x.at + Minor + x.size
    <3>1. block[m].chain \in Seq(Minors)
      BY <1>1, MajorProps, Zenon DEF Laid
    <3>2. PICK i \in 1 .. Len(block[m].chain) : x = block[m].chain[i]
      BY <3>1, InList, Zenon
    <3>3. /\ x.at \in Nat /\ Align(x.at) \in Nat
          /\ x.at + Minor <= Align(x.at) - Info
          /\ Align(x.at) + x.req_size <= After(x)
      BY <1>1, <3>2, MinorProps, Zenon
    <3>4. \A a, p \in Nat : a + Minor <= p - Info => p - Info >= a + Minor
      BY Sizes, Zenon
    <3> QED BY <3>3, <3>4, Zenon DEF After
  <2> QED BY <2>1, <2>2, Zenon
<1> QED BY <1>1, HeapInvariant, PTL

(* A block's bytes are in the pages of its major. *)
LEMMA BlockPages ==
  ASSUME Inv, NEW b \in blocks, NEW p \in Page(b.ptr) .. Page(b.ptr + b.len - 1)
  PROVE  p \in mapped
<1>1. PICK m \in Elements(majors) : \E i \in 1 .. Len(block[m].chain) :
             IsBlock(b, block[m].chain[i])
  BY Zenon DEF Inv, BlockInv
<1>2. PICK i \in 1 .. Len(block[m].chain) : IsBlock(b, block[m].chain[i])
  BY <1>1, Zenon
<1> DEFINE x == block[m].chain[i]
           q == Page(m)
           n == block[m].pages
           last == b.ptr + b.len - 1
<1>3. /\ b.ptr = Align(x.at) /\ b.len = x.req_size /\ Align(x.at) \in Nat /\ x.at \in Nat
      /\ x.at < Align(x.at) /\ Align(x.at) + x.req_size <= After(x) /\ After(x) \in Nat
      /\ x.req_size \in Nat \ {0} /\ m + Major <= x.at /\ After(x) <= m + n * PageSize
  BY <1>2, MinorProps, Zenon DEF IsBlock
<1>4. /\ m \in Nat /\ q \in Nat /\ n \in Nat /\ m = q * PageSize /\ n * PageSize \in Nat
      /\ Frames!Span(Held(m)) = q .. q + n - 1 /\ PageSize \in Nat \ {0} /\ Major \in Nat
  BY MajorProps, Sizes, Zenon
<1>5. Frames!Span(Held(m)) \subseteq mapped
  BY Zenon DEF Inv, ListInv
<1> HIDE DEF x, q, n
<1>6. b.ptr \in Nat /\ last \in Nat /\ m <= b.ptr /\ last < m + n * PageSize
  <2>1. \A o, h, a, u, l, e, z \in Nat :
          a < u /\ u + l <= e /\ l # 0 /\ o + h <= a /\ e <= o + z =>
            /\ u + l - 1 \in Nat /\ o <= u /\ u + l - 1 < o + z
    BY SMTT(40)
  <2>2. x.req_size \in Nat /\ x.req_size # 0
    BY <1>3
  <2> DEFINE z == n * PageSize
             a == x.at
             u == Align(x.at)
             l == x.req_size
             e == After(x)
  <2>3. /\ m \in Nat /\ Major \in Nat /\ a \in Nat /\ u \in Nat /\ l \in Nat /\ e \in Nat
        /\ z \in Nat /\ l # 0 /\ a < u /\ u + l <= e /\ m + Major <= a /\ e <= m + z
        /\ b.ptr = u /\ last = u + l - 1
    BY <1>3, <1>4, <2>2, Zenon
  <2> HIDE DEF z, a, u, l, e, last
  <2>4. b.ptr \in Nat /\ last \in Nat /\ m <= b.ptr /\ last < m + z
    BY <2>1, <2>3, Zenon
  <2> QED BY <2>4, Zenon DEF z
<1> HIDE DEF last
<1>7. Page(last) \in Nat /\ Page(last) < q + n
  <2>1. (q + n) * PageSize = m + n * PageSize /\ q + n \in Nat
    BY <1>4
  <2>2. last \div PageSize < q + n
    BY <1>4, <1>6, <2>1, DivBelow, Zenon
  <2> QED BY <1>4, <1>6, <2>2, DivMod, Zenon DEF Page
<1>8. Page(b.ptr) \in Nat /\ q <= Page(b.ptr)
  <2> DEFINE u == b.ptr \div PageSize
             r == b.ptr % PageSize
  <2>1. u \in Nat /\ r \in 0 .. PageSize - 1 /\ b.ptr = PageSize * u + r
    BY <1>4, <1>6, DivMod, Zenon
  <2> HIDE DEF u, r
  <2>2. ASSUME u < q PROVE FALSE
    <3>1. (u + 1) * PageSize <= q * PageSize
      BY <1>4, <2>1, <2>2, TimesMonotonic, SMTT(40)
    <3>2. (u + 1) * PageSize = PageSize * u + PageSize /\ PageSize * u \in Nat
      BY <1>4, <2>1, SMTT(40)
    <3> QED BY <1>4, <1>6, <2>1, <3>1, <3>2, SMTT(40)
  <2> QED BY <1>4, <2>1, <2>2, SMTT(40) DEF Page, u
<1>9. p \in q .. q + n - 1
  BY <1>4, <1>7, <1>8, SMTT(40) DEF last
<1> QED BY <1>4, <1>5, <1>9

(* BlocksMapped (liballoc_hooks.c:23-25): every byte of a block is in a    *)
(* page that the processor finds.                                          *)
THEOREM BlocksReachable == Spec => []BlocksMapped
<1>1. ASSUME Inv PROVE BlocksMapped
  <2>1. MappingKept
    BY <1>1, MappedToSelf DEF Inv
  <2> QED BY <1>1, <2>1, BlockPages DEF BlocksMapped, MappingKept
<1> QED BY <1>1, HeapInvariant, PTL

(* A step that hands out a block hands out one that HeapAllocator allows:  *)
(* in the state after it, it is disjoint from the others.                  *)
Promised ==
  /\ \A b \in blocks : b.ptr % Alignment = 0 /\ Promise!Bytes(b) \subseteq Memory /\ b.ptr \in Memory
  /\ \A b, c \in blocks : b # c => Promise!Bytes(b) \cap Promise!Bytes(c) = {}

(* The invariant gives it in every state, so also in the next one. *)
LEMMA PromisedAlways == (Inv => Promised) /\ (Inv' => Promised')
<1>1. Inv => Promised
  BY BlockPromise DEF Promised
<1> QED BY <1>1, PTL

(* malloc hands out a block, or one that is already there. *)
LEMMA PutGives ==
  ASSUME Inv', NEW m, NEW k, Put(m, k), call.req \in Requests
  PROVE  [Promise!Next]_blocks
<1> DEFINE n == call.req
           p == Align(GapStart(m, k))
           b == [ptr |-> p, len |-> n]
<1>1. blocks' = blocks \cup {b}
  BY DEF Put
<1>2. /\ \A x \in blocks' : x.ptr % Alignment = 0 /\ Promise!Bytes(x) \subseteq Memory
                            /\ x.ptr \in Memory
      /\ \A x, c \in blocks' : x # c => Promise!Bytes(x) \cap Promise!Bytes(c) = {}
  BY PromisedAlways, Zenon DEF Promised, Promise!Bytes
<1> HIDE DEF n, p
<1>3. b.ptr = p
  OBVIOUS
<1> HIDE DEF b
<1>4. CASE b \in blocks
  BY <1>1, <1>4
<1>5. CASE b \notin blocks
  <2>1. Promise!Give(b)
    BY <1>1, <1>2, <1>5, Zenon DEF Promise!Give
  <2>2. p \in Memory /\ n \in Requests
    BY <1>1, <1>2, <1>3 DEF n
  <2> QED BY <2>1, <2>2 DEF Promise!Next, b
<1> QED BY <1>4, <1>5

(* ImplementsHeapAllocator (liballoc.c:199-687): malloc, realloc and free  *)
(* hand out aligned blocks that are nobody else's, however the parts of    *)
(* the calls of several tasks come between each other.                     *)
THEOREM ImplementsHeap == Spec => ImplementsHeapAllocator
<1>1. Init => Promise!Init
  BY DEF Init, Promise!Init
<1>2. ASSUME Inv, Inv', [Next]_vars PROVE [Promise!Next]_blocks
  <2>1. CASE MallocStep
    <3>1. call.pc # "none" => call.req \in Requests
      BY <1>2, Zenon DEF Inv, CallInv
    <3>2. CASE Found
      BY <1>2, <3>1, <3>2, PutGives DEF Found
    <3>3. CASE Case2
      BY <1>2, <3>1, <3>3, PutGives DEF Case2
    <3>4. CASE Start \/ GoOn \/ Grow \/ OutOfPages \/ Fail \/ MapNext \/ Link
      BY <3>4, Zenon DEF Start, GoOn, Grow, OutOfPages, Fail, MapNext, Link
    <3> QED BY <2>1, <3>2, <3>3, <3>4 DEF MallocStep
  <2>2. ASSUME NEW b \in blocks, FreeBlock(b) PROVE [Promise!Next]_blocks
    BY <2>2, Zenon DEF FreeBlock, Promise!Next, Promise!TakeBack
  <2>3. ASSUME NEW b \in blocks, FreeCall(b) PROVE [Promise!Next]_blocks
    BY <2>2, <2>3, Zenon DEF FreeCall
  <2>4. ASSUME NEW b \in blocks, NEW n \in Requests, Shrink(b, n) PROVE [Promise!Next]_blocks
    <3>1. n <= b.len
      <4>1. n \in Nat /\ b.len \in Nat
        BY <1>2, RequestSizes, Zenon DEF Inv, TypeOK, Blocks
      <4> QED BY <2>4, <4>1 DEF Shrink
    <3> QED BY <2>4, <3>1 DEF Shrink, Promise!Next, Promise!Shrink
  <2>5. ASSUME NEW c \in Callers, ReallocFree(c) PROVE [Promise!Next]_blocks
    <3>1. job[c].old \in blocks
      BY <1>2, <2>5, Zenon DEF ReallocFree, Inv, JobInv
    <3> QED BY <2>2, <2>5, <3>1, Zenon DEF ReallocFree
  <2>6. CASE BootMap \/ BootAlloc \/ (\E a \in Devices : BootDevice(a))
             \/ (\E c \in Callers, n \in Requests : Malloc(c, n))
             \/ (\E c \in Callers, b \in blocks, n \in Requests : Realloc(c, b, n))
             \/ (\E c \in Callers : ReallocMalloc(c)) \/ UNCHANGED vars
    BY <2>6, Zenon DEF BootMap, BootAlloc, BootDevice, Malloc, Realloc, ReallocMalloc, vars
  <2> QED BY <1>2, <2>1, <2>3, <2>4, <2>5, <2>6, Zenon DEF Next
<1>3. Inv /\ Inv' /\ [Next]_vars => [Promise!Next]_blocks
  BY <1>2
<1> QED BY <1>1, <1>3, HeapInvariant, PTL DEF Spec, ImplementsHeapAllocator, Promise!Spec

-----------------------------------------------------------------------------
(* malloc fails only if there is no room.  The majors that the search has  *)
(* passed, from the head of the list, have no room for the block; a search *)
(* that asks for pages has passed all of them.                             *)
NoRoom(m) == \A k \in Gaps(m) : Gap(m, k) < Need(call.req)
Before(m, o) == \E i, j \in 1 .. Len(majors) : majors[i] = m /\ majors[j] = o /\ i < j
Passed == {"case1", "case5", "map_case1", "map_case5", "fail"}
Searched ==
  /\ call.pc = "root" => majors = <<>>
  /\ call.pc = "loop" /\ ~call.startedBet =>
       \A m \in Elements(majors) : Before(m, call.maj) => NoRoom(m)
  /\ call.pc \in Passed => \A m \in Elements(majors) : NoRoom(m)

(* A major that CASE 1 or CASE 5 passes by has no room. *)
LEMMA FullHasNoRoom ==
  ASSUME Inv, NEW m \in Elements(majors), call.req \in Requests, Full(m)
  PROVE  NoRoom(m)
<1>1. Need(call.req) \in Nat
  BY RequestSizes, Zenon
<1>2. \A k \in Gaps(m) : Gap(m, k) \in Nat /\ Gap(m, k) <= Free(m) /\ Free(m) \in Int
  BY GapsHaveRoom, Zenon
<1>3. CASE Free(m) < Need(call.req)
  <2>1. \A g, n \in Nat, f \in Int : g <= f /\ f < n => g < n
    OBVIOUS
  <2> QED BY <1>1, <1>2, <1>3, <2>1, Zenon DEF NoRoom
<1>4. CASE Fits(m, call.req) = {}
  <2>1. \A k \in Gaps(m) : ~(Gap(m, k) >= Need(call.req))
    BY <1>4, Zenon DEF Fits
  <2>2. \A g, n \in Nat : ~(g >= n) => g < n
    OBVIOUS
  <2> QED BY <1>1, <1>2, <2>1, <2>2, Zenon DEF NoRoom
<1> QED BY <1>3, <1>4, Zenon DEF Full

(* It stays so while nothing is put into it or taken from it. *)
LEMMA NoRoomKept ==
  ASSUME NEW m, block'[m] = block[m], call'.req = call.req, NoRoom(m)
  PROVE  NoRoom(m)'
BY Zenon DEF NoRoom, Gaps, Gap, GapEnd, GapStart, End

(* Before the head of the list there is none to pass. *)
LEMMA NoneBeforeHead ==
  ASSUME Inv, majors # <<>>
  PROVE  \A m : ~Before(m, Head(majors))
<1>1. majors \in Seq(Bases) /\ \A i, j \in 1 .. Len(majors) : majors[i] = majors[j] => i = j
  BY Zenon DEF Inv, TypeOK, ListInv
<1>2. 1 \in 1 .. Len(majors) /\ Head(majors) = majors[1] /\ \A i \in 1 .. Len(majors) : ~(i < 1)
  BY <1>1
<1> SUFFICES ASSUME NEW i \in 1 .. Len(majors), NEW j \in 1 .. Len(majors),
                    majors[j] = Head(majors), i < j
             PROVE  FALSE
  BY Zenon DEF Before
<1>3. j = 1
  BY <1>1, <1>2, Zenon
<1> QED BY <1>2, <1>3, Zenon

(* The search starts, *)
LEMMA StartSearched ==
  ASSUME Inv, Start
  PROVE  Searched'
<1>1. call.pc = "start" /\ call \in Calls /\ majors # <<>> /\ majors' = majors
  BY Zenon DEF Start, heap, Inv, TypeOK, CallInv
<1>2. PICK size, started :
        /\ started \in BOOLEAN
        /\ call' = [call EXCEPT !.pc = "loop", !.bestSize = size, !.startedBet = started,
                                !.maj = IF started THEN l_bestBet ELSE Head(majors)]
  <2> DEFINE bet == l_bestBet # NULL
             size == IF bet THEN Free(l_bestBet) ELSE 0
             started == bet /\ size > Need(call.req)
  <2>1. call' = [call EXCEPT !.pc = "loop", !.bestSize = size, !.startedBet = started,
                             !.maj = IF started THEN l_bestBet ELSE Head(majors)]
    BY Zenon DEF Start
  <2>2. started \in BOOLEAN
    OBVIOUS
  <2> QED BY <2>1, <2>2, Zenon
<1>3. call'.pc = "loop" /\ (~call'.startedBet => call'.maj = Head(majors))
  BY <1>1, <1>2 DEF Calls
<1>4. call'.pc \notin Passed /\ call'.pc # "root"
  BY <1>3 DEF Passed
<1>5. ~call'.startedBet => \A m : ~Before(m, call.maj)'
  BY <1>1, <1>3, NoneBeforeHead, Zenon DEF Before
<1> QED BY <1>4, <1>5, Zenon DEF Searched

(* goes on to the next major, back to the head, or to a new one, *)
LEMMA GoOnSearched ==
  ASSUME Inv, Searched, GoOn
  PROVE  Searched'
<1> DEFINE m == call.maj
           n == Len(majors)
           p == Position(m)
<1>1. /\ call.pc = "loop" /\ call \in Calls /\ m \in Elements(majors) /\ call.req \in Requests
      /\ Full(m) /\ call' = Onward(m) /\ majors' = majors /\ block' = block
  BY Zenon DEF GoOn, Inv, TypeOK, CallInv, Visits
<1>2. /\ majors \in Seq(Bases) /\ \A i, j \in 1 .. n : majors[i] = majors[j] => i = j
  BY Zenon DEF Inv, TypeOK, ListInv
<1>3. p \in 1 .. n /\ majors[p] = m /\ n \in Nat /\ majors # <<>>
  <2>1. \E i \in 1 .. n : majors[i] = m
    BY <1>1, <1>2, InList, Zenon
  <2>2. p \in 1 .. n /\ majors[p] = m
    BY <2>1, Zenon DEF Position
  <2> QED BY <1>2, <2>2
<1>4. NoRoom(m)
  BY <1>1, FullHasNoRoom, Zenon
<1>5. ~call.startedBet => \A i \in 1 .. n : i <= p => NoRoom(majors[i])
  <2>1. ~call.startedBet => \A i \in 1 .. n : i < p => NoRoom(majors[i])
    <3>1. \A i \in 1 .. n : majors[i] \in Elements(majors)
      BY <1>2, InList, Zenon
    <3>2. \A i \in 1 .. n : i < p => Before(majors[i], m)
      BY <1>3, Zenon DEF Before
    <3> QED BY <1>1, <3>1, <3>2, Zenon DEF Searched
  <2>2. \A i \in 1 .. n : i <= p => i < p \/ i = p
    BY <1>3
  <2> QED BY <1>3, <1>4, <2>1, <2>2, Zenon
<1>6. \A pc, o : /\ To(pc, o).pc = pc /\ To(pc, o).maj = o /\ To(pc, o).req = call.req
                 /\ To(pc, o).startedBet = call.startedBet
  BY <1>1 DEF To, Calls
<1> HIDE DEF m, n, p
<1>7. CASE ~IsLast(m)
  <2>1. call' = To("loop", majors[p + 1])
    BY <1>1, <1>7, Zenon DEF Onward, NextMajor, p
  <2>2. /\ call'.pc = "loop" /\ call'.maj = majors[p + 1] /\ call'.req = call.req
        /\ call'.startedBet = call.startedBet
    <3>1. PICK o : o = majors[p + 1]
      OBVIOUS
    <3> QED BY <1>6, <2>1, <3>1
  <2>3. call'.pc \notin Passed /\ call'.pc # "root"
    BY <2>2 DEF Passed
  <2>4. p + 1 \in 1 .. n
    <3>1. p # n
      BY <1>3, <1>7, Zenon DEF IsLast, n
    <3> QED BY <1>3, <3>1
  <2>5. ASSUME ~call'.startedBet, NEW o \in Elements(majors), Before(o, call.maj)'
        PROVE  NoRoom(o)'
    <3>1. PICK i, j \in 1 .. n : majors[i] = o /\ majors[j] = majors[p + 1] /\ i < j
      BY <1>1, <2>2, <2>5, Zenon DEF Before, n
    <3>2. j = p + 1
      BY <1>2, <2>4, <3>1, Zenon
    <3>3. i <= p
      BY <1>3, <3>1, <3>2
    <3>4. NoRoom(o)
      BY <1>5, <2>2, <2>5, <3>1, <3>3, Zenon
    <3> QED BY <1>1, <2>2, <3>4, NoRoomKept, Zenon
  <2> QED BY <1>1, <2>2, <2>3, <2>5, Zenon DEF Searched
<1>8. CASE IsLast(m) /\ call.startedBet
  <2>1. call' = [To("loop", Head(majors)) EXCEPT !.startedBet = FALSE]
    BY <1>1, <1>8 DEF Onward
  <2>2. call'.pc = "loop" /\ call'.maj = Head(majors)
    BY <1>1, <2>1 DEF To, Calls
  <2>3. call'.pc \notin Passed /\ call'.pc # "root"
    BY <2>2 DEF Passed
  <2>4. \A o : ~Before(o, call.maj)'
    BY <1>1, <1>3, <2>2, NoneBeforeHead, Zenon DEF Before
  <2> QED BY <2>3, <2>4, Zenon DEF Searched
<1>9. CASE IsLast(m) /\ ~call.startedBet
  <2>1. PICK pc \in {"case1", "case5"} : call' = To(pc, m)
    BY <1>1, <1>9 DEF Onward
  <2>2. call'.pc = pc /\ call'.req = call.req
    BY <1>6, <2>1, Zenon
  <2>3. call'.pc # "root" /\ call'.pc # "loop"
    BY <2>2
  <2>4. p = n
    <3>1. n \in 1 .. n /\ majors[n] = m
      BY <1>3, <1>9 DEF IsLast, n
    <3> QED BY <1>2, <1>3, <3>1, Zenon
  <2>5. ASSUME NEW o \in Elements(majors)
        PROVE  NoRoom(o)'
    <3>1. PICK i \in 1 .. n : majors[i] = o
      BY <1>2, InList, Zenon DEF n
    <3>2. i <= p
      BY <1>3, <2>4
    <3>3. NoRoom(o)
      BY <1>5, <1>9, <3>1, <3>2, Zenon
    <3> QED BY <1>1, <2>2, <3>3, NoRoomKept, Zenon
  <2> QED BY <1>1, <2>3, <2>5, Zenon DEF Searched
<1> QED BY <1>7, <1>8, <1>9, Zenon

(* asks for pages, *)
LEMMA PagesSearched ==
  ASSUME Inv, Searched, Grow \/ OutOfPages \/ MapNext
  PROVE  Searched'
<1>1. call \in Calls /\ majors \in Seq(Bases) /\ majors' = majors /\ block' = block
  BY Zenon DEF Grow, OutOfPages, MapNext, heap, Inv, TypeOK
<1>2. /\ call'.req = call.req /\ call'.pc # "root" /\ call'.pc # "loop"
      /\ call'.pc \in Passed => call.pc \in Passed \/ call.pc = "root"
  <2>1. CASE Grow
    <3>1. PICK q, s, pc :
            /\ call' = [call EXCEPT !.new = q, !.pages = s, !.pc = pc]
            /\ pc = CASE call.pc = "root" -> "map_root"
                      [] call.pc = "case1" -> "map_case1"
                      [] call.pc = "case5" -> "map_case5"
      BY <1>1, <2>1, Zenon DEF Grow, Calls
    <3>2. call.pc \in {"root", "case1", "case5"}
      BY <2>1, Zenon DEF Grow
    <3>3. call'.req = call.req /\ call'.pc = pc
      BY <1>1, <3>1, Zenon DEF Calls
    <3>4. pc \in {"map_root", "map_case1", "map_case5"}
          /\ (pc # "map_root" => call.pc \in {"case1", "case5"})
      BY <3>1, <3>2
    <3> QED BY <3>3, <3>4 DEF Passed
  <2>2. CASE OutOfPages
    <3>1. call' = [call EXCEPT !.pc = "fail"] /\ call.pc \in {"root", "case1", "case5"}
      BY <2>2 DEF OutOfPages
    <3> QED BY <1>1, <3>1 DEF Calls, Passed
  <2>3. CASE MapNext
    <3>1. call' = [call EXCEPT !.done = call.done + 1] /\ Mapping
      BY <1>1, <2>3 DEF MapNext, Calls
    <3> QED BY <1>1, <3>1 DEF Calls, Passed, Mapping
  <2> QED BY <2>1, <2>2, <2>3, Zenon
<1>3. ASSUME call'.pc \in Passed, NEW o \in Elements(majors)
      PROVE  NoRoom(o)'
  <2>1. call.pc # "root"
    <3>1. majors # <<>>
      BY <1>1, <1>3, InList
    <3> QED BY <3>1, Zenon DEF Searched
  <2>2. NoRoom(o)
    BY <1>2, <1>3, <2>1, Zenon DEF Searched
  <2> QED BY <1>1, <1>2, <2>2, NoRoomKept, Zenon
<1> QED BY <1>1, <1>2, <1>3, Zenon DEF Searched

(* and finds the new major behind those that it has passed. *)
LEMMA LinkSearched ==
  ASSUME Inv, Searched, Link
  PROVE  Searched'
<1> DEFINE new == call.new
           n == Len(majors)
<1>1. Mapping /\ call \in Calls /\ new \in Bases /\ new \notin Elements(majors)
  BY Zenon DEF Link, Inv, TypeOK, CallInv
<1>2. majors \in Seq(Bases) /\ block \in [Bases -> Majors] /\ n \in Nat
  BY DEF Inv, TypeOK
<1>3. /\ majors' = Append(majors, new)
      /\ \E b : block' = [block EXCEPT ![new] = b]
  BY DEF Link
<1>4. /\ Len(majors') = n + 1 /\ majors' \in Seq(Bases)
      /\ \A i \in 1 .. n : majors'[i] = majors[i]
  <2> HIDE DEF new
  <2> QED BY <1>1, <1>2, <1>3
<1>5. /\ call'.maj = new /\ call'.req = call.req /\ call'.pc \in {"start", "case2", "loop"}
      /\ call'.pc = "loop" => call.pc = "map_case5"
  <2>1. PICK pc : /\ call' = [call EXCEPT !.pages = 0, !.done = 0, !.new = NULL, !.maj = new, !.pc = pc]
                  /\ pc = CASE call.pc = "map_root" -> "start"
                            [] call.pc = "map_case1" -> "case2"
                            [] call.pc = "map_case5" -> "loop"
    BY <1>1, Zenon DEF Link, Calls
  <2>2. call'.pc = pc /\ call'.maj = new /\ call'.req = call.req
    BY <1>1, <2>1, Zenon DEF Calls
  <2>3. call.pc \in {"map_root", "map_case1", "map_case5"}
    BY <1>1 DEF Mapping
  <2> HIDE DEF new
  <2> QED BY <2>1, <2>2, <2>3
<1> HIDE DEF new, n
<1>6. ASSUME call'.pc = "loop", NEW o, Before(o, call.maj)'
      PROVE  NoRoom(o)'
  <2>1. PICK i, j \in 1 .. n + 1 : majors'[i] = o /\ i < j
    BY <1>4, <1>6, Zenon DEF Before
  <2>2. i \in 1 .. n
    BY <1>2, <2>1
  <2>3. o \in Elements(majors) /\ o # new /\ o \in Bases
    <3>1. o = majors[i]
      BY <1>4, <2>1, <2>2, Zenon
    <3> QED BY <1>1, <1>2, <2>2, <3>1, InList, ListWalk, Zenon DEF n
  <2>4. NoRoom(o)
    <3>1. call.pc \in Passed
      BY <1>5, <1>6 DEF Passed
    <3> QED BY <2>3, <3>1, Zenon DEF Searched
  <2>5. block'[o] = block[o]
    BY <1>2, <1>3, <2>3
  <2> QED BY <1>5, <2>4, <2>5, NoRoomKept, Zenon
<1>7. call'.pc # "root" /\ call'.pc \notin Passed
  BY <1>5 DEF Passed
<1> QED BY <1>6, <1>7, Zenon DEF Searched

(* Nothing else moves a search. *)
LEMMA NextSearched ==
  ASSUME Inv, Searched, [Next]_vars
  PROVE  Searched'
<1>1. CASE UNCHANGED <<majors, block, call>>
  <2>1. majors' = majors /\ block' = block /\ call' = call
    BY <1>1
  <2>2. \A m : (NoRoom(m) => NoRoom(m)') /\ (Before(m, call.maj)' => Before(m, call.maj))
    BY <2>1, NoRoomKept, Zenon DEF Before
  <2> QED BY <2>1, <2>2, Zenon DEF Searched
<1>2. CASE call'.pc \in {"none", "start"}
  BY <1>2 DEF Searched, Passed
<1>3. CASE MallocStep
  <2>1. CASE Found \/ Fail \/ Case2
    <3>1. call' = NoCall
      BY <2>1, Zenon DEF Found, Fail, Case2, Put, Leave
    <3>2. call'.pc = "none"
      BY <3>1 DEF NoCall
    <3> QED BY <1>2, <3>2
  <2> QED BY <1>3, <2>1, StartSearched, GoOnSearched, PagesSearched, LinkSearched, Zenon
          DEF MallocStep
<1>4. ASSUME NEW c \in Callers, NEW k, Enter(c, k), UNCHANGED heap
      PROVE  Searched'
  <2>1. PICK pc : /\ call' = [NoCall EXCEPT !.pc = pc, !.req = k]
                  /\ pc = IF majors = <<>> THEN "root" ELSE "start"
    BY <1>4, Zenon DEF Enter
  <2>2. call'.pc = pc /\ majors' = majors
    BY <1>4, <2>1, Zenon DEF NoCall, heap
  <2>3. CASE majors = <<>>
    <3>1. call'.pc = "root"
      BY <2>1, <2>2, <2>3, Zenon
    <3> QED BY <2>2, <2>3, <3>1 DEF Searched, Passed
  <2>4. CASE majors # <<>>
    BY <1>2, <2>1, <2>2, <2>4
  <2> QED BY <2>3, <2>4, Zenon
<1>5. CASE lock = Nobody /\ call' = call
  <2>1. call.pc = "none"
    BY <1>5, Zenon DEF Inv, CallInv
  <2> QED BY <1>2, <1>5, <2>1
<1>6. CASE BootMap \/ BootAlloc \/ \E a \in Devices : BootDevice(a)
  BY <1>1, <1>6, Zenon DEF BootMap, BootAlloc, BootDevice, heap
<1>7. CASE \E c \in Callers, k \in Requests : Malloc(c, k)
  BY <1>4, <1>7, Zenon DEF Malloc
<1>8. CASE \E b \in blocks : FreeCall(b)
  BY <1>5, <1>8, Zenon DEF FreeCall, FreeBlock
<1>9. CASE \E b \in blocks, k \in Requests : Shrink(b, k)
  BY <1>5, <1>9, Zenon DEF Shrink
<1>10. CASE \E c \in Callers, b \in blocks, k \in Requests : Realloc(c, b, k)
  BY <1>5, <1>10, Zenon DEF Realloc
<1>11. CASE \E c \in Callers : ReallocMalloc(c) \/ ReallocFree(c)
  <2>1. PICK c \in Callers : ReallocMalloc(c) \/ ReallocFree(c)
    BY <1>11, Zenon
  <2>2. CASE ReallocMalloc(c)
    BY <1>4, <2>2, Zenon DEF ReallocMalloc
  <2>3. CASE ReallocFree(c)
    BY <1>5, <2>3, Zenon DEF ReallocFree, FreeBlock
  <2> QED BY <2>1, <2>2, <2>3, Zenon
<1>12. CASE UNCHANGED vars
  BY <1>1, <1>12, Zenon DEF vars, heap
<1> QED BY <1>3, <1>6, <1>7, <1>8, <1>9, <1>10, <1>11, <1>12, Zenon DEF Next

(* NullOnlyIfFull (liballoc.c:299-304, 340, 476-485): malloc returns NULL  *)
(* only if no gap of any major has room for the block and its header.      *)
THEOREM FailsOnlyIfFull == Spec => []NullOnlyIfFull
<1>1. Init => Searched
  <2>1. NoCall.pc = "none" /\ "none" \notin Passed
    BY DEF NoCall, Passed
  <2> QED BY <2>1, Zenon DEF Init, Searched
<1>2. Inv /\ Searched /\ [Next]_vars => Searched'
  BY NextSearched
<1>3. Searched => NullOnlyIfFull
  BY DEF Searched, Passed, NoRoom, NullOnlyIfFull
<1> QED BY <1>1, <1>2, <1>3, HeapInvariant, PTL DEF Spec
=============================================================================
