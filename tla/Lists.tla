------------------------------- MODULE Lists --------------------------------
(***************************************************************************)
(* utils/list.c on nodes.  The other modules have lists as sequences:      *)
(* ListIsSequence shows that the functions treat nodes as such.  Memory is *)
(* a function of the nodes in use to [data, next], new is what mmu_mmap    *)
(* gives to list_create.                                                   *)
(***************************************************************************)
EXTENDS Naturals, Sequences, SequencesExt

NIL == 0

(* The nodes from one on, as a walk along next meets them *)
Chain(memory, list) ==
  LET from[n \in DOMAIN memory \cup {NIL}] == IF n = NIL THEN <<>> ELSE <<n>> \o from[memory[n].next]
  IN from[list]

(* list_create, list_create_noalloc *)
ListCreate(memory, data, new) ==
  [n \in DOMAIN memory \cup {new} |-> IF n = new THEN [data |-> data, next |-> NIL] ELSE memory[n]]

(* list_insert_after, list_insert_after_noalloc *)
ListInsertAfter(memory, node, data, new) ==
  LET created == ListCreate(memory, data, new) IN
  [created EXCEPT ![new].next = memory[node].next, ![node].next = new]

ListGetTail(memory, list) == IF list = NIL THEN NIL ELSE Last(Chain(memory, list))

(* list_insert_back: nothing is inserted into no list. *)
ListInsertLast(memory, list, data, new) ==
  IF list = NIL THEN memory ELSE ListInsertAfter(memory, ListGetTail(memory, list), data, new)

ListInsertBefore(memory, list, data, new) ==
  [ListCreate(memory, data, new) EXCEPT ![new].next = list]

(* list_remove: the node is looked for behind the first one.  It and its   *)
(* data are given back.                                                    *)
ListRemoved(memory, list, node) ==
  LET before == SelectSeq(Chain(memory, list), LAMBDA n : memory[n].next = node) IN
  IF before = <<>> \/ node = NIL THEN memory
  ELSE [n \in DOMAIN memory \ {node} |->
          IF n = Head(before) THEN [memory[n] EXCEPT !.next = memory[node].next] ELSE memory[n]]

(* list_foreach: what func is called with, up to the first that it refuses *)
ListForeach(memory, list, refused) ==
  LET datas == [k \in DOMAIN Chain(memory, list) |-> memory[Chain(memory, list)[k]].data]
      stops == SelectInSeq(datas, LAMBDA d : d \in refused)
  IN IF stops = 0 THEN datas ELSE SubSeq(datas, 1, stops)

ListFree(memory, list) == [n \in DOMAIN memory \ ToSet(Chain(memory, list)) |-> memory[n]]

ListFind(memory, list, data) ==
  LET hits == SelectSeq(Chain(memory, list), LAMBDA n : memory[n].data = data) IN
  IF hits = <<>> THEN NIL ELSE Head(hits)

-----------------------------------------------------------------------------
Stored(memory, list) == [k \in DOMAIN Chain(memory, list) |-> memory[Chain(memory, list)[k]].data]

(* The nodes of a sequence s, at some addresses *)
Memory(s, at) ==
  [n \in ToSet(at) |-> LET k == CHOOSE i \in DOMAIN at : at[i] = n IN
                       [data |-> s[k], next |-> IF k = Len(s) THEN NIL ELSE at[k + 1]]]

(* Inserting, removing, finding and freeing are what they are on sequences *)
(* wherever the nodes are, but the first node of a list is never removed   *)
(* (list.c:67).                                                            *)
ListIsSequence(data) ==
  \A len \in 1 .. 3 : \A s \in [1 .. len -> data], at \in {p \in [1 .. len -> 1 .. 4] : IsInjective(p)} :
    LET m == Memory(s, at)
        list == at[1]
    IN /\ Stored(m, list) = s /\ ListGetTail(m, list) = at[len]
       /\ DOMAIN ListFree(m, list) = {}
       /\ \A d \in data :
            /\ Stored(ListInsertLast(m, list, d, 9), list) = Append(s, d)
            /\ Stored(ListInsertBefore(m, list, d, 9), 9) = <<d>> \o s
            /\ LET n == ListFind(m, list, d) IN
               IF n = NIL THEN d \notin ToSet(s) /\ ListForeach(m, list, {d}) = s
               ELSE m[n].data = d /\ ListForeach(m, list, {d}) = SubSeq(s, 1, SelectInSeq(s, LAMBDA e : e = d))
            /\ \A k \in 1 .. len :
                 Stored(ListInsertAfter(m, at[k], d, 9), list) = SubSeq(s, 1, k) \o <<d>> \o SubSeq(s, k + 1, len)
       /\ \A k \in 1 .. len :
            Stored(ListRemoved(m, list, at[k]), list) = IF k = 1 THEN s ELSE RemoveAt(s, k)
=============================================================================
