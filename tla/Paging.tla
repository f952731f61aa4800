------------------------------- MODULE Paging -------------------------------
(***************************************************************************)
(* kernel/mmu/paging.c and kheap.c: the page tables of the kernel's one    *)
(* address space, and the heap that only grows, from which they are taken. *)
(*                                                                         *)
(* Every caller maps an address to itself, so a call has one address.  A   *)
(* page table is its address in the heap; "pt" is what it holds, an        *)
(* address with its low bits (paging_map_page keeps them), or Absent.      *)
(* The heap is taken as apart from the pages that the page allocator hands *)
(* out: kmalloc has no limit, and the 8 MiB that pageframe_alloc_init      *)
(* reserves are assumed to hold it.                                        *)
(***************************************************************************)
EXTENDS Integers, FiniteSets

CONSTANTS
  PageSize,      \* PAGE_SIZE: 4096
  Entries,       \* entries of a page table: 1024
  Regions,       \* entries of the page directory: 1024
  KernelRegions, \* page tables that paging_init maps: 2
  KernelEnd      \* kernel_end_virtual, where the heap starts

ASSUME PagingAssumption ==
  /\ PageSize \in Nat \ {0} /\ Entries \in Nat \ {0}
  /\ Regions \in Nat /\ KernelRegions \in 1 .. Regions
  /\ KernelEnd \in Nat \ {0}

VARIABLES
  heap_cur,               \* the end of the kernel heap
  allocated_page_tables,  \* the table of each region, or 0
  pt,                     \* what the tables hold, by the table's address
  page_dir,               \* kernel_page_directory: the table in use, or 0
  mapped                  \* the pages that callers have asked for

pagingVars == <<heap_cur, allocated_page_tables, pt, page_dir, mapped>>

Absent == -1  \* an entry that is all zeros

Page(a) == a \div PageSize
Pde(a) == Page(a) \div Entries
Pte(a) == Page(a) % Entries
Addresses == 0 .. Regions * Entries * PageSize - 1
RegionPages(r) == r * Entries .. r * Entries + Entries - 1

(* kmalloc_align: the address it returns; the heap then ends size above it *)
KmallocAlign(size, alignment) ==
  CHOOSE next \in heap_cur .. heap_cur + alignment - 1 : next % alignment = 0

(* kmalloc *)
Kmalloc(size) ==
  /\ heap_cur' = heap_cur + size
  /\ UNCHANGED <<allocated_page_tables, pt, page_dir, mapped>>

(* Mutant of GetPageTable: a table is made for every request, the bug that *)
(* the comment in liballoc_hooks.c expects.                                *)
GetPageTableNew(r) ==
  LET t == KmallocAlign(PageSize, PageSize) IN
  [address |-> t, heap |-> t + PageSize, holds |-> [i \in 0 .. Entries - 1 |-> Absent]]

(* get_page_table: the region's table, made of zeroed memory the first time *)
GetPageTable(r) ==
  LET t == KmallocAlign(PageSize, PageSize) IN
  IF allocated_page_tables[r] = 0
    THEN [address |-> t, heap |-> t + PageSize, holds |-> [i \in 0 .. Entries - 1 |-> Absent]]
    ELSE [address |-> allocated_page_tables[r], heap |-> heap_cur,
          holds |-> pt[allocated_page_tables[r]]]

PagingInit ==
  /\ heap_cur = KernelEnd
  /\ allocated_page_tables = [r \in 0 .. Regions - 1 |-> 0]
  /\ pt = [a \in {} |-> <<>>]
  /\ page_dir = [r \in 0 .. Regions - 1 |-> 0]
  /\ mapped = {}

(* The table of region r is installed, holding "holds". *)
Install(r, table, holds) ==
  /\ heap_cur' = table.heap
  /\ allocated_page_tables' = [allocated_page_tables EXCEPT ![r] = table.address]
  /\ pt' = [a \in DOMAIN pt \cup {table.address} |-> IF a = table.address THEN holds ELSE pt[a]]
  /\ page_dir' = [page_dir EXCEPT ![r] = table.address]

(* paging_map_page(a, a): nothing is written when the entry is there. *)
MapPage(a) ==
  LET table == GetPageTable(Pde(a)) IN
  /\ IF table.holds[Pte(a)] = a
       THEN UNCHANGED <<heap_cur, allocated_page_tables, pt, page_dir>>
       ELSE Install(Pde(a), table, [table.holds EXCEPT ![Pte(a)] = a])
  /\ mapped' = mapped \cup {Page(a)}

(* paging_map_table(a, a), for an address on a 4 MiB boundary *)
MapTable(r) ==
  /\ Install(r, GetPageTable(r), [i \in 0 .. Entries - 1 |-> (r * Entries + i) * PageSize])
  /\ mapped' = mapped \cup RegionPages(r)

(* paging_init: the kernel's tables, the lowest first; then paging is on. *)
paging_init ==
  \E r \in 0 .. KernelRegions - 1 :
    /\ \A q \in 0 .. KernelRegions - 1 : page_dir[q] = 0 <=> q >= r
    /\ MapTable(r)

PagingOn == \A r \in 0 .. KernelRegions - 1 : page_dir[r] # 0

-----------------------------------------------------------------------------
(* The page that the processor finds behind page p: the frame that the     *)
(* entry of its table names, or Absent.                                    *)
Translate(p) ==
  LET t == page_dir[p \div Entries] IN
  IF t = 0 \/ pt[t][p % Entries] = Absent THEN Absent ELSE Page(pt[t][p % Entries])

(* A page that a caller has had mapped stays mapped to itself, whatever is *)
(* mapped later, near it or elsewhere: the tables are shared by all the    *)
(* callers, and a table that is made anew would forget what the old one    *)
(* held.  liballoc_hooks.c:23 fears exactly that ("1-1 map TODO bug here,  *)
(* lost old page table if request fewer than 1024"); it does not happen.   *)
MappingKept == \A p \in mapped : Translate(p) = p
=============================================================================
