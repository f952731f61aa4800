------------------------------ MODULE Firmware ------------------------------
(***************************************************************************)
(* What the kernel reads from the boot loader and the firmware:            *)
(* common/multiboot_info.c, drivers/acpi/acpi.c and madt.c, and the hash   *)
(* table (utils/hashtable.c over utils/list.c) that keeps the ACPI tables. *)
(*                                                                         *)
(* A tag, a table or an entry of the MADT is a record of the fields that   *)
(* the kernel looks at, with the sizes that they have in memory.  A table  *)
(* also has bytes, which matter to its checksum only.                      *)
(***************************************************************************)
EXTENDS Seqs

CONSTANTS
  Hash   \* hashFNV(key, 64), a function of the signatures

-----------------------------------------------------------------------------
(* hashtable.c: each index has a list of pairs, the oldest first. *)

Pair(key, data) == [key |-> key, data |-> data]

HashtableInit == [i \in {Hash[key] : key \in DOMAIN Hash} |-> <<>>]

(* Mutant of ListInsertBack: the node becomes the head of the list. *)
ListInsertFront(list, node) == <<node>> \o list

(* list_insert_back_noalloc: behind list_get_tail *)
ListInsertBack(list, node) == Append(list, node)

(* hashtable_insert *)
HashtableInsert(ht, key, data) ==
  [ht EXCEPT ![Hash[key]] = ListInsertBack(@, Pair(key, data))]

(* hashtable_get: the first pair of the index with this key, or the value  *)
(* that *out had before the call.                                          *)
HashtableGet(ht, key, out) ==
  LET hits == SelectSeq(ht[Hash[key]], LAMBDA pair : pair.key = key) IN
  IF hits = <<>> THEN out ELSE Head(hits).data

-----------------------------------------------------------------------------
(* struct ACPISDTHeader and what follows it, and its size *)
Sdt(sig, bytes, body) == [sig |-> sig, bytes |-> bytes, body |-> body]
SDT_HEADER == 36

(* struct RSDT and XSDT, by their length and the tables they point to; the *)
(* pointers of the first have 4 bytes, those of the second 8.              *)
Rsdt(length, others) == [length |-> length, others |-> others]
PointerSize(acpi_ver) == IF acpi_ver = 1 THEN 4 ELSE 8

(* struct multiboot_tag_old_acpi and _new_acpi with the RSDP in them *)
AcpiTag(version, rsdt) == [type |-> "acpi", version |-> version, rsdt |-> rsdt]

(* struct multiboot_tag_module *)
ModuleTag(mod) == [type |-> "module", mod |-> mod]

(* struct multiboot_info before the first tag *)
NoTags == [acpi_ver |-> 0, rsdt |-> Rsdt(0, <<>>), mods |-> <<>>]

(* multiboot_info_init: the tags up to the one that ends them.  Each kind  *)
(* of tag overwrites what an earlier one of its kind has left, and the     *)
(* RSDP of either version replaces the other.                              *)
MultibootInfo(tags) ==
  LET Take(mbinfo, tag) ==
        CASE tag.type = "acpi" -> [mbinfo EXCEPT !.acpi_ver = tag.version, !.rsdt = tag.rsdt]
          [] tag.type = "module" -> [mbinfo EXCEPT !.mods = Append(@, tag.mod)]
          [] OTHER -> mbinfo
  IN Fold(Take, NoTags, tags)

(* sdt_checksum_ok: an unsigned sum of 8 bits *)
SdtChecksumOk(sdt) == Fold(LAMBDA sum, byte : (sum + byte) % 256, 0, sdt.bytes) = 0

(* acpi_map_sdt: the pages that are mapped for a table at an address.  Two *)
(* of them make its length readable.                                       *)
AcpiMapSdt(addr, length, PAGE_SIZE) ==
  LET start_page == addr \div PAGE_SIZE
      end_page == (addr + length) \div PAGE_SIZE
      pages_to_alloc == (end_page - start_page) + 1
  IN {start_page, start_page + 1} \cup {(addr + j * PAGE_SIZE) \div PAGE_SIZE : j \in 0 .. pages_to_alloc - 1}

(* map_sdt_entries: every table of the RSDT or XSDT with a good checksum   *)
(* goes under its signature, in the order of the list.                     *)
MapSdtEntries(acpi_ver, rsdt) ==
  LET entries == (rsdt.length - SDT_HEADER) \div PointerSize(acpi_ver) IN
  Fold(LAMBDA ht, sdt : IF SdtChecksumOk(sdt) THEN HashtableInsert(ht, sdt.sig, sdt.body) ELSE ht,
       HashtableInit, SubSeq(rsdt.others, 1, entries))

(* acpi_init, for a machine with an RSDP.  Without one hashtable_init is   *)
(* not called, and the first hashtable_get jumps to address 0: no machine  *)
(* of the models is without.                                               *)
AcpiInit(mbinfo) == MapSdtEntries(mbinfo.acpi_ver, mbinfo.rsdt)

(* acpi_get_sdt_from_sig: none stands for the NULL that it starts with. *)
AcpiGetSdtFromSig(SDTs, table_signature, none) == HashtableGet(SDTs, table_signature, none)

-----------------------------------------------------------------------------
(* madt.c.  An entry has a type, a length and, by its type, an id, an      *)
(* address or a source and the interrupt it is mapped to.                  *)

LocalApic(id) == [type |-> "local_apic", len |-> 8, id |-> id]
IoApic(addr) == [type |-> "io_apic", len |-> 12, addr |-> addr]
SourceOverride(src, gsi) == [type |-> "override", len |-> 10, src |-> src, gsi |-> gsi]
NonmaskableInterrupts == [type |-> "nmi", len |-> 6]
Madt(length, entries) == [length |-> length, entries |-> entries]
MADT_HEADER == SDT_HEADER + 8

Irqs == 0 .. 15
MadtInfo == [local_APIC_ids |-> <<>>, io_apic_addrs |-> <<>>, irq_override |-> [irq \in Irqs |-> 0]]

(* The cases of madt_parse.  A CPU is entered whatever its flags are. *)
MadtEntry(info, entry) ==
  CASE entry.type = "local_apic" -> [info EXCEPT !.local_APIC_ids = Append(@, entry.id)]
    [] entry.type = "io_apic" -> [info EXCEPT !.io_apic_addrs = Append(@, entry.addr)]
    [] entry.type = "override" /\ entry.src # entry.gsi ->
         [info EXCEPT !.irq_override[entry.src] = entry.gsi % 256]
    [] OTHER -> info

(* madt_parse: one entry after the other, up to one that does not end      *)
(* inside the table or that has no length.                                 *)
MadtParse(madt) ==
  LET Walk(s, entry) ==
        IF s.done \/ s.off + entry.len > madt.length \/ entry.len = 0
          THEN [s EXCEPT !.done = TRUE]
          ELSE [s EXCEPT !.off = @ + entry.len, !.info = MadtEntry(@, entry)]
  IN Fold(Walk, [off |-> MADT_HEADER, done |-> FALSE, info |-> MadtInfo], madt.entries).info

(* madt_get_info, which parses at its first call.  Without a table the     *)
(* structure stays all zeros.                                              *)
MadtGetInfo(SDTs) == MadtParse(AcpiGetSdtFromSig(SDTs, "APIC", Madt(0, <<>>)))

-----------------------------------------------------------------------------
(* Every byte of a table is mapped when it is read, and at most one page   *)
(* of others behind it (acpi.c:60-67).                                     *)
SdtMapped(addresses, lengths, PAGE_SIZE) ==
  \A addr \in addresses, length \in lengths :
    LET bytes == addr .. addr + length - 1
        pages == AcpiMapSdt(addr, length, PAGE_SIZE)
    IN /\ {byte \div PAGE_SIZE : byte \in bytes} \subseteq pages
       /\ \A page \in pages : page * PAGE_SIZE <= addr + length + PAGE_SIZE
=============================================================================
