------------------------------- MODULE MCBoot -------------------------------
(***************************************************************************)
(* Machines for Boot: a PC with three CPUs; one whose MADT is a second     *)
(* table behind one with a bad checksum, and is cut off in its last entry; *)
(* one with no IO APIC; and what a loader of another kind leaves.  The     *)
(* functions without state are checked by the assumptions at the end.      *)
(***************************************************************************)
EXTENDS Boot, Power, Lists, TLC

Good(sig, body) == Sdt(sig, <<255, 1, 130, 126>>, body)
Bad(sig, body) == Sdt(sig, <<255, 1, 130>>, body)
NoLength == [NonmaskableInterrupts EXCEPT !.len = 0]

Full == Madt(MADT_HEADER + 52, <<LocalApic(0), LocalApic(1), LocalApic(2), IoApic(7),
                                 SourceOverride(0, 2), NonmaskableInterrupts>>)
Cut == Madt(MADT_HEADER + 47, <<LocalApic(0), SourceOverride(0, 2), SourceOverride(5, 5),
                                IoApic(7), LocalApic(1)>>)
Old == Madt(MADT_HEADER + 99, <<LocalApic(0), NonmaskableInterrupts, LocalApic(1), NoLength, IoApic(7)>>)

(* Hash: the first two collide. *)
MCHash == [sig \in {"APIC", "FACP", "HPET"} |-> IF sig = "HPET" THEN 1 ELSE 0]

MCMachines == {
  [magic |-> TRUE, tags |-> <<ModuleTag(1), AcpiTag(1, Rsdt(44, <<Good("FACP", 0), Good("APIC", Full)>>))>>],
  [magic |-> TRUE, tags |-> <<AcpiTag(1, Rsdt(40, <<Good("APIC", Old)>>)), ModuleTag(1),
      AcpiTag(2, Rsdt(68, <<Bad("APIC", Full), Good("HPET", 0), Good("APIC", Cut), Good("APIC", Old)>>))>>],
  [magic |-> TRUE, tags |-> <<AcpiTag(2, Rsdt(44, <<Good("APIC", Old)>>))>>],
  [magic |-> FALSE, tags |-> <<>>] }

ASSUME MachinesWired == LegacyLines
ASSUME ListsChecked == ListIsSequence({"x", "y"})
ASSUME SdtChecked == SdtMapped(0 .. 12, 1 .. 17, 4)
ASSUME ShutdownChecked == ShutdownWrites
=============================================================================
