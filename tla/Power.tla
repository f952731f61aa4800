------------------------------- MODULE Power --------------------------------
(***************************************************************************)
(* power/shutdown.c and drivers/acpi/fadt.c: the writes to ports with      *)
(* which the shell's command shutdown turns the machine off.               *)
(*                                                                         *)
(* The DSDT is its bytes from behind the header on, followed by whatever   *)
(* is there in memory.                                                     *)
(***************************************************************************)
EXTENDS Firmware, Strings

NAME_OP == 8
BACKSLASH == 92
PACKAGE_OP == 18
BYTE_PREFIX == 10
S5 == <<95, 83, 53, 95>>  \* "_S5_"
SLP_EN == 2 ^ 13

(* struct FADT, by the fields that are used *)
Fadt(smi, enable, pm1a, pm1b) ==
  [SMI_CommandPort |-> smi, AcpiEnable |-> enable, PM1aControlBlock |-> pm1a, PM1bControlBlock |-> pm1b]

(* acpi_get_fadt: the first call turns ACPI on. *)
EnableAcpi(fadt) == <<[port |-> fadt.SMI_CommandPort, data |-> fadt.AcpiEnable]>>

(* struct ACPISDTHeader of the DSDT with its bytes and those behind it, as *)
(* acpi_get_dsdt finds it                                                  *)
Dsdt(bytes, behind, ok) == [Length |-> SDT_HEADER + Len(bytes), memory |-> bytes \o behind, ok |-> ok]

(* _strnstr: the first place among len bytes *)
Strnstr(s1, s2, len) ==
  LET places == {n \in 1 .. (len - Len(s2)) + 1 : Strncmp(SubSeq(s1, n, Len(s1)), s2, Len(s2)) = 0}
  IN IF places = {} THEN 0 ELSE Least(places)

(* acpi_dsdt_get_s5obj: the bytes searched are as many as the table has    *)
(* with its header.  0 stands for NULL.                                    *)
S5Obj(dsdt) == IF dsdt.ok THEN Strnstr(dsdt.memory, S5, dsdt.Length) ELSE 0

(* shutdown's look at what is before and behind the name *)
ValidAml(memory, at) ==
  /\ memory[at - 1] = NAME_OP \/ (memory[at - 2] = NAME_OP /\ memory[at - 1] = BACKSLASH)
  /\ memory[at + 4] = PACKAGE_OP

(* shutdown, when the object is there: without it the code reads through a *)
(* null pointer.  The sleep types are cut to 8 bits after they have been   *)
(* shifted by 10.                                                          *)
Shutdown(fadt, dsdt) ==
  LET b == dsdt.memory
      at == S5Obj(dsdt)
      Skip(p) == IF b[p] = BYTE_PREFIX THEN p + 1 ELSE p
      typa == Skip(at + 5 + (b[at + 5] \div 64) + 2)
      typb == Skip(typa + 1)
      SLP_TYPa == (b[typa] * 2 ^ 10) % 256
      SLP_TYPb == (b[typb] * 2 ^ 10) % 256
  IN EnableAcpi(fadt) \o
     IF ~ValidAml(b, at) THEN <<>>
     ELSE <<[port |-> fadt.PM1aControlBlock, data |-> SLP_TYPa + SLP_EN]>> \o
          IF SLP_TYPb = 0 THEN <<>>
                          ELSE <<[port |-> fadt.PM1bControlBlock, data |-> SLP_TYPb + SLP_EN]>>

-----------------------------------------------------------------------------
(* An object with the sleep types a and b, written with or without the     *)
(* root and the byte prefixes, and with one or two bytes of length.        *)
S5Object(root, prefix, long, a, b) ==
  LET Num(n) == IF prefix THEN <<BYTE_PREFIX, n>> ELSE <<n>> IN
  <<NAME_OP>> \o (IF root THEN <<BACKSLASH>> ELSE <<>>) \o S5 \o <<PACKAGE_OP>> \o
  (IF long THEN <<64, 1>> ELSE <<9>>) \o <<4>> \o Num(a) \o Num(b) \o <<0, 0>>

(* Wherever the object is in the table and however it is written, shutdown *)
(* turns ACPI on and then writes the command, once and to the first        *)
(* control block; and the sleep type in the command is always 0, whatever  *)
(* the firmware states, because it is kept in 8 bits (shutdown.c:43, 48).  *)
ShutdownWrites ==
  \A root, prefix, long \in BOOLEAN, a, b \in {0, 5, 7} : \A before \in {<<>>, <<0>>, <<NAME_OP, 95, 83, 53, 0>>} :
    LET fadt == Fadt(178, 1, 1024, 1025)
        dsdt == Dsdt(before \o S5Object(root, prefix, long, a, b), [n \in 1 .. SDT_HEADER |-> 0], TRUE)
    IN Shutdown(fadt, dsdt) = <<[port |-> 178, data |-> 1], [port |-> 1024, data |-> SLP_EN]>>
=============================================================================
