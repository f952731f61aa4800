-------------------------------- MODULE Boot --------------------------------
(***************************************************************************)
(* kmain.c and tasks/smp.c with trampoline.S: from the boot loader to the  *)
(* scheduler.  The bootstrap processor (BSP, CPU 0) starts the application *)
(* processors (APs) one after the other and waits for each with the timer; *)
(* it then switches from the PIC to the IO APIC and turns the scheduler    *)
(* on.  From there the CPUs run as Interrupts has it.                      *)
(*                                                                         *)
(* An AP may be slow or never answer.  The delays are therefore modelled   *)
(* by "some tick has come since": what happens in a delay, and not how     *)
(* long it is, is what the rest depends on.                                *)
(***************************************************************************)
EXTENDS Interrupts

CONSTANTS Machines  \* what the loader and the firmware may hand over

(* The id of a local APIC is a byte. *)
ASSUME CpusAssumption == IsFiniteSet(Cpus)

(* A machine that the kernel starts on has an RSDP and a MADT with a CPU,  *)
(* and each CPU has an entry of its own.                                   *)
IdsOf(m) == MadtGetInfo(AcpiInit(MultibootInfo(m.tags))).local_APIC_ids
ASSUME BootAssumption ==
  \A m \in Machines : m.magic =>
    /\ MultibootInfo(m.tags).acpi_ver \in {1, 2}
    /\ IdsOf(m) \in Seq(Cpus) /\ IdsOf(m) # <<>>
    /\ \A j, k \in 1 .. Len(IdsOf(m)) : IdsOf(m)[j] = IdsOf(m)[k] => j = k

(* The wiring of a PC: the lines of the keyboard and of COM1 are on the    *)
(* pins of their numbers, and the timer's is on another one of the first   *)
(* 16.  Then the pin that ioapic_redirect_external_int programs, the       *)
(* number of the line plus its override, is the one that the line is on.   *)
IsaLines(override) ==
  /\ override[KEYBOARD] = 0 /\ override[COM1] = 0
  /\ override[TIMER] \in (0 .. 15) \ {KEYBOARD, COM1}

LegacyLines ==
  \A m \in Machines : m.magic =>
    IsaLines(MadtGetInfo(AcpiInit(MultibootInfo(m.tags))).irq_override)

VARIABLES
  machine,    \* [magic, tags]
  SDTs,
  pc,         \* where the BSP is in kmain
  i,          \* the loop of start_APs
  IF0,        \* the BSP's interrupt flag
  ticked,     \* has a tick come since the delay began?
  params,     \* SMPBOOT_TRAMPOLINE_PARAMS: the stack
  stacks,     \* the stacks that prepare_trampoline_params has made
  AP_STARTUP_SUCCESSFUL,
  cpu,        \* "off", "init", "startup", "loaded" or "running"
  stack,      \* the stack that each AP has loaded
  result,     \* what start_AP has returned for it
  late        \* has an AP gone on after start_AP gave it up?

smpVars == <<i, IF0, ticked, params, stacks, AP_STARTUP_SUCCESSFUL, cpu, stack, result, late>>
vars == <<irqVars, machine, SDTs, pc, smpVars>>

NoStack == 0
Ids == info.local_APIC_ids
Ap == Ids[i]

Init ==
  /\ IrqInit
  /\ machine \in Machines
  /\ SDTs = HashtableInit
  /\ pc = "kmain" /\ i = 1 /\ IF0 = FALSE /\ ticked = FALSE
  /\ params = NoStack /\ stacks = 0 /\ AP_STARTUP_SUCCESSFUL = FALSE
  /\ cpu = [c \in Cpus |-> IF c = 0 THEN "running" ELSE "off"]
  /\ stack = [c \in Cpus |-> NoStack]
  /\ result = [c \in Cpus |-> "none"]
  /\ late = FALSE

-----------------------------------------------------------------------------
(* kmain up to acpi_init, or panic *)
EarlyInit ==
  /\ pc = "kmain"
  /\ IF machine.magic
       THEN pc' = "interrupt_init" /\ SDTs' = AcpiInit(MultibootInfo(machine.tags))
       ELSE pc' = "panic" /\ UNCHANGED SDTs
  /\ UNCHANGED <<irqVars, machine, smpVars>>

(* interrupt_init; start_APs asks for the MADT first of all. *)
InterruptsOn ==
  /\ pc = "interrupt_init"
  /\ pc' = "start_APs"
  /\ InterruptInit
  /\ info' = MadtGetInfo(SDTs)
  /\ UNCHANGED <<machine, SDTs, smpVars, io_reg_sel, ioapic_sem, frames, waiting, current, cpuno,
                 pending, last, overlapped>>

(* timer_init_bootstrap and timer_init_sched *)
TimerInit(isr) == InterruptRegister(TIMER, isr)

(* start_APs up to its loop: sti, timer_init_bootstrap *)
StartAPs ==
  /\ pc = "start_APs"
  /\ pc' = "next"
  /\ IF0' = TRUE
  /\ TimerInit("bootstrap")
  /\ UNCHANGED <<info, gates, unacked, is_initialized, io_reg_sel, ioapic_sem, frames, waiting,
                 current, cpuno, pending, last, overlapped, machine, SDTs, i, ticked, params, stacks,
                 AP_STARTUP_SUCCESSFUL, cpu, stack, result, late>>

(* The head of the loop: the BSP is passed over; cli behind the last AP. *)
NextAp ==
  /\ pc = "next"
  /\ \/ i > Len(Ids) /\ pc' = "init_io_apic" /\ IF0' = FALSE /\ i' = 1
     \/ i <= Len(Ids) /\ Ap = 0 /\ i' = i + 1 /\ UNCHANGED <<pc, IF0>>
     \/ i <= Len(Ids) /\ Ap # 0 /\ pc' = "start_AP" /\ UNCHANGED <<i, IF0>>
  /\ UNCHANGED <<irqVars, machine, SDTs, ticked, params, stacks, AP_STARTUP_SUCCESSFUL, cpu, stack,
                 result, late>>

(* lapic_send_init and lapic_send_startup, by what they do to the AP: it   *)
(* listens to the second only after the first.                             *)
InitIpi == [cpu EXCEPT ![Ap] = "init"]
StartupIpi == [cpu EXCEPT ![Ap] = IF @ = "init" THEN "startup" ELSE @]

(* Mutant of Delayed: the loop does not read _ticks again. *)
DelayedCached == FALSE

(* delay_bootstrap is over. *)
Delayed == ticked

(* prepare_trampoline_params and lapic_send_init *)
SendInit ==
  /\ pc = "start_AP"
  /\ pc' = "delay_init" /\ ticked' = FALSE
  /\ stacks' = stacks + 1 /\ params' = stacks + 1
  /\ cpu' = InitIpi
  /\ UNCHANGED <<irqVars, machine, SDTs, i, IF0, AP_STARTUP_SUCCESSFUL, stack, result, late>>

(* A delay of start_AP, and the message that follows it *)
SendStartup(from, to) ==
  /\ pc = from /\ Delayed
  /\ pc' = to /\ ticked' = FALSE
  /\ cpu' = StartupIpi
  /\ UNCHANGED <<irqVars, machine, SDTs, i, IF0, params, stacks, AP_STARTUP_SUCCESSFUL, stack,
                 result, late>>

(* Mutant of Started: the flag is not reset. *)
StartedKeepFlag == AP_STARTUP_SUCCESSFUL /\ UNCHANGED AP_STARTUP_SUCCESSFUL

(* start_AP, success *)
Started == AP_STARTUP_SUCCESSFUL /\ AP_STARTUP_SUCCESSFUL' = FALSE

(* The flag is looked at: after the first delay a second message is sent   *)
(* if it is not set, after the second one start_AP gives up.               *)
CheckFlag ==
  /\ pc \in {"delay_first", "delay_second"} /\ Delayed
  /\ \/ Started /\ result' = [result EXCEPT ![Ap] = "ok"] /\ pc' = "next" /\ i' = i + 1
     \/ /\ ~AP_STARTUP_SUCCESSFUL /\ UNCHANGED AP_STARTUP_SUCCESSFUL
        /\ IF pc = "delay_first"
             THEN pc' = "second" /\ UNCHANGED <<i, result>>
             ELSE pc' = "next" /\ i' = i + 1 /\ result' = [result EXCEPT ![Ap] = "failed"]
  /\ UNCHANGED <<irqVars, machine, SDTs, IF0, ticked, params, stacks, cpu, stack, late>>

(* Mutant of InitIoApic: the PIC goes on. *)
InitIoApicKeepPic ==
  /\ pc = "init_io_apic" /\ pc' = "tasks_init"
  /\ IF info.io_apic_addrs = <<>> THEN UNCHANGED <<is_initialized, ioapic_sem>> ELSE IoapicInit
  /\ UNCHANGED <<pic, unacked, info, gates, handler, reg, io_reg_sel, frames, waiting, current,
                 cpuno, pending, last, overlapped, machine, SDTs, smpVars>>

(* init_io_apic: pic_uninit masks all that has been enabled so far; then   *)
(* each IO APIC, of which the last one is the one in use.                  *)
InitIoApic ==
  /\ pc = "init_io_apic" /\ pc' = "tasks_init"
  /\ IF info.io_apic_addrs = <<>>
       THEN UNCHANGED <<pic, unacked, is_initialized, ioapic_sem>>
       ELSE pic' = AllMasked /\ unacked' = {} /\ IoapicInit
  /\ UNCHANGED <<info, gates, handler, reg, io_reg_sel, frames, waiting, current, cpuno, pending,
                 last, overlapped, machine, SDTs, smpVars>>

(* tasks_init with timer_init_sched, the first tasks, and sti *)
TasksInit ==
  /\ pc = "tasks_init" /\ pc' = "run"
  /\ TimerInit("sched")
  /\ IF0' = TRUE
  /\ UNCHANGED <<info, gates, unacked, is_initialized, io_reg_sel, ioapic_sem, frames, waiting,
                 current, cpuno, pending, last, overlapped, machine, SDTs, i, ticked, params, stacks,
                 AP_STARTUP_SUCCESSFUL, cpu, stack, result, late>>

Kmain ==
  \/ EarlyInit \/ InterruptsOn \/ StartAPs \/ NextAp \/ SendInit
  \/ SendStartup("delay_init", "delay_first")
  \/ SendStartup("second", "delay_second")
  \/ CheckFlag \/ InitIoApic \/ TasksInit

(* A tick while the BSP is in start_APs: the acknowledgement and           *)
(* ISR_SYSTIME_BOOTSTRAP.                                                  *)
BootTick ==
  /\ pc # "run" /\ IF0
  /\ TIMER \in pic /\ TIMER \notin unacked /\ Vector(TIMER) \in gates
  /\ unacked' = (unacked \cup {TIMER}) \ PicAck(TIMER)
  /\ ticked' = TRUE
  /\ UNCHANGED <<info, gates, handler, pic, is_initialized, access, cpuno, pending, last, overlapped,
                 machine, SDTs, pc, i, IF0, params, stacks, AP_STARTUP_SUCCESSFUL, cpu, stack, result, late>>

(* trampoline.S up to the loads of the parameters *)
ApLoad(c) ==
  /\ cpu[c] = "startup"
  /\ cpu' = [cpu EXCEPT ![c] = "loaded"]
  /\ stack' = [stack EXCEPT ![c] = params]
  /\ late' = (late \/ result[c] # "none")
  /\ UNCHANGED <<irqVars, machine, SDTs, pc, i, IF0, ticked, params, stacks, AP_STARTUP_SUCCESSFUL,
                 result>>

(* trampoline.S: the flag, the local APIC, sti *)
ApFlag(c) ==
  /\ cpu[c] = "loaded"
  /\ cpu' = [cpu EXCEPT ![c] = "running"]
  /\ AP_STARTUP_SUCCESSFUL' = TRUE
  /\ late' = (late \/ result[c] # "none")
  /\ UNCHANGED <<irqVars, machine, SDTs, pc, i, IF0, ticked, params, stacks, stack, result>>

(* The CPUs after the boot; only one that runs takes an interrupt. *)
CpuStep(c) ==
  /\ pc = "run" /\ cpu[c] = "running"
  /\ AccessStep(c) \/ TakeTimer(c)
  /\ UNCHANGED <<machine, SDTs, pc, smpVars>>

ShellStep ==
  /\ pc = "run"
  /\ \E c \in Cpus : cpu[c] = "running" /\ KeyboardInit(c)
  /\ UNCHANGED <<machine, SDTs, pc, smpVars>>

Tick ==
  /\ pc = "run"
  /\ \E c \in Cpus : Pit(c)
  /\ UNCHANGED <<machine, SDTs, pc, smpVars>>

(* panic: for (;;) *)
Panic == pc = "panic" /\ UNCHANGED vars

Next ==
  \/ Kmain \/ BootTick \/ ShellStep \/ Tick \/ Panic
  \/ \E c \in Cpus : ApLoad(c) \/ ApFlag(c) \/ CpuStep(c)

Spec == Init /\ [][Next]_vars

(* The BSP runs, the PIT ticks, and a CPU that is up goes on; an AP that   *)
(* is being started may never answer.                                      *)
FairSpec ==
  /\ Spec
  /\ WF_vars(Kmain) /\ WF_vars(BootTick) /\ WF_vars(Tick)
  /\ \A c \in Cpus : WF_vars(CpuStep(c))

-----------------------------------------------------------------------------
(* The reference for the parser: the entries that end inside the table and *)
(* have no entry of length 0 at or before them, of the first table with    *)
(* the right signature and checksum.                                       *)
Entries(madt) ==
  LET End(k) == Fold(LAMBDA sum, e : sum + e.len, MADT_HEADER, SubSeq(madt.entries, 1, k))
      Kept(k) == \A j \in 1 .. k : madt.entries[j].len > 0 /\ End(j) <= madt.length
      kept == {k \in DOMAIN madt.entries : Kept(k)}
  IN SubSeq(madt.entries, 1, Cardinality(kept))

Tables ==
  LET acpi == SelectSeq(machine.tags, LAMBDA tag : tag.type = "acpi") IN acpi[Len(acpi)].rsdt.others

Madts == SelectSeq(Tables, LAMBDA sdt : SdtChecksumOk(sdt) /\ sdt.sig = "APIC")

(* The kernel knows the CPUs, the IO APICs and the interrupt overrides     *)
(* that the firmware states, in its order, and nothing from behind the end *)
(* of the table (madt.c:29), from a table with a bad checksum or from a    *)
(* later table of the same name (acpi.c:98, hashtable.c:45).               *)
MadtFound ==
  pc \notin {"kmain", "interrupt_init", "panic"} =>
    LET found == Entries(Head(Madts).body)
        Of(type) == SelectSeq(found, LAMBDA e : e.type = type)
    IN /\ Ids = [k \in DOMAIN Of("local_apic") |-> Of("local_apic")[k].id]
       /\ info.io_apic_addrs = [k \in DOMAIN Of("io_apic") |-> Of("io_apic")[k].addr]
       /\ \A e \in Elements(Of("override")) : e.src # e.gsi =>
            info.irq_override[e.src] \in {f.gsi : f \in {g \in Elements(Of("override")) : g.src = e.src}}

(* The APs that start_AP has reported as started, and those that have been *)
Reported == {c \in Cpus \ {0} : result[c] = "ok"}
Up == {c \in Cpus \ {0} : cpu[c] = "running"}

(* start_AP never reports more APs as started than have been, although one *)
(* flag is used for all of them in turn (smp.c:71) and an AP may raise it  *)
(* after it was given up, when the report it leads to is the next AP's.    *)
(* As long as none does that, start_AP reports success for the APs that    *)
(* run and failure for the others, and no two APs have the same stack,     *)
(* which all load from one block of parameters (trampoline.S:48).          *)
StartReported ==
  /\ Cardinality(Reported) <= Cardinality(Up)
  /\ ~late =>
       /\ \A c \in Cpus \ {0} : result[c] # "none" => (result[c] = "ok" <=> cpu[c] = "running")
       /\ \A c, d \in Cpus : c # d /\ stack[c] # NoStack => stack[c] # stack[d]

(* The boot comes to an end, whatever APs answer and whenever: each of the *)
(* waits ends with a tick, which needs the interrupt enabled, registered   *)
(* and acknowledged (smp.c:54-63, interrupt.c:134).                        *)
BootEnds == <>(pc \in {"run", "panic"})


(* The behaviours in which no tick has come during an access, all that     *)
(* EveryCpuTicks and IrqsHandled are about.                                *)
Apart == ~overlapped
=============================================================================
