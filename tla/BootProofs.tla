----------------------------- MODULE BootProofs -----------------------------
(***************************************************************************)
(* Proofs about Boot.  What start_AP reports about each processor is true, *)
(* and no two processors are started on one stack, for every number of     *)
(* processors and every table of the firmware, however late the processors *)
(* answer, as long as none of them answers after it has been given up.     *)
(* And the lines of the timer, the keyboard and the serial port are        *)
(* handled throughout, before, in and after the switch from the PIC to the *)
(* IO APIC.                                                                *)
(***************************************************************************)
EXTENDS Boot, TLAPS

(* The BSP has sent a message to the AP that it is at, and waits. *)
Waits == {"delay_init", "delay_first", "second", "delay_second"}
Loop == {"next", "start_AP"} \cup Waits
Before == {"kmain", "interrupt_init", "panic"}
Tried(c) == pc \in Waits /\ c = Ap

-----------------------------------------------------------------------------
(* The inductive invariant.  The firmware's list of processors is good,    *)
(* and the loop is at a processor of it that it has not been at before;    *)
ListInv ==
  /\ machine \in Machines
  /\ pc \in Before \cup Loop \cup {"start_APs", "init_io_apic", "tasks_init", "run"}
  /\ pc = "interrupt_init" => machine.magic /\ SDTs = AcpiInit(MultibootInfo(machine.tags))
  /\ pc \notin Before => /\ Ids \in Seq(Cpus)
                         /\ \A j, k \in 1 .. Len(Ids) : Ids[j] = Ids[k] => j = k
  /\ i \in Nat \ {0}
  /\ pc \in {"kmain", "interrupt_init", "start_APs"} => \A c \in Cpus : result[c] = "none"
  /\ pc \in Before \cup {"start_APs"} => i = 1
  /\ pc \in Loop => \A j \in 1 .. Len(Ids) : i <= j => result[Ids[j]] = "none"
  /\ pc \in Loop \ {"next"} => i \in 1 .. Len(Ids) /\ Ap # 0

(* every processor is what its result says, and only the one that the BSP  *)
(* is at can have raised the flag;                                         *)
ApInv ==
  /\ cpu \in [Cpus -> {"off", "init", "startup", "loaded", "running"}]
  /\ result \in [Cpus -> {"none", "ok", "failed"}]
  /\ AP_STARTUP_SUCCESSFUL \in BOOLEAN
  /\ 0 \in Cpus => cpu[0] = "running"
  /\ \A c \in Cpus \ {0} :
       /\ result[c] = "none" /\ ~Tried(c) => cpu[c] = "off" /\ stack[c] = NoStack
       /\ result[c] = "ok" => cpu[c] = "running"
       /\ result[c] = "failed" => cpu[c] # "running"
  /\ AP_STARTUP_SUCCESSFUL <=> pc \in Waits /\ cpu[Ap] = "running"

(* and the stack that is being offered is nobody's yet.                    *)
StackInv ==
  /\ stack \in [Cpus -> Nat] /\ stacks \in Nat /\ params \in Nat
  /\ \A c \in Cpus : stack[c] <= stacks
  /\ pc \in Waits => params # NoStack /\ params <= stacks
                     /\ \A c \in Cpus : c # Ap => stack[c] # params
  /\ \A c, d \in Cpus : c # d /\ stack[c] # NoStack => stack[c] # stack[d]

(* A processor that goes on after it was given up ends the promise. *)
Inv == ListInv /\ (~late => ApInv /\ StackInv)

(* What the invariant is about, and the steps that leave it alone *)
bootVars == <<info, machine, SDTs, pc, i, params, stacks, AP_STARTUP_SUCCESSFUL, cpu, stack,
              result, late>>

(* A step that changes none of it keeps the invariant. *)
LEMMA OthersInv ==
  ASSUME Inv, UNCHANGED bootVars
  PROVE  Inv'
<1>1. ListInv'
  BY DEF Inv, ListInv, bootVars, Ids, Ap
<1>2. ~late => ApInv' /\ StackInv'
  BY DEF Inv, ApInv, StackInv, bootVars, Ids, Ap, Tried
<1> QED BY <1>1, <1>2 DEF Inv, bootVars

(* The ticks, and the processors once the scheduler runs *)
LEMMA TicksKeep ==
  ASSUME BootTick \/ ShellStep \/ Tick \/ Panic \/ (\E c \in Cpus : CpuStep(c)) \/ UNCHANGED vars
  PROVE  UNCHANGED bootVars
<1>1. CASE BootTick
  BY <1>1 DEF BootTick, bootVars
<1>2. CASE ShellStep
  BY <1>2 DEF ShellStep, KeyboardInit, bootVars, smpVars
<1>3. CASE Tick
  BY <1>3 DEF Tick, Pit, bootVars, smpVars
<1>4. CASE Panic \/ UNCHANGED vars
  BY <1>4 DEF Panic, vars, irqVars, bootVars, smpVars
<1>5. CASE \E c \in Cpus : CpuStep(c)
  BY <1>5 DEF CpuStep, AccessStep, TakeTimer, bootVars, smpVars
<1> QED BY <1>1, <1>2, <1>3, <1>4, <1>5

(* Outside the waits no processor is being tried, and a step that keeps    *)
(* out of them keeps what is known of the processors.                      *)
LEMMA QuietInv ==
  ASSUME Inv, ListInv', pc \notin Waits, pc' \notin Waits,
         UNCHANGED <<params, stacks, AP_STARTUP_SUCCESSFUL, cpu, stack, result, late>>
  PROVE  Inv'
<1>1. ~late => ApInv' /\ StackInv'
  BY DEF Inv, ApInv, StackInv, Tried
<1> QED BY <1>1 DEF Inv

(* kmain up to start_APs *)
LEMMA EarlyInv ==
  ASSUME Inv, EarlyInit \/ InterruptsOn \/ StartAPs
  PROVE  Inv'
<1>1. CASE EarlyInit
  <2>1. /\ pc = "kmain" /\ UNCHANGED <<info, machine, i, params, stacks, AP_STARTUP_SUCCESSFUL,
                                       cpu, stack, result, late>>
        /\ \/ /\ machine.magic /\ pc' = "interrupt_init"
              /\ SDTs' = AcpiInit(MultibootInfo(machine.tags))
           \/ pc' = "panic"
    BY <1>1 DEF EarlyInit, irqVars, smpVars
  <2>2. ListInv'
    BY <2>1 DEF Inv, ListInv, Before, Loop, Waits
  <2> QED BY <2>1, <2>2, QuietInv DEF Waits
<1>2. CASE InterruptsOn
  <2>1. /\ pc = "interrupt_init" /\ pc' = "start_APs" /\ info' = MadtGetInfo(SDTs)
        /\ UNCHANGED <<machine, i, params, stacks, AP_STARTUP_SUCCESSFUL, cpu, stack, result, late>>
    BY <1>2 DEF InterruptsOn, smpVars
  <2>2. Ids' = IdsOf(machine) /\ machine \in Machines /\ machine.magic
    BY <2>1 DEF Inv, ListInv, Ids, IdsOf
  <2>3. /\ Ids' \in Seq(Cpus)
        /\ \A j, k \in 1 .. Len(Ids') : Ids'[j] = Ids'[k] => j = k
    BY <2>2, BootAssumption
  <2>4. ListInv'
    BY <2>1, <2>3 DEF Inv, ListInv, Before, Loop, Waits
  <2> QED BY <2>1, <2>4, QuietInv DEF Waits
<1>3. CASE StartAPs
  <2>1. /\ pc = "start_APs" /\ pc' = "next"
        /\ UNCHANGED <<info, machine, i, params, stacks, AP_STARTUP_SUCCESSFUL, cpu, stack, result,
                       late>>
    BY <1>3 DEF StartAPs
  <2>2. Ids' = Ids
    BY <2>1 DEF Ids
  <2>3. \A j \in 1 .. Len(Ids) : Ids[j] \in Cpus /\ result[Ids[j]] = "none"
    BY <2>1 DEF Inv, ListInv, Before
  <2>4. ListInv'
    BY <2>1, <2>2, <2>3 DEF Inv, ListInv, Before, Loop, Waits
  <2> QED BY <2>1, <2>4, QuietInv DEF Waits
<1> QED BY <1>1, <1>2, <1>3

(* The head of the loop, and the end of kmain *)
LEMMA LoopInv ==
  ASSUME Inv, NextAp \/ InitIoApic \/ TasksInit
  PROVE  Inv'
<1>1. CASE NextAp
  <2>1. /\ pc = "next" /\ Ids' = Ids
        /\ UNCHANGED <<machine, params, stacks, AP_STARTUP_SUCCESSFUL, cpu, stack, result, late>>
    BY <1>1 DEF NextAp, irqVars, Ids
  <2>2. \/ i > Len(Ids) /\ pc' = "init_io_apic" /\ i' = 1
        \/ i <= Len(Ids) /\ i' = i + 1 /\ pc' = pc
        \/ i <= Len(Ids) /\ Ap # 0 /\ pc' = "start_AP" /\ i' = i
    BY <1>1 DEF NextAp
  <2>3. /\ Ids \in Seq(Cpus) /\ \A j, k \in 1 .. Len(Ids) : Ids[j] = Ids[k] => j = k
        /\ i \in Nat \ {0} /\ Len(Ids) \in Nat
        /\ \A j \in 1 .. Len(Ids) : i <= j => result[Ids[j]] = "none"
    BY <2>1 DEF Inv, ListInv, Before, Loop
  <2>4. ListInv'
    <3>1. CASE i > Len(Ids) /\ pc' = "init_io_apic" /\ i' = 1
      BY <2>1, <2>3, <3>1 DEF Inv, ListInv, Before, Loop, Waits
    <3>2. CASE i <= Len(Ids) /\ i' = i + 1 /\ pc' = pc
      BY <2>1, <2>3, <3>2 DEF Inv, ListInv, Before, Loop, Waits
    <3>3. CASE i <= Len(Ids) /\ Ap # 0 /\ pc' = "start_AP" /\ i' = i
      BY <2>1, <2>3, <3>3 DEF Inv, ListInv, Before, Loop, Waits, Ap
    <3> QED BY <2>2, <3>1, <3>2, <3>3
  <2> QED BY <2>1, <2>2, <2>4, QuietInv DEF Waits
<1>2. CASE InitIoApic \/ TasksInit
  <2>1. /\ pc \in {"init_io_apic", "tasks_init"} /\ pc' \in {"tasks_init", "run"}
        /\ UNCHANGED <<info, machine, i, params, stacks, AP_STARTUP_SUCCESSFUL, cpu, stack,
                       result, late>>
    BY <1>2 DEF InitIoApic, TasksInit, smpVars
  <2>2. Ids' = Ids
    BY <2>1 DEF Ids
  <2>3. ListInv'
    BY <2>1, <2>2 DEF Inv, ListInv, Before, Loop, Waits
  <2> QED BY <2>1, <2>3, QuietInv DEF Waits
<1> QED BY <1>1, <1>2

(* The AP that the loop is at: one of the list, tried for the first time. *)
LEMMA ApProps ==
  ASSUME Inv, pc \in Loop \ {"next"}
  PROVE  /\ i \in 1 .. Len(Ids) /\ Ids \in Seq(Cpus) /\ Ap \in Cpus \ {0} /\ Ap = Ids[i]
         /\ result[Ap] = "none"
         /\ \A j \in 1 .. Len(Ids) : i + 1 <= j => Ids[j] # Ap
<1>1. /\ i \in 1 .. Len(Ids) /\ Ids \in Seq(Cpus) /\ Ap # 0
      /\ \A j, k \in 1 .. Len(Ids) : Ids[j] = Ids[k] => j = k
      /\ \A j \in 1 .. Len(Ids) : i <= j => result[Ids[j]] = "none"
  BY DEF Inv, ListInv, Before, Loop, Waits
<1> QED BY <1>1 DEF Ap

(* prepare_trampoline_params and the first message: a new stack, and the   *)
(* AP is off.                                                              *)
LEMMA SendInitInv ==
  ASSUME Inv, SendInit
  PROVE  Inv'
<1>1. /\ pc = "start_AP" /\ pc' = "delay_init" /\ stacks' = stacks + 1 /\ params' = stacks + 1
      /\ cpu' = [cpu EXCEPT ![Ap] = "init"] /\ Ids' = Ids /\ Ap' = Ap
      /\ UNCHANGED <<info, machine, SDTs, i, AP_STARTUP_SUCCESSFUL, stack, result, late>>
  BY DEF SendInit, InitIpi, irqVars, Ids, Ap
<1>2. Ap \in Cpus \ {0} /\ result[Ap] = "none"
  BY <1>1, ApProps DEF Loop
<1>3. ListInv'
  BY <1>1 DEF Inv, ListInv, Before, Loop, Waits
<1>4. ASSUME ~late PROVE ApInv' /\ StackInv'
  <2>1. ApInv /\ StackInv
    BY <1>4 DEF Inv
  <2>2. /\ cpu' \in [Cpus -> {"off", "init", "startup", "loaded", "running"}]
        /\ cpu'[Ap] = "init" /\ \A c \in Cpus : c # Ap => cpu'[c] = cpu[c]
    BY <1>1, <1>2, <2>1 DEF ApInv
  <2>3. \A c \in Cpus : Tried(c)' <=> c = Ap
    BY <1>1 DEF Tried, Waits
  <2>4. \A c \in Cpus : ~Tried(c)
    BY <1>1 DEF Tried, Waits
  <2>5. ApInv'
    BY <1>1, <1>2, <2>1, <2>2, <2>3, <2>4 DEF ApInv, Waits
  <2>6. StackInv'
    BY <1>1, <2>1 DEF StackInv, Waits, NoStack
  <2> QED BY <2>5, <2>6
<1> QED BY <1>1, <1>3, <1>4 DEF Inv

(* The second message, once or twice: an AP that runs does not listen. *)
LEMMA SendStartupInv ==
  ASSUME Inv, NEW from \in Waits, NEW to \in Waits, SendStartup(from, to)
  PROVE  Inv'
<1>1. /\ pc = from /\ pc' = to /\ Ids' = Ids /\ Ap' = Ap
      /\ cpu' = [cpu EXCEPT ![Ap] = IF @ = "init" THEN "startup" ELSE @]
      /\ UNCHANGED <<info, machine, SDTs, i, params, stacks, AP_STARTUP_SUCCESSFUL, stack, result,
                     late>>
  BY DEF SendStartup, StartupIpi, irqVars, Ids, Ap
<1>2. Ap \in Cpus \ {0} /\ result[Ap] = "none"
  BY <1>1, ApProps DEF Loop, Waits
<1>3. ListInv'
  BY <1>1 DEF Inv, ListInv, Before, Loop, Waits
<1>4. ASSUME ~late PROVE ApInv' /\ StackInv'
  <2>1. ApInv /\ StackInv
    BY <1>4 DEF Inv
  <2>2. /\ cpu' \in [Cpus -> {"off", "init", "startup", "loaded", "running"}]
        /\ cpu'[Ap] = "running" <=> cpu[Ap] = "running"
        /\ \A c \in Cpus : c # Ap => cpu'[c] = cpu[c]
    BY <1>1, <1>2, <2>1 DEF ApInv
  <2>3. \A c \in Cpus : (Tried(c)' <=> c = Ap) /\ (Tried(c) <=> c = Ap)
    BY <1>1 DEF Tried
  <2>4. ApInv'
    BY <1>1, <1>2, <2>1, <2>2, <2>3 DEF ApInv
  <2>5. StackInv'
    BY <1>1, <2>1 DEF StackInv
  <2> QED BY <2>4, <2>5
<1> QED BY <1>1, <1>3, <1>4 DEF Inv

(* The flag is looked at: it is set if and only if the AP runs. *)
LEMMA CheckFlagInv ==
  ASSUME Inv, CheckFlag
  PROVE  Inv'
<1>1. /\ pc \in {"delay_first", "delay_second"} /\ Ids' = Ids
      /\ UNCHANGED <<info, machine, SDTs, params, stacks, cpu, stack, late>>
  BY DEF CheckFlag, irqVars, Ids
<1>2. /\ i \in 1 .. Len(Ids) /\ Ids \in Seq(Cpus) /\ Ap \in Cpus \ {0} /\ Ap = Ids[i]
      /\ result[Ap] = "none"
      /\ \A j \in 1 .. Len(Ids) : i + 1 <= j => Ids[j] # Ap
  BY <1>1, ApProps DEF Loop, Waits
<1>3. CASE /\ ~AP_STARTUP_SUCCESSFUL /\ pc' = "second"
           /\ UNCHANGED <<i, result, AP_STARTUP_SUCCESSFUL>>
  <2>1. Ap' = Ap
    BY <1>1, <1>3 DEF Ap
  <2>2. ListInv'
    BY <1>1, <1>3, <2>1 DEF Inv, ListInv, Before, Loop, Waits
  <2>3. ~late => ApInv' /\ StackInv'
    BY <1>1, <1>3, <2>1 DEF Inv, ApInv, StackInv, Waits, Tried
  <2> QED BY <1>1, <2>2, <2>3 DEF Inv
<1>4. ASSUME NEW r \in {"ok", "failed"}, r = "ok" <=> AP_STARTUP_SUCCESSFUL,
             ~AP_STARTUP_SUCCESSFUL', result' = [result EXCEPT ![Ap] = r],
             pc' = "next", i' = i + 1, AP_STARTUP_SUCCESSFUL' \in BOOLEAN
      PROVE  Inv'
  <2>1. result' = [result EXCEPT ![Ids[i]] = r]
    BY <1>2, <1>4
  <2>2. \A j \in 1 .. Len(Ids) : i + 1 <= j => result[Ids[j]] = "none" /\ result'[Ids[j]] = result[Ids[j]]
    <3>1. \A j \in 1 .. Len(Ids) : i <= j => result[Ids[j]] = "none"
      BY <1>1 DEF Inv, ListInv, Loop, Waits
    <3>2. \A j \in 1 .. Len(Ids) : i + 1 <= j => i <= j
      BY <1>2
    <3> QED BY <1>2, <1>4, <3>1, <3>2
  <2>3. ListInv'
    BY <1>1, <1>2, <1>4, <2>2 DEF Inv, ListInv, Before, Loop, Waits
  <2>4. ASSUME ~late PROVE ApInv' /\ StackInv'
    <3>1. ApInv /\ StackInv
      BY <2>4 DEF Inv
    <3>2. /\ result' \in [Cpus -> {"none", "ok", "failed"}] /\ result'[Ap] = r
          /\ \A c \in Cpus : c # Ap => result'[c] = result[c]
      BY <1>2, <1>4, <3>1 DEF ApInv
    <3>3. AP_STARTUP_SUCCESSFUL <=> cpu[Ap] = "running"
      BY <1>1, <3>1 DEF ApInv, Waits
    <3>4. \A c \in Cpus : ~Tried(c)' /\ (Tried(c) <=> c = Ap)
      BY <1>1, <1>4 DEF Tried, Waits
    <3>5. ApInv'
      BY <1>1, <1>2, <1>4, <3>1, <3>2, <3>3, <3>4 DEF ApInv, Waits
    <3>6. StackInv'
      BY <1>1, <1>4, <3>1 DEF StackInv, Waits
    <3> QED BY <3>5, <3>6
  <2> QED BY <1>1, <2>3, <2>4 DEF Inv
<1>5. CASE /\ Started /\ result' = [result EXCEPT ![Ap] = "ok"] /\ pc' = "next" /\ i' = i + 1
  BY <1>4, <1>5, Zenon DEF Started
<1>6. CASE /\ ~AP_STARTUP_SUCCESSFUL /\ UNCHANGED AP_STARTUP_SUCCESSFUL
           /\ pc' = "next" /\ i' = i + 1 /\ result' = [result EXCEPT ![Ap] = "failed"]
  <2>1. CASE late
    <3>1. ListInv'
      <4>1. \A j \in 1 .. Len(Ids) : i + 1 <= j => result'[Ids[j]] = "none"
        <5>1. \A j \in 1 .. Len(Ids) : i <= j => result[Ids[j]] = "none"
          BY <1>1 DEF Inv, ListInv, Loop, Waits
        <5>2. \A j \in 1 .. Len(Ids) : i + 1 <= j => i <= j
          BY <1>2
        <5> QED BY <1>2, <1>6, <5>1, <5>2
      <4> QED BY <1>1, <1>2, <1>6, <4>1 DEF Inv, ListInv, Before, Loop, Waits
    <3> QED BY <1>1, <2>1, <3>1 DEF Inv
  <2>2. CASE ~late
    <3>1. AP_STARTUP_SUCCESSFUL \in BOOLEAN
      BY <2>2 DEF Inv, ApInv
    <3> QED BY <1>4, <1>6, <3>1
  <2> QED BY <2>1, <2>2
<1> QED BY <1>1, <1>3, <1>5, <1>6 DEF CheckFlag

(* An AP goes on: if it has not been given up, it is the one that is being *)
(* tried, so that the stack and the flag are its own.                      *)
LEMMA ApInTurn ==
  ASSUME Inv, ~late, NEW c \in Cpus, cpu[c] \in {"startup", "loaded"}, result[c] = "none"
  PROVE  c # 0 /\ pc \in Waits /\ c = Ap
<1>1. c # 0
  BY DEF Inv, ApInv
<1> QED BY <1>1 DEF Inv, ApInv, Tried

(* trampoline.S loads the stack *)
LEMMA ApLoadInv ==
  ASSUME Inv, NEW c \in Cpus, ApLoad(c)
  PROVE  Inv'
<1>1. /\ cpu[c] = "startup" /\ cpu' = [cpu EXCEPT ![c] = "loaded"]
      /\ stack' = [stack EXCEPT ![c] = params] /\ Ids' = Ids /\ Ap' = Ap
      /\ late' = (late \/ result[c] # "none")
      /\ UNCHANGED <<info, machine, SDTs, pc, i, params, stacks, AP_STARTUP_SUCCESSFUL, result>>
  BY DEF ApLoad, irqVars, Ids, Ap
<1>2. ListInv'
  BY <1>1 DEF Inv, ListInv
<1>3. ASSUME ~late' PROVE ApInv' /\ StackInv'
  <2>1. ~late /\ result[c] = "none" /\ ApInv /\ StackInv
    BY <1>1, <1>3, Zenon DEF Inv
  <2>2. c # 0 /\ pc \in Waits /\ c = Ap
    BY <1>1, <2>1, ApInTurn
  <2>3. /\ cpu' \in [Cpus -> {"off", "init", "startup", "loaded", "running"}]
        /\ cpu'[c] = "loaded" /\ \A d \in Cpus : d # c => cpu'[d] = cpu[d]
    BY <1>1, <2>1 DEF ApInv
  <2>4. /\ stack' \in [Cpus -> Nat] /\ stack'[c] = params
        /\ \A d \in Cpus : d # c => stack'[d] = stack[d]
    BY <1>1, <2>1 DEF StackInv
  <2>5. \A d \in Cpus : Tried(d)' <=> Tried(d)
    BY <1>1 DEF Tried
  <2>6. ApInv'
    <3>1. cpu[Ap] # "running" /\ cpu'[Ap] # "running"
      BY <1>1, <2>2, <2>3
    <3> QED BY <1>1, <2>1, <2>2, <2>3, <2>4, <2>5, <3>1 DEF ApInv, Tried
  <2>7. StackInv'
    BY <1>1, <2>1, <2>2, <2>4 DEF StackInv
  <2> QED BY <2>6, <2>7
<1> QED BY <1>2, <1>3 DEF Inv

(* trampoline.S raises the flag *)
LEMMA ApFlagInv ==
  ASSUME Inv, NEW c \in Cpus, ApFlag(c)
  PROVE  Inv'
<1>1. /\ cpu[c] = "loaded" /\ cpu' = [cpu EXCEPT ![c] = "running"]
      /\ AP_STARTUP_SUCCESSFUL' = TRUE /\ Ids' = Ids /\ Ap' = Ap
      /\ late' = (late \/ result[c] # "none")
      /\ UNCHANGED <<info, machine, SDTs, pc, i, params, stacks, stack, result>>
  BY DEF ApFlag, irqVars, Ids, Ap
<1>2. ListInv'
  BY <1>1 DEF Inv, ListInv
<1>3. ASSUME ~late' PROVE ApInv' /\ StackInv'
  <2>1. ~late /\ result[c] = "none" /\ ApInv /\ StackInv
    BY <1>1, <1>3, Zenon DEF Inv
  <2>2. c # 0 /\ pc \in Waits /\ c = Ap
    BY <1>1, <2>1, ApInTurn
  <2>3. /\ cpu' \in [Cpus -> {"off", "init", "startup", "loaded", "running"}]
        /\ cpu'[c] = "running" /\ \A d \in Cpus : d # c => cpu'[d] = cpu[d]
    BY <1>1, <2>1 DEF ApInv
  <2>4. \A d \in Cpus : Tried(d)' <=> Tried(d)
    BY <1>1 DEF Tried
  <2>5. ApInv'
    BY <1>1, <2>1, <2>2, <2>3, <2>4 DEF ApInv
  <2>6. StackInv'
    BY <1>1, <2>1 DEF StackInv
  <2> QED BY <2>5, <2>6
<1> QED BY <1>2, <1>3 DEF Inv

-----------------------------------------------------------------------------
(* The boot keeps the invariant (smp.c:50-112, trampoline.S:48-55). *)
THEOREM BootInvariant == Spec => []Inv
<1>1. Init => Inv
  <2> SUFFICES ASSUME Init PROVE Inv
    OBVIOUS
  <2>1. ListInv
    BY DEF Init, ListInv, Before, Loop, Waits
  <2>2. ApInv
    BY Zenon DEF Init, ApInv, Tried, Waits, NoStack
  <2>3. StackInv
    BY DEF Init, StackInv, Waits, NoStack
  <2> QED BY <2>1, <2>2, <2>3 DEF Inv
<1>2. Inv /\ [Next]_vars => Inv'
  <2> SUFFICES ASSUME Inv, [Next]_vars PROVE Inv'
    OBVIOUS
  <2>1. CASE Kmain
    <3>1. CASE SendStartup("delay_init", "delay_first") \/ SendStartup("second", "delay_second")
      BY <3>1, SendStartupInv DEF Waits
    <3> QED BY <2>1, <3>1, EarlyInv, LoopInv, SendInitInv, CheckFlagInv DEF Kmain
  <2>2. CASE BootTick \/ ShellStep \/ Tick \/ Panic \/ (\E c \in Cpus : CpuStep(c)) \/ UNCHANGED vars
    BY <2>2, TicksKeep, OthersInv
  <2>3. CASE \E c \in Cpus : ApLoad(c) \/ ApFlag(c)
    BY <2>3, ApLoadInv, ApFlagInv
  <2> QED BY <2>1, <2>2, <2>3 DEF Next
<1> QED BY <1>1, <1>2, PTL DEF Spec

-----------------------------------------------------------------------------
(* The interrupt controllers.  The inductive invariant has four parts, on  *)
(* a PC with the usual wiring (LegacyLines).                               *)
Lines == {TIMER, KEYBOARD, COM1}
Gated == Exceptions \cup {Vector(irq) : irq \in {TIMER, KEYBOARD, COM1, 7}}

(* Who is registered when, and what the PIC lets through: before the       *)
(* switch to the IO APIC just what is registered, then nothing.            *)
ControlInv ==
  /\ DOMAIN handler = Irqs
  /\ handler[TIMER] \in {"none", "bootstrap", "sched"}
  /\ handler[KEYBOARD] \in {"none", "keyboard"}
  /\ pc \in Before => handler = [irq \in Irqs |-> "none"] /\ pic = {}
  /\ pc \notin Before => gates = Gated /\ handler[COM1] = "com1"
  /\ pc \in Loop \cup {"init_io_apic", "tasks_init"} => handler[TIMER] = "bootstrap"
  /\ pc # "run" => handler[KEYBOARD] = "none" /\ handler[TIMER] # "sched"
  /\ pc = "run" => handler[TIMER] = "sched"
  /\ pc \notin {"tasks_init", "run"} => ~is_initialized
  /\ is_initialized \in BOOLEAN
  /\ IF is_initialized THEN pic = {}
       ELSE \A irq \in Lines : irq \in pic <=> handler[irq] # "none"

(* The redirection registers, which the scheduler's timer is the first to use *)
RegInv ==
  /\ DOMAIN reg = 0 .. 31
  /\ pc # "run" => \A r \in 0 .. 31 : reg[r] = Masked
  /\ reg[2 * Line(TIMER)] =
       IF is_initialized /\ handler[TIMER] = "sched" THEN Vector(TIMER) ELSE Masked
  /\ reg[2 * Line(KEYBOARD)] \in {Masked, Vector(KEYBOARD)}
  /\ reg[2 * Line(KEYBOARD)] # Masked => is_initialized /\ handler[KEYBOARD] = "keyboard"
  /\ reg[2 * Line(COM1)] = Masked

FrameLine(f) == IF f.kind = "timer" THEN TIMER ELSE KEYBOARD

(* What a frame has yet to write *)
ToWrite(f) ==
  LET irq == FrameLine(f) IN
  \/ f.writes = <<>> /\ f.pc = "end"
  \/ /\ is_initialized /\ f.pc \in {"wait", "take", "select", "data", "signal"}
     /\ \/ /\ f.writes = <<[at |-> 2 * Line(irq), data |-> Vector(irq)], f.writes[2]>>
           /\ f.writes[2].at = 2 * Line(irq) + 1
        \/ f.writes = <<f.writes[1]>> /\ f.writes[1].at = 2 * Line(irq) + 1

GoodFrame(f) ==
  /\ f = [kind |-> f.kind, pc |-> f.pc, count |-> f.count, writes |-> f.writes]
  /\ f.kind \in {"timer", "keyboard"} /\ ToWrite(f)
  /\ f.kind = "keyboard" => handler[KEYBOARD] = "keyboard"
  /\ f.pc = "data" => io_reg_sel = f.writes[1].at

(* The frame is about to unmask the keyboard. *)
Unmasks(f) ==
  /\ f.kind = "keyboard" /\ f.pc # "signal" /\ f.writes # <<>>
  /\ f.writes[1].at = 2 * Line(KEYBOARD)

(* One access at a time, and no tick on its way meanwhile *)
FrameInv ==
  /\ DOMAIN frames = Tasks
  /\ \A t \in Tasks : frames[t] # <<>> =>
       /\ pc = "run" /\ pending = {}
       /\ frames[t] = <<frames[t][1]>> /\ GoodFrame(frames[t][1])
       /\ \A u \in Tasks : frames[u] # <<>> => u = t
  /\ handler[KEYBOARD] = "keyboard" /\ is_initialized =>
       \/ reg[2 * Line(KEYBOARD)] = Vector(KEYBOARD)
       \/ \E t \in Tasks : frames[t] # <<>> /\ Unmasks(frames[t][1])

(* The tick that is on its way is the one tick there is. *)
PendInv ==
  /\ pc # "run" => pending = {}
  /\ \A c \in pending : c = IF is_initialized THEN Dest(TIMER) ELSE 0
  /\ current \in [Cpus -> Tasks \cup {Nobody}]

IrqInv == IsaLines(info.irq_override) /\ ControlInv /\ RegInv /\ FrameInv /\ PendInv

(* The pins of the three lines *)
LEMMA Pins ==
  ASSUME IsaLines(info.irq_override)
  PROVE  /\ Line(KEYBOARD) = 1 /\ Line(COM1) = 4 /\ Line(TIMER) \in (0 .. 15) \ {1, 4}
         /\ Pin(KEYBOARD) = 1 /\ Pin(TIMER) = Line(TIMER)
BY DEF IsaLines, Line, Pin, TIMER, KEYBOARD, COM1

(* What the invariant is about, apart from kmain's place *)
irqState == <<info, gates, handler, pic, is_initialized, reg, io_reg_sel, frames, current, pending>>

(* kmain and the processors, where they leave the controllers alone *)
LEMMA SameIrqs ==
  ASSUME IrqInv, UNCHANGED irqState,
         \/ pc' = pc
         \/ pc \in Before /\ pc' \in Before
         \/ pc \in Loop /\ pc' \in Loop \cup {"init_io_apic"}
  PROVE  IrqInv'
<1>1. IsaLines(info.irq_override)' /\ ControlInv'
  BY DEF IrqInv, irqState, IsaLines, ControlInv, Before, Loop, Waits, Lines
<1>2. \A irq : Line(irq)' = Line(irq) /\ Dest(irq)' = Dest(irq)
  BY DEF irqState, Line, Dest
<1>3. RegInv'
  BY <1>2 DEF IrqInv, irqState, RegInv, Before, Loop, Waits
<1>4. \A f : GoodFrame(f)' = GoodFrame(f) /\ Unmasks(f)' = Unmasks(f)
  BY <1>2 DEF irqState, GoodFrame, ToWrite, Unmasks
<1>5. FrameInv'
  BY <1>2, <1>4 DEF IrqInv, irqState, FrameInv, Before, Loop, Waits
<1>6. PendInv'
  BY <1>2 DEF IrqInv, irqState, PendInv, Before, Loop, Waits
<1> QED BY <1>1, <1>3, <1>5, <1>6 DEF IrqInv

(* No access is under way as long as kmain is, and the invariant of the    *)
(* frames is then about nothing.                                           *)
LEMMA NoAccess ==
  ASSUME FrameInv, pc # "run", UNCHANGED frames, handler'[KEYBOARD] # "keyboard"
  PROVE  FrameInv'
<1>1. DOMAIN frames = Tasks /\ \A t \in Tasks : frames[t] = <<>>
  BY DEF FrameInv
<1> QED BY <1>1 DEF FrameInv

(* interrupt_init *)
LEMMA InterruptsOnIrqs ==
  ASSUME ListInv, LegacyLines, IrqInv, InterruptsOn
  PROVE  IrqInv'
<1>1. /\ pc = "interrupt_init" /\ pc' = "start_APs" /\ info' = MadtGetInfo(SDTs)
      /\ gates' = Gated
      /\ handler' = [handler EXCEPT ![COM1] = "com1", ![7] = "not_available"]
      /\ pic' = PicEnable(AllMasked, COM1)
      /\ UNCHANGED <<is_initialized, reg, frames, current, pending>>
  BY DEF InterruptsOn, InterruptInit, Gated
<1>2. IsaLines(info.irq_override)'
  BY <1>1 DEF ListInv, LegacyLines, IsaLines
<1>3. /\ is_initialized = FALSE /\ handler = [irq \in Irqs |-> "none"] /\ pending = {}
      /\ DOMAIN reg = 0 .. 31 /\ \A r \in 0 .. 31 : reg[r] = Masked
  BY <1>1 DEF IrqInv, ControlInv, RegInv, PendInv, Before
<1>4. /\ pic' = {COM1} /\ DOMAIN handler' = Irqs /\ handler'[COM1] = "com1"
      /\ handler'[TIMER] = "none" /\ handler'[KEYBOARD] = "none"
  BY <1>1, <1>3 DEF PicEnable, AllMasked, TIMER, KEYBOARD, COM1, Irqs
<1>5. ControlInv'
  BY <1>1, <1>3, <1>4, Zenon DEF ControlInv, Before, Loop, Waits, Lines, TIMER, KEYBOARD, COM1, Irqs
<1>6. RegInv'
  <2>1. Line(KEYBOARD)' = 1 /\ Line(COM1)' = 4 /\ Line(TIMER)' \in 0 .. 15
    BY <1>2 DEF IsaLines, Line, TIMER, KEYBOARD, COM1
  <2> QED BY <1>1, <1>3, <1>4, <2>1 DEF RegInv
<1>7. FrameInv'
  BY <1>1, <1>4, NoAccess DEF IrqInv
<1>8. PendInv'
  BY <1>1, <1>3 DEF IrqInv, PendInv
<1> QED BY <1>2, <1>5, <1>6, <1>7, <1>8 DEF IrqInv

(* start_APs up to its loop *)
LEMMA StartAPsIrqs ==
  ASSUME IrqInv, StartAPs
  PROVE  IrqInv'
<1>1. /\ pc = "start_APs" /\ pc' = "next" /\ is_initialized = FALSE /\ is_initialized' = FALSE
      /\ handler[TIMER] \in {"none", "bootstrap"} /\ TIMER \in Irqs /\ DOMAIN handler = Irqs
  BY DEF StartAPs, IrqInv, ControlInv, Before, Irqs, TIMER
<1>2. /\ handler' = [handler EXCEPT ![TIMER] = "bootstrap"] /\ pic' = pic \cup {TIMER}
      /\ UNCHANGED <<info, gates, reg, frames, current, pending>>
  BY <1>1 DEF StartAPs, TimerInit, InterruptRegister, PicEnable, TIMER
<1>3. /\ DOMAIN handler' = Irqs /\ handler'[TIMER] = "bootstrap"
      /\ handler'[KEYBOARD] = handler[KEYBOARD] /\ handler'[COM1] = handler[COM1]
  BY <1>1, <1>2 DEF TIMER, KEYBOARD, COM1, Irqs
<1>4. /\ IsaLines(info.irq_override)' /\ handler[KEYBOARD] = "none" /\ handler[COM1] = "com1"
      /\ gates' = Gated /\ \A irq \in Lines : irq \in pic <=> handler[irq] # "none"
  BY <1>1, <1>2 DEF IrqInv, IsaLines, ControlInv, Before
<1>5. ControlInv'
  BY <1>1, <1>2, <1>3, <1>4, Zenon DEF ControlInv, Before, Loop, Waits, Lines, TIMER, KEYBOARD, COM1
<1>6. RegInv'
  <2>1. \A irq : Line(irq)' = Line(irq)
    BY <1>2 DEF Line
  <2> QED BY <1>1, <1>2, <1>3, <1>4, <2>1 DEF IrqInv, RegInv
<1>7. FrameInv' /\ PendInv'
  BY <1>1, <1>2, <1>3, <1>4, NoAccess DEF IrqInv, PendInv
<1> QED BY <1>4, <1>5, <1>6, <1>7 DEF IrqInv

(* init_io_apic: what the PIC let through is masked, and nothing comes     *)
(* through the IO APIC yet.                                                *)
LEMMA InitIoApicIrqs ==
  ASSUME IrqInv, InitIoApic
  PROVE  IrqInv'
<1>1. /\ pc = "init_io_apic" /\ pc' = "tasks_init"
      /\ UNCHANGED <<info, gates, handler, reg, frames, current, pending>>
      /\ \/ UNCHANGED <<pic, is_initialized>>
         \/ pic' = {} /\ is_initialized' = TRUE
  BY DEF InitIoApic, IoapicInit, AllMasked
<1>2. IsaLines(info.irq_override)' /\ ControlInv'
  <2>1. CASE UNCHANGED <<pic, is_initialized>>
    BY <1>1, <2>1 DEF IrqInv, IsaLines, ControlInv, Before, Loop, Waits
  <2>2. CASE pic' = {} /\ is_initialized' = TRUE
    BY <1>1, <2>2 DEF IrqInv, IsaLines, ControlInv, Before, Loop, Waits
  <2> QED BY <1>1, <2>1, <2>2, Zenon
<1>3. handler[TIMER] # "sched" /\ handler[KEYBOARD] = "none" /\ pending = {}
  BY <1>1 DEF IrqInv, ControlInv, PendInv
<1>4. RegInv'
  <2>1. \A irq : Line(irq)' = Line(irq)
    BY <1>1 DEF Line
  <2> QED BY <1>1, <1>3, <2>1 DEF IrqInv, RegInv
<1>5. FrameInv' /\ PendInv'
  BY <1>1, <1>3, NoAccess DEF IrqInv, PendInv
<1> QED BY <1>2, <1>4, <1>5 DEF IrqInv

(* What the two writes of ioapic_redirect_external_int leave *)
LEMMA RedirectionWrites ==
  ASSUME IsaLines(info.irq_override), DOMAIN reg = 0 .. 31
  PROVE  LET new == Written(Redirection(TIMER, 0)) IN
         /\ DOMAIN new = 0 .. 31 /\ new[2 * Line(TIMER)] = Vector(TIMER)
         /\ \A r \in 0 .. 31 : r \notin {2 * Line(TIMER), 2 * Line(TIMER) + 1} => new[r] = reg[r]
<1> DEFINE lo == [at |-> 2 * Line(TIMER), data |-> Vector(TIMER)]
           hi == [at |-> 2 * Line(TIMER) + 1, data |-> 0]
<1>1. Line(TIMER) \in 0 .. 15 /\ Redirection(TIMER, 0) = <<lo, hi>>
  BY Pins DEF Redirection
<1>2. Elements(Redirection(TIMER, 0)) = {lo, hi}
  BY <1>1 DEF Elements
<1>3. lo.at = 2 * Line(TIMER) /\ lo.data = Vector(TIMER) /\ hi.at = 2 * Line(TIMER) + 1
  OBVIOUS
<1> HIDE DEF lo, hi
<1>4. (CHOOSE w \in {lo, hi} : w.at = 2 * Line(TIMER)) = lo
  BY <1>1, <1>3
<1> DEFINE new == Written(Redirection(TIMER, 0))
<1>5. new = [r \in 0 .. 31 |-> IF \E w \in {lo, hi} : w.at = r
                                 THEN (CHOOSE w \in {lo, hi} : w.at = r).data ELSE reg[r]]
  BY <1>2, Zenon DEF Written
<1> HIDE DEF new
<1>6. new[2 * Line(TIMER)] = Vector(TIMER)
  <2>1. 2 * Line(TIMER) \in 0 .. 31 /\ \E w \in {lo, hi} : w.at = 2 * Line(TIMER)
    BY <1>1, <1>3
  <2>2. new[2 * Line(TIMER)] = (CHOOSE w \in {lo, hi} : w.at = 2 * Line(TIMER)).data
    BY <1>5, <2>1, Zenon
  <2> QED BY <1>3, <1>4, <2>2, Zenon
<1>7. \A r \in 0 .. 31 : r \notin {2 * Line(TIMER), 2 * Line(TIMER) + 1} => new[r] = reg[r]
  BY <1>3, <1>5
<1> QED BY <1>5, <1>6, <1>7 DEF new

(* The registers of a running system, pin by pin *)
LEMMA RegistersAre ==
  ASSUME pc' = "run", DOMAIN reg' = 0 .. 31, Line(KEYBOARD)' = 1, Line(COM1)' = 4,
         reg'[2 * Line(TIMER)'] = IF is_initialized' /\ handler'[TIMER] = "sched"
                                    THEN Vector(TIMER) ELSE Masked,
         reg'[2] \in {Masked, Vector(KEYBOARD)}, reg'[8] = Masked,
         reg'[2] # Masked => is_initialized' /\ handler'[KEYBOARD] = "keyboard"
  PROVE  RegInv'
<1>1. 2 * Line(KEYBOARD)' = 2 /\ 2 * Line(COM1)' = 8
  OBVIOUS
<1> QED BY <1>1, Zenon DEF RegInv

(* tasks_init *)
LEMMA TasksInitIrqs ==
  ASSUME IrqInv, TasksInit
  PROVE  IrqInv'
<1>1. /\ pc = "tasks_init" /\ pc' = "run" /\ handler' = [handler EXCEPT ![TIMER] = "sched"]
      /\ UNCHANGED <<info, gates, is_initialized, frames, current, pending>>
      /\ IF is_initialized THEN reg' = Written(Redirection(TIMER, 0)) /\ UNCHANGED pic
           ELSE pic' = pic \cup {TIMER} /\ UNCHANGED reg
  BY DEF TasksInit, TimerInit, InterruptRegister, PicEnable, TIMER
<1>2. /\ DOMAIN handler = Irqs /\ handler[KEYBOARD] = "none" /\ handler[COM1] = "com1"
      /\ gates = Gated /\ is_initialized \in BOOLEAN
      /\ IF is_initialized THEN pic = {}
           ELSE \A irq \in Lines : irq \in pic <=> handler[irq] # "none"
  BY <1>1 DEF IrqInv, ControlInv, Before
<1>3. /\ IsaLines(info.irq_override) /\ DOMAIN reg = 0 .. 31 /\ \A r \in 0 .. 31 : reg[r] = Masked
      /\ pending = {}
  BY <1>1 DEF IrqInv, RegInv, PendInv
<1>4. /\ DOMAIN handler' = Irqs /\ handler'[TIMER] = "sched"
      /\ handler'[KEYBOARD] = "none" /\ handler'[COM1] = "com1"
  BY <1>1, <1>2 DEF TIMER, KEYBOARD, COM1, Irqs
<1>5. IsaLines(info.irq_override)'
  BY <1>1, <1>3 DEF IsaLines
<1>6. ControlInv'
  <2>1. CASE is_initialized
    BY <1>1, <1>2, <1>4, <2>1 DEF ControlInv, Before, Loop, Waits
  <2>2. CASE ~is_initialized
    BY <1>1, <1>2, <1>4, <2>2 DEF ControlInv, Before, Loop, Waits, Lines, TIMER, KEYBOARD, COM1
  <2> QED BY <2>1, <2>2
<1>7. RegInv'
  <2>1. \A irq : Line(irq)' = Line(irq)
    BY <1>1 DEF Line
  <2>2. Line(KEYBOARD) = 1 /\ Line(COM1) = 4 /\ Line(TIMER) \in (0 .. 15) \ {1, 4}
    BY <1>3, Pins
  <2>3. CASE is_initialized
    <3>1. /\ DOMAIN reg' = 0 .. 31 /\ reg'[2 * Line(TIMER)] = Vector(TIMER)
          /\ \A r \in 0 .. 31 : r \notin {2 * Line(TIMER), 2 * Line(TIMER) + 1} => reg'[r] = reg[r]
      BY <1>1, <1>3, <2>3, RedirectionWrites
    <3>2. reg'[2] = Masked /\ reg'[8] = Masked
      <4>1. \A r \in {2, 8} : r \in 0 .. 31 /\ r \notin {2 * Line(TIMER), 2 * Line(TIMER) + 1}
        BY <2>2
      <4> QED BY <1>3, <3>1, <4>1, Zenon
    <3>3. Line(KEYBOARD)' = 1 /\ Line(COM1)' = 4 /\ reg'[2 * Line(TIMER)'] = Vector(TIMER)
      BY <2>1, <2>2, <3>1, Zenon
    <3> QED BY <1>1, <1>4, <2>3, <3>1, <3>2, <3>3, RegistersAre
  <2>4. CASE ~is_initialized
    BY <1>1, <1>3, <1>4, <2>1, <2>2, <2>4 DEF RegInv
  <2> QED BY <2>3, <2>4
<1>8. FrameInv' /\ PendInv'
  BY <1>1, <1>3, <1>4, NoAccess DEF IrqInv, PendInv
<1> QED BY <1>5, <1>6, <1>7, <1>8 DEF IrqInv

(* The frame that a processor is at is the only one. *)
OnlyFrame(t, p) ==
  /\ pc = "run" /\ pending = {} /\ DOMAIN frames = Tasks
  /\ frames[t] = <<frames[t][1]>> /\ Head(frames[t]) = frames[t][1]
  /\ GoodFrame(frames[t][1]) /\ frames[t][1].pc = p
  /\ \A u \in Tasks : u # t => frames[u] = <<>>

LEMMA TheFrame ==
  ASSUME IrqInv, NEW c, NEW t \in Tasks, NEW p, At(c, t, p)
  PROVE  OnlyFrame(t, p)
<1>1. frames[t] # <<>> /\ Head(frames[t]).pc = p
  BY DEF At
<1>2. /\ pc = "run" /\ pending = {} /\ DOMAIN frames = Tasks
      /\ frames[t] = <<frames[t][1]>> /\ GoodFrame(frames[t][1])
      /\ \A u \in Tasks : u # t => frames[u] = <<>>
  BY <1>1, Zenon DEF IrqInv, FrameInv
<1>3. \A x : Head(<<x>>) = x
  OBVIOUS
<1>4. Head(frames[t]) = frames[t][1]
  BY <1>2, <1>3, Zenon
<1> QED BY <1>1, <1>2, <1>4 DEF OnlyFrame

(* A step that leaves the one frame g and no other *)
LeavesFrame(t, g) ==
  /\ DOMAIN frames' = Tasks /\ frames'[t] = <<g>>
  /\ \A u \in Tasks : u # t => frames'[u] = <<>>

(* keeps the invariant if that frame is good. *)
LEMMA OneFrame ==
  ASSUME NEW t \in Tasks, NEW g, LeavesFrame(t, g), pc' = "run", pending' = {}, GoodFrame(g)',
         handler'[KEYBOARD] = "keyboard" /\ is_initialized' =>
           reg'[2 * Line(KEYBOARD)'] = Vector(KEYBOARD) \/ Unmasks(g)'
  PROVE  FrameInv'
<1>1. DOMAIN frames' = Tasks /\ frames'[t] = <<g>> /\ \A u \in Tasks : u # t => frames'[u] = <<>>
  BY DEF LeavesFrame
<1>2. <<g>> # <<>> /\ <<g>>[1] = g
  OBVIOUS
<1>3. \A u \in Tasks : frames'[u] # <<>> => u = t
  BY <1>1
<1>4. frames'[t][1] = g
  BY <1>1, <1>2
<1>5. GoodFrame(frames[t][1])' /\ (Unmasks(g)' => Unmasks(frames[t][1])')
  BY <1>4
<1> QED BY <1>1, <1>2, <1>3, <1>4, <1>5 DEF FrameInv

(* An assignment to the one element of a sequence *)
LEMMA OneElement ==
  ASSUME NEW f, NEW g
  PROVE  [<<f>> EXCEPT ![1] = g] = <<g>>
<1>1. <<g>> = [x \in 1 .. 1 |-> g]
  OBVIOUS
<1>2. [<<f>> EXCEPT ![1] = g] = [x \in 1 .. 1 |-> g]
  OBVIOUS
<1> QED BY <1>1, <1>2

(* An assignment to the one frame, *)
LEMMA FrameSet ==
  ASSUME DOMAIN frames = Tasks, NEW t \in Tasks, NEW g, frames[t] = <<frames[t][1]>>,
         \A u \in Tasks : u # t => frames[u] = <<>>, frames' = [frames EXCEPT ![t][1] = g]
  PROVE  LeavesFrame(t, g)
<1>1. [<<frames[t][1]>> EXCEPT ![1] = g] = <<g>>
  BY OneElement
<1>2. /\ DOMAIN frames' = Tasks /\ frames'[t] = [<<frames[t][1]>> EXCEPT ![1] = g]
      /\ \A u \in Tasks : u # t => frames'[u] = <<>>
  BY Zenon
<1> QED BY <1>1, <1>2 DEF LeavesFrame

(* to where it is, *)
LEMMA FrameGoes ==
  ASSUME DOMAIN frames = Tasks, NEW t \in Tasks, NEW p, NEW g, frames[t] = <<frames[t][1]>>,
         \A u \in Tasks : u # t => frames[u] = <<>>, Goto(t, p), g = [frames[t][1] EXCEPT !.pc = p]
  PROVE  LeavesFrame(t, g)
<1>1. [<<frames[t][1]>> EXCEPT ![1] = g] = <<g>>
  BY OneElement
<1>2. /\ DOMAIN frames' = Tasks /\ frames'[t] = [<<frames[t][1]>> EXCEPT ![1] = g]
      /\ \A u \in Tasks : u # t => frames'[u] = <<>>
  BY Zenon DEF Goto
<1> QED BY <1>1, <1>2 DEF LeavesFrame

(* and to the two components that sem_wait sets at first *)
LEMMA FrameSetTwo ==
  ASSUME DOMAIN frames = Tasks, NEW t \in Tasks, NEW g,
         frames[t] = <<frames[t][1]>>, \A u \in Tasks : u # t => frames[u] = <<>>,
         frames' = [frames EXCEPT ![t][1].pc = "take", ![t][1].count = ioapic_sem.count],
         g = [frames[t][1] EXCEPT !.pc = "take", !.count = ioapic_sem.count]
  PROVE  LeavesFrame(t, g)
<1>1. <<g>> = [x \in 1 .. 1 |-> g] /\ DOMAIN frames[t] = 1 .. 1
  OBVIOUS
<1>2. frames'[t][1] = g
  <2> DEFINE F == [frames EXCEPT ![t][1].pc = "take"]
  <2>1. F[t][1] = [frames[t][1] EXCEPT !.pc = "take"] /\ t \in DOMAIN F /\ 1 \in DOMAIN F[t]
    BY <1>1
  <2>2. frames' = [F EXCEPT ![t][1].count = ioapic_sem.count]
    OBVIOUS
  <2> HIDE DEF F
  <2>3. [F EXCEPT ![t][1].count = ioapic_sem.count][t][1] = [F[t][1] EXCEPT !.count = ioapic_sem.count]
    BY <2>1
  <2> QED BY <2>1, <2>2, <2>3
<1>3. DOMAIN frames'[t] = 1 .. 1
  BY <1>1
<1>4. DOMAIN frames' = Tasks /\ \A u \in Tasks : u # t => frames'[u] = <<>>
  OBVIOUS
<1>5. frames'[t] = [x \in 1 .. 1 |-> frames'[t][x]]
  BY <1>3, Zenon
<1> QED BY <1>1, <1>2, <1>3, <1>4, <1>5 DEF LeavesFrame

(* A step of an access that does not write a redirection register *)
LEMMA AccessIrqs ==
  ASSUME IrqInv, NEW c, NEW t \in Tasks, NEW p, At(c, t, p), NEW g,
         LeavesFrame(t, g), GoodFrame(g)',
         Unmasks(frames[t][1]) => Unmasks(g)',
         UNCHANGED <<info, gates, handler, pic, is_initialized, pc, pending, reg>>,
         current' \in [Cpus -> Tasks \cup {Nobody}]
  PROVE  IrqInv'
<1>1. \A irq : Line(irq)' = Line(irq) /\ Dest(irq)' = Dest(irq)
  BY DEF Line, Dest
<1>2. IsaLines(info.irq_override)' /\ ControlInv' /\ RegInv' /\ PendInv'
  BY <1>1, Zenon DEF IrqInv, IsaLines, ControlInv, RegInv, PendInv
<1>3. /\ pc = "run" /\ pending = {} /\ DOMAIN frames = Tasks
      /\ \A u \in Tasks : u # t => frames[u] = <<>>
  <2>1. OnlyFrame(t, p)
    BY TheFrame
  <2> QED BY <2>1, Zenon DEF OnlyFrame
<1>4. handler[KEYBOARD] = "keyboard" /\ is_initialized =>
        reg[2 * Line(KEYBOARD)] = Vector(KEYBOARD) \/ Unmasks(frames[t][1])
  BY <1>3, Zenon DEF IrqInv, FrameInv
<1>5. FrameInv'
  BY <1>1, <1>3, <1>4, OneFrame, Zenon
<1> QED BY <1>2, <1>5 DEF IrqInv

(* sem_wait and the selection of the register: the frame goes on. *)
LEMMA WaitIrqs ==
  ASSUME IrqInv, NEW c \in Cpus, SemRead(c) \/ SemTake(c) \/ Select(c),
         UNCHANGED <<info, controllers, cpuno, pending, last, pc>>
  PROVE  IrqInv'
<1>1. PICK t, p, g :
        /\ t \in Tasks /\ p \in {"wait", "take", "select"} /\ At(c, t, p) /\ UNCHANGED reg
        /\ \/ /\ p = "wait"
              /\ frames' = [frames EXCEPT ![t][1].pc = "take", ![t][1].count = ioapic_sem.count]
              /\ g = [frames[t][1] EXCEPT !.pc = "take", !.count = ioapic_sem.count]
           \/ p = "take" /\ Goto(t, "select") /\ g = [frames[t][1] EXCEPT !.pc = "select"]
           \/ /\ p = "select" /\ Goto(t, "data")
              /\ g = [frames[t][1] EXCEPT !.pc = "data"]
              /\ io_reg_sel' = Head(frames[t]).writes[1].at
  BY Zenon DEF SemRead, SemTake, Select
<1>2. /\ DOMAIN frames = Tasks /\ frames[t] = <<frames[t][1]>> /\ Head(frames[t]) = frames[t][1]
      /\ GoodFrame(frames[t][1]) /\ frames[t][1].pc = p
      /\ \A u \in Tasks : u # t => frames[u] = <<>>
  <2>1. OnlyFrame(t, p)
    BY <1>1, TheFrame
  <2> QED BY <2>1 DEF OnlyFrame
<1>3. LeavesFrame(t, g)
  <2>1. CASE p = "wait"
    BY <1>1, <1>2, <2>1, FrameSetTwo, Zenon
  <2>2. CASE p = "take"
    BY <1>1, <1>2, <2>2, FrameGoes
  <2>3. CASE p = "select"
    BY <1>1, <1>2, <2>3, FrameGoes
  <2> QED BY <1>1, <2>1, <2>2, <2>3
<1>4. /\ g = [kind |-> g.kind, pc |-> g.pc, count |-> g.count, writes |-> g.writes]
      /\ g.kind = frames[t][1].kind /\ g.writes = frames[t][1].writes
      /\ g.pc \in {"take", "select", "data"}
      /\ g.pc = "data" => io_reg_sel' = g.writes[1].at
  BY <1>1, <1>2, Zenon DEF GoodFrame
<1>5. /\ \A irq : Line(irq)' = Line(irq)
      /\ UNCHANGED <<info, gates, handler, pic, is_initialized, pc, pending, reg>>
  BY <1>1 DEF Line, controllers
<1>6. GoodFrame(g)'
  BY <1>1, <1>2, <1>4, <1>5 DEF GoodFrame, ToWrite, FrameLine
<1>7. Unmasks(frames[t][1]) => Unmasks(g)'
  BY <1>4, <1>5 DEF Unmasks
<1>8. current' \in [Cpus -> Tasks \cup {Nobody}]
  <2>1. current \in [Cpus -> Tasks \cup {Nobody}]
    BY DEF IrqInv, PendInv
  <2>2. \/ UNCHANGED current
        \/ \E u \in Tasks \cup {Nobody} : current' = [current EXCEPT ![c] = u]
    BY Zenon DEF SemRead, SemTake, Select, Ready
  <2> QED BY <2>1, <2>2
<1> QED BY <1>1, <1>3, <1>5, <1>6, <1>7, <1>8, AccessIrqs

(* A write to one of the two registers of a line *)
LEMMA RegisterWritten ==
  ASSUME IrqInv, pc = "run", is_initialized, UNCHANGED <<info, handler, is_initialized, pc>>,
         NEW irq \in {TIMER, KEYBOARD}, irq = KEYBOARD => handler[KEYBOARD] = "keyboard",
         NEW r, NEW data, reg' = [reg EXCEPT ![r] = data],
         (r = 2 * Line(irq) /\ data = Vector(irq)) \/ r = 2 * Line(irq) + 1
  PROVE  /\ RegInv'
         /\ reg'[2 * Line(KEYBOARD)] \in {reg[2 * Line(KEYBOARD)], Vector(KEYBOARD)}
         /\ r = 2 * Line(KEYBOARD) => reg'[2 * Line(KEYBOARD)] = Vector(KEYBOARD)
<1>1. Line(KEYBOARD) = 1 /\ Line(COM1) = 4 /\ Line(TIMER) \in (0 .. 15) \ {1, 4}
  BY Pins DEF IrqInv
<1>2. \A q : Line(q)' = Line(q)
  BY DEF Line
<1>3. /\ DOMAIN reg = 0 .. 31 /\ handler[TIMER] = "sched" /\ reg[2 * Line(TIMER)] = Vector(TIMER)
      /\ reg[2] \in {Masked, Vector(KEYBOARD)} /\ reg[8] = Masked
      /\ reg[2] # Masked => handler[KEYBOARD] = "keyboard"
  <2>1. RegInv /\ handler[TIMER] = "sched"
    BY DEF IrqInv, ControlInv
  <2>2. 2 * Line(KEYBOARD) = 2 /\ 2 * Line(COM1) = 8
    BY <1>1
  <2> QED BY <2>1, <2>2 DEF RegInv
<1>4. /\ r \in 0 .. 31 /\ r # 8 /\ (r = 2 * Line(TIMER) => data = Vector(TIMER))
      /\ r = 2 => irq = KEYBOARD /\ data = Vector(KEYBOARD)
  BY <1>1
<1>5. DOMAIN reg' = 0 .. 31 /\ \A q \in 0 .. 31 : reg'[q] = IF q = r THEN data ELSE reg[q]
  BY <1>3, Zenon
<1>6. reg'[2 * Line(TIMER)] = Vector(TIMER) /\ reg'[8] = Masked
  BY <1>1, <1>3, <1>4, <1>5
<1>7. /\ reg'[2] \in {reg[2], Vector(KEYBOARD)}
      /\ r = 2 => reg'[2] = Vector(KEYBOARD)
      /\ reg'[2] # Masked => handler[KEYBOARD] = "keyboard"
  BY <1>3, <1>4, <1>5
<1>8. 2 * Line(KEYBOARD) = 2
  BY <1>1
<1>9. RegInv'
  <2>1. Line(KEYBOARD)' = 1 /\ Line(COM1)' = 4 /\ reg'[2 * Line(TIMER)'] = Vector(TIMER)
    BY <1>1, <1>2, <1>6, Zenon
  <2>2. pc' = "run" /\ is_initialized' /\ handler' = handler
    OBVIOUS
  <2>3. reg'[2] \in {Masked, Vector(KEYBOARD)}
    BY <1>3, <1>7
  <2> QED BY <1>3, <1>5, <1>6, <1>7, <2>1, <2>2, <2>3, RegistersAre, Zenon
<1> QED BY <1>7, <1>8, <1>9, Zenon

(* What a frame that is not at its end writes next *)
LEMMA FirstWrite ==
  ASSUME NEW f, ToWrite(f), f.pc # "end", NEW irq, irq = FrameLine(f)
  PROVE  /\ is_initialized
         /\ \/ f.writes[1].at = 2 * Line(irq) /\ f.writes[1].data = Vector(irq)
            \/ f.writes[1].at = 2 * Line(irq) + 1
<1>1. /\ is_initialized
      /\ \/ f.writes = <<[at |-> 2 * Line(irq), data |-> Vector(irq)], f.writes[2]>>
         \/ f.writes[1].at = 2 * Line(irq) + 1
  BY Zenon DEF ToWrite
<1>2. ASSUME f.writes = <<[at |-> 2 * Line(irq), data |-> Vector(irq)], f.writes[2]>>
      PROVE  f.writes[1] = [at |-> 2 * Line(irq), data |-> Vector(irq)]
  BY <1>2
<1> QED BY <1>1, <1>2

(* A frame that goes on with the same writes has the same ones to do. *)
LEMMA SameWrites ==
  ASSUME NEW f, NEW g, ToWrite(f), f.pc # "end", g.kind = f.kind, g.writes = f.writes,
         g.pc \in {"wait", "take", "select", "data", "signal"},
         UNCHANGED is_initialized, \A q : Line(q)' = Line(q)
  PROVE  ToWrite(g)'
<1>1. FrameLine(g)' = FrameLine(f)
  BY Zenon DEF FrameLine
<1>2. /\ is_initialized
      /\ \/ /\ f.writes = <<[at |-> 2 * Line(FrameLine(f)), data |-> Vector(FrameLine(f))], f.writes[2]>>
            /\ f.writes[2].at = 2 * Line(FrameLine(f)) + 1
         \/ f.writes = <<f.writes[1]>> /\ f.writes[1].at = 2 * Line(FrameLine(f)) + 1
  BY Zenon DEF ToWrite
<1> QED BY <1>1, <1>2, Zenon DEF ToWrite

(* The data: the register of the frame's own line, or its destination *)
LEMMA DataIrqs ==
  ASSUME IrqInv, NEW c \in Cpus, Data(c), UNCHANGED <<info, controllers, cpuno, pending, last, pc>>
  PROVE  IrqInv'
<1>1. PICK t, f, g :
        /\ t \in Tasks /\ At(c, t, "data") /\ Goto(t, "signal")
        /\ f = frames[t][1] /\ g = [frames[t][1] EXCEPT !.pc = "signal"]
        /\ reg' = [reg EXCEPT ![io_reg_sel] = Head(frames[t]).writes[1].data]
        /\ UNCHANGED <<io_reg_sel, current>>
  BY Zenon DEF Data
<1>2. /\ t \in Tasks /\ DOMAIN frames = Tasks /\ frames[t] = <<f>> /\ Head(frames[t]) = f
      /\ GoodFrame(f) /\ f.pc = "data" /\ pc = "run" /\ pending = {}
      /\ \A u \in Tasks : u # t => frames[u] = <<>>
  <2>1. OnlyFrame(t, "data")
    BY <1>1, TheFrame
  <2> QED BY <1>1, <2>1 DEF OnlyFrame
<1>3. LeavesFrame(t, g)
  BY <1>1, <1>2, FrameGoes, Zenon
<1>4. /\ f = [kind |-> f.kind, pc |-> f.pc, count |-> f.count, writes |-> f.writes]
      /\ f.kind \in {"timer", "keyboard"} /\ ToWrite(f) /\ io_reg_sel = f.writes[1].at
      /\ f.kind = "keyboard" => handler[KEYBOARD] = "keyboard"
  BY <1>2 DEF GoodFrame
<1>5. /\ g = [kind |-> g.kind, pc |-> g.pc, count |-> g.count, writes |-> g.writes]
      /\ g.kind = f.kind /\ g.writes = f.writes /\ g.pc = "signal"
  BY <1>1, <1>4
<1>6. PICK irq : irq = FrameLine(f)
  OBVIOUS
<1>7. /\ is_initialized
      /\ \/ f.writes[1].at = 2 * Line(irq) /\ f.writes[1].data = Vector(irq)
         \/ f.writes[1].at = 2 * Line(irq) + 1
  BY <1>1, <1>2, <1>4, <1>6, FirstWrite
<1>8. /\ \A q : Line(q)' = Line(q)
      /\ UNCHANGED <<info, gates, handler, pic, is_initialized, pc, pending>>
  BY <1>1 DEF Line, controllers
<1>9. IsaLines(info.irq_override)' /\ ControlInv' /\ PendInv'
  BY <1>1, <1>2, <1>8 DEF IrqInv, IsaLines, ControlInv, PendInv
<1>10. /\ irq \in {TIMER, KEYBOARD}
       /\ irq = KEYBOARD => handler[KEYBOARD] = "keyboard"
  BY <1>4, <1>6 DEF FrameLine, TIMER, KEYBOARD
<1>11. /\ RegInv'
       /\ reg'[2 * Line(KEYBOARD)] \in {reg[2 * Line(KEYBOARD)], Vector(KEYBOARD)}
       /\ io_reg_sel = 2 * Line(KEYBOARD) => reg'[2 * Line(KEYBOARD)] = Vector(KEYBOARD)
  BY <1>1, <1>2, <1>4, <1>7, <1>8, <1>10, RegisterWritten, Zenon
<1>12. GoodFrame(g)'
  <2>1. ToWrite(g)'
    BY <1>1, <1>2, <1>4, <1>5, <1>8, SameWrites
  <2> QED BY <1>4, <1>5, <1>8, <2>1 DEF GoodFrame
<1>13. handler[KEYBOARD] = "keyboard" /\ is_initialized =>
         reg[2 * Line(KEYBOARD)] = Vector(KEYBOARD) \/ Unmasks(f)
  BY <1>1, <1>2 DEF IrqInv, FrameInv
<1>14. Unmasks(f) => io_reg_sel = 2 * Line(KEYBOARD)
  BY <1>4 DEF Unmasks
<1>15. FrameInv'
  BY <1>2, <1>3, <1>8, <1>11, <1>12, <1>13, <1>14, OneFrame, Zenon
<1> QED BY <1>9, <1>11, <1>15 DEF IrqInv

(* sem_signal: the frame goes on with what is left, or ends. *)
LEMMA SignalIrqs ==
  ASSUME IrqInv, NEW c \in Cpus, SemSignal(c),
         UNCHANGED <<info, controllers, cpuno, pending, last, pc>>
  PROVE  IrqInv'
<1>1. PICK t, f, g :
        /\ t \in Tasks /\ At(c, t, "signal") /\ f = frames[t][1]
        /\ g = Frame(f.kind, Tail(Head(frames[t]).writes))
        /\ frames' = [frames EXCEPT ![t][1] = g]
        /\ UNCHANGED <<reg, io_reg_sel, current>>
  BY Zenon DEF SemSignal
<1>2. /\ t \in Tasks /\ DOMAIN frames = Tasks /\ frames[t] = <<f>> /\ Head(frames[t]) = f
      /\ GoodFrame(f) /\ f.pc = "signal"
      /\ \A u \in Tasks : u # t => frames[u] = <<>>
  <2>1. OnlyFrame(t, "signal")
    BY <1>1, TheFrame
  <2> QED BY <1>1, <2>1 DEF OnlyFrame
<1>3. LeavesFrame(t, g)
  <2>1. frames[t] = <<frames[t][1]>> /\ frames' = [frames EXCEPT ![t][1] = g]
    BY <1>1, <1>2
  <2> QED BY <1>2, <2>1, FrameSet, Zenon
<1>4. /\ g = [kind |-> g.kind, pc |-> g.pc, count |-> g.count, writes |-> g.writes]
      /\ g.kind = f.kind /\ g.writes = Tail(f.writes)
      /\ g.pc = IF g.writes = <<>> THEN "end" ELSE "wait"
  BY <1>1, <1>2 DEF Frame
<1>5. /\ \A q : Line(q)' = Line(q)
      /\ UNCHANGED <<info, gates, handler, pic, is_initialized, pc, pending, reg>>
  BY <1>1 DEF Line, controllers
<1>6. PICK irq : irq = FrameLine(f)
  OBVIOUS
<1>7. FrameLine(g) = irq
  BY <1>4, <1>6 DEF FrameLine
<1>8. /\ is_initialized
      /\ \/ f.writes = <<f.writes[1], f.writes[2]>> /\ f.writes[2].at = 2 * Line(irq) + 1
         \/ f.writes = <<f.writes[1]>>
  <2>1. ToWrite(f) /\ f.pc # "end"
    BY <1>2 DEF GoodFrame
  <2>2. PICK lo : lo = [at |-> 2 * Line(irq), data |-> Vector(irq)]
    OBVIOUS
  <2>3. /\ is_initialized
        /\ \/ f.writes = <<lo, f.writes[2]>> /\ f.writes[2].at = 2 * Line(irq) + 1
           \/ f.writes = <<f.writes[1]>>
    BY <1>6, <2>1, <2>2, Zenon DEF ToWrite
  <2>4. ASSUME f.writes = <<lo, f.writes[2]>> PROVE f.writes[1] = lo
    BY <2>4
  <2> QED BY <2>3, <2>4, Zenon
<1>9. \/ g.writes = <<g.writes[1]>> /\ g.writes[1].at = 2 * Line(irq) + 1
      \/ g.writes = <<>>
  <2>1. \A v, w : Tail(<<v, w>>) = <<w>> /\ Tail(<<v>>) = <<>> /\ <<w>>[1] = w
    OBVIOUS
  <2>2. CASE f.writes = <<f.writes[1], f.writes[2]>> /\ f.writes[2].at = 2 * Line(irq) + 1
    <3>1. PICK v, w : v = f.writes[1] /\ w = f.writes[2]
      OBVIOUS
    <3>2. f.writes = <<v, w>> /\ w.at = 2 * Line(irq) + 1
      BY <2>2, <3>1
    <3>3. g.writes = <<w>>
      <4>1. Tail(<<v, w>>) = <<w>>
        BY <2>1, Zenon
      <4> QED BY <1>4, <3>2, <4>1, Zenon
    <3> QED BY <2>1, <3>2, <3>3
  <2>3. CASE f.writes = <<f.writes[1]>>
    BY <1>4, <2>1, <2>3
  <2> QED BY <1>8, <2>2, <2>3
<1>10. ToWrite(g)'
  BY <1>4, <1>5, <1>7, <1>8, <1>9 DEF ToWrite, FrameLine
<1>11. GoodFrame(g)'
  BY <1>2, <1>4, <1>5, <1>10 DEF GoodFrame
<1>12. ~Unmasks(f) /\ current' \in [Cpus -> Tasks \cup {Nobody}]
  BY <1>1, <1>2 DEF Unmasks, IrqInv, PendInv
<1> QED BY <1>1, <1>3, <1>5, <1>11, <1>12, AccessIrqs

(* The end of the access: the keyboard's line, if it was to be unmasked,   *)
(* has been.                                                               *)
LEMMA ReturnIrqs ==
  ASSUME IrqInv, NEW c \in Cpus, Return(c), UNCHANGED <<info, controllers, cpuno, pending, last, pc>>
  PROVE  IrqInv'
<1>1. PICK t, f :
        /\ t \in Tasks /\ At(c, t, "end") /\ f = frames[t][1]
        /\ frames' = [frames EXCEPT ![t] = Tail(frames[t])]
        /\ UNCHANGED reg
        /\ \/ UNCHANGED current
           \/ \E u \in Tasks : current' = [current EXCEPT ![c] = u]
  BY Zenon DEF Return, Ready
<1>2. /\ t \in Tasks /\ DOMAIN frames = Tasks /\ frames[t] = <<f>> /\ GoodFrame(f) /\ f.pc = "end"
      /\ \A u \in Tasks : u # t => frames[u] = <<>>
  <2>1. OnlyFrame(t, "end")
    BY <1>1, TheFrame
  <2> QED BY <1>1, <2>1 DEF OnlyFrame
<1>3. DOMAIN frames' = Tasks /\ \A u \in Tasks : frames'[u] = <<>>
  <2>1. Tail(<<f>>) = <<>>
    OBVIOUS
  <2> QED BY <1>1, <1>2, <2>1
<1>4. ~Unmasks(f)
  BY <1>2 DEF GoodFrame, ToWrite, Unmasks
<1>5. /\ \A q : Line(q)' = Line(q) /\ Dest(q)' = Dest(q)
      /\ UNCHANGED <<info, gates, handler, pic, is_initialized, pc, pending, reg>>
  BY <1>1, Zenon DEF Line, Dest, controllers
<1>6. current' \in [Cpus -> Tasks \cup {Nobody}]
  BY <1>1 DEF IrqInv, PendInv
<1>7. IsaLines(info.irq_override)' /\ ControlInv' /\ RegInv' /\ PendInv'
  BY <1>5, <1>6, Zenon DEF IrqInv, IsaLines, ControlInv, RegInv, PendInv
<1>8. handler[KEYBOARD] = "keyboard" /\ is_initialized => reg[2 * Line(KEYBOARD)] = Vector(KEYBOARD)
  BY <1>1, <1>2, <1>4 DEF IrqInv, FrameInv
<1>9. FrameInv'
  BY <1>3, <1>5, <1>8, Zenon DEF FrameInv
<1> QED BY <1>7, <1>9 DEF IrqInv

(* The frame that ISR_SYSTIME_SCHED or keyboard_init begins with *)
LEMMA FirstFrame ==
  ASSUME IrqInv, NEW kind \in {"timer", "keyboard"}, NEW irq, NEW dest, NEW g,
         irq = IF kind = "timer" THEN TIMER ELSE KEYBOARD,
         g = Frame(kind, RedirectExternalIrq(irq, dest)),
         kind = "keyboard" => handler'[KEYBOARD] = "keyboard",
         UNCHANGED <<info, is_initialized>>
  PROVE  GoodFrame(g)' /\ (kind = "keyboard" /\ is_initialized' => Unmasks(g)')
<1>1. \A q : Line(q)' = Line(q)
  BY DEF Line
<1>2. Pin(irq) = Line(irq) /\ FrameLine(g) = irq
  BY Pins, Zenon DEF IrqInv, Frame, FrameLine, Line, Pin, IsaLines, KEYBOARD, TIMER
<1>3. /\ g = [kind |-> g.kind, pc |-> g.pc, count |-> g.count, writes |-> g.writes]
      /\ g.kind = kind /\ g.writes = RedirectExternalIrq(irq, dest)
      /\ g.pc = IF g.writes = <<>> THEN "end" ELSE "wait"
  BY DEF Frame
<1>4. CASE is_initialized
  <2>1. PICK lo, hi : /\ lo = [at |-> 2 * Line(irq), data |-> Vector(irq)]
                      /\ hi = [at |-> 2 * Line(irq) + 1, data |-> dest]
    BY Zenon
  <2>2. g.writes = <<lo, hi>>
    BY <1>2, <1>3, <1>4, <2>1 DEF RedirectExternalIrq, Redirection
  <2>3. g.writes # <<>> /\ g.writes[1] = lo /\ g.writes[2] = hi
    BY <2>2
  <2>4. ToWrite(g)'
    <3>1. FrameLine(g)' = irq /\ g.pc = "wait" /\ is_initialized' /\ hi.at = 2 * Line(irq)' + 1
      <4>1. FrameLine(g)' = irq
        BY <1>2 DEF FrameLine
      <4>2. g.pc = "wait" /\ is_initialized'
        BY <1>3, <1>4, <2>3
      <4> QED BY <1>1, <2>1, <4>1, <4>2
    <3>2. g.writes = <<[at |-> 2 * Line(irq)', data |-> Vector(irq)], g.writes[2]>>
      BY <1>1, <2>1, <2>2, <2>3, Zenon
    <3> QED BY <2>3, <3>1, <3>2, Zenon DEF ToWrite
  <2>5. GoodFrame(g)'
    BY <1>3, <2>3, <2>4 DEF GoodFrame
  <2>6. kind = "keyboard" => Unmasks(g)'
    <3>1. g.pc # "signal" /\ lo.at = 2 * Line(irq)' /\ (kind = "keyboard" => irq = KEYBOARD)
      BY <1>1, <1>3, <2>1
    <3> QED BY <1>3, <2>3, <3>1, Zenon DEF Unmasks
  <2> QED BY <2>5, <2>6
<1>5. CASE ~is_initialized
  BY <1>3, <1>5 DEF GoodFrame, ToWrite, RedirectExternalIrq
<1> QED BY <1>4, <1>5

(* Where no access is under way, a push makes the one frame. *)
LEMMA PushFirst ==
  ASSUME FrameInv, Quiet, NEW t \in Tasks, NEW g, Push(t, g)
  PROVE  LeavesFrame(t, g)
<1>1. DOMAIN frames = Tasks /\ \A u \in Tasks : frames[u] = <<>>
  BY DEF FrameInv, Quiet
<1>2. frames' = [frames EXCEPT ![t] = <<g>> \o frames[t]]
  BY DEF Push
<1>3. <<g>> \o <<>> = <<g>>
  OBVIOUS
<1> QED BY <1>1, <1>2, <1>3, Zenon DEF LeavesFrame

(* The tick: the only one that is pending, and nothing is being accessed *)
LEMMA TakeTimerIrqs ==
  ASSUME IrqInv, NEW c \in Cpus, TakeTimer(c), pc = "run", pc' = pc
  PROVE  IrqInv'
<1>1. /\ c \in pending /\ current[c] # Nobody /\ pending' = pending \ {c}
      /\ IsrSystimeSched(c)
      /\ UNCHANGED <<info, gates, handler, pic, is_initialized, reg, io_reg_sel, current>>
  BY Zenon DEF TakeTimer, Interruptible
<1>2. PICK t, g : /\ t = current[c]
                  /\ g = Frame("timer", RedirectExternalIrq(TIMER, info.local_APIC_ids[NextCpu]))
  OBVIOUS
<1>3. Push(t, g) /\ t \in Tasks
  BY <1>1, <1>2 DEF IsrSystimeSched, IrqInv, PendInv
<1>4. pending' = {} /\ Quiet
  BY <1>1, Zenon DEF IrqInv, PendInv, FrameInv, Quiet
<1>5. LeavesFrame(t, g)
  BY <1>3, <1>4, PushFirst DEF IrqInv
<1>6. GoodFrame(g)'
  BY <1>1, <1>2, FirstFrame
<1>7. \A q : Line(q)' = Line(q) /\ Dest(q)' = Dest(q)
  BY <1>1 DEF Line, Dest
<1>8. IsaLines(info.irq_override)' /\ ControlInv' /\ RegInv' /\ PendInv'
  BY <1>1, <1>4, <1>7, Zenon DEF IrqInv, IsaLines, ControlInv, RegInv, PendInv
<1>9. handler[KEYBOARD] = "keyboard" /\ is_initialized => reg[2 * Line(KEYBOARD)] = Vector(KEYBOARD)
  BY <1>4, Zenon DEF IrqInv, FrameInv, Quiet
<1>10. FrameInv'
  BY <1>1, <1>3, <1>4, <1>5, <1>6, <1>7, <1>9, OneFrame
<1> QED BY <1>8, <1>10 DEF IrqInv

(* keyboard_init: its frame is the one that unmasks the line. *)
LEMMA KeyboardIrqs ==
  ASSUME ~overlapped', IrqInv, NEW c \in Cpus, KeyboardInit(c), pc = "run", pc' = pc
  PROVE  IrqInv'
<1>1. /\ Quiet /\ pending = {} /\ handler' = [handler EXCEPT ![KEYBOARD] = "keyboard"]
      /\ pic' = IF is_initialized THEN pic ELSE pic \cup {KEYBOARD}
      /\ Push(Shell, Frame("keyboard", RedirectExternalIrq(KEYBOARD, 0)))
      /\ handler[KEYBOARD] = "none"
      /\ UNCHANGED <<info, gates, is_initialized, reg, io_reg_sel, current, pending>>
  <2>1. Quiet /\ pending = {}
    BY Zenon DEF KeyboardInit
  <2> QED BY <2>1 DEF KeyboardInit, PicEnable, KEYBOARD
<1>2. PICK g : g = Frame("keyboard", RedirectExternalIrq(KEYBOARD, 0))
  OBVIOUS
<1>3. LeavesFrame(Shell, g) /\ Shell \in Tasks
  BY <1>1, <1>2, PushFirst DEF IrqInv, Tasks
<1>4. /\ DOMAIN handler' = Irqs /\ handler'[KEYBOARD] = "keyboard"
      /\ handler'[TIMER] = handler[TIMER] /\ handler'[COM1] = handler[COM1]
  BY <1>1 DEF IrqInv, ControlInv, TIMER, KEYBOARD, COM1, Irqs
<1>5. GoodFrame(g)' /\ (is_initialized' => Unmasks(g)')
  BY <1>1, <1>2, <1>4, FirstFrame DEF TIMER, KEYBOARD
<1>6. \A q : Line(q)' = Line(q) /\ Dest(q)' = Dest(q)
  BY <1>1 DEF Line, Dest
<1>7. IsaLines(info.irq_override)' /\ RegInv' /\ PendInv'
  BY <1>1, <1>4, <1>6, Zenon DEF IrqInv, IsaLines, RegInv, PendInv
<1>8. ControlInv'
  BY <1>1, <1>4, Zenon DEF IrqInv, ControlInv, Before, Loop, Waits, Lines, TIMER, KEYBOARD, COM1
<1>9. FrameInv'
  BY <1>1, <1>3, <1>5, OneFrame
<1> QED BY <1>7, <1>8, <1>9, Zenon DEF IrqInv

(* The PIT ticks when nothing is being accessed; where the tick goes stays *)
(* the same until it is taken.                                             *)
LEMMA PitIrqs ==
  ASSUME ~overlapped', IrqInv, NEW c \in Cpus, Pit(c), pc = "run", pc' = pc
  PROVE  IrqInv'
<1>1. /\ Quiet /\ pending' = pending \cup {c}
      /\ UNCHANGED <<info, gates, handler, pic, is_initialized, reg, io_reg_sel, frames, current>>
      /\ (is_initialized /\ c = Dest(TIMER)) \/ (TIMER \in pic /\ c = 0)
  <2>1. Quiet /\ ((is_initialized /\ c = Dest(TIMER)) \/ (TIMER \in pic /\ c = 0))
    BY Zenon DEF Pit, ThroughIoApic
  <2> QED BY <2>1 DEF Pit, controllers, access
<1>2. \A q : Line(q)' = Line(q) /\ Dest(q)' = Dest(q)
  BY <1>1, Zenon DEF Line, Dest
<1>3. IsaLines(info.irq_override)' /\ ControlInv' /\ RegInv'
  BY <1>1, <1>2, Zenon DEF IrqInv, IsaLines, ControlInv, RegInv
<1>4. PendInv'
  BY <1>1, <1>2 DEF IrqInv, ControlInv, PendInv
<1>5. FrameInv'
  BY <1>1, <1>2, Zenon DEF IrqInv, FrameInv, Quiet
<1> QED BY <1>3, <1>4, <1>5 DEF IrqInv

-----------------------------------------------------------------------------
(* Everything is masked when kmain begins, *)
LEMMA IrqsInit ==
  ASSUME Init
  PROVE  IrqInv
<1>1. IrqInit /\ pc = "kmain"
  BY DEF Init
<1>2. /\ info.irq_override = [irq \in Irqs |-> 0] /\ handler = [irq \in Irqs |-> "none"] /\ pic = {}
      /\ is_initialized = FALSE /\ reg = [r \in 0 .. 31 |-> Masked] /\ pending = {}
      /\ current = [c \in Cpus |-> c] /\ frames = [t \in Tasks |-> <<>>]
  BY <1>1 DEF IrqInit, MadtInfo
<1>3. IsaLines(info.irq_override)
  BY <1>2 DEF IsaLines, Irqs, TIMER, KEYBOARD, COM1
<1>4. /\ DOMAIN handler = Irqs /\ handler[TIMER] = "none" /\ handler[KEYBOARD] = "none"
      /\ handler[COM1] = "none"
  BY <1>2 DEF Irqs, TIMER, KEYBOARD, COM1
<1>5. ControlInv
  BY <1>1, <1>2, <1>4, Zenon DEF ControlInv, Before, Loop, Waits, Lines
<1>6. RegInv
  <2>1. Line(KEYBOARD) = 1 /\ Line(COM1) = 4 /\ Line(TIMER) \in 0 .. 15
    BY <1>3, Pins
  <2>2. DOMAIN reg = 0 .. 31 /\ \A r \in 0 .. 31 : reg[r] = Masked
    BY <1>2, Zenon
  <2>3. /\ reg[2 * Line(TIMER)] = Masked /\ reg[2 * Line(KEYBOARD)] = Masked
        /\ reg[2 * Line(COM1)] = Masked
    BY <2>1, <2>2
  <2> QED BY <1>2, <1>4, <2>2, <2>3 DEF RegInv
<1>7. FrameInv
  <2>1. DOMAIN frames = Tasks /\ \A t \in Tasks : frames[t] = <<>>
    BY <1>2
  <2> QED BY <1>4, <2>1 DEF FrameInv
<1>8. PendInv
  BY <1>2 DEF PendInv, Tasks
<1> QED BY <1>3, <1>5, <1>6, <1>7, <1>8 DEF IrqInv

(* every step, of kmain, of a driver or of a device, keeps the invariant, *)
LEMMA IrqsStep ==
  ASSUME ~overlapped', LegacyLines, ListInv, IrqInv, [Next]_vars
  PROVE  IrqInv'
<1>1. CASE InterruptsOn
  BY <1>1, InterruptsOnIrqs
<1>2. CASE StartAPs
  BY <1>2, StartAPsIrqs
<1>3. CASE InitIoApic
  BY <1>3, InitIoApicIrqs
<1>4. CASE TasksInit
  BY <1>4, TasksInitIrqs
<1>5. CASE EarlyInit
  <2>1. UNCHANGED irqState /\ pc \in Before /\ pc' \in Before
    BY <1>5 DEF EarlyInit, irqVars, controllers, access, irqState, Before
  <2> QED BY <2>1, SameIrqs
<1>6. CASE \/ NextAp \/ SendInit \/ SendStartup("delay_init", "delay_first")
           \/ SendStartup("second", "delay_second") \/ CheckFlag
  <2>1. UNCHANGED irqState
    BY <1>6, Zenon DEF NextAp, SendInit, SendStartup, CheckFlag, irqVars, controllers, access, irqState
  <2>2. pc \in Loop /\ pc' \in Loop \cup {"init_io_apic"}
    BY <1>6 DEF NextAp, SendInit, SendStartup, CheckFlag, Loop, Waits
  <2> QED BY <2>1, <2>2, SameIrqs
<1>7. CASE BootTick \/ Panic \/ UNCHANGED vars \/ \E c \in Cpus : ApLoad(c) \/ ApFlag(c)
  <2>1. UNCHANGED irqState /\ pc' = pc
    BY <1>7, Zenon DEF BootTick, Panic, ApLoad, ApFlag, vars, irqVars, controllers, access, irqState
  <2> QED BY <2>1, SameIrqs
<1>8. CASE ShellStep
  BY <1>8, KeyboardIrqs DEF ShellStep
<1>9. CASE Tick
  BY <1>9, PitIrqs DEF Tick
<1>10. ASSUME NEW c \in Cpus, CpuStep(c) PROVE IrqInv'
  <2>1. pc = "run" /\ pc' = pc
    BY <1>10 DEF CpuStep
  <2>2. CASE TakeTimer(c)
    BY <2>1, <2>2, TakeTimerIrqs
  <2>3. CASE AccessStep(c)
    <3>1. UNCHANGED <<info, controllers, cpuno, pending, last, pc>>
      BY <2>1, <2>3 DEF AccessStep
    <3>2. SemRead(c) \/ SemTake(c) \/ Select(c) \/ Data(c) \/ SemSignal(c) \/ Return(c)
      BY <2>3 DEF AccessStep
    <3> QED BY <3>1, <3>2, WaitIrqs, DataIrqs, SignalIrqs, ReturnIrqs
  <2> QED BY <1>10, <2>2, <2>3 DEF CpuStep
<1> QED BY <1>1, <1>2, <1>3, <1>4, <1>5, <1>6, <1>7, <1>8, <1>9, <1>10 DEF Next, Kmain

(* and what has overlapped once stays so.                                  *)
LEMMA OverlapStays ==
  ASSUME overlapped, [Next]_vars
  PROVE  overlapped'
<1>1. CASE UNCHANGED overlapped
  BY <1>1
<1>2. CASE \E c \in Cpus : KeyboardInit(c) \/ Pit(c)
  BY <1>2 DEF KeyboardInit, Pit
<1>3. UNCHANGED overlapped \/ \E c \in Cpus : KeyboardInit(c) \/ Pit(c)
  BY ZenonT(60) DEF Next, Kmain, EarlyInit, InterruptsOn, StartAPs, NextAp, SendInit, SendStartup, CheckFlag,
     InitIoApic, TasksInit, BootTick, ApLoad, ApFlag, CpuStep, AccessStep, TakeTimer, ShellStep, Tick,
     Panic, vars, irqVars
<1> QED BY <1>1, <1>2, <1>3

(* What the invariant says of the three lines *)
LEMMA IrqsFollow ==
  ASSUME IrqInv
  PROVE  IrqsHandled
<1>1. Line(KEYBOARD) = 1 /\ Line(COM1) = 4 /\ Line(TIMER) \in (0 .. 15) \ {1, 4}
  BY Pins DEF IrqInv
<1>2. pc \in Before => \A irq \in Lines : handler[irq] = "none"
  BY DEF IrqInv, ControlInv, Lines, Irqs, TIMER, KEYBOARD, COM1
<1>3. pc \notin Before => \A irq \in Lines : Vector(irq) \in gates
  BY DEF IrqInv, ControlInv, Lines, Gated
<1>4. \A irq \in Lines : irq \in pic => handler[irq] # "none" /\ ~is_initialized
  BY DEF IrqInv, ControlInv
<1>5. \A irq \in Lines : ThroughIoApic(irq) =>
        is_initialized /\ handler[irq] # "none" /\ reg[2 * Line(irq)] = Vector(irq)
  BY DEF IrqInv, ControlInv, RegInv, ThroughIoApic, Lines, Vector, Masked
<1>6. \A irq \in Lines : handler[irq] # "none" /\ ~is_initialized => irq \in pic
  BY DEF IrqInv, ControlInv
<1>7. ASSUME Quiet, is_initialized, NEW irq \in Lines, handler[irq] \in {"sched", "keyboard"}
      PROVE  ThroughIoApic(irq)
  <2> \A q \in {TIMER, KEYBOARD} : Vector(q) # Masked
    BY DEF Vector, Masked, TIMER, KEYBOARD
  <2>1. CASE irq = TIMER
    <3>1. handler[TIMER] = "sched" /\ RegInv
      BY <1>7, <2>1 DEF IrqInv, ControlInv
    <3>2. reg[2 * Line(TIMER)] = Vector(TIMER)
      BY <1>7, <3>1 DEF RegInv
    <3> QED BY <1>7, <2>1, <3>2 DEF ThroughIoApic
  <2>2. CASE irq = KEYBOARD
    <3>1. handler[KEYBOARD] = "keyboard" /\ FrameInv /\ \A t \in Tasks : frames[t] = <<>>
      BY <1>7, <2>2 DEF IrqInv, ControlInv, Quiet
    <3>2. reg[2 * Line(KEYBOARD)] = Vector(KEYBOARD)
      BY <1>7, <3>1 DEF FrameInv
    <3> QED BY <1>7, <2>2, <3>2 DEF ThroughIoApic
  <2>3. CASE irq = COM1
    BY <1>2, <1>7, <2>3 DEF IrqInv, ControlInv, Lines
  <2> QED BY <1>7, <2>1, <2>2, <2>3 DEF Lines
<1> QED BY <1>2, <1>3, <1>4, <1>5, <1>6, <1>7 DEF IrqsHandled, Lines

(* Every interrupt that can come is handled, comes through one controller  *)
(* and is registered, and every registered one can come, through the       *)
(* switch from the PIC to the IO APIC (smp.c:108) and while the timer goes *)
(* round the CPUs (timer.c:28): on a PC with the usual wiring, and until a *)
(* tick comes while the registers of the IO APIC are in use.               *)
THEOREM IrqsAreHandled == LegacyLines /\ Spec => []IrqsHandled
<1> DEFINE PcInv == LegacyLines /\ (overlapped \/ IrqInv)
<1>1. LegacyLines /\ Init => PcInv
  BY IrqsInit
<1>2. Inv /\ PcInv /\ [Next]_vars => PcInv'
  BY IrqsStep, OverlapStays DEF Inv
<1>3. PcInv => IrqsHandled
  BY IrqsFollow DEF IrqsHandled
<1>4. Spec => []Inv
  BY BootInvariant
<1> HIDE DEF PcInv
<1> QED BY <1>1, <1>2, <1>3, <1>4, PTL DEF Spec

-----------------------------------------------------------------------------
(* How many APs are reported, also if some are late: a processor that has  *)
(* not been tried is off, each raises the flag once, and a raised flag is  *)
(* worth one report.                                                       *)
INSTANCE FiniteSetTheorems

FlagUp == IF AP_STARTUP_SUCCESSFUL THEN 1 ELSE 0

CountInv ==
  /\ cpu \in [Cpus -> {"off", "init", "startup", "loaded", "running"}]
  /\ result \in [Cpus -> {"none", "ok", "failed"}]
  /\ AP_STARTUP_SUCCESSFUL \in BOOLEAN
  /\ 0 \in Cpus => cpu[0] = "running"
  /\ \A c \in Cpus \ {0} : result[c] = "none" /\ ~Tried(c) => cpu[c] = "off"
  /\ Cardinality(Reported) + FlagUp <= Cardinality(Up)

(* Both sets are finite, and counted by a natural number. *)
LEMMA CountsAreNat ==
  IsFiniteSet(Reported) /\ IsFiniteSet(Up) /\ Cardinality(Reported) \in Nat /\ Cardinality(Up) \in Nat
<1>1. Reported \subseteq Cpus /\ Up \subseteq Cpus
  BY DEF Reported, Up
<1> QED BY <1>1, CpusAssumption, FS_Subset, FS_CardinalityType

(* A step that changes no processor, report or flag *)
LEMMA SameCount ==
  ASSUME CountInv, UNCHANGED <<cpu, result, AP_STARTUP_SUCCESSFUL>>,
         \A c \in Cpus : Tried(c) => Tried(c)'
  PROVE  CountInv'
<1>1. Reported' = Reported /\ Up' = Up /\ FlagUp' = FlagUp
  BY DEF Reported, Up, FlagUp
<1> QED BY <1>1 DEF CountInv

(* A message to the AP in turn, which does not stop one that runs *)
LEMMA MessageCount ==
  ASSUME Inv, CountInv, NEW st \in {"init", "startup", "loaded", "running"},
         pc \in Loop \ {"next"}, pc' \in Waits, Ap' = Ap, cpu' = [cpu EXCEPT ![Ap] = st],
         cpu[Ap] = "running" <=> st = "running",
         UNCHANGED <<result, AP_STARTUP_SUCCESSFUL>>
  PROVE  CountInv'
<1>1. Ap \in Cpus \ {0}
  BY ApProps
<1>2. /\ cpu' \in [Cpus -> {"off", "init", "startup", "loaded", "running"}] /\ cpu'[Ap] = st
      /\ \A c \in Cpus : c # Ap => cpu'[c] = cpu[c]
  BY <1>1 DEF CountInv
<1>3. Reported' = Reported /\ Up' = Up /\ FlagUp' = FlagUp
  BY <1>1, <1>2 DEF Reported, Up, FlagUp
<1>4. \A c \in Cpus : ~Tried(c)' => c # Ap /\ ~Tried(c)
  BY DEF Tried
<1> QED BY <1>1, <1>2, <1>3, <1>4 DEF CountInv

(* start_AP comes to an end: a report of success takes the flag down. *)
LEMMA ReportCount ==
  ASSUME Inv, CountInv, NEW r \in {"ok", "failed"}, pc \in Waits, pc' \notin Waits,
         result' = [result EXCEPT ![Ap] = r], r = "ok" <=> AP_STARTUP_SUCCESSFUL,
         AP_STARTUP_SUCCESSFUL' = FALSE, UNCHANGED cpu
  PROVE  CountInv'
<1>1. Ap \in Cpus \ {0} /\ result[Ap] = "none"
  BY ApProps DEF Loop, Waits
<1>2. /\ result' \in [Cpus -> {"none", "ok", "failed"}] /\ result'[Ap] = r
      /\ \A c \in Cpus : c # Ap => result'[c] = result[c]
  BY <1>1 DEF CountInv
<1>3. \A c \in Cpus : c # Ap => ~Tried(c)
  BY DEF Tried
<1>4. Up' = Up /\ FlagUp' = 0
  BY DEF Up, FlagUp
<1>5. Cardinality(Reported') = Cardinality(Reported) + FlagUp
  <2>1. CASE r = "ok"
    <3>1. Reported' = Reported \cup {Ap} /\ Ap \notin Reported
      BY <1>1, <1>2, <2>1 DEF Reported
    <3>2. Cardinality(Reported') = Cardinality(Reported) + 1
      BY <3>1, CountsAreNat, FS_AddElement
    <3> QED BY <2>1, <3>2 DEF FlagUp
  <2>2. CASE r = "failed"
    <3>1. Reported' = Reported
      BY <1>1, <1>2, <2>2 DEF Reported
    <3> QED BY <2>2, <3>1, CountsAreNat DEF FlagUp
  <2> QED BY <2>1, <2>2
<1>6. Cardinality(Reported') + FlagUp' <= Cardinality(Up')
  <2>1. Cardinality(Reported) + FlagUp <= Cardinality(Up) /\ FlagUp \in {0, 1}
    BY DEF CountInv, FlagUp
  <2>2. Cardinality(Reported) + FlagUp + 0 <= Cardinality(Up)
    BY <2>1, CountsAreNat
  <2> QED BY <1>4, <1>5, <2>2, Zenon
<1>7. ASSUME NEW c \in Cpus \ {0}, result'[c] = "none" PROVE cpu'[c] = "off"
  <2>1. c # Ap
    BY <1>2, <1>7
  <2> QED BY <1>2, <1>3, <1>7, <2>1 DEF CountInv
<1> QED BY <1>2, <1>6, <1>7 DEF CountInv

(* An AP goes on, in its turn or late. *)
LEMMA ApCount ==
  ASSUME CountInv, NEW c \in Cpus, ApLoad(c) \/ ApFlag(c)
  PROVE  CountInv'
<1>1. UNCHANGED <<info, pc, i, result>> /\ cpu[c] \in {"startup", "loaded"}
  BY DEF ApLoad, ApFlag, irqVars
<1>2. \A d \in Cpus : Tried(d)' <=> Tried(d)
  BY <1>1 DEF Tried, Ap, Ids
<1>3. c # 0 /\ (result[c] = "none" => Tried(c))
  BY <1>1 DEF CountInv
<1>4. Reported' = Reported
  BY <1>1 DEF Reported
<1>5. CASE ApLoad(c)
  <2>1. cpu' = [cpu EXCEPT ![c] = "loaded"] /\ UNCHANGED AP_STARTUP_SUCCESSFUL
    BY <1>5 DEF ApLoad
  <2>2. /\ cpu' \in [Cpus -> {"off", "init", "startup", "loaded", "running"}] /\ cpu'[c] = "loaded"
        /\ \A d \in Cpus : d # c => cpu'[d] = cpu[d]
    BY <2>1 DEF CountInv
  <2>3. Up' = Up /\ FlagUp' = FlagUp
    BY <1>1, <2>1, <2>2 DEF Up, FlagUp
  <2> QED BY <1>1, <1>2, <1>3, <1>4, <2>1, <2>2, <2>3 DEF CountInv
<1>6. CASE ApFlag(c)
  <2>1. cpu' = [cpu EXCEPT ![c] = "running"] /\ AP_STARTUP_SUCCESSFUL' = TRUE
    BY <1>6 DEF ApFlag
  <2>2. /\ cpu' \in [Cpus -> {"off", "init", "startup", "loaded", "running"}] /\ cpu'[c] = "running"
        /\ \A d \in Cpus : d # c => cpu'[d] = cpu[d]
    BY <2>1 DEF CountInv
  <2>3. Up' = Up \cup {c} /\ c \notin Up
    BY <1>1, <1>3, <2>2 DEF Up
  <2>4. Cardinality(Up') = Cardinality(Up) + 1
    BY <2>3, CountsAreNat, FS_AddElement
  <2>5. Cardinality(Reported) + FlagUp <= Cardinality(Up) /\ FlagUp \in {0, 1} /\ FlagUp' = 1
    BY <2>1 DEF CountInv, FlagUp
  <2>6. Cardinality(Reported') + FlagUp' <= Cardinality(Up')
    BY <1>4, <2>4, <2>5, CountsAreNat
  <2> QED BY <1>1, <1>2, <1>3, <2>1, <2>2, <2>6 DEF CountInv
<1> QED BY <1>5, <1>6

(* The loop of start_APs and what comes before and after it *)
LEMMA KmainCount ==
  ASSUME Inv, CountInv, Kmain
  PROVE  CountInv'
<1>1. CASE EarlyInit \/ InterruptsOn \/ StartAPs \/ NextAp \/ InitIoApic \/ TasksInit
  <2>1. pc \notin Waits /\ UNCHANGED <<cpu, result, AP_STARTUP_SUCCESSFUL>>
    BY <1>1 DEF EarlyInit, InterruptsOn, StartAPs, NextAp, InitIoApic, TasksInit, smpVars, Waits
  <2> QED BY <2>1, SameCount DEF Tried
<1>2. CASE SendInit
  <2>1. /\ pc = "start_AP" /\ pc' = "delay_init" /\ cpu' = [cpu EXCEPT ![Ap] = "init"] /\ Ap' = Ap
        /\ UNCHANGED <<result, AP_STARTUP_SUCCESSFUL>>
    BY <1>2 DEF SendInit, InitIpi, irqVars, Ids, Ap
  <2>2. Ap \in Cpus \ {0} /\ result[Ap] = "none" /\ ~Tried(Ap)
    BY <2>1, ApProps DEF Loop, Tried, Waits
  <2>3. cpu[Ap] = "off"
    BY <2>2 DEF CountInv
  <2> QED BY <2>1, <2>3, MessageCount DEF Loop, Waits
<1>3. ASSUME NEW from \in Waits, NEW to \in Waits, SendStartup(from, to)
      PROVE  CountInv'
  <2>1. /\ pc = from /\ pc' = to /\ Ap' = Ap
        /\ cpu' = [cpu EXCEPT ![Ap] = IF @ = "init" THEN "startup" ELSE @]
        /\ UNCHANGED <<result, AP_STARTUP_SUCCESSFUL>>
    BY <1>3 DEF SendStartup, StartupIpi, irqVars, Ids, Ap
  <2>2. Ap \in Cpus \ {0} /\ result[Ap] = "none"
    BY <2>1, ApProps DEF Loop, Waits
  <2>3. CASE cpu[Ap] = "off"
    <3>1. cpu' = cpu
      BY <2>1, <2>2, <2>3 DEF CountInv
    <3>2. \A c \in Cpus : Tried(c) => Tried(c)'
      BY <2>1 DEF Tried
    <3> QED BY <2>1, <3>1, <3>2, SameCount
  <2>4. CASE cpu[Ap] # "off"
    <3> DEFINE st == IF cpu[Ap] = "init" THEN "startup" ELSE cpu[Ap]
    <3>1. st \in {"init", "startup", "loaded", "running"} /\ (cpu[Ap] = "running" <=> st = "running")
      BY <2>2, <2>4 DEF CountInv
    <3>2. cpu' = [cpu EXCEPT ![Ap] = st]
      BY <2>1, <2>2 DEF CountInv
    <3>3. pc \in Loop \ {"next"} /\ pc' \in Waits
      BY <2>1 DEF Loop, Waits
    <3> HIDE DEF st
    <3> QED BY <2>1, <3>1, <3>2, <3>3, MessageCount
  <2> QED BY <2>3, <2>4
<1>4. CASE SendStartup("delay_init", "delay_first") \/ SendStartup("second", "delay_second")
  BY <1>3, <1>4 DEF Waits
<1>5. CASE CheckFlag
  <2>1. pc \in {"delay_first", "delay_second"} /\ UNCHANGED <<info, cpu>>
    BY <1>5 DEF CheckFlag, irqVars
  <2>2. CASE /\ ~AP_STARTUP_SUCCESSFUL /\ pc' = "second"
             /\ UNCHANGED <<i, result, AP_STARTUP_SUCCESSFUL>>
    <3>1. \A c \in Cpus : Tried(c) => Tried(c)'
      BY <2>1, <2>2 DEF Tried, Ap, Ids, Waits
    <3> QED BY <2>1, <2>2, <3>1, SameCount
  <2>3. CASE Started /\ result' = [result EXCEPT ![Ap] = "ok"] /\ pc' = "next" /\ i' = i + 1
    BY <2>1, <2>3, ReportCount DEF Started, Waits
  <2>4. CASE /\ ~AP_STARTUP_SUCCESSFUL /\ UNCHANGED AP_STARTUP_SUCCESSFUL
             /\ pc' = "next" /\ i' = i + 1 /\ result' = [result EXCEPT ![Ap] = "failed"]
    <3>1. AP_STARTUP_SUCCESSFUL' = FALSE
      BY <2>4 DEF CountInv
    <3> QED BY <2>1, <2>4, <3>1, ReportCount DEF Waits
  <2>5. CASE pc = "delay_first"
    BY <1>5, <2>2, <2>3, <2>5, Zenon DEF CheckFlag
  <2>6. CASE pc # "delay_first"
    BY <1>5, <2>3, <2>4, <2>6, Zenon DEF CheckFlag
  <2> QED BY <2>5, <2>6
<1> QED BY <1>1, <1>2, <1>4, <1>5 DEF Kmain

(* StartReported (smp.c:71, trampoline.S:48): no more APs are reported as  *)
(* started than have been, whenever they answer; and unless one has gone   *)
(* on after it was given up, success is reported for the APs that run and  *)
(* failure for the others, and no two of them are on one stack.            *)
THEOREM StartIsReported == Spec => []StartReported
<1>1. Init => CountInv
  <2> SUFFICES ASSUME Init PROVE CountInv
    OBVIOUS
  <2>1. Reported = {} /\ FlagUp = 0
    BY DEF Init, Reported, FlagUp
  <2>2. Cardinality(Reported) = 0
    BY <2>1, FS_EmptySet
  <2>3. Cardinality(Reported) + FlagUp <= Cardinality(Up)
    BY <2>1, <2>2, CountsAreNat
  <2> QED BY <2>3 DEF Init, CountInv
<1>2. Inv /\ CountInv /\ [Next]_vars => CountInv'
  <2> SUFFICES ASSUME Inv, CountInv, [Next]_vars PROVE CountInv'
    OBVIOUS
  <2>1. CASE BootTick \/ ShellStep \/ Tick \/ Panic \/ (\E c \in Cpus : CpuStep(c)) \/ UNCHANGED vars
    <3>1. UNCHANGED bootVars
      BY <2>1, TicksKeep
    <3>2. \A c \in Cpus : Tried(c) => Tried(c)'
      BY <3>1 DEF bootVars, Tried, Ap, Ids
    <3> QED BY <3>1, <3>2, SameCount DEF bootVars
  <2>2. CASE \E c \in Cpus : ApLoad(c) \/ ApFlag(c)
    BY <2>2, ApCount
  <2> QED BY <2>1, <2>2, KmainCount DEF Next
<1>3. Inv /\ CountInv => StartReported
  <2> SUFFICES ASSUME Inv, CountInv PROVE StartReported
    OBVIOUS
  <2>1. Cardinality(Reported) <= Cardinality(Up)
    BY CountsAreNat DEF CountInv, FlagUp
  <2> QED BY <2>1 DEF Inv, ApInv, StackInv, StartReported
<1> QED BY <1>1, <1>2, <1>3, BootInvariant, PTL DEF Spec
=============================================================================
