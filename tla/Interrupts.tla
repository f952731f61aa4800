----------------------------- MODULE Interrupts -----------------------------
(***************************************************************************)
(* interrupt/interrupt.c, drivers/pic.c, ioapic.c and lapic.c, and         *)
(* timer/timer.c: how an interrupt is enabled, delivered and acknowledged, *)
(* and how the timer interrupt goes round the CPUs.                        *)
(*                                                                         *)
(* A register of the IO APIC is written in two steps, its number into      *)
(* IOREGSEL and the data into IOWIN, under the semaphore ioapic_sem.  The  *)
(* handler of the timer does that on whatever task it interrupts; the      *)
(* shell does it once, for the keyboard.  A task's frames are the calls of *)
(* this kind that it is in, the innermost first; task c below is the one   *)
(* that CPU c comes up with and stands for all but the shell.              *)
(***************************************************************************)
EXTENDS Firmware, FiniteSets

CONSTANTS
  Cpus,      \* ids of the local APICs; 0 is the BSP's
  Shell,     \* the task of the shell
  Nobody

VARIABLES
  info,            \* _madt_info
  gates,           \* the vectors with an entry in the IDT
  handler,         \* int_handler_table
  pic,             \* the lines that the PICs let through
  unacked,         \* the lines whose interrupt the PIC has not been told the end of
  is_initialized,  \* of the IO APIC
  reg,             \* its redirection registers, two for each pin
  io_reg_sel,
  ioapic_sem,      \* [count, queue]
  cpuno,           \* of ISR_SYSTIME_SCHED
  current,         \* the task on each CPU
  frames,
  waiting,         \* the tasks in state TASK_WAITING
  pending,         \* CPUs whose local APIC holds a timer interrupt
  last,            \* the CPU that has taken the last one
  overlapped       \* has a tick come while the IO APIC's registers were in use?

controllers == <<gates, handler, pic, unacked, is_initialized>>
access == <<reg, io_reg_sel, ioapic_sem, frames, waiting, current>>
irqVars == <<info, controllers, access, cpuno, pending, last, overlapped>>

TIMER == 0
KEYBOARD == 1
COM1 == 4
Vector(irq) == 32 + irq
Exceptions == {13, 14, 15, 128}  \* GPF, page fault, APIC spurious, system call
Tasks == Cpus \cup {Shell}
Masked == 0   \* what the low half of an entry holds after reset

-----------------------------------------------------------------------------
(* Which interrupts come through. *)

(* The pin that ioapic_redirect_external_int programs. *)
Pin(irq) == IF info.irq_override[irq] > 0 THEN irq + info.irq_override[irq] ELSE irq

(* The pin that the line is wired to. *)
Line(irq) == IF info.irq_override[irq] > 0 THEN info.irq_override[irq] ELSE irq

ThroughIoApic(irq) == is_initialized /\ reg[2 * Line(irq)] # Masked
Dest(irq) == reg[2 * Line(irq) + 1]

(* The writes of ioapic_redirect_external_int, the low half first. *)
Redirection(irq, dest) ==
  <<[at |-> 2 * Pin(irq), data |-> Vector(irq)], [at |-> 2 * Pin(irq) + 1, data |-> dest]>>

(* smp_redirect_external_irq: nothing to do without an IO APIC *)
RedirectExternalIrq(irq, dest) == IF is_initialized THEN Redirection(irq, dest) ELSE <<>>

Written(writes) ==
  [r \in DOMAIN reg |-> IF \E w \in Elements(writes) : w.at = r
                          THEN (CHOOSE w \in Elements(writes) : w.at = r).data ELSE reg[r]]

(* pic_init, and pic_uninit, which is the same: every line is masked. *)
AllMasked == {}

(* pic_enable_irq *)
PicEnable(lines, irq) == IF irq < 16 THEN lines \cup {irq} ELSE lines

(* ioapic_init; nobody else is there yet to read registers. *)
IoapicInit ==
  /\ ioapic_sem' = [count |-> 1, queue |-> <<>>]
  /\ is_initialized' = TRUE

(* interrupt_register while one CPU runs and its interrupts are off: the   *)
(* two accesses of the IO APIC are not disturbed.                          *)
InterruptRegister(irq, isr) ==
  /\ handler' = [handler EXCEPT ![irq] = isr]
  /\ IF is_initialized
       THEN reg' = Written(Redirection(irq, 0)) /\ UNCHANGED pic
       ELSE pic' = PicEnable(pic, irq) /\ UNCHANGED reg

(* interrupt_init: pic_init masks every line; the gates; the handlers that *)
(* it registers, of which only COM1's is a line's.                         *)
InterruptInit ==
  /\ gates' = Exceptions \cup {Vector(irq) : irq \in {TIMER, KEYBOARD, COM1, 7}}
  /\ handler' = [handler EXCEPT ![COM1] = "com1", ![7] = "not_available"]
  /\ pic' = PicEnable(AllMasked, COM1)
  /\ unacked' = {}
  /\ UNCHANGED <<is_initialized, reg>>

IrqInit ==
  /\ info = MadtInfo
  /\ gates = {} /\ handler = [irq \in Irqs |-> "none"]
  /\ pic = {} /\ unacked = {} /\ is_initialized = FALSE
  /\ reg = [r \in 0 .. 31 |-> Masked] /\ io_reg_sel = 0
  /\ ioapic_sem = [count |-> 0, queue |-> <<>>]
  /\ cpuno = 1
  /\ current = [c \in Cpus |-> c]
  /\ frames = [t \in Tasks |-> <<>>]
  /\ waiting = {} /\ pending = {} /\ last = Nobody
  /\ overlapped = FALSE

-----------------------------------------------------------------------------
(* The accesses of the IO APIC. *)

Frame(kind, writes) == [kind |-> kind, pc |-> IF writes = <<>> THEN "end" ELSE "wait",
                        count |-> 0, writes |-> writes]
Push(t, frame) == frames' = [frames EXCEPT ![t] = <<frame>> \o @]
Goto(t, pc) == frames' = [frames EXCEPT ![t][1].pc = pc]
Ready == {t \in Tasks : t \notin waiting /\ \A c \in Cpus : current[c] # t}

(* CPU c's interrupt flag: it is off in a handler, which an interrupt gate *)
(* has started, and in schedule's loop when no task is ready.  A lock that *)
(* the handler releases may set it there (Tasks, Released); the tick that  *)
(* would be taken then is one that has come during an access.              *)
Interruptible(c) ==
  current[c] # Nobody /\ (frames[current[c]] # <<>> => Head(frames[current[c]]).kind # "timer")

(* CPU c is at step pc of the innermost frame of its task t. *)
At(c, t, pc) == current[c] = t /\ frames[t] # <<>> /\ Head(frames[t]).pc = pc

(* sem_wait, first critical section *)
SemRead(c) ==
  \E t \in Tasks :
    /\ At(c, t, "wait")
    /\ frames' = [frames EXCEPT ![t][1].pc = "take", ![t][1].count = ioapic_sem.count]
    /\ UNCHANGED <<reg, io_reg_sel, ioapic_sem, waiting, current>>

(* sem_wait, second part: it takes a unit, or the task that runs here      *)
(* queues up, and the CPU goes on with another one if there is one.        *)
SemTake(c) ==
  \E t \in Tasks :
    /\ At(c, t, "take")
    /\ Goto(t, "select")
    /\ IF Head(frames[t]).count > 0
         THEN /\ ioapic_sem' = [ioapic_sem EXCEPT !.count = @ - 1]
              /\ UNCHANGED <<waiting, current>>
         ELSE /\ ioapic_sem' = [ioapic_sem EXCEPT !.queue = Append(@, t)]
              /\ waiting' = waiting \cup {t}
              /\ current' \in {[current EXCEPT ![c] = u] :
                                 u \in IF Ready = {} THEN {Nobody} ELSE Ready}
    /\ UNCHANGED <<reg, io_reg_sel>>

(* ioapic_write_reg, *io_reg_sel = reg_index *)
Select(c) ==
  \E t \in Tasks :
    /\ At(c, t, "select")
    /\ io_reg_sel' = Head(frames[t]).writes[1].at
    /\ Goto(t, "data")
    /\ UNCHANGED <<reg, ioapic_sem, waiting, current>>

(* ioapic_write_reg, *io_reg_win = data *)
Data(c) ==
  \E t \in Tasks :
    /\ At(c, t, "data")
    /\ reg' = [reg EXCEPT ![io_reg_sel] = Head(frames[t]).writes[1].data]
    /\ Goto(t, "signal")
    /\ UNCHANGED <<io_reg_sel, ioapic_sem, waiting, current>>

(* sem_signal: the first task of the queue is ready again. *)
SemSignal(c) ==
  \E t \in Tasks :
    /\ At(c, t, "signal")
    /\ ioapic_sem' = [count |-> ioapic_sem.count + 1,
                      queue |-> IF ioapic_sem.queue = <<>> THEN <<>> ELSE Tail(ioapic_sem.queue)]
    /\ waiting' = IF ioapic_sem.queue = <<>> THEN waiting ELSE waiting \ {Head(ioapic_sem.queue)}
    /\ LET left == Tail(Head(frames[t]).writes) IN
       frames' = [frames EXCEPT ![t][1] = Frame(@.kind, left)]
    /\ UNCHANGED <<reg, io_reg_sel, current>>

(* The end of interrupt_register, or task_isr_tick: the tick lets the task *)
(* go on or gives the CPU to another one.                                  *)
Return(c) ==
  \E t \in Tasks :
    /\ At(c, t, "end")
    /\ frames' = [frames EXCEPT ![t] = Tail(@)]
    /\ \/ UNCHANGED current
       \/ Head(frames[t]).kind = "timer" /\ \E u \in Ready : current' = [current EXCEPT ![c] = u]
    /\ UNCHANGED <<reg, io_reg_sel, ioapic_sem, waiting>>

AccessStep(c) ==
  /\ SemRead(c) \/ SemTake(c) \/ Select(c) \/ Data(c) \/ SemSignal(c) \/ Return(c)
  /\ UNCHANGED <<info, controllers, cpuno, pending, last, overlapped>>

-----------------------------------------------------------------------------
(* The timer, once the scheduler is on. *)

Quiet == \A t \in Tasks : frames[t] = <<>>

(* The PIT ticks: through the IO APIC to one local APIC, which holds one   *)
(* interrupt of the vector, or through the PIC to CPU 0.  It does so at    *)
(* any moment.                                                             *)
Pit(c) ==
  /\ \/ ThroughIoApic(TIMER) /\ c = Dest(TIMER)
     \/ TIMER \in pic /\ TIMER \notin unacked /\ c = 0
  /\ pending' = pending \cup {c}
  /\ overlapped' = (overlapped \/ ~Quiet)
  /\ UNCHANGED <<info, controllers, access, cpuno, last>>

(* smp_get_cpu_count *)
CpuCount == Len(info.local_APIC_ids)


(* ++cpuno % smp_get_cpu_count(), with indices from 1 *)
NextCpu == (cpuno % CpuCount) + 1

(* pic_ack: which lines may interrupt again *)
PicAck(irq) == IF Vector(irq) < 40 THEN {irq} ELSE {}

(* ISR_SYSTIME_SCHED, up to the registers that it goes on to write *)
IsrSystimeSched(c) ==
  /\ cpuno' = NextCpu
  /\ Push(current[c], Frame("timer", RedirectExternalIrq(TIMER, info.local_APIC_ids[NextCpu])))

(* interrupt_handler, which acknowledges first *)
TakeTimer(c) ==
  /\ c \in pending /\ Interruptible(c)
  /\ handler[TIMER] = "sched"
  /\ pending' = pending \ {c}
  /\ last' = c
  /\ IsrSystimeSched(c)
  /\ unacked' = IF is_initialized THEN unacked ELSE (unacked \cup {TIMER}) \ PicAck(TIMER)
  /\ UNCHANGED <<info, gates, handler, pic, is_initialized, reg, io_reg_sel, ioapic_sem, waiting,
                 current, overlapped>>

(* keyboard_init, by the shell when it first runs *)
KeyboardInit(c) ==
  /\ current[c] = Shell /\ frames[Shell] = <<>>
  /\ handler[KEYBOARD] = "none"
  /\ handler' = [handler EXCEPT ![KEYBOARD] = "keyboard"]
  /\ pic' = IF is_initialized THEN pic ELSE PicEnable(pic, KEYBOARD)
  /\ Push(Shell, Frame("keyboard", RedirectExternalIrq(KEYBOARD, 0)))
  /\ overlapped' = (overlapped \/ ~Quiet \/ pending # {})
  /\ UNCHANGED <<info, gates, unacked, is_initialized, reg, io_reg_sel, ioapic_sem, waiting,
                 current, cpuno, pending, last>>

-----------------------------------------------------------------------------
(* An interrupt that can come has its vector, a gate and a handler, it     *)
(* comes through one controller only, and a registered one can come.  The  *)
(* kernel switches from the PIC to the IO APIC half-way (smp.c:108), and   *)
(* interrupt_register looks only at which of the two is in use.  COM1,     *)
(* registered before the switch, is lost in it: that it can still come is  *)
(* not claimed.  Nor is anything claimed once a tick has come during an    *)
(* access: two may then be in the registers at once, as ioapic_sem lets    *)
(* two tasks pass (Semaphore).                                             *)
IrqsHandled ==
  ~overlapped =>
    \A irq \in {TIMER, KEYBOARD, COM1} :
      /\ irq \in pic \/ ThroughIoApic(irq) => Vector(irq) \in gates /\ handler[irq] # "none"
      /\ ThroughIoApic(irq) => reg[2 * Line(irq)] = Vector(irq)
      /\ ~(irq \in pic /\ ThroughIoApic(irq))
      /\ handler[irq] = "bootstrap" /\ ~is_initialized => irq \in pic
      /\ handler[irq] \in {"sched", "keyboard"} /\ Quiet =>
           IF is_initialized THEN ThroughIoApic(irq) ELSE irq \in pic

(* A handler is never put to sleep: the document of the semaphore          *)
(* (doc/Datastructures.md, 6.2.1) says "Do not use this in interrupt       *)
(* handlers because it does not clear CPU interrupt flag which may cause   *)
(* deadlocks."  ISR_SYSTIME_SCHED reaches sem_wait through the IO APIC.    *)
HandlerNeverWaits ==
  \A t \in waiting : \A i \in DOMAIN frames[t] : frames[t][i].kind # "timer"
=============================================================================
