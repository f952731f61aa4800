------------------------------- MODULE RWLock -------------------------------
(***************************************************************************)
(* kernel/utils/rwlock.c and the spinlocks of kernel/utils/spinlock.c it   *)
(* is built from, as the kernel uses them for lock_tasklist: from tasks    *)
(* (interrupts on) and from the timer interrupt handler (interrupts off)   *)
(* of several CPUs.                                                        *)
(*                                                                         *)
(* A thread is a CPU at an interrupt depth: depth 0 is the task the CPU    *)
(* runs, depth d+1 the handler that interrupted depth d.  Only the deepest *)
(* thread of a CPU executes.  A pc value names the instruction the thread  *)
(* is about to execute; the steps are the shared-memory accesses of the    *)
(* -O2 build: an acquire tests the flags it has in a register, a release   *)
(* reloads is_irq_enabled_when_locked from the lock.                       *)
(***************************************************************************)
EXTENDS Integers, FiniteSets

CONSTANTS
  CPUs,      \* the processors
  MaxDepth   \* bound on nested interrupt handlers per processor

ASSUME CPUsAssumption == IsFiniteSet(CPUs) /\ CPUs # {}
ASSUME MaxDepthAssumption == MaxDepth \in Nat

Depths == 0 .. MaxDepth
Threads == CPUs \X Depths
Ops == {"none", "read", "write"}
Mutexes == {"mtx", "sem_mtx"}

VARIABLES
  sem_count,     \* rwlock.sem_count
  reader_count,  \* rwlock.reader_count
  saved_irq,     \* rwlock.is_irq_enabled_when_locked
  locked,        \* spinlock.locked of rwlock.mtx and rwlock.sem_mtx
  spin_irq,      \* spinlock.is_irq_enabled_when_locked of the same two
  iflag,         \* the interrupt flag of each CPU's EFLAGS
  depth,         \* interrupt depth of each CPU
  pc,            \* what each thread executes next
  op             \* which kind of lock each thread is taking or holding

vars == <<sem_count, reader_count, saved_irq, locked, spin_irq, iflag, depth, pc, op>>

(* The instructions, grouped by the function they belong to. *)
AcquirePCs == {"cli", "mtx_lock", "mtx_cas", "count"}
PsemPCs == {"sem_lock", "sem_cas", "sem_load", "sem_sub", "sem_unlock", "sem_sti"}
ReleasePCs == {"rel_cas", "rel_dec", "rel_signal", "rel_unlock", "rel_sti", "rel_irq"}
PCs == {"idle", "mtx_unlock", "mtx_sti", "held"} \cup AcquirePCs \cup PsemPCs \cup ReleasePCs

TypeOK ==
  /\ sem_count \in Nat
  /\ reader_count \in Nat
  /\ saved_irq \in BOOLEAN
  /\ locked \in [Mutexes -> BOOLEAN]
  /\ spin_irq \in [Mutexes -> BOOLEAN]
  /\ iflag \in [CPUs -> BOOLEAN]
  /\ depth \in [CPUs -> Depths]
  /\ pc \in [Threads -> PCs]
  /\ op \in [Threads -> Ops]

(* rwlock_init; the tasks run with interrupts enabled. *)
Init ==
  /\ sem_count = 1
  /\ reader_count = 0
  /\ saved_irq = FALSE
  /\ locked = [m \in Mutexes |-> FALSE]
  /\ spin_irq = [m \in Mutexes |-> FALSE]
  /\ iflag = [c \in CPUs |-> TRUE]
  /\ depth = [c \in CPUs |-> 0]
  /\ pc = [t \in Threads |-> "idle"]
  /\ op = [t \in Threads |-> "none"]

-----------------------------------------------------------------------------
(* Steps of the thread t, which is the one its CPU executes. *)

cpu(t) == t[1]
Runs(t) == depth[cpu(t)] = t[2]

At(t, from) == Runs(t) /\ pc[t] = from
Goto(t, to) == pc' = [pc EXCEPT ![t] = to]

lockVars == <<sem_count, reader_count, saved_irq>>
spinVars == <<locked, spin_irq>>

(* spinlock_lock: store IF in the lock's own field and disable interrupts. *)
SpinSave(t, m) ==
  /\ spin_irq' = [spin_irq EXCEPT ![m] = iflag[cpu(t)]]
  /\ iflag' = [iflag EXCEPT ![cpu(t)] = FALSE]
  /\ UNCHANGED <<lockVars, locked, depth, op>>

(* spinlock_lock: the compare-exchange that succeeds. *)
SpinCas(t, m) ==
  /\ ~locked[m]
  /\ locked' = [locked EXCEPT ![m] = TRUE]
  /\ UNCHANGED <<lockVars, spin_irq, iflag, depth, op>>

(* spinlock_unlock: the store that frees the lock ... *)
SpinClear(t, m) ==
  /\ locked' = [locked EXCEPT ![m] = FALSE]
  /\ UNCHANGED <<lockVars, spin_irq, iflag, depth, op>>

(* ... and the sti that follows if the shared field says so. *)
SpinSti(t, m) ==
  /\ iflag' = [iflag EXCEPT ![cpu(t)] = @ \/ spin_irq[m]]
  /\ UNCHANGED <<lockVars, spinVars, depth, op>>

-----------------------------------------------------------------------------
(* rwlock_read_acquire and rwlock_write_acquire: the flags go to a         *)
(* register and to the field that all holders and waiters share.           *)
AcquireSave(t, o) ==
  /\ At(t, "idle")
  /\ Goto(t, "cli")
  /\ op' = [op EXCEPT ![t] = o]
  /\ saved_irq' = iflag[cpu(t)]
  /\ UNCHANGED <<sem_count, reader_count, spinVars, iflag, depth>>

(* Mutant of AcquireCli: interrupts are left as they are. *)
AcquireNoCli(t) ==
  /\ At(t, "cli")
  /\ Goto(t, IF op[t] = "read" THEN "mtx_lock" ELSE "sem_lock")
  /\ UNCHANGED <<lockVars, spinVars, iflag, depth, op>>

(* The flags in the register are those of the CPU: an interrupt taken      *)
(* since AcquireSave has returned and restored them.                       *)
AcquireCli(t) ==
  /\ At(t, "cli")
  /\ Goto(t, IF op[t] = "read" THEN "mtx_lock" ELSE "sem_lock")
  /\ iflag' = [iflag EXCEPT ![cpu(t)] = FALSE]
  /\ UNCHANGED <<lockVars, spinVars, depth, op>>

AcquireMtxLock(t) ==
  /\ At(t, "mtx_lock")
  /\ Goto(t, "mtx_cas")
  /\ SpinSave(t, "mtx")

AcquireMtxCas(t) ==
  /\ At(t, "mtx_cas")
  /\ Goto(t, "count")
  /\ SpinCas(t, "mtx")

(* Mutant of CountReader: the first reader does not take the semaphore. *)
CountReaderOnly(t) ==
  /\ At(t, "count")
  /\ reader_count' = reader_count + 1
  /\ Goto(t, "mtx_unlock")
  /\ UNCHANGED <<sem_count, saved_irq, spinVars, iflag, depth, op>>

(* reader_count++; the first reader takes the semaphore for all readers. *)
CountReader(t) ==
  /\ At(t, "count")
  /\ reader_count' = reader_count + 1
  /\ Goto(t, IF reader_count' = 1 THEN "sem_lock" ELSE "mtx_unlock")
  /\ UNCHANGED <<sem_count, saved_irq, spinVars, iflag, depth, op>>

AcquireMtxUnlock(t) ==
  /\ At(t, "mtx_unlock")
  /\ Goto(t, "mtx_sti")
  /\ SpinClear(t, "mtx")

AcquireMtxSti(t) ==
  /\ At(t, "mtx_sti")
  /\ Goto(t, "held")
  /\ SpinSti(t, "mtx")

-----------------------------------------------------------------------------
(* _psem_wait *)
PsemLock(t) ==
  /\ At(t, "sem_lock")
  /\ Goto(t, "sem_cas")
  /\ SpinSave(t, "sem_mtx")

PsemCas(t) ==
  /\ At(t, "sem_cas")
  /\ Goto(t, "sem_load")
  /\ SpinCas(t, "sem_mtx")

(* Mutant of PsemLoad: the loop is left whatever the count. *)
PsemLoadOnce(t) ==
  /\ At(t, "sem_load")
  /\ Goto(t, "sem_sub")
  /\ UNCHANGED <<lockVars, spinVars, iflag, depth, op>>

(* Mutant of PsemLoad: the loop goes on while the count is at most one. *)
PsemLoadAboveOne(t) ==
  /\ At(t, "sem_load")
  /\ Goto(t, IF sem_count > 1 THEN "sem_sub" ELSE "sem_load")
  /\ UNCHANGED <<lockVars, spinVars, iflag, depth, op>>

(* The atomic_load that ends the loop. *)
PsemLoad(t) ==
  /\ At(t, "sem_load")
  /\ sem_count # 0
  /\ Goto(t, "sem_sub")
  /\ UNCHANGED <<lockVars, spinVars, iflag, depth, op>>

PsemSub(t) ==
  /\ At(t, "sem_sub")
  /\ sem_count' = sem_count - 1
  /\ Goto(t, "sem_unlock")
  /\ UNCHANGED <<reader_count, saved_irq, spinVars, iflag, depth, op>>

PsemUnlock(t) ==
  /\ At(t, "sem_unlock")
  /\ Goto(t, "sem_sti")
  /\ SpinClear(t, "sem_mtx")

PsemSti(t) ==
  /\ At(t, "sem_sti")
  /\ Goto(t, IF op[t] = "read" THEN "mtx_unlock" ELSE "held")
  /\ SpinSti(t, "sem_mtx")

-----------------------------------------------------------------------------
(* rwlock_read_release *)
ReleaseMtxLock(t) ==
  /\ At(t, "held")
  /\ op[t] = "read"
  /\ Goto(t, "rel_cas")
  /\ SpinSave(t, "mtx")

ReleaseMtxCas(t) ==
  /\ At(t, "rel_cas")
  /\ Goto(t, "rel_dec")
  /\ SpinCas(t, "mtx")

(* Mutant of UncountReader: the last reader does not signal. *)
UncountReaderOnly(t) ==
  /\ At(t, "rel_dec")
  /\ reader_count' = reader_count - 1
  /\ Goto(t, "rel_unlock")
  /\ UNCHANGED <<sem_count, saved_irq, spinVars, iflag, depth, op>>

UncountReader(t) ==
  /\ At(t, "rel_dec")
  /\ reader_count' = reader_count - 1
  /\ Goto(t, IF reader_count' = 0 THEN "rel_signal" ELSE "rel_unlock")
  /\ UNCHANGED <<sem_count, saved_irq, spinVars, iflag, depth, op>>

(* _psem_signal, called by the last reader *)
ReadSignal(t) ==
  /\ At(t, "rel_signal")
  /\ sem_count' = sem_count + 1
  /\ Goto(t, "rel_unlock")
  /\ UNCHANGED <<reader_count, saved_irq, spinVars, iflag, depth, op>>

ReleaseMtxUnlock(t) ==
  /\ At(t, "rel_unlock")
  /\ Goto(t, "rel_sti")
  /\ SpinClear(t, "mtx")

ReleaseMtxSti(t) ==
  /\ At(t, "rel_sti")
  /\ Goto(t, "rel_irq")
  /\ SpinSti(t, "mtx")

(* rwlock_write_release: _psem_signal *)
WriteSignal(t) ==
  /\ At(t, "held")
  /\ op[t] = "write"
  /\ sem_count' = sem_count + 1
  /\ Goto(t, "rel_irq")
  /\ UNCHANGED <<reader_count, saved_irq, spinVars, iflag, depth, op>>

(* The last statement of both releases: sti if the shared field is set. *)
ReleaseSti(t) ==
  /\ At(t, "rel_irq")
  /\ Goto(t, "idle")
  /\ op' = [op EXCEPT ![t] = "none"]
  /\ iflag' = [iflag EXCEPT ![cpu(t)] = @ \/ saved_irq]
  /\ UNCHANGED <<lockVars, spinVars, depth>>

-----------------------------------------------------------------------------
(* The processor takes an interrupt: the gates clear IF. *)
Interrupt(c) ==
  /\ iflag[c]
  /\ depth[c] < MaxDepth
  /\ depth' = [depth EXCEPT ![c] = @ + 1]
  /\ iflag' = [iflag EXCEPT ![c] = FALSE]
  /\ UNCHANGED <<lockVars, spinVars, pc, op>>

(* iret pops the flags the interrupt pushed, in which IF was set. *)
Iret(c) ==
  /\ depth[c] > 0
  /\ pc[<<c, depth[c]>>] = "idle"
  /\ depth' = [depth EXCEPT ![c] = @ - 1]
  /\ iflag' = [iflag EXCEPT ![c] = TRUE]
  /\ UNCHANGED <<lockVars, spinVars, pc, op>>

(* The steps of a thread that has begun an acquire. *)
LockStep(t) ==
  \/ AcquireCli(t) \/ AcquireMtxLock(t) \/ AcquireMtxCas(t) \/ CountReader(t)
  \/ AcquireMtxUnlock(t) \/ AcquireMtxSti(t)
  \/ PsemLock(t) \/ PsemCas(t) \/ PsemLoad(t) \/ PsemSub(t) \/ PsemUnlock(t) \/ PsemSti(t)
  \/ ReleaseMtxLock(t) \/ ReleaseMtxCas(t) \/ UncountReader(t) \/ ReadSignal(t)
  \/ ReleaseMtxUnlock(t) \/ ReleaseMtxSti(t) \/ WriteSignal(t) \/ ReleaseSti(t)

Next ==
  \/ \E t \in Threads : AcquireSave(t, "read") \/ AcquireSave(t, "write") \/ LockStep(t)
  \/ \E c \in CPUs : Interrupt(c) \/ Iret(c)

Spec == Init /\ [][Next]_vars

(* A processor keeps executing, and critical sections are straight-line code. *)
FairSpec == Spec /\ \A t \in Threads : WF_vars(LockStep(t))

-----------------------------------------------------------------------------
(* Properties *)

Holds(t, o) == pc[t] = "held" /\ op[t] = o

(* A writer holds the lock alone: rwlock_write_acquire returns only when   *)
(* no other writer and no reader is inside, whatever the interleaving of   *)
(* the readers that enter and leave as a group.                            *)
Exclusion ==
  \A t, u \in Threads : Holds(t, "write") /\ t # u => ~Holds(u, "read") /\ ~Holds(u, "write")

(* From its cli to the end of its release a thread cannot be interrupted   *)
(* on its CPU, although the sti of every unlock inside obeys a field that  *)
(* other CPUs overwrite: so the timer handler never spins on a lock that   *)
(* the task it interrupted holds.                                          *)
HolderUninterruptible ==
  \A t \in Threads : pc[t] \notin {"idle", "cli"} => Runs(t) /\ ~iflag[cpu(t)]

(* The lock is given back completely: when no thread is inside, the        *)
(* semaphore is up, no reader is counted and both mutexes are free.        *)
QuiescentIsFree ==
  (\A t \in Threads : pc[t] \in {"idle", "cli", "rel_irq"}) =>
     /\ sem_count = 1
     /\ reader_count = 0
     /\ \A m \in Mutexes : ~locked[m]

(* The lock is a readers/writers lock: a thread is inside from the return  *)
(* of an acquire to the call of the release.                               *)
Abstract == INSTANCE ReadersWriters WITH
  Callers <- Threads,
  readers <- {t \in Threads : Holds(t, "read")},
  writers <- {t \in Threads : Holds(t, "write")}

(* Every step of rwlock.c enters or leaves by the rules of                 *)
(* ReadersWriters, or is invisible to the callers.                         *)
ImplementsReadersWriters == Abstract!Spec

-----------------------------------------------------------------------------
(* The inductive strengthening of Exclusion, HolderUninterruptible and     *)
(* QuiescentIsFree.                                                        *)

ReaderPCs ==
  {"mtx_lock", "mtx_cas", "count", "mtx_unlock", "mtx_sti",
   "rel_cas", "rel_dec", "rel_signal", "rel_unlock", "rel_sti"}

(* The thread holds rwlock.mtx, rwlock.sem_mtx. *)
InMtx(t) ==
  \/ pc[t] \in {"count", "mtx_unlock", "rel_dec", "rel_signal", "rel_unlock"}
  \/ op[t] = "read" /\ pc[t] \in PsemPCs
InSemMtx(t) == pc[t] \in {"sem_load", "sem_sub", "sem_unlock"}

(* The thread is included in reader_count; it is the first reader and has  *)
(* yet to take the semaphore; it has the semaphore as a writer.            *)
Counted(t) ==
  op[t] = "read" /\ pc[t] \in PsemPCs \cup {"mtx_unlock", "mtx_sti", "held", "rel_cas", "rel_dec"}
Leading(t) == op[t] = "read" /\ pc[t] \in {"sem_lock", "sem_cas", "sem_load", "sem_sub"}
WriterHasSem(t) == op[t] = "write" /\ pc[t] \in {"sem_unlock", "sem_sti", "held"}

CountedReaders == {t \in Threads : Counted(t)}

(* The readers have the semaphore, from the first one's fetch_sub to the   *)
(* last one's signal.                                                      *)
ReadersHaveSem ==
  \/ CountedReaders # {} /\ \A t \in Threads : ~Leading(t)
  \/ \E t \in Threads : pc[t] = "rel_signal"

ControlInv ==
  /\ \A t \in Threads : pc[t] = "idle" <=> op[t] = "none"
  /\ \A t \in Threads : pc[t] \in ReaderPCs => op[t] = "read"
  /\ \A t \in Threads : t[2] > depth[cpu(t)] => pc[t] = "idle"
  /\ \A m \in Mutexes : ~spin_irq[m]

MutexInv ==
  /\ \A t, u \in Threads : InMtx(t) /\ InMtx(u) => t = u
  /\ \A t, u \in Threads : InSemMtx(t) /\ InSemMtx(u) => t = u
  /\ locked["mtx"] <=> \E t \in Threads : InMtx(t)
  /\ locked["sem_mtx"] <=> \E t \in Threads : InSemMtx(t)

CountInv ==
  /\ reader_count = Cardinality(CountedReaders)
  /\ \A t \in Threads : Leading(t) => CountedReaders = {t}
  /\ \A t \in Threads : pc[t] = "rel_signal" => CountedReaders = {}

SemInv ==
  /\ sem_count \in {0, 1}
  /\ sem_count = 0 <=> ReadersHaveSem \/ \E t \in Threads : WriterHasSem(t)
  /\ \A t \in Threads : WriterHasSem(t) => ~ReadersHaveSem
  /\ \A t, u \in Threads : WriterHasSem(t) /\ WriterHasSem(u) => t = u
  /\ \A t \in Threads : pc[t] = "sem_sub" => sem_count = 1

LockInv == TypeOK /\ ControlInv /\ HolderUninterruptible /\ MutexInv /\ CountInv /\ SemInv

-----------------------------------------------------------------------------
(* What a thread that has disabled interrupts and waits leads to: somebody *)
(* gets the lock.  (Which one is not promised: the spinlocks are unfair.)  *)
Waiting(t) == pc[t] \in (AcquirePCs \ {"cli"}) \cup PsemPCs
Progress == (\E t \in Threads : Waiting(t)) ~> (\E t \in Threads : pc[t] = "held")

(* doc/Datastructures.md: "Interrupts are automatically saved and restored *)
(* in R/W locks."  A task that is not inside the lock has its interrupts   *)
(* enabled, and a handler has them disabled.                               *)
InterruptsRestored ==
  \A c \in CPUs : pc[<<c, depth[c]>>] = "idle" => (iflag[c] <=> depth[c] = 0)
=============================================================================
