-------------------------- MODULE RefinementProofs --------------------------
(***************************************************************************)
(* Proofs about the two components that implement an abstract one: the     *)
(* page frames and the readers/writers lock.                               *)
(*                                                                         *)
(* PageFrames, for every size of the memory and of a byte and all          *)
(* requests, provided the bitmap covers the memory (Uncovered = {}).  The  *)
(* invariant FrameInv states what each loop has established: the pages     *)
(* between the start of the current run (or hole) and the loop's index are *)
(* free, the best hole so far is free and long enough, and no place before *)
(* the current run can hold the request.                                   *)
(*                                                                         *)
(* RWLock, for any finite set of processors and any interrupt depth:       *)
(* rwlock.c is a readers/writers lock whose holder is never interrupted on *)
(* its CPU.  LockInv is the inductive invariant; each of its parts is      *)
(* preserved by every step of rwlock.c and spinlock.c and by interrupts.   *)
(***************************************************************************)
EXTENDS RWLock, PageFrames, TLAPS

-----------------------------------------------------------------------------
(* The steps of the lock *)

(* What the number of threads in a set does. *)
Counting ==
  \A S \in SUBSET Threads :
    /\ Cardinality(S) \in Nat
    /\ Cardinality(S) = 0 <=> S = {}
    /\ \A t \in Threads \ S : Cardinality(S \cup {t}) = Cardinality(S) + 1
    /\ \A t \in S : Cardinality(S \ {t}) = Cardinality(S) - 1

(* The counted readers are threads. *)
LEMMA CountedThreads == CountedReaders \in SUBSET Threads
  BY DEF CountedReaders

(* What the proof calls the control part of LockInv. *)
ControlPart == TypeOK /\ ControlInv /\ HolderUninterruptible

(* Types, control and interrupt flags: whoever is past its cli has its     *)
(* interrupts off, so every spinlock field holds FALSE and no unlock inside*)
(* an acquire or release turns them on.                                    *)
LEMMA ControlPreserved == Counting /\ LockInv /\ [Next]_vars => ControlPart'
  <1> SUFFICES ASSUME Counting, LockInv, [Next]_vars PROVE ControlPart'
    OBVIOUS
  <1> USE DEF ControlPart, TypeOK, ControlInv, HolderUninterruptible, LockInv, At, Runs, cpu, PCs,
              AcquirePCs, PsemPCs, ReleasePCs, ReaderPCs, Ops, Threads, Depths, Mutexes
  <1>1. ASSUME NEW t \in Threads, NEW o \in {"read", "write"}, AcquireSave(t, o) PROVE ControlPart'
    BY <1>1 DEF AcquireSave, Goto, spinVars
  <1>2. ASSUME NEW t \in Threads, AcquireCli(t) PROVE ControlPart'
    BY <1>2 DEF AcquireCli, Goto, lockVars, spinVars
  <1>3. ASSUME NEW t \in Threads, AcquireMtxLock(t) PROVE ControlPart'
    BY <1>3 DEF AcquireMtxLock, Goto, SpinSave, lockVars
  <1>4. ASSUME NEW t \in Threads, AcquireMtxCas(t) PROVE ControlPart'
    BY <1>4 DEF AcquireMtxCas, Goto, SpinCas, lockVars
  <1>5. ASSUME NEW t \in Threads, CountReader(t) PROVE ControlPart'
    BY <1>5 DEF CountReader, Goto, spinVars
  <1>6. ASSUME NEW t \in Threads, AcquireMtxUnlock(t) PROVE ControlPart'
    BY <1>6 DEF AcquireMtxUnlock, Goto, SpinClear, lockVars
  <1>7. ASSUME NEW t \in Threads, AcquireMtxSti(t) PROVE ControlPart'
    BY <1>7 DEF AcquireMtxSti, Goto, SpinSti, lockVars, spinVars
  <1>8. ASSUME NEW t \in Threads, PsemLock(t) PROVE ControlPart'
    BY <1>8 DEF PsemLock, Goto, SpinSave, lockVars
  <1>9. ASSUME NEW t \in Threads, PsemCas(t) PROVE ControlPart'
    BY <1>9 DEF PsemCas, Goto, SpinCas, lockVars
  <1>10. ASSUME NEW t \in Threads, PsemLoad(t) PROVE ControlPart'
    BY <1>10 DEF PsemLoad, Goto, lockVars, spinVars
  <1>11. ASSUME NEW t \in Threads, PsemSub(t) PROVE ControlPart'
    BY <1>11 DEF PsemSub, Goto, spinVars, SemInv
  <1>12. ASSUME NEW t \in Threads, PsemUnlock(t) PROVE ControlPart'
    BY <1>12 DEF PsemUnlock, Goto, SpinClear, lockVars
  <1>13. ASSUME NEW t \in Threads, PsemSti(t) PROVE ControlPart'
    BY <1>13 DEF PsemSti, Goto, SpinSti, lockVars, spinVars
  <1>14. ASSUME NEW t \in Threads, ReleaseMtxLock(t) PROVE ControlPart'
    BY <1>14 DEF ReleaseMtxLock, Goto, SpinSave, lockVars
  <1>15. ASSUME NEW t \in Threads, ReleaseMtxCas(t) PROVE ControlPart'
    BY <1>15 DEF ReleaseMtxCas, Goto, SpinCas, lockVars
  <1>16. ASSUME NEW t \in Threads, UncountReader(t) PROVE ControlPart'
    <2>1. t \in CountedReaders
      BY <1>16 DEF UncountReader, CountedReaders, Counted
    <2>2. reader_count # 0
      BY <2>1, CountedThreads DEF CountInv, Counting
    <2> QED
      BY <1>16, <2>2 DEF UncountReader, Goto, spinVars
  <1>17. ASSUME NEW t \in Threads, ReadSignal(t) PROVE ControlPart'
    BY <1>17 DEF ReadSignal, Goto, spinVars
  <1>18. ASSUME NEW t \in Threads, ReleaseMtxUnlock(t) PROVE ControlPart'
    BY <1>18 DEF ReleaseMtxUnlock, Goto, SpinClear, lockVars
  <1>19. ASSUME NEW t \in Threads, ReleaseMtxSti(t) PROVE ControlPart'
    BY <1>19 DEF ReleaseMtxSti, Goto, SpinSti, lockVars, spinVars
  <1>20. ASSUME NEW t \in Threads, WriteSignal(t) PROVE ControlPart'
    BY <1>20 DEF WriteSignal, Goto, spinVars
  <1>21. ASSUME NEW t \in Threads, ReleaseSti(t) PROVE ControlPart'
    BY <1>21 DEF ReleaseSti, Goto, lockVars, spinVars
  <1>22. ASSUME NEW c \in CPUs, Interrupt(c) PROVE ControlPart'
    BY <1>22, MaxDepthAssumption DEF Interrupt, lockVars, spinVars
  <1>23. ASSUME NEW c \in CPUs, Iret(c) PROVE ControlPart'
    BY <1>23, MaxDepthAssumption, SMTT(30) DEF Iret, lockVars, spinVars
  <1>24. CASE UNCHANGED vars
    BY <1>24 DEF vars
  <1> QED
    BY <1>1, <1>2, <1>3, <1>4, <1>5, <1>6, <1>7, <1>8, <1>9, <1>10, <1>11, <1>12, <1>13, <1>14,
       <1>15, <1>16, <1>17, <1>18, <1>19, <1>20, <1>21, <1>22, <1>23, <1>24, Zenon DEF Next, LockStep

(* Each spinlock has one owner and is locked exactly while it has one. *)
LEMMA MutexPreserved == LockInv /\ [Next]_vars => MutexInv'
  <1> SUFFICES ASSUME LockInv, [Next]_vars PROVE MutexInv'
    OBVIOUS
  <1> USE DEF At, TypeOK, ControlInv, MutexInv, InMtx, InSemMtx, LockInv, PsemPCs, ReaderPCs, Mutexes, Goto, lockVars, spinVars
  <1>1. ASSUME NEW t \in Threads, NEW o \in {"read", "write"}, AcquireSave(t, o) PROVE MutexInv'
    BY <1>1 DEF AcquireSave
  <1>2. ASSUME NEW t \in Threads,
             AcquireCli(t) \/ AcquireMtxLock(t) \/ AcquireMtxCas(t) \/ AcquireMtxUnlock(t) \/ AcquireMtxSti(t)
       PROVE MutexInv'
    BY <1>2 DEF AcquireCli, AcquireMtxLock, AcquireMtxCas, AcquireMtxUnlock, AcquireMtxSti,
             SpinSave, SpinCas, SpinClear, SpinSti
  <1>3. ASSUME NEW t \in Threads,
             PsemLock(t) \/ PsemCas(t) \/ PsemLoad(t) \/ PsemUnlock(t) \/ PsemSti(t)
       PROVE MutexInv'
    BY <1>3 DEF PsemLock, PsemCas, PsemLoad, PsemUnlock, PsemSti, SpinSave, SpinCas, SpinClear, SpinSti
  <1>4. ASSUME NEW t \in Threads,
             ReleaseMtxLock(t) \/ ReleaseMtxCas(t) \/ ReleaseMtxUnlock(t) \/ ReleaseMtxSti(t)
       PROVE MutexInv'
    BY <1>4 DEF ReleaseMtxLock, ReleaseMtxCas, ReleaseMtxUnlock, ReleaseMtxSti,
             SpinSave, SpinCas, SpinClear, SpinSti
  <1>5. ASSUME NEW t \in Threads,
             ReadSignal(t) \/ WriteSignal(t) \/ ReleaseSti(t)
       PROVE MutexInv'
    BY <1>5 DEF ReadSignal, WriteSignal, ReleaseSti
  <1>6. ASSUME NEW t \in Threads, CountReader(t) PROVE MutexInv'
    BY <1>6 DEF CountReader
  <1>7. ASSUME NEW t \in Threads, UncountReader(t) PROVE MutexInv'
    BY <1>7 DEF UncountReader
  <1>8. ASSUME NEW t \in Threads, PsemSub(t) PROVE MutexInv'
    BY <1>8 DEF PsemSub
  <1>9. ASSUME NEW c \in CPUs, Interrupt(c) PROVE MutexInv'
    BY <1>9 DEF Interrupt
  <1>10. ASSUME NEW c \in CPUs, Iret(c) PROVE MutexInv'
    BY <1>10 DEF Iret
  <1>11. CASE UNCHANGED vars
    BY <1>11 DEF vars
  <1> QED
    BY <1>1, <1>2, <1>3, <1>4, <1>5, <1>6, <1>7, <1>8, <1>9, <1>10, <1>11, Zenon DEF Next, LockStep

(* A step that neither counts nor uncounts a reader. *)
KeepsCounted ==
  /\ CountedReaders' = CountedReaders
  /\ reader_count' = reader_count
  /\ \A u \in Threads : Leading(u)' => Leading(u)
  /\ \A u \in Threads : pc'[u] = "rel_signal" => pc[u] = "rel_signal"

(* Such a step preserves CountInv. *)
LEMMA KeepsCountedInv == ASSUME CountInv, KeepsCounted PROVE CountInv'
  BY DEF CountInv, KeepsCounted

(* All lock steps but the reader_count++ and reader_count-- of the reader  *)
(* functions are such steps.                                               *)
LEMMA CountedKept ==
  ASSUME LockInv, NEW t \in Threads, LockStep(t), ~CountReader(t), ~UncountReader(t)
  PROVE  KeepsCounted
  <1> USE DEF At, TypeOK, ControlInv, Counted, Leading, CountedReaders, LockInv, PsemPCs, ReaderPCs,
              KeepsCounted, Goto, lockVars, spinVars
  <1>1. CASE AcquireCli(t) \/ AcquireMtxLock(t) \/ AcquireMtxCas(t) \/ AcquireMtxUnlock(t) \/ AcquireMtxSti(t)
    BY <1>1 DEF AcquireCli, AcquireMtxLock, AcquireMtxCas, AcquireMtxUnlock, AcquireMtxSti,
                SpinSave, SpinCas, SpinClear, SpinSti
  <1>2. CASE PsemLock(t) \/ PsemCas(t) \/ PsemLoad(t) \/ PsemSub(t) \/ PsemUnlock(t) \/ PsemSti(t)
    BY <1>2 DEF PsemLock, PsemCas, PsemLoad, PsemSub, PsemUnlock, PsemSti,
                SpinSave, SpinCas, SpinClear, SpinSti
  <1>3. CASE ReleaseMtxLock(t) \/ ReleaseMtxCas(t) \/ ReleaseMtxUnlock(t) \/ ReleaseMtxSti(t)
    BY <1>3 DEF ReleaseMtxLock, ReleaseMtxCas, ReleaseMtxUnlock, ReleaseMtxSti,
                SpinSave, SpinCas, SpinClear, SpinSti
  <1>4. CASE ReadSignal(t) \/ WriteSignal(t) \/ ReleaseSti(t)
    BY <1>4 DEF ReadSignal, WriteSignal, ReleaseSti
  <1> QED
    BY <1>1, <1>2, <1>3, <1>4 DEF LockStep

(* reader_count is the number of readers between the two. *)
LEMMA CountPreserved == Counting /\ LockInv /\ [Next]_vars => CountInv'
  <1> SUFFICES ASSUME Counting, LockInv, [Next]_vars PROVE CountInv'
    OBVIOUS
  <1>1. ASSUME NEW t \in Threads, CountReader(t) PROVE CountInv'
    <2> USE DEF At, TypeOK, LockInv
    <2>1. t \notin CountedReaders /\ CountedReaders' = CountedReaders \cup {t}
      BY <1>1 DEF CountReader, Goto, ControlInv, ReaderPCs, CountedReaders, Counted, PsemPCs
    <2>2. reader_count' = Cardinality(CountedReaders')
      <3>1. reader_count' = reader_count + 1 /\ reader_count = Cardinality(CountedReaders)
        BY <1>1 DEF CountReader, CountInv
      <3>2. Cardinality(CountedReaders \cup {t}) = Cardinality(CountedReaders) + 1
        BY <2>1, CountedThreads DEF Counting
      <3> QED
        BY <2>1, <3>1, <3>2
    <2>3. ASSUME NEW u \in Threads, Leading(u)' PROVE CountedReaders' = {u}
      <3>1. u = t
        BY <1>1, <2>3 DEF CountReader, Goto, Leading, MutexInv, InMtx, PsemPCs
      <3>2. reader_count' = 1
        BY <1>1, <2>3, <3>1 DEF CountReader, Goto, Leading
      <3>3. CountedReaders = {}
        <4>1. reader_count = 0 /\ reader_count = Cardinality(CountedReaders)
          BY <1>1, <3>2 DEF CountReader, CountInv
        <4> QED
          BY <4>1, CountedThreads DEF Counting
      <3> QED
        BY <2>1, <3>1, <3>3
    <2>4. ASSUME NEW u \in Threads, pc'[u] = "rel_signal" PROVE FALSE
      BY <1>1, <2>4 DEF CountReader, Goto, MutexInv, InMtx
    <2> QED
      BY <2>2, <2>3, <2>4 DEF CountInv
  <1>2. ASSUME NEW t \in Threads, UncountReader(t) PROVE CountInv'
    <2> USE DEF At, TypeOK, LockInv
    <2>1. t \in CountedReaders /\ CountedReaders' = CountedReaders \ {t}
      BY <1>2 DEF UncountReader, Goto, ControlInv, ReaderPCs, CountedReaders, Counted, PsemPCs
    <2>2. reader_count' = Cardinality(CountedReaders')
      <3>1. reader_count' = reader_count - 1 /\ reader_count = Cardinality(CountedReaders)
        BY <1>2 DEF UncountReader, CountInv
      <3>2. Cardinality(CountedReaders \ {t}) = Cardinality(CountedReaders) - 1
        BY <2>1, CountedThreads DEF Counting
      <3> QED
        BY <2>1, <3>1, <3>2
    <2>3. ASSUME NEW u \in Threads, Leading(u)' PROVE FALSE
      BY <1>2, <2>3 DEF UncountReader, Goto, Leading, MutexInv, InMtx, PsemPCs
    <2>4. ASSUME NEW u \in Threads, pc'[u] = "rel_signal" PROVE CountedReaders' = {}
      <3>1. u = t
        BY <1>2, <2>4 DEF UncountReader, Goto, MutexInv, InMtx
      <3>2. reader_count' = 0
        BY <1>2, <2>4, <3>1 DEF UncountReader, Goto
      <3>3. CountedReaders' \in SUBSET Threads
        BY <2>1, CountedThreads
      <3> QED
        BY <2>2, <3>2, <3>3, Zenon DEF Counting
    <2> QED
      BY <2>2, <2>3, <2>4 DEF CountInv
  <1>3. ASSUME NEW t \in Threads, LockStep(t), ~CountReader(t), ~UncountReader(t) PROVE CountInv'
    BY <1>3, CountedKept, KeepsCountedInv DEF LockInv
  <1>4. ASSUME NEW t \in Threads, NEW o \in {"read", "write"}, AcquireSave(t, o) PROVE CountInv'
    <2>1. KeepsCounted
      BY <1>4 DEF AcquireSave, Goto, At, TypeOK, ControlInv, Counted, Leading, CountedReaders, LockInv,
                  PsemPCs, KeepsCounted
    <2> QED
      BY <2>1, KeepsCountedInv DEF LockInv
  <1>5. ASSUME NEW c \in CPUs, Interrupt(c) \/ Iret(c) PROVE CountInv'
    BY <1>5 DEF Interrupt, Iret, lockVars, LockInv, CountInv, CountedReaders, Counted, Leading
  <1>6. CASE UNCHANGED vars
    BY <1>6 DEF vars, LockInv, CountInv, CountedReaders, Counted, Leading
  <1> QED
    BY <1>1, <1>2, <1>3, <1>4, <1>5, <1>6 DEF Next

(* A step that takes the semaphore from nobody and gives it to nobody. *)
KeepsSem ==
  /\ sem_count' = sem_count
  /\ ReadersHaveSem' <=> ReadersHaveSem
  /\ \A u \in Threads : WriterHasSem(u)' <=> WriterHasSem(u)
  /\ \A u \in Threads : pc'[u] = "sem_sub" => pc[u] = "sem_sub" \/ sem_count # 0

(* Such a step preserves SemInv. *)
LEMMA KeepsSemInv == ASSUME SemInv, KeepsSem PROVE SemInv'
  BY DEF SemInv, KeepsSem

(* The readers keep what they have while the same threads are counted, lead *)
(* and signal.                                                              *)
LEMMA ReadersKeep ==
  ASSUME CountedReaders' = CountedReaders,
         \A u \in Threads : (Leading(u)' <=> Leading(u)) /\ (pc'[u] = "rel_signal" <=> pc[u] = "rel_signal")
  PROVE  ReadersHaveSem' <=> ReadersHaveSem
  BY Zenon DEF ReadersHaveSem

(* One thread moves to another instruction that makes no difference to who  *)
(* is counted, leads, signals or has the semaphore.                         *)
LEMMA MoveKeepsSem ==
  ASSUME TypeOK, NEW t \in Threads, NEW to, pc' = [pc EXCEPT ![t] = to], op' = op, sem_count' = sem_count,
         Counted(t)' <=> Counted(t), Leading(t)' <=> Leading(t), WriterHasSem(t)' <=> WriterHasSem(t),
         pc'[t] = "rel_signal" <=> pc[t] = "rel_signal", to = "sem_sub" => sem_count # 0
  PROVE  KeepsSem
  <1>1. \A u \in Threads : u # t => pc'[u] = pc[u] /\ op'[u] = op[u]
    BY DEF TypeOK
  <1>2. \A u \in Threads : /\ Counted(u)' <=> Counted(u)
                           /\ Leading(u)' <=> Leading(u)
                           /\ WriterHasSem(u)' <=> WriterHasSem(u)
                           /\ pc'[u] = "rel_signal" <=> pc[u] = "rel_signal"
                           /\ pc'[u] = "sem_sub" => pc[u] = "sem_sub" \/ sem_count # 0
    <2> TAKE u \in Threads
    <2>1. CASE u = t
      <3>1. pc'[t] = to
        BY DEF TypeOK
      <3> QED
        BY <2>1, <3>1, Zenon
    <2>2. CASE u # t
      BY <1>1, <2>2 DEF Counted, Leading, WriterHasSem
    <2> QED
      BY <2>1, <2>2, Zenon
  <1>3. CountedReaders' = CountedReaders
    BY <1>2, Zenon DEF CountedReaders
  <1> QED
    BY <1>2, <1>3, ReadersKeep, Zenon DEF KeepsSem

(* The semaphore is taken exactly while one writer or the readers have it. *)
LEMMA SemPreserved == Counting /\ LockInv /\ [Next]_vars => SemInv'
  <1> SUFFICES ASSUME Counting, LockInv, [Next]_vars PROVE SemInv'
    OBVIOUS
  <1>0. TypeOK /\ ControlInv /\ MutexInv /\ CountInv /\ SemInv
    BY DEF LockInv
  <1>1. ASSUME NEW t \in Threads, NEW o \in {"read", "write"}, AcquireSave(t, o) PROVE SemInv'
    <2>1. \A u \in Threads : /\ Counted(u)' <=> Counted(u)
                             /\ Leading(u)' <=> Leading(u)
                             /\ WriterHasSem(u)' <=> WriterHasSem(u)
                             /\ pc'[u] = "rel_signal" <=> pc[u] = "rel_signal"
                             /\ pc'[u] = "sem_sub" => pc[u] = "sem_sub"
      BY <1>0, <1>1 DEF AcquireSave, At, Goto, TypeOK, ControlInv, Counted, Leading, WriterHasSem, PsemPCs
    <2>2. CountedReaders' = CountedReaders
      BY <2>1, Zenon DEF CountedReaders
    <2>3. KeepsSem
      BY <1>1, <2>1, <2>2, ReadersKeep, Zenon DEF KeepsSem, AcquireSave
    <2> QED
      BY <1>0, <2>3, KeepsSemInv
  <1>2. ASSUME NEW t \in Threads,
               AcquireCli(t) \/ AcquireMtxLock(t) \/ AcquireMtxCas(t) \/ AcquireMtxUnlock(t) \/ AcquireMtxSti(t)
        PROVE  SemInv'
    <2>1. PICK to \in {"mtx_lock", "sem_lock", "mtx_cas", "count", "mtx_sti", "held"} :
            /\ Goto(t, to) /\ op' = op /\ sem_count' = sem_count
            /\ Counted(t)' <=> Counted(t)
            /\ Leading(t)' <=> Leading(t)
            /\ WriterHasSem(t)' <=> WriterHasSem(t)
            /\ pc'[t] = "rel_signal" <=> pc[t] = "rel_signal"
      BY <1>0, <1>2 DEF AcquireCli, AcquireMtxLock, AcquireMtxCas, AcquireMtxUnlock, AcquireMtxSti,
                        SpinSave, SpinCas, SpinClear, SpinSti, At, Goto, lockVars, TypeOK, ControlInv, ReaderPCs,
                        Counted, Leading, WriterHasSem, PsemPCs
    <2>2. to # "sem_sub"
      OBVIOUS
    <2> QED
      BY <1>0, <2>1, <2>2, MoveKeepsSem, KeepsSemInv, Zenon DEF Goto
  <1>3. ASSUME NEW t \in Threads,
               PsemLock(t) \/ PsemCas(t) \/ PsemLoad(t) \/ PsemUnlock(t) \/ PsemSti(t)
        PROVE  SemInv'
    <2>1. PICK to : /\ Goto(t, to) /\ op' = op /\ sem_count' = sem_count
                    /\ Counted(t)' <=> Counted(t)
                    /\ Leading(t)' <=> Leading(t)
                    /\ WriterHasSem(t)' <=> WriterHasSem(t)
                    /\ pc'[t] = "rel_signal" <=> pc[t] = "rel_signal"
                    /\ to = "sem_sub" => sem_count # 0
      <3> USE DEF At, Goto, lockVars, TypeOK, Counted, Leading, WriterHasSem, PsemPCs
      <3>1. CASE PsemLock(t) \/ PsemCas(t) \/ PsemLoad(t)
        BY <1>0, <3>1 DEF PsemLock, PsemCas, PsemLoad, SpinSave, SpinCas
      <3>2. CASE PsemUnlock(t) \/ PsemSti(t)
        BY <1>0, <3>2 DEF PsemUnlock, PsemSti, SpinClear, SpinSti, ControlInv, Ops
      <3> QED
        BY <1>3, <3>1, <3>2, Zenon
    <2> QED
      BY <1>0, <2>1, MoveKeepsSem, KeepsSemInv, Zenon DEF Goto
  <1>4. ASSUME NEW t \in Threads,
               ReleaseMtxLock(t) \/ ReleaseMtxCas(t) \/ ReleaseMtxUnlock(t) \/ ReleaseMtxSti(t)
        PROVE  SemInv'
    <2>1. PICK to \in {"rel_cas", "rel_dec", "rel_sti", "rel_irq"} :
            /\ Goto(t, to) /\ op' = op /\ sem_count' = sem_count
            /\ Counted(t)' <=> Counted(t)
            /\ Leading(t)' <=> Leading(t)
            /\ WriterHasSem(t)' <=> WriterHasSem(t)
            /\ pc'[t] = "rel_signal" <=> pc[t] = "rel_signal"
      BY <1>0, <1>4 DEF ReleaseMtxLock, ReleaseMtxCas, ReleaseMtxUnlock, ReleaseMtxSti,
                        SpinSave, SpinCas, SpinClear, SpinSti, At, Goto, lockVars, TypeOK,
                        Counted, Leading, WriterHasSem, PsemPCs
    <2>2. to # "sem_sub"
      OBVIOUS
    <2> QED
      BY <1>0, <2>1, <2>2, MoveKeepsSem, KeepsSemInv, Zenon DEF Goto
  <1>5. ASSUME NEW t \in Threads, ReleaseSti(t) PROVE SemInv'
    <2>1. \A u \in Threads : /\ Counted(u)' <=> Counted(u)
                             /\ Leading(u)' <=> Leading(u)
                             /\ WriterHasSem(u)' <=> WriterHasSem(u)
                             /\ pc'[u] = "rel_signal" <=> pc[u] = "rel_signal"
                             /\ pc'[u] = "sem_sub" => pc[u] = "sem_sub"
      BY <1>0, <1>5 DEF ReleaseSti, At, Goto, TypeOK, Counted, Leading, WriterHasSem, PsemPCs
    <2>2. CountedReaders' = CountedReaders
      BY <2>1, Zenon DEF CountedReaders
    <2>3. KeepsSem
      BY <1>5, <2>1, <2>2, ReadersKeep, Zenon DEF KeepsSem, ReleaseSti, lockVars
    <2> QED
      BY <1>0, <2>3, KeepsSemInv
  <1>6. ASSUME NEW t \in Threads, ReadSignal(t) PROVE SemInv'
    <2>1. ReadersHaveSem /\ CountedReaders = {}
      BY <1>0, <1>6 DEF ReadSignal, At, ReadersHaveSem, CountInv
    <2>2. sem_count' = 1 /\ \A u \in Threads : ~WriterHasSem(u)
      BY <1>0, <1>6, <2>1 DEF ReadSignal, SemInv, TypeOK
    <2>3. \A u \in Threads : ~Counted(u)' /\ ~WriterHasSem(u)' /\ pc'[u] # "rel_signal"
      <3>1. \A u \in Threads : ~Counted(u)
        BY <2>1 DEF CountedReaders
      <3> QED
        BY <1>0, <1>6, <2>2, <3>1 DEF ReadSignal, At, Goto, TypeOK, MutexInv, InMtx, Counted, WriterHasSem, PsemPCs
    <2>4. ~ReadersHaveSem'
      BY <2>3, Zenon DEF ReadersHaveSem, CountedReaders
    <2> QED
      BY <2>2, <2>3, <2>4 DEF SemInv
  <1>7. ASSUME NEW t \in Threads, WriteSignal(t) PROVE SemInv'
    <2>1. WriterHasSem(t)
      BY <1>7 DEF WriteSignal, At, WriterHasSem
    <2>2. ~ReadersHaveSem /\ sem_count' = 1 /\ \A u \in Threads : u # t => ~WriterHasSem(u)
      BY <1>0, <1>7, <2>1 DEF WriteSignal, SemInv, TypeOK
    <2>3. \A u \in Threads : /\ Counted(u)' <=> Counted(u)
                             /\ Leading(u)' <=> Leading(u)
                             /\ pc'[u] = "rel_signal" <=> pc[u] = "rel_signal"
                             /\ ~WriterHasSem(u)'
      BY <1>0, <1>7, <2>2 DEF WriteSignal, At, Goto, TypeOK, Counted, Leading, WriterHasSem, PsemPCs
    <2>4. CountedReaders' = CountedReaders
      BY <2>3, Zenon DEF CountedReaders
    <2>5. ~ReadersHaveSem'
      BY <2>2, <2>3, <2>4, ReadersKeep, Zenon
    <2> QED
      BY <2>2, <2>3, <2>5 DEF SemInv
  <1>8. ASSUME NEW t \in Threads, CountReader(t) PROVE SemInv'
    <2>0. /\ \A u \in Threads : u # t => pc'[u] = pc[u]
          /\ op' = op /\ pc[t] = "count" /\ op[t] = "read"
          /\ pc'[t] = IF reader_count = 0 THEN "sem_lock" ELSE "mtx_unlock"
      BY <1>0, <1>8 DEF CountReader, At, Goto, TypeOK, ControlInv, ReaderPCs
    <2>1. CountedReaders = {} <=> reader_count = 0
      BY <1>0, CountedThreads, Zenon DEF Counting, CountInv
    <2>2. \A u \in Threads : ~Leading(u) /\ pc[u] # "rel_signal"
      BY <1>0, <2>0 DEF MutexInv, InMtx, Leading, PsemPCs
    <2>3. t \in CountedReaders'
      BY <2>0 DEF CountedReaders, Counted, PsemPCs
    <2>4. \A u \in Threads : pc'[u] # "rel_signal"
      BY <2>0, <2>2
    <2>5. ReadersHaveSem' <=> ReadersHaveSem
      <3>1. CASE reader_count = 0
        <4>1. Leading(t)'
          BY <2>0, <3>1 DEF Leading
        <4> QED
          BY <2>1, <2>2, <2>4, <3>1, <4>1, Zenon DEF ReadersHaveSem
      <3>2. CASE reader_count # 0
        <4>1. \A u \in Threads : ~Leading(u)'
          BY <2>0, <2>2, <3>2 DEF Leading
        <4> QED
          BY <2>1, <2>2, <2>3, <3>2, <4>1, Zenon DEF ReadersHaveSem
      <3> QED
        BY <3>1, <3>2, Zenon
    <2>6. \A u \in Threads : /\ WriterHasSem(u)' <=> WriterHasSem(u)
                             /\ pc'[u] = "sem_sub" => pc[u] = "sem_sub"
      BY <2>0 DEF WriterHasSem
    <2>7. KeepsSem
      BY <1>8, <2>5, <2>6, Zenon DEF KeepsSem, CountReader
    <2> QED
      BY <1>0, <2>7, KeepsSemInv
  <1>9. ASSUME NEW t \in Threads, UncountReader(t) PROVE SemInv'
    <2>0. /\ \A u \in Threads : u # t => pc'[u] = pc[u]
          /\ op' = op /\ pc[t] = "rel_dec" /\ op[t] = "read"
          /\ pc'[t] = IF reader_count' = 0 THEN "rel_signal" ELSE "rel_unlock"
      BY <1>0, <1>9 DEF UncountReader, At, Goto, TypeOK, ControlInv, ReaderPCs
    <2>1. \A u \in Threads : ~Leading(u) /\ ~Leading(u)'
      BY <1>0, <2>0 DEF MutexInv, InMtx, Leading, PsemPCs
    <2>2. t \in CountedReaders
      BY <2>0 DEF CountedReaders, Counted
    <2>3. CountedReaders' = {} => pc'[t] = "rel_signal"
      <3>1. reader_count' = Cardinality(CountedReaders')
        BY CountPreserved DEF CountInv
      <3>2. CountedReaders' \in SUBSET Threads
        BY DEF CountedReaders
      <3>3. CountedReaders' = {} => reader_count' = 0
        BY <3>1, <3>2, Zenon DEF Counting
      <3> QED
        BY <2>0, <3>3
    <2>4. ReadersHaveSem /\ ReadersHaveSem'
      BY <2>1, <2>2, <2>3, Zenon DEF ReadersHaveSem
    <2>5. \A u \in Threads : /\ WriterHasSem(u)' <=> WriterHasSem(u)
                             /\ pc'[u] = "sem_sub" => pc[u] = "sem_sub"
      BY <2>0 DEF WriterHasSem
    <2>6. KeepsSem
      BY <1>9, <2>4, <2>5, Zenon DEF KeepsSem, UncountReader
    <2> QED
      BY <1>0, <2>6, KeepsSemInv
  <1>10. ASSUME NEW t \in Threads, PsemSub(t) PROVE SemInv'
    <2>0. /\ \A u \in Threads : u # t => pc'[u] = pc[u]
          /\ op' = op /\ pc[t] = "sem_sub" /\ pc'[t] = "sem_unlock" /\ op[t] \in {"read", "write"}
      BY <1>0, <1>10 DEF PsemSub, At, Goto, TypeOK, ControlInv, Ops
    <2>1. sem_count = 1 /\ sem_count' = 0
      BY <1>0, <1>10, <2>0 DEF PsemSub, SemInv
    <2>2. ~ReadersHaveSem /\ \A u \in Threads : ~WriterHasSem(u)
      BY <1>0, <2>1 DEF SemInv
    <2>3. \A u \in Threads : pc'[u] # "sem_sub"
      BY <1>0, <2>0 DEF MutexInv, InSemMtx
    <2>4. CASE op[t] = "read"
      <3>1. Leading(t) /\ Counted(t)'
        BY <2>0, <2>4 DEF Leading, Counted, PsemPCs
      <3>2. \A u \in Threads : ~Leading(u)'
        BY <1>0, <2>0, <2>4 DEF MutexInv, InMtx, Leading, PsemPCs
      <3>3. ReadersHaveSem'
        BY <3>1, <3>2, Zenon DEF ReadersHaveSem, CountedReaders
      <3>4. \A u \in Threads : ~WriterHasSem(u)'
        BY <2>0, <2>2, <2>4 DEF WriterHasSem
      <3> QED
        BY <2>1, <2>3, <3>3, <3>4 DEF SemInv
    <2>5. CASE op[t] = "write"
      <3>1. \A u \in Threads : WriterHasSem(u)' <=> u = t
        BY <2>0, <2>2, <2>5 DEF WriterHasSem
      <3>2. \A u \in Threads : /\ Counted(u)' <=> Counted(u)
                               /\ Leading(u)' <=> Leading(u)
                               /\ pc'[u] = "rel_signal" <=> pc[u] = "rel_signal"
        BY <2>0, <2>5 DEF Counted, Leading, PsemPCs
      <3>3. CountedReaders' = CountedReaders
        BY <3>2, Zenon DEF CountedReaders
      <3>4. ~ReadersHaveSem'
        BY <2>2, <3>2, <3>3, ReadersKeep, Zenon
      <3> QED
        BY <2>1, <2>3, <3>1, <3>4 DEF SemInv
    <2> QED
      BY <2>0, <2>4, <2>5
  <1>11. CASE pc' = pc /\ op' = op /\ sem_count' = sem_count
    BY <1>0, <1>11 DEF SemInv, ReadersHaveSem, WriterHasSem, CountedReaders, Counted, Leading
  <1>12. ASSUME NEW c \in CPUs, Interrupt(c) \/ Iret(c) PROVE SemInv'
    BY <1>11, <1>12 DEF Interrupt, Iret, lockVars
  <1>13. CASE UNCHANGED vars
    BY <1>11, <1>13 DEF vars
  <1> QED
    BY <1>1, <1>2, <1>3, <1>4, <1>5, <1>6, <1>7, <1>8, <1>9, <1>10, <1>12, <1>13, Zenon DEF Next, LockStep

(* A thread inside as a writer excludes every other thread. *)
LEMMA LockInvExcludes == LockInv => Exclusion
  <1> SUFFICES ASSUME LockInv, NEW t \in Threads, NEW u \in Threads, Holds(t, "write"), t # u
               PROVE  ~Holds(u, "read") /\ ~Holds(u, "write")
    BY DEF Exclusion
  <1>1. WriterHasSem(t)
    BY DEF Holds, WriterHasSem
  <1>2. ~Holds(u, "write")
    BY <1>1 DEF LockInv, SemInv, Holds, WriterHasSem
  <1>3. ASSUME Holds(u, "read") PROVE FALSE
    <2>1. u \in CountedReaders
      BY <1>3 DEF Holds, CountedReaders, Counted
    <2>2. \A v \in Threads : ~Leading(v)
      BY <1>3, <2>1 DEF LockInv, CountInv, Holds, Leading
    <2>3. ReadersHaveSem
      BY <2>1, <2>2 DEF ReadersHaveSem
    <2> QED
      BY <1>1, <2>3 DEF LockInv, SemInv
  <1> QED
    BY <1>2, <1>3

(* The callers' view of the lock. *)
Readers == {t \in Threads : Holds(t, "read")}
Writers == {t \in Threads : Holds(t, "write")}

(* Steps other than these four leave the callers' view alone. *)
LEMMA Invisible ==
  ASSUME LockInv, NEW t \in Threads, LockStep(t),
         ~AcquireMtxSti(t), ~PsemSti(t), ~ReleaseMtxLock(t), ~WriteSignal(t)
  PROVE  Readers' = Readers /\ Writers' = Writers
  <1> USE DEF Readers, Writers, Holds, At, Goto, LockInv, TypeOK, lockVars
  <1>1. CASE AcquireCli(t) \/ AcquireMtxLock(t) \/ AcquireMtxCas(t) \/ CountReader(t) \/ AcquireMtxUnlock(t)
    BY <1>1 DEF AcquireCli, AcquireMtxLock, AcquireMtxCas, CountReader, AcquireMtxUnlock,
                SpinSave, SpinCas, SpinClear
  <1>2. CASE PsemLock(t) \/ PsemCas(t) \/ PsemLoad(t) \/ PsemSub(t) \/ PsemUnlock(t)
    BY <1>2 DEF PsemLock, PsemCas, PsemLoad, PsemSub, PsemUnlock, SpinSave, SpinCas, SpinClear
  <1>3. CASE ReleaseMtxCas(t) \/ UncountReader(t) \/ ReadSignal(t)
    BY <1>3 DEF ReleaseMtxCas, UncountReader, ReadSignal, SpinCas
  <1>4. CASE ReleaseMtxUnlock(t) \/ ReleaseMtxSti(t) \/ ReleaseSti(t)
    BY <1>4 DEF ReleaseMtxUnlock, ReleaseMtxSti, ReleaseSti, SpinClear, SpinSti
  <1> QED
    BY <1>1, <1>2, <1>3, <1>4, Zenon DEF LockStep

(* Every step of rwlock.c is a step of the readers/writers lock or is      *)
(* invisible to its callers.                                               *)
LEMMA LockStepMaps ==
  LockInv /\ LockInv' /\ [Next]_vars => [Abstract!Next]_<<Readers, Writers>>
  <1> SUFFICES ASSUME LockInv, LockInv', [Next]_vars
               PROVE  Abstract!Next \/ (Readers' = Readers /\ Writers' = Writers)
    OBVIOUS
  <1>1. ASSUME NEW t \in Threads, AcquireMtxSti(t) PROVE Abstract!EnterRead(t)
    <2>1. t \notin Readers /\ Readers' = Readers \cup {t} /\ Writers' = Writers
      BY <1>1 DEF AcquireMtxSti, SpinSti, At, Goto, Readers, Writers, Holds, LockInv, TypeOK, ControlInv, ReaderPCs
    <2>2. Exclusion'
      BY LockInvExcludes, PTL
    <2>3. Holds(t, "read")'
      BY <2>1 DEF Readers
    <2>4. \A u \in Threads : ~Holds(u, "write")'
      BY <2>2, <2>3 DEF Exclusion, Holds
    <2>5. Writers = {}
      BY <2>1, <2>4 DEF Writers
    <2> QED
      BY <2>1, <2>5 DEF Abstract!EnterRead, Readers, Writers
  <1>2. ASSUME NEW t \in Threads, PsemSti(t), op[t] = "write" PROVE Abstract!EnterWrite(t)
    <2>1. Readers' = Readers /\ Writers' = Writers \cup {t} /\ t \notin Writers
      BY <1>2 DEF PsemSti, SpinSti, At, Goto, Readers, Writers, Holds, LockInv, TypeOK
    <2>2. Exclusion'
      BY LockInvExcludes, PTL
    <2>3. Holds(t, "write")'
      BY <2>1 DEF Writers
    <2>4. \A u \in Threads : u # t => ~Holds(u, "read")' /\ ~Holds(u, "write")'
      BY <2>2, <2>3 DEF Exclusion
    <2>5. Readers = {} /\ Writers = {}
      BY <2>1, <2>3, <2>4 DEF Readers, Writers, Holds
    <2> QED
      BY <2>1, <2>5 DEF Abstract!EnterWrite, Readers, Writers
  <1>3. ASSUME NEW t \in Threads, PsemSti(t), op[t] # "write" PROVE Readers' = Readers /\ Writers' = Writers
    BY <1>3 DEF PsemSti, SpinSti, At, Goto, Readers, Writers, Holds, LockInv, TypeOK, ControlInv, Ops
  <1>4. ASSUME NEW t \in Threads, ReleaseMtxLock(t) PROVE Abstract!LeaveRead(t)
    BY <1>4 DEF ReleaseMtxLock, SpinSave, At, Goto, Abstract!LeaveRead, Holds, LockInv, TypeOK
  <1>5. ASSUME NEW t \in Threads, WriteSignal(t) PROVE Abstract!LeaveWrite(t)
    BY <1>5 DEF WriteSignal, At, Goto, Abstract!LeaveWrite, Holds, LockInv, TypeOK
  <1>6. ASSUME NEW t \in Threads, NEW o \in {"read", "write"}, AcquireSave(t, o)
        PROVE  Readers' = Readers /\ Writers' = Writers
    BY <1>6 DEF AcquireSave, At, Goto, Readers, Writers, Holds, LockInv, TypeOK
  <1>7. ASSUME NEW c \in CPUs, Interrupt(c) \/ Iret(c)
        PROVE  Readers' = Readers /\ Writers' = Writers
    BY <1>7 DEF Interrupt, Iret, Readers, Writers, Holds
  <1>8. CASE UNCHANGED vars
    BY <1>8 DEF vars, Readers, Writers, Holds
  <1>9. ASSUME NEW t \in Threads, LockStep(t)
        PROVE  Abstract!Next \/ (Readers' = Readers /\ Writers' = Writers)
    BY <1>1, <1>2, <1>3, <1>4, <1>5, <1>9, Invisible DEF Abstract!Next
  <1> QED
    BY <1>6, <1>7, <1>8, <1>9 DEF Next

-----------------------------------------------------------------------------
(* The page frames *)

FreePages(p, q) == \A x \in p .. q : x \notin bitmap
FreeBits(p, q) == \A k \in p .. q : Page(i, k) \notin bitmap

Started ==
  /\ ~initialized => held = {} /\ ip = "idle"
  /\ initialized => Kernel \subseteq bitmap

AtIdle == ip = "idle" => i = 0 /\ page_no = 0

InCall == ip # "idle" => pages \in Requests
InByte == ip \in {"byte", "bit"} => pages <= Width

InBit ==
  ip = "bit" =>
    /\ i < Bytes /\ i # 0
    /\ last_one + 1 + cur_len = j
    /\ FreeBits(last_one + 1, j - 1)
    /\ best_fit_pos >= 0 => /\ best_fit_len >= pages
                            /\ best_fit_pos + best_fit_len <= j
                            /\ FreeBits(best_fit_pos, best_fit_pos + best_fit_len - 1)

InSkip ==
  ip = "skip" => /\ pages > Width
                 /\ page_no = i * Width
                 /\ \A q \in 0 .. page_no - 1 : q \in bitmap

InRun ==
  ip = "run" => /\ pages > Width
                /\ page_no + cur_len = i
                /\ cur_len < pages
                /\ FreePages(page_no, i - 1)
                /\ \A p \in 0 .. page_no - 1 : ~Available(p, pages)

AtMark == ip = "mark" => page_no \in 1 .. NPages /\ FreePages(page_no, page_no + pages - 1)

FrameInv ==
  /\ Uncovered = {}
  /\ FramesTypeOK /\ Started /\ NoPageTwice
  /\ AtIdle /\ InCall /\ InByte /\ InBit /\ InSkip /\ InRun /\ AtMark /\ FirstFit

-----------------------------------------------------------------------------
(* A bit of the bitmap is the bit of a page. *)
LEMMA BytesFit ==
  ASSUME NEW b \in Nat, b < Bytes, NEW k \in 0 .. Width
  PROVE  Page(b, k) \in 0 .. NPages
  <1>1. \A n \in Nat, w \in Nat \ {0} : n \div w \in Nat /\ (n \div w) * w <= n  OBVIOUS
  <1>2. Bytes \in Nat /\ Bytes * Width <= NPages  BY <1>1, SizesAssumption DEF Bytes
  <1>3. \A a, c, w \in Nat : a < c => a * w + w <= c * w
    <2> SUFFICES ASSUME NEW a \in Nat, NEW c \in Nat, NEW w \in Nat, a < c
                 PROVE  a * w + w <= c * w
      OBVIOUS
    <2>1. c * w = a * w + w + (c - a - 1) * w  OBVIOUS
    <2>2. (c - a - 1) * w \in Nat /\ a * w \in Nat  OBVIOUS
    <2> QED  BY <2>1, <2>2
  <1>4. b * Width + Width <= Bytes * Width /\ b * Width \in Nat  BY <1>2, <1>3, SizesAssumption
  <1> QED  BY <1>2, <1>4, SizesAssumption DEF Page

(* The invariant holds before the first call. *)
LEMMA InitFrames == Uncovered = {} /\ FramesInit => FrameInv
  <1> SUFFICES ASSUME Uncovered = {}, FramesInit PROVE FrameInv
    OBVIOUS
  <1>1. FramesTypeOK
    <2>1. 0 \in 0 .. Width /\ 0 \in 0 .. Width + 1 /\ -1 \in -1 .. Width /\ -1 \in -1 .. Width - 1
      BY SizesAssumption
    <2> QED  BY <2>1, Zenon DEF FramesInit, FramesTypeOK
  <1>2. Started /\ NoPageTwice /\ AtIdle /\ InCall /\ InByte  BY DEF FramesInit, Started, NoPageTwice, AtIdle, InCall, InByte
  <1>3. InBit /\ InSkip /\ InRun /\ AtMark /\ FirstFit
    BY DEF FramesInit, InBit, InSkip, InRun, AtMark, FirstFit
  <1> QED  BY <1>1, <1>2, <1>3 DEF FrameInv

(* The start of a call, with the initialisation, keeps it. *)
LEMMA AllocFrames ==
  ASSUME FrameInv, NEW n \in Requests, Alloc(n)
  PROVE  FrameInv'
  <1>1. n \in Nat /\ Kernel \subseteq Nat  BY SizesAssumption DEF Kernel
  <1>2. FramesTypeOK'  BY <1>1 DEF FrameInv, FramesTypeOK, Alloc, locals
  <1>3. Started'  BY DEF FrameInv, Started, Alloc
  <1>4. NoPageTwice'  BY DEF FrameInv, Started, NoPageTwice, Alloc, FramesTypeOK
  <1>5. (AtIdle /\ InCall /\ InByte /\ InBit /\ InRun /\ AtMark /\ FirstFit)'
    BY <1>1, SizesAssumption DEF AtIdle, InCall, InByte, InBit, InRun, AtMark, FirstFit, Alloc
  <1>6. InSkip'
    <2>1. i' = 0 /\ page_no' = 0 /\ 0 * Width = 0  BY SizesAssumption DEF FrameInv, AtIdle, Alloc, locals
    <2> QED  BY <1>1, <2>1, SizesAssumption DEF InSkip, Alloc
  <1> QED  BY <1>2, <1>3, <1>4, <1>5, <1>6 DEF FrameInv

-----------------------------------------------------------------------------
(* pageframe_alloc_bestfit *)

LEMMA ByteFullFrames ==
  ASSUME FrameInv, ByteFull
  PROVE  FrameInv'
  <1>1. FramesTypeOK'  BY DEF FrameInv, FramesTypeOK, ByteFull
  <1>2. (Started /\ NoPageTwice /\ AtIdle /\ InCall /\ InByte)'  BY DEF FrameInv, Started, NoPageTwice, AtIdle, InCall, InByte, ByteFull
  <1>3. (InBit /\ InSkip /\ InRun /\ AtMark /\ FirstFit)'
    BY DEF InBit, InSkip, InRun, AtMark, FirstFit, ByteFull
  <1> QED  BY <1>1, <1>2, <1>3 DEF FrameInv

(* It is kept when best fit starts on a byte, *)
LEMMA ByteOpenFrames ==
  ASSUME FrameInv, ByteOpen
  PROVE  FrameInv'
  <1>1. FramesTypeOK'  BY SizesAssumption DEF FrameInv, FramesTypeOK, ByteOpen
  <1>2. (Started /\ NoPageTwice /\ AtIdle /\ InCall /\ InByte)'  BY DEF FrameInv, Started, NoPageTwice, AtIdle, InCall, InByte, ByteOpen
  <1>3. (InSkip /\ InRun /\ AtMark /\ FirstFit)'  BY DEF InSkip, InRun, AtMark, FirstFit, ByteOpen
  <1>4. i # 0
    <2>1. Kernel \subseteq bitmap  BY DEF FrameInv, Started, ByteOpen
    <2>2. \A k \in 0 .. Width - 1 : Page(0, k) \in Kernel  BY SizesAssumption DEF Page, Kernel
    <2> QED  BY <2>1, <2>2 DEF Full, ByteOpen
  <1>5. InBit'  BY <1>4 DEF InBit, FreeBits, ByteOpen
  <1> QED  BY <1>1, <1>2, <1>3, <1>5 DEF FrameInv

(* when it examines a bit, *)
LEMMA BitFrames ==
  ASSUME FrameInv, Bit
  PROVE  FrameInv'
  <1> DEFINE free == Page(i, j) \notin bitmap
             len == IF free THEN cur_len + 1 ELSE cur_len
             better == (~free \/ j = Width - 1) /\ best_fit_len > len /\ len >= pages
  <1>1. /\ ip = "bit" /\ ip' = "bit" /\ j < Width /\ j' = j + 1
        /\ best_fit_len' = IF better THEN len ELSE best_fit_len
        /\ best_fit_pos' = IF better THEN last_one + 1 ELSE best_fit_pos
        /\ cur_len' = IF free THEN len ELSE 0
        /\ last_one' = IF free THEN last_one ELSE j
        /\ UNCHANGED <<initialized, bitmap, held, pages, i, page_no>>
    BY DEF Bit
  <1>2. FramesTypeOK /\ last_one + 1 + cur_len = j /\ FreeBits(last_one + 1, j - 1)
    BY <1>1 DEF FrameInv, InBit
  <1>3. len \in 0 .. Width /\ (free => last_one + 1 + len = j + 1) /\ (~free => last_one + 1 + len = j)
    BY <1>1, <1>2, SizesAssumption DEF FramesTypeOK
  <1>4. FreeBits(last_one + 1, last_one + len)
    BY <1>1, <1>2, <1>3, SizesAssumption DEF FreeBits, FramesTypeOK
  <1> HIDE DEF len, free
  <1>5. better \in BOOLEAN  OBVIOUS
  <1> HIDE DEF better
  <1>6. FramesTypeOK'  BY <1>1, <1>2, <1>3, SizesAssumption DEF FramesTypeOK
  <1>7. InBit'
    <2>1. last_one' + 1 + cur_len' = j'  BY <1>1, <1>2, <1>3 DEF FramesTypeOK
    <2>2. \A k \in last_one' + 1 .. j' - 1 : Page(i, k) \notin bitmap
      BY <1>1, <1>2, <1>3, <1>4 DEF FreeBits, FramesTypeOK
    <2>3. best_fit_pos' >= 0 =>
            /\ best_fit_len' >= pages
            /\ best_fit_pos' + best_fit_len' <= j'
            /\ \A k \in best_fit_pos' .. best_fit_pos' + best_fit_len' - 1 : Page(i, k) \notin bitmap
      <3>1. CASE better
        <4>1. len >= pages  BY <3>1 DEF better
        <4>2. best_fit_len' = len /\ best_fit_pos' = last_one + 1  BY <1>1, <3>1
        <4>3. last_one + 1 + len - 1 = last_one + len  BY <1>2, <1>3 DEF FramesTypeOK
        <4> QED  BY <1>1, <1>2, <1>3, <1>4, <4>1, <4>2, <4>3 DEF FreeBits, FramesTypeOK
      <3>2. CASE ~better
        <4>1. best_fit_len' = best_fit_len /\ best_fit_pos' = best_fit_pos  BY <1>1, <3>2
        <4>2. best_fit_pos >= 0 => /\ best_fit_len >= pages
                                   /\ best_fit_pos + best_fit_len <= j
                                   /\ FreeBits(best_fit_pos, best_fit_pos + best_fit_len - 1)
          BY <1>1 DEF FrameInv, InBit
        <4> QED  BY <1>1, <1>2, <4>1, <4>2 DEF FreeBits, FramesTypeOK
      <3> QED  BY <3>1, <3>2
    <2>4. i' = i /\ bitmap' = bitmap /\ pages' = pages /\ i < Bytes /\ i # 0  BY <1>1 DEF FrameInv, InBit
    <2> QED  BY <2>1, <2>2, <2>3, <2>4 DEF InBit, FreeBits
  <1>8. (Started /\ NoPageTwice /\ AtIdle /\ InCall /\ InByte)'  BY <1>1 DEF FrameInv, Started, NoPageTwice, AtIdle, InCall, InByte
  <1>9. (InSkip /\ InRun /\ AtMark /\ FirstFit)'  BY <1>1 DEF InSkip, InRun, AtMark, FirstFit
  <1> QED  BY <1>6, <1>7, <1>8, <1>9 DEF FrameInv

(* and when it has examined a byte. *)
LEMMA ByteDoneFrames ==
  ASSUME FrameInv, ByteDone
  PROVE  FrameInv'
  <1>1. (Started /\ NoPageTwice /\ AtIdle /\ InCall /\ InByte)'  BY DEF FrameInv, Started, NoPageTwice, AtIdle, InCall, InByte, ByteDone
  <1>2. CASE best_fit_pos >= 0
    <2>1. /\ ip' = "mark" /\ page_no' = Page(i, best_fit_pos) /\ i' = i
          /\ UNCHANGED <<initialized, bitmap, held, pages, j, cur_len, best_fit_len, best_fit_pos, last_one>>
      BY <1>2 DEF ByteDone
    <2>2. FramesTypeOK /\ best_fit_len >= pages /\ FreeBits(best_fit_pos, best_fit_pos + best_fit_len - 1)
      BY <1>2 DEF FrameInv, InBit, ByteDone
    <2>3. i * Width \in Nat  BY <2>2, SizesAssumption DEF FramesTypeOK
    <2>4. FramesTypeOK'  BY <1>2, <2>1, <2>2, <2>3 DEF FramesTypeOK, Page
    <2>5. AtMark'
      <3>0. page_no' \in 1 .. NPages
        <4>1. i \in Nat /\ i < Bytes /\ i # 0 /\ best_fit_pos \in 0 .. Width
          BY <1>2, <2>2 DEF FrameInv, InBit, FramesTypeOK, ByteDone
        <4>2. page_no' \in 0 .. NPages  BY <2>1, <4>1, BytesFit
        <4>3. \A a, w \in Nat \ {0} : a * w > 0  OBVIOUS
        <4>4. i * Width > 0  BY <4>1, <4>3, SizesAssumption
        <4> QED  BY <2>1, <2>3, <4>1, <4>2, <4>4, SizesAssumption DEF Page
      <3>1. SUFFICES ASSUME NEW x \in page_no' .. page_no' + pages - 1
                     PROVE  x \notin bitmap
        BY <2>1, <3>0 DEF AtMark, FreePages
      <3> DEFINE k == x - i * Width
      <3>2. x = Page(i, k)  BY <2>1, <2>2, <2>3 DEF Page, FramesTypeOK
      <3>3. k \in best_fit_pos .. best_fit_pos + best_fit_len - 1
        BY <2>1, <2>2, <2>3 DEF Page, FramesTypeOK
      <3> QED  BY <2>2, <3>2, <3>3 DEF FreeBits
    <2>6. pages <= Width  BY DEF FrameInv, InByte, ByteDone
    <2>7. (InBit /\ InSkip /\ InRun)'  BY <2>1 DEF InBit, InSkip, InRun
    <2>8. FirstFit'  BY <2>1, <2>2, <2>6, SizesAssumption DEF FirstFit, FramesTypeOK
    <2> QED  BY <1>1, <2>4, <2>5, <2>7, <2>8 DEF FrameInv
  <1>3. CASE ~(best_fit_pos >= 0)
    <2>1. FramesTypeOK'  BY <1>3 DEF FrameInv, FramesTypeOK, ByteDone
    <2>2. (InBit /\ InSkip /\ InRun /\ AtMark /\ FirstFit)'
      BY <1>3 DEF InBit, InSkip, InRun, AtMark, FirstFit, ByteDone
    <2> QED  BY <1>1, <2>1, <2>2 DEF FrameInv
  <1> QED  BY <1>2, <1>3

(* It is kept when best fit has run out of bytes. *)
LEMMA NoByteFrames ==
  ASSUME FrameInv, NoByte
  PROVE  FrameInv'
  <1>1. FramesTypeOK'  BY DEF FrameInv, FramesTypeOK, NoByte, locals
  <1>2. (Started /\ NoPageTwice /\ AtIdle /\ InCall /\ InByte)'  BY DEF FrameInv, Started, NoPageTwice, AtIdle, InCall, InByte, NoByte
  <1>3. (InBit /\ InSkip /\ InRun /\ AtMark)'  BY DEF InBit, InSkip, InRun, AtMark, NoByte
  <1>4. FirstFit'  BY SizesAssumption DEF FrameInv, InByte, FramesTypeOK, FirstFit, NoByte
  <1> QED  BY <1>1, <1>2, <1>3, <1>4 DEF FrameInv

-----------------------------------------------------------------------------
(* pageframe_alloc_firstfit *)

LEMMA SkipFrames ==
  ASSUME FrameInv, Skip
  PROVE  FrameInv'
  <1>1. (Started /\ NoPageTwice /\ AtIdle /\ InCall /\ InByte)'
    BY DEF FrameInv, Started, NoPageTwice, AtIdle, InCall, InByte, Skip
  <1>2. /\ FramesTypeOK /\ ip = "skip" /\ pages > Width /\ page_no = i * Width
        /\ \A q \in 0 .. page_no - 1 : q \in bitmap
    BY DEF FrameInv, InSkip, Skip
  <1>3. CASE i < Bytes /\ Full(i)
    <2>1. /\ i' = i + 1 /\ page_no' = page_no + Width
          /\ UNCHANGED <<ip, cur_len, initialized, bitmap, held, pages, j, best_fit_len, best_fit_pos, last_one>>
      BY <1>3 DEF Skip
    <2>2. FramesTypeOK'  BY <1>2, <2>1, SizesAssumption DEF FramesTypeOK
    <2>3. InSkip'
      <3>1. page_no' = i' * Width
        <4>1. \A a, b \in Nat : (a + 1) * b = a * b + b  OBVIOUS
        <4>2. i \in Nat /\ Width \in Nat  BY <1>2, SizesAssumption DEF FramesTypeOK
        <4> QED  BY <1>2, <2>1, <4>1, <4>2
      <3>2. ASSUME NEW q \in 0 .. page_no' - 1
            PROVE  q \in bitmap
        <4>1. page_no \in Nat /\ Width \in Nat  BY <1>2, SizesAssumption DEF FramesTypeOK
        <4>2. CASE q < page_no  BY <1>2, <4>1, <4>2
        <4>3. CASE q >= page_no
          <5> DEFINE k == q - page_no
          <5>1. k \in 0 .. Width - 1 /\ q = page_no + k  BY <2>1, <4>1, <4>3
          <5>2. q = Page(i, k)  BY <1>2, <5>1 DEF Page
          <5> QED  BY <1>3, <5>1, <5>2 DEF Full
        <4> QED  BY <2>1, <4>1, <4>2, <4>3
      <3> QED  BY <1>2, <2>1, <3>1, <3>2 DEF InSkip
    <2>4. (InBit /\ InRun /\ AtMark /\ FirstFit)'
      BY <1>2, <2>1 DEF InBit, InRun, AtMark, FirstFit
    <2> QED  BY <1>1, <2>2, <2>3, <2>4 DEF FrameInv
  <1>4. CASE ~(i < Bytes /\ Full(i))
    <2>1. /\ ip' = "run" /\ i' = page_no /\ cur_len' = 0
          /\ UNCHANGED <<page_no, initialized, bitmap, held, pages, j, best_fit_len, best_fit_pos, last_one>>
      BY <1>4 DEF Skip
    <2>2. FramesTypeOK'  BY <1>2, <2>1 DEF FramesTypeOK
    <2>3. InRun'
      <3>1. ASSUME NEW p \in 0 .. page_no - 1
            PROVE  ~Available(p, pages)
        <4>1. p \in bitmap /\ p \in p .. p + pages - 1
          BY <1>2, SizesAssumption DEF FramesTypeOK
        <4> QED  BY <4>1 DEF Available
      <3>2. \A p \in 0 .. page_no' - 1 : ~Available(p, pages)'  BY <2>1, <3>1 DEF Available
      <3>3. page_no + 0 = page_no /\ 0 < pages /\ page_no .. page_no - 1 = {}
        BY <1>2, SizesAssumption DEF FramesTypeOK
      <3> QED  BY <1>2, <2>1, <3>2, <3>3 DEF InRun, FreePages
    <2>4. (InBit /\ InSkip /\ AtMark /\ FirstFit)'  BY <2>1 DEF InBit, InSkip, AtMark, FirstFit
    <2> QED  BY <1>1, <2>2, <2>3, <2>4 DEF FrameInv
  <1> QED  BY <1>3, <1>4

(* It is kept by an iteration of first fit, *)
LEMMA RunFrames ==
  ASSUME FrameInv, Run
  PROVE  FrameInv'
  <1>1. (Started /\ NoPageTwice /\ AtIdle /\ InCall /\ InByte)'
    BY DEF FrameInv, Started, NoPageTwice, AtIdle, InCall, InByte, Run
  <1>2. /\ FramesTypeOK /\ ip = "run" /\ i < NPages
        /\ pages > Width /\ page_no + cur_len = i /\ cur_len < pages
        /\ FreePages(page_no, i - 1)
        /\ \A p \in 0 .. page_no - 1 : ~Available(p, pages)
    BY DEF FrameInv, InRun, Run
  <1>3. Clear(i) = {i \notin bitmap}  BY DEF FrameInv, Clear
  <1>4. UNCHANGED <<initialized, bitmap, held, pages, j, best_fit_len, best_fit_pos, last_one>>
    BY DEF Run
  <1>5. CASE i \notin bitmap
    <2>1. cur_len' = cur_len + 1 /\ page_no' = page_no  BY <1>3, <1>5, Zenon DEF Run
    <2>2. FreePages(page_no, i)  BY <1>2, <1>5 DEF FreePages, FramesTypeOK
    <2>3. CASE cur_len + 1 = pages
      <3>1. ip' = "mark" /\ i' = i  BY <1>3, <1>5, <2>3, Zenon DEF Run
      <3>2. FramesTypeOK'  BY <1>2, <1>4, <2>1, <3>1 DEF FramesTypeOK
      <3>3. page_no + pages - 1 = i  BY <1>2, <2>3 DEF FramesTypeOK
      <3>4. AtMark'
        <4>1. page_no' \in 0 .. NPages  BY <1>2, <2>1, SizesAssumption DEF FramesTypeOK
        <4>2. page_no \notin bitmap  BY <1>2, <1>5, <2>2 DEF FreePages, FramesTypeOK
        <4>3. 0 \in bitmap  BY <1>2, SizesAssumption DEF FrameInv, Started, Kernel
        <4> QED  BY <1>4, <2>1, <2>2, <3>3, <4>1, <4>2, <4>3 DEF AtMark, FreePages
      <3>5. Available(page_no, pages)
        BY <1>2, <2>2, <3>3, SizesAssumption DEF Available, FreePages, FramesTypeOK
      <3>6. FirstFit'  BY <1>2, <1>4, <2>1, <3>1, <3>5 DEF FirstFit, Available
      <3>7. (InBit /\ InSkip /\ InRun)'  BY <3>1 DEF InBit, InSkip, InRun
      <3> QED  BY <1>1, <3>2, <3>4, <3>6, <3>7 DEF FrameInv
    <2>4. CASE cur_len + 1 # pages
      <3>1. ip' = "run" /\ i' = i + 1  BY <1>2, <1>3, <1>5, <2>4 DEF Run
      <3>2. FramesTypeOK'  BY <1>2, <1>4, <2>1, <3>1 DEF FramesTypeOK
      <3>3. page_no' + cur_len' = i' /\ cur_len' < pages /\ i' - 1 = i
        BY <1>2, <2>1, <2>4, <3>1 DEF FramesTypeOK
      <3>4. InRun'  BY <1>2, <1>4, <2>1, <2>2, <3>1, <3>3 DEF InRun, FreePages, Available
      <3>5. (InBit /\ InSkip /\ AtMark /\ FirstFit)'  BY <3>1 DEF InBit, InSkip, AtMark, FirstFit
      <3> QED  BY <1>1, <3>2, <3>4, <3>5 DEF FrameInv
    <2> QED  BY <2>3, <2>4
  <1>6. CASE i \in bitmap
    <2>1. page_no' = page_no + cur_len + 1 /\ cur_len' = 0 /\ i' = i + 1 /\ ip' = "run"
      BY <1>2, <1>3, <1>6, Zenon DEF Run
    <2>2. FramesTypeOK'  BY <1>2, <1>4, <2>1 DEF FramesTypeOK
    <2>3. ASSUME NEW p \in 0 .. page_no' - 1
          PROVE  ~Available(p, pages)
      <3>1. p \in Nat /\ page_no' = i + 1  BY <1>2, <2>1 DEF FramesTypeOK
      <3>2. CASE p < page_no  BY <1>2, <3>1, <3>2 DEF FramesTypeOK
      <3>3. CASE p >= page_no
        <4>1. i \in p .. p + pages - 1  BY <1>2, <3>1, <3>3 DEF FramesTypeOK
        <4> QED  BY <1>6, <4>1 DEF Available
      <3> QED  BY <1>2, <3>1, <3>2, <3>3 DEF FramesTypeOK
    <2>4. page_no' + cur_len' = i' /\ 0 < pages /\ page_no' .. i' - 1 = {}
      BY <1>2, <2>1, SizesAssumption DEF FramesTypeOK
    <2>5. InRun'  BY <1>2, <1>4, <2>1, <2>3, <2>4 DEF InRun, FreePages, Available
    <2>6. (InBit /\ InSkip /\ AtMark /\ FirstFit)'  BY <2>1 DEF InBit, InSkip, AtMark, FirstFit
    <2> QED  BY <1>1, <2>2, <2>5, <2>6 DEF FrameInv
  <1> QED  BY <1>5, <1>6

(* and by the end of its loop. *)
LEMMA RunEndFrames ==
  ASSUME FrameInv, RunEnd
  PROVE  FrameInv'
  <1>1. FramesTypeOK'  BY DEF FrameInv, FramesTypeOK, RunEnd, locals
  <1>2. (Started /\ NoPageTwice /\ AtIdle /\ InCall /\ InByte)'
    BY DEF FrameInv, Started, NoPageTwice, AtIdle, InCall, InByte, RunEnd
  <1>3. (InBit /\ InSkip /\ InRun /\ AtMark)'  BY DEF InBit, InSkip, InRun, AtMark, RunEnd
  <1>4. /\ FramesTypeOK /\ i >= NPages /\ page_no + cur_len = i /\ cur_len < pages
        /\ \A p \in 0 .. page_no - 1 : ~Available(p, pages)
    BY DEF FrameInv, InRun, RunEnd
  <1>5. ASSUME NEW p \in 0 .. NPages
        PROVE  ~Available(p, pages)
    <2>1. CASE p < page_no  BY <1>4, <2>1, SizesAssumption DEF FramesTypeOK
    <2>2. CASE p >= page_no
      <3>1. p + pages > NPages  BY <1>4, <2>2, SizesAssumption DEF FramesTypeOK
      <3> QED  BY <1>4, <3>1, SizesAssumption DEF Available, FramesTypeOK
    <2> QED  BY <1>4, <2>1, <2>2, SizesAssumption DEF FramesTypeOK
  <1>6. FirstFit'  BY <1>5 DEF FirstFit, Available, RunEnd
  <1> QED  BY <1>1, <1>2, <1>3, <1>6 DEF FrameInv

-----------------------------------------------------------------------------
(* The ends of a call, and the other calls *)

LEMMA LeaveFrames ==
  ASSUME FrameInv, Leave, initialized' = initialized, initialized, NoPageTwice', Kernel \subseteq bitmap',
         bitmap' \subseteq Nat, held' \subseteq Ranges
  PROVE  FrameInv'
  <1>1. 0 \in 0 .. Width /\ 0 \in 0 .. Width + 1 /\ -1 \in -1 .. Width /\ -1 \in -1 .. Width - 1
    BY SizesAssumption
  <1>2. FramesTypeOK'  BY <1>1 DEF FrameInv, FramesTypeOK, Leave
  <1>3. Started' /\ AtIdle' /\ InCall' /\ InByte'  BY DEF Started, AtIdle, InCall, InByte, Leave
  <1>4. (InBit /\ InSkip /\ InRun /\ AtMark /\ FirstFit)'
    BY DEF InBit, InSkip, InRun, AtMark, FirstFit, Leave
  <1> QED  BY <1>2, <1>3, <1>4 DEF FrameInv

(* It is kept when the range found is marked and returned, *)
LEMMA MarkFrames ==
  ASSUME FrameInv, Mark
  PROVE  FrameInv'
  <1> DEFINE r == [start |-> page_no, n |-> pages]
  <1>1. Leave /\ initialized' = initialized /\ bitmap' = bitmap \cup Span(r) /\ held' = held \cup {r}
    BY DEF Mark
  <1>2. FramesTypeOK /\ ip = "mark" /\ initialized /\ Kernel \subseteq bitmap /\ NoPageTwice
    BY DEF FrameInv, Started, Mark
  <1>3. r \in Ranges /\ Span(r) = page_no .. page_no + pages - 1  BY <1>2 DEF FramesTypeOK, Ranges, Span
  <1>4. Span(r) \cap bitmap = {} /\ Span(r) \subseteq Nat
    BY <1>2, <1>3 DEF FrameInv, AtMark, FreePages, FramesTypeOK
  <1>5. r.start # 0  BY <1>2 DEF FrameInv, AtMark
  <1> HIDE DEF r
  <1>6. NoPageTwice'
    <2>1. ASSUME NEW s \in held'
          PROVE  s.start # 0 /\ Span(s) \subseteq bitmap' /\ Span(s) \cap Kernel = {}
      BY <1>1, <1>2, <1>4, <1>5 DEF NoPageTwice
    <2>2. ASSUME NEW s \in held', NEW t \in held', s # t
          PROVE  Span(s) \cap Span(t) = {}
      BY <1>1, <1>2, <1>4, <2>2 DEF NoPageTwice
    <2> QED  BY <2>1, <2>2 DEF NoPageTwice
  <1>7. bitmap' \subseteq Nat /\ held' \subseteq Ranges  BY <1>1, <1>2, <1>3, <1>4 DEF FramesTypeOK
  <1> QED  BY <1>1, <1>2, <1>6, <1>7, LeaveFrames

(* when a call fails, *)
LEMMA FailFrames ==
  ASSUME FrameInv, Fail
  PROVE  FrameInv'
  <1>1. Leave /\ initialized' = initialized /\ bitmap' = bitmap /\ held' = held  BY DEF Fail
  <1>2. FramesTypeOK /\ initialized /\ Kernel \subseteq bitmap /\ NoPageTwice
    BY DEF FrameInv, Started, Fail
  <1>3. NoPageTwice'  BY <1>1, <1>2 DEF NoPageTwice
  <1> QED  BY <1>1, <1>2, <1>3, LeaveFrames DEF FramesTypeOK

(* Free and Reserve change the bitmap between calls only. *)
LEMMA IdleFrames ==
  ASSUME FrameInv, ip = "idle", UNCHANGED <<initialized, ip, pages, locals>>, initialized, NoPageTwice',
         Kernel \subseteq bitmap', bitmap' \subseteq Nat, held' \subseteq Ranges
  PROVE  FrameInv'
  <1>1. FramesTypeOK'  BY DEF FrameInv, FramesTypeOK, locals
  <1>2. Started' /\ AtIdle' /\ InCall' /\ InByte'  BY DEF FrameInv, Started, AtIdle, InCall, InByte, locals
  <1>3. (InBit /\ InSkip /\ InRun /\ AtMark /\ FirstFit)'  BY DEF InBit, InSkip, InRun, AtMark, FirstFit
  <1> QED  BY <1>1, <1>2, <1>3 DEF FrameInv

(* when a range is freed, *)
LEMMA FreeFrames ==
  ASSUME FrameInv, NEW r \in held, Free(r)
  PROVE  FrameInv'
  <1>1. ip = "idle" /\ UNCHANGED <<initialized, ip, pages, locals>>  BY DEF Free
  <1>2. bitmap' = bitmap \ Span(r) /\ held' = held \ {r}  BY DEF Free
  <1>3. FramesTypeOK /\ initialized /\ Kernel \subseteq bitmap /\ NoPageTwice  BY DEF FrameInv, Started
  <1>4. NoPageTwice' /\ Kernel \subseteq bitmap'  BY <1>2, <1>3 DEF NoPageTwice
  <1>5. bitmap' \subseteq Nat /\ held' \subseteq Ranges  BY <1>2, <1>3, Zenon DEF FramesTypeOK
  <1> QED  BY <1>1, <1>3, <1>4, <1>5, IdleFrames

(* and when pages are reserved. *)
LEMMA ReserveFrames ==
  ASSUME FrameInv, NEW r \in Reservable, Reserve(r)
  PROVE  FrameInv'
  <1>1. ip = "idle" /\ UNCHANGED <<initialized, ip, pages, locals>>  BY DEF Reserve
  <1>2. initialized /\ bitmap' = bitmap \cup Span(r) /\ held' = held  BY DEF Reserve
  <1>3. FramesTypeOK /\ Kernel \subseteq bitmap /\ NoPageTwice  BY <1>2 DEF FrameInv, Started
  <1>4. Span(r) \subseteq Nat  BY SizesAssumption DEF Span
  <1>5. NoPageTwice'  BY <1>2, <1>3 DEF NoPageTwice
  <1>6. Kernel \subseteq bitmap' /\ bitmap' \subseteq Nat /\ held' \subseteq Ranges
    BY <1>2, <1>3, <1>4, Zenon DEF FramesTypeOK
  <1> QED  BY <1>1, <1>2, <1>5, <1>6, IdleFrames

(* Every step keeps it. *)
LEMMA StepFrames ==
  ASSUME FrameInv, [FramesNext]_framesVars
  PROVE  FrameInv'
  <1>1. CASE Search
    BY <1>1, ByteFullFrames, ByteOpenFrames, BitFrames, ByteDoneFrames, NoByteFrames, SkipFrames,
       RunFrames, RunEndFrames DEF Search
  <1>2. CASE UNCHANGED framesVars
    BY <1>2, Zenon DEF framesVars, locals, FrameInv, FramesTypeOK, Started, NoPageTwice, AtIdle, InCall, InByte, InBit, FreeBits,
       InSkip, InRun, FreePages, Available, AtMark, FirstFit
  <1> QED  BY <1>1, <1>2, AllocFrames, MarkFrames, FailFrames, FreeFrames, ReserveFrames DEF FramesNext

-----------------------------------------------------------------------------
(* The theorems *)

(* If the bitmap covers the memory, the bitmap, what callers hold and the  *)
(* locals of the running search agree after every iteration of the loops   *)
(* and every call.                                                         *)
THEOREM FramesInvariant == Uncovered = {} /\ FramesSpec => []FrameInv
  BY InitFrames, StepFrames, PTL DEF FramesSpec

(* If the bitmap covers the memory, pageframe_alloc never hands out a page *)
(* that somebody holds, or one of the kernel's, by either search.          *)
THEOREM NoPageHeldTwice == Uncovered = {} /\ FramesSpec => []NoPageTwice
  <1>1. FrameInv => NoPageTwice  BY DEF FrameInv
  <1> QED  BY <1>1, FramesInvariant, PTL

(* A request for more than eight pages gets the first place where it fits, *)
(* and NULL only if there is none.                                         *)
THEOREM FirstFitIsFirst == Uncovered = {} /\ FramesSpec => []FirstFit
  <1>1. FrameInv => FirstFit  BY DEF FrameInv
  <1> QED  BY <1>1, FramesInvariant, PTL

(* The locals of both searches stay in their ranges: no bit index and no   *)
(* length runs past the width of a byte.                                   *)
THEOREM FrameTypes == Uncovered = {} /\ FramesSpec => []FramesTypeOK
  <1>1. FrameInv => FramesTypeOK  BY DEF FrameInv
  <1> QED  BY <1>1, FramesInvariant, PTL

(* If the bitmap covers the memory, the two searches, the marking and the  *)
(* freeing implement the allocator that the callers may assume.            *)
THEOREM ImplementsFrames == Uncovered = {} /\ FramesSpec => ImplementsAllocator
  <1>1. FramesInit => FramesAbstract!Init  BY DEF FramesInit, FramesAbstract!Init
  <1>2. ASSUME FrameInv, [FramesNext]_framesVars
        PROVE  [FramesAbstract!Next]_<<held, IF initialized THEN bitmap ELSE Kernel>>
    <2> DEFINE taken == IF initialized THEN bitmap ELSE Kernel
    <2>1. CASE \E n \in Requests : Alloc(n)
      BY <2>1 DEF Alloc
    <2>2. CASE Search \/ Fail \/ UNCHANGED framesVars
      <3>1. CASE ByteFull \/ ByteOpen \/ Bit \/ ByteDone
        BY <3>1 DEF ByteFull, ByteOpen, Bit, ByteDone
      <3>2. CASE NoByte \/ Skip \/ Run \/ RunEnd
        BY <3>2 DEF NoByte, Skip, Run, RunEnd
      <3>3. CASE Fail \/ UNCHANGED framesVars
        BY <3>3 DEF Fail, framesVars
      <3> QED
        BY <2>2, <3>1, <3>2, <3>3, Zenon DEF Search
    <2>3. CASE Mark
      <3> DEFINE r == [start |-> page_no, n |-> pages]
      <3>1. /\ initialized /\ initialized' = initialized /\ pages \in Requests
            /\ page_no \in 0 .. NPages /\ FreePages(page_no, page_no + pages - 1)
        BY <1>2, <2>3, SizesAssumption DEF FrameInv, Started, InCall, AtMark, FramesTypeOK, Mark
      <3>2. FramesAbstract!Span(r) = Span(r) /\ Span(r) = page_no .. page_no + pages - 1
        BY DEF Span, FramesAbstract!Span
      <3>3. Span(r) \cap bitmap = {}  BY <3>1, <3>2 DEF FreePages
      <3>4. held' = held \cup {r} /\ bitmap' = bitmap \cup Span(r)  BY <2>3 DEF Mark
      <3>5. FramesAbstract!Give(pages)  BY <3>1, <3>2, <3>3, <3>4, Zenon DEF FramesAbstract!Give
      <3> QED  BY <3>1, <3>5 DEF FramesAbstract!Next
    <2>4. CASE \E r \in held : Free(r)
      <3>1. PICK r \in held : Free(r)  BY <2>4
      <3>2. initialized /\ initialized' = initialized  BY <1>2, <3>1 DEF FrameInv, Started, Free
      <3>3. FramesAbstract!TakeBack(r)  BY <3>1, <3>2 DEF Free, Span, FramesAbstract!TakeBack, FramesAbstract!Span
      <3> QED  BY <3>3 DEF FramesAbstract!Next
    <2>5. CASE \E r \in Reservable : Reserve(r)
      <3>1. PICK r \in Reservable : Reserve(r)  BY <2>5
      <3>2. FramesAbstract!Reserve(r)  BY <3>1 DEF Reserve, Span, FramesAbstract!Reserve, FramesAbstract!Span
      <3> QED  BY <3>2 DEF FramesAbstract!Next
    <2> QED  BY <1>2, <2>1, <2>2, <2>3, <2>4, <2>5 DEF FramesNext
  <1> QED  BY <1>1, <1>2, FramesInvariant, PTL DEF FramesSpec, ImplementsAllocator, FramesAbstract!Spec

-----------------------------------------------------------------------------
(* Best fit.  A hole of the current byte is behind the loop once the loop  *)
(* has read the bit that ends it; the best of those is remembered.         *)
Behind(r) == r.start + r.n < j \/ j = Width

BestSoFar ==
  /\ last_one >= 0 => Page(i, last_one) \in bitmap /\ last_one < j
  /\ best_fit_pos < 0 => best_fit_len = Width + 1
  /\ best_fit_pos >= 0 => [start |-> best_fit_pos, n |-> best_fit_len] \in Fitting(i)
  /\ \A r \in Fitting(i) : Behind(r) =>
       \/ best_fit_len < r.n
       \/ best_fit_len = r.n /\ best_fit_pos <= r.start

BestInv ==
  /\ FrameInv
  /\ BestFit
  /\ pages \in 1 .. Width =>
       /\ ip \in {"byte", "bit"} => \A b \in 0 .. i - 1 : Fitting(b) = {}
       /\ ip = "bit" => BestSoFar

(* The holes of a byte only depend on the bitmap and the request. *)
LEMMA FittingSame ==
  ASSUME UNCHANGED <<bitmap, pages>>, NEW b
  PROVE  Fitting(b)' = Fitting(b)
  BY DEF Fitting, Holes, Page, Span

(* What a hole that fits is. *)
LEMMA FittingHole ==
  ASSUME NEW b, NEW r \in Fitting(b)
  PROVE  /\ r.start \in 0 .. Width - 1 /\ r.n \in 1 .. Width /\ r.start + r.n <= Width
         /\ r.n >= pages
         /\ \A k \in r.start .. r.start + r.n - 1 : Page(b, k) \notin bitmap
         /\ r.start > 0 => Page(b, r.start - 1) \in bitmap
         /\ r.start + r.n < Width => Page(b, r.start + r.n) \in bitmap
  BY DEF Fitting, Holes, Span

(* A full byte has none. *)
LEMMA FullHasNone ==
  ASSUME NEW b, Full(b)
  PROVE  Fitting(b) = {}
  <1> SUFFICES ASSUME NEW r \in Fitting(b) PROVE FALSE  OBVIOUS
  <1>1. r.start \in 0 .. Width - 1 /\ r.n \in 1 .. Width  BY FittingHole
  <1>2. r.start \in r.start .. r.start + r.n - 1  BY <1>1, SizesAssumption
  <1>3. Page(b, r.start) \notin bitmap  BY <1>2, FittingHole
  <1> QED  BY <1>1, <1>3 DEF Full

(* Reading a bit keeps the best of the holes that are behind the loop.     *)
LEMMA BitBest ==
  ASSUME BestInv, Bit, pages \in 1 .. Width
  PROVE  BestSoFar'
  <1> DEFINE free == Page(i, j) \notin bitmap
             len == IF free THEN cur_len + 1 ELSE cur_len
             better == (~free \/ j = Width - 1) /\ best_fit_len > len /\ len >= pages
             found == [start |-> last_one + 1, n |-> len]
  <1>1. /\ ip = "bit" /\ j < Width /\ j' = j + 1
        /\ best_fit_len' = IF better THEN len ELSE best_fit_len
        /\ best_fit_pos' = IF better THEN last_one + 1 ELSE best_fit_pos
        /\ last_one' = IF free THEN last_one ELSE j
        /\ UNCHANGED <<bitmap, pages, i>>
    BY DEF Bit
  <1>2. FramesTypeOK /\ last_one + 1 + cur_len = j /\ FreeBits(last_one + 1, j - 1)
    BY <1>1 DEF BestInv, FrameInv, InBit
  <1>3. BestSoFar  BY <1>1 DEF BestInv
  <1>4. /\ j \in Nat /\ i \in Nat /\ last_one \in Int /\ cur_len \in Nat /\ pages \in Nat /\ pages >= 1
        /\ best_fit_len \in Nat /\ best_fit_pos \in Int /\ Width \in Nat /\ Width >= 1
        /\ last_one >= -1 /\ best_fit_pos >= -1 /\ best_fit_len <= Width + 1
    BY <1>2, SizesAssumption DEF FramesTypeOK
  <1>5. /\ len \in 0 .. Width
        /\ free => last_one + 1 + len = j + 1
        /\ ~free => last_one + 1 + len = j
    BY <1>1, <1>2, <1>4
  <1>6. \A k \in last_one + 1 .. last_one + len : Page(i, k) \notin bitmap
    BY <1>1, <1>2, <1>4, <1>5 DEF FreeBits
  <1>7. (free => Page(i, j) \notin bitmap) /\ (~free => Page(i, j) \in bitmap)  OBVIOUS
  <1>8. /\ better => (~free \/ j = Width - 1) /\ best_fit_len > len /\ len >= pages
        /\ ~better => ~((~free \/ j = Width - 1) /\ best_fit_len > len /\ len >= pages)
    OBVIOUS
  <1> HIDE DEF free, len, better
  (* The run that ends here is a hole, if it is long enough. *)
  <1>10. ASSUME ~free \/ j = Width - 1, len >= pages
         PROVE  found \in Fitting(i)
    <2>1. /\ last_one + 1 \in 0 .. Width - 1 /\ len \in 1 .. Width /\ last_one + 1 + len <= Width
      BY <1>1, <1>4, <1>5, <1>10
    <2>2. last_one + 1 > 0 => Page(i, last_one + 1 - 1) \in bitmap
      <3>1. last_one + 1 > 0 => last_one >= 0 /\ last_one + 1 - 1 = last_one  BY <1>4
      <3> QED  BY <3>1, <1>3 DEF BestSoFar
    <2>3. last_one + 1 + len < Width => Page(i, last_one + 1 + len) \in bitmap
      <3>1. last_one + 1 + len < Width => ~free /\ last_one + 1 + len = j
        BY <1>1, <1>4, <1>5, <1>7, <1>10
      <3> QED  BY <3>1, <1>7
    <2>4. last_one + 1 + len - 1 = last_one + len  BY <1>4, <1>5
    <2>5. found \in [start : 0 .. Width - 1, n : 1 .. Width]  BY <2>1
    <2>6. found.start = last_one + 1 /\ found.n = len  OBVIOUS
    <2> HIDE DEF found
    <2>7. \A k \in Span(found) : Page(i, k) \notin bitmap  BY <1>6, <2>4, <2>6 DEF Span
    <2>8. /\ found.start + found.n <= Width
          /\ found.start > 0 => Page(i, found.start - 1) \in bitmap
          /\ found.start + found.n < Width => Page(i, found.start + found.n) \in bitmap
      <3>1. found.start + found.n <= Width  BY <2>1, <2>6
      <3>2. found.start > 0 => Page(i, found.start - 1) \in bitmap
        <4>1. \A x, y \in Int : x = y + 1 => x - 1 = y + 1 - 1  OBVIOUS
        <4>2. found.start \in Int /\ last_one \in Int  BY <1>4, <2>1, <2>6
        <4>3. found.start - 1 = last_one + 1 - 1  BY <2>6, <4>1, <4>2, Zenon
        <4> QED  BY <2>2, <2>6, <4>3, Zenon
      <3>3. found.start + found.n < Width => Page(i, found.start + found.n) \in bitmap  BY <2>3, <2>6
      <3> QED  BY <3>1, <3>2, <3>3
    <2>9. found \in Holes(i)  BY <2>5, <2>7, <2>8, Zenon DEF Holes
    <2> QED  BY <1>10, <2>6, <2>9 DEF Fitting
  (* A hole that only now is behind the loop is that run. *)
  <1>11. ASSUME NEW r \in Fitting(i), r.start + r.n < j + 1 \/ j + 1 = Width, ~Behind(r)
         PROVE  (~free \/ j = Width - 1) /\ r.start = last_one + 1 /\ r.n = len
    <2>1. /\ r.start \in 0 .. Width - 1 /\ r.n \in 1 .. Width /\ r.start + r.n <= Width
      BY FittingHole
    <2>2. r.start + r.n >= j  BY <1>1, <1>4, <1>11, <2>1 DEF Behind
    <2>3. \A k \in r.start .. r.start + r.n - 1 : Page(i, k) \notin bitmap  BY FittingHole
    <2>4. last_one < r.start
      <3>1. CASE last_one >= 0
        <4>1. Page(i, last_one) \in bitmap /\ last_one < j  BY <1>3, <3>1 DEF BestSoFar
        <4>2. last_one \notin r.start .. r.start + r.n - 1  BY <4>1, <2>3
        <4> QED  BY <1>4, <2>1, <2>2, <4>1, <4>2
      <3> QED  BY <1>4, <2>1, <3>1
    <2>5. r.start <= last_one + 1
      <3> SUFFICES ASSUME r.start > last_one + 1 PROVE FALSE  BY <1>4, <2>1
      <3>1. Page(i, r.start - 1) \in bitmap
        <4>1. r.start > 0  BY <1>4, <2>1
        <4> QED  BY <4>1, FittingHole
      <3>2. CASE r.start <= j
        <4>1. r.start - 1 \in last_one + 1 .. j - 1  BY <1>4, <2>1, <3>2
        <4> QED  BY <1>2, <3>1, <4>1 DEF FreeBits
      <3>3. CASE r.start > j
        BY <1>1, <1>4, <1>11, <2>1, <3>3
      <3> QED  BY <1>4, <2>1, <3>2, <3>3
    <2>6. r.start = last_one + 1  BY <1>4, <2>1, <2>4, <2>5
    <2>7. CASE free
      <3>1. r.start + r.n # j
        <4>1. r.start + r.n < Width => Page(i, r.start + r.n) \in bitmap  BY FittingHole
        <4> QED  BY <1>1, <1>7, <2>7, <4>1
      <3>2. j + 1 = Width /\ r.start + r.n = j + 1  BY <1>1, <1>4, <1>11, <2>1, <2>2, <3>1
      <3> QED  BY <1>4, <1>5, <2>1, <2>6, <2>7, <3>2
    <2>8. CASE ~free
      <3>1. j \notin r.start .. r.start + r.n - 1  BY <1>7, <2>3, <2>8
      <3>2. last_one + 1 <= j  BY <1>2, <1>4
      <3>3. r.start + r.n = j  BY <1>4, <2>1, <2>2, <2>6, <3>1, <3>2
      <3> QED  BY <1>4, <1>5, <2>1, <2>6, <2>8, <3>3
    <2> QED  BY <2>7, <2>8
  <1>12. last_one' >= 0 => Page(i', last_one') \in bitmap' /\ last_one' < j'
    <2>1. CASE free
      BY <1>1, <1>3, <1>4, <2>1 DEF BestSoFar
    <2>2. CASE ~free
      <3>1. last_one' = j /\ i' = i /\ bitmap' = bitmap /\ j' = j + 1  BY <1>1, <2>2
      <3>2. Page(i, j) \in bitmap  BY <1>7, <2>2
      <3> QED  BY <1>4, <3>1, <3>2
    <2> QED  BY <2>1, <2>2
  <1>13. best_fit_pos' < 0 => best_fit_len' = Width + 1
    BY <1>1, <1>3, <1>4 DEF BestSoFar
  <1>14. best_fit_pos' >= 0 => [start |-> best_fit_pos', n |-> best_fit_len'] \in Fitting(i)
    <2>1. CASE better  BY <1>1, <1>8, <1>10, <2>1
    <2>2. CASE ~better  BY <1>1, <1>3, <2>2 DEF BestSoFar
    <2> QED  BY <2>1, <2>2
  <1>15. ASSUME NEW r \in Fitting(i), r.start + r.n < j + 1 \/ j + 1 = Width
         PROVE  best_fit_len' < r.n \/ (best_fit_len' = r.n /\ best_fit_pos' <= r.start)
    <2>1. /\ r.start \in Int /\ r.n \in Int /\ r.n >= pages /\ r.n <= Width
      BY <1>4, FittingHole
    <2>2. CASE Behind(r)
      <3>1. best_fit_len < r.n \/ (best_fit_len = r.n /\ best_fit_pos <= r.start)
        BY <1>3, <2>2 DEF BestSoFar
      <3>2. CASE better
        <4>1. best_fit_len > len  BY <1>8, <3>2
        <4>2. len < r.n  BY <1>4, <1>5, <2>1, <3>1, <4>1
        <4> QED  BY <1>1, <3>2, <4>2
      <3>3. CASE ~better  BY <1>1, <3>1, <3>3
      <3> QED  BY <3>2, <3>3
    <2>3. CASE ~Behind(r)
      <3>1. (~free \/ j = Width - 1) /\ r.start = last_one + 1 /\ r.n = len  BY <1>11, <1>15, <2>3
      <3>2. CASE better  BY <1>1, <1>4, <1>5, <2>1, <3>1, <3>2
      <3>3. CASE ~better
        <4>0. len >= pages  BY <2>1, <3>1
        <4>1. best_fit_len <= len  BY <1>4, <1>5, <1>8, <3>1, <3>3, <4>0
        <4>2. best_fit_pos >= 0  BY <1>3, <1>4, <1>5, <4>1 DEF BestSoFar
        <4>3. best_fit_pos + best_fit_len <= j
          BY <1>1, <4>2 DEF BestInv, FrameInv, InBit
        <4>4. best_fit_len = len => best_fit_pos <= last_one + 1
          BY <1>4, <1>5, <4>3, <1>2
        <4> QED  BY <1>1, <1>4, <1>5, <3>1, <3>3, <4>1, <4>4
      <3> QED  BY <3>2, <3>3
    <2> QED  BY <2>2, <2>3
  <1>16. \A r \in Fitting(i) : Behind(r)' => r.start + r.n < j + 1 \/ j + 1 = Width
    BY <1>1 DEF Behind
  <1>17. Fitting(i)' = Fitting(i)
    BY <1>1, FittingSame
  <1> QED
    <2>1. i' = i /\ bitmap' = bitmap  BY <1>1
    <2> QED  BY <1>12, <1>13, <1>14, <1>15, <1>16, <1>17, <2>1 DEF BestSoFar

(* Best fit's part of the invariant is kept by every step. *)
LEMMA BestStep == BestInv /\ [FramesNext]_framesVars => BestInv'
  <1> SUFFICES ASSUME BestInv, [FramesNext]_framesVars PROVE BestInv'  OBVIOUS
  <1>0. FrameInv /\ FrameInv' /\ FramesTypeOK  BY StepFrames DEF BestInv, FrameInv
  <1> DEFINE Early == \A b \in 0 .. i - 1 : Fitting(b) = {}
             Searched == pages \in 1 .. Width =>
                           /\ ip \in {"byte", "bit"} => Early
                           /\ ip = "bit" => BestSoFar
  <1>1. SUFFICES BestFit' /\ Searched'  BY <1>0 DEF BestInv
  <1>2. Searched  BY DEF BestInv
  <1>3. Width \in Nat /\ Width >= 1 /\ i \in Nat  BY <1>0, SizesAssumption DEF FramesTypeOK
  <1>4. CASE \E n \in Requests : Alloc(n)
    <2>1. ip = "idle" /\ ip' \in {"skip", "byte"} /\ i' = i  BY <1>4 DEF Alloc, locals
    <2>2. i = 0  BY <1>0, <2>1 DEF FrameInv, AtIdle
    <2>3. Early'
      <3>1. 0 .. i' - 1 = {}  BY <2>1, <2>2
      <3> QED  BY <3>1
    <2> QED  BY <2>1, <2>3 DEF BestFit
  <1>5. CASE ByteFull
    <2>1. ip = "byte" /\ ip' = "byte" /\ i' = i + 1 /\ UNCHANGED <<bitmap, pages>> /\ Full(i)
      BY <1>5 DEF ByteFull
    <2>2. pages \in 1 .. Width => \A b \in 0 .. i' - 1 : Fitting(b) = {}
      <3>1. 0 .. i' - 1 = (0 .. i - 1) \cup {i}  BY <1>3, <2>1
      <3>2. Fitting(i) = {}  BY <2>1, FullHasNone
      <3> QED  BY <1>2, <2>1, <3>1, <3>2
    <2>3. \A b : Fitting(b)' = Fitting(b)  BY <2>1, FittingSame
    <2> QED  BY <2>1, <2>2, <2>3 DEF BestFit
  <1>6. CASE ByteOpen
    <2>1. /\ ip = "byte" /\ ip' = "bit" /\ UNCHANGED <<bitmap, pages, i>>
          /\ j' = 0 /\ best_fit_len' = Width + 1 /\ best_fit_pos' = -1 /\ last_one' = -1
      BY <1>6 DEF ByteOpen
    <2>2. \A b : Fitting(b)' = Fitting(b)  BY <2>1, FittingSame
    <2>3. \A r \in Fitting(i)' : ~Behind(r)'
      <3> SUFFICES ASSUME NEW r \in Fitting(i)' PROVE ~Behind(r)'  OBVIOUS
      <3>1. r \in Fitting(i)  BY <2>1, <2>2
      <3>2. r.start \in 0 .. Width - 1 /\ r.n \in 1 .. Width  BY <3>1, FittingHole
      <3> QED  BY <1>3, <2>1, <3>2 DEF Behind
    <2>4. BestSoFar'  BY <2>1, <2>3 DEF BestSoFar
    <2>5. pages \in 1 .. Width => Early'  BY <1>2, <2>1, <2>2
    <2> QED  BY <2>1, <2>4, <2>5 DEF BestFit
  <1>7. CASE Bit
    <2>1. ip = "bit" /\ ip' = "bit" /\ UNCHANGED <<bitmap, pages, i>>  BY <1>7 DEF Bit
    <2>2. \A b : Fitting(b)' = Fitting(b)  BY <2>1, FittingSame
    <2>3. pages \in 1 .. Width => BestSoFar'  BY <1>7, BitBest
    <2>4. pages \in 1 .. Width => Early'  BY <1>2, <2>1, <2>2
    <2> QED  BY <2>1, <2>3, <2>4 DEF BestFit
  <1>8. CASE ByteDone
    <2>1. ip = "bit" /\ j = Width /\ UNCHANGED <<bitmap, pages>>  BY <1>8 DEF ByteDone
    <2>2. \A b : Fitting(b)' = Fitting(b)  BY <2>1, FittingSame
    <2>3. SUFFICES ASSUME pages \in 1 .. Width PROVE BestFit' /\ Searched'
      BY <2>1 DEF BestFit
    <2>4. BestSoFar /\ Early  BY <1>2, <2>1, <2>3
    <2>5. \A r \in Fitting(i) : best_fit_len < r.n \/ (best_fit_len = r.n /\ best_fit_pos <= r.start)
      BY <2>1, <2>4 DEF BestSoFar, Behind
    <2>6. CASE best_fit_pos >= 0
      <3>1. ip' = "mark" /\ page_no' = Page(i, best_fit_pos) /\ i' = i  BY <1>8, <2>6 DEF ByteDone
      <3> DEFINE best == [start |-> best_fit_pos, n |-> best_fit_len]
      <3>2. best \in Fitting(i)  BY <2>4, <2>6 DEF BestSoFar
      <3>3. best.start = best_fit_pos /\ best.n = best_fit_len  OBVIOUS
      <3> HIDE DEF best
      <3>4. /\ page_no' = Page(i, best.start)
            /\ \A s \in Fitting(i) : best.n < s.n \/ (best.n = s.n /\ best.start <= s.start)
        BY <2>5, <3>1, <3>3
      <3>5. \A b \in 0 .. i' - 1 : Fitting(b)' = {}  BY <2>2, <2>4, <3>1
      <3>6. \E r \in Fitting(i)' :
              /\ page_no' = Page(i', r.start)
              /\ \A s \in Fitting(i)' : r.n < s.n \/ (r.n = s.n /\ r.start <= s.start)
        BY <2>2, <3>1, <3>2, <3>4
      <3>7. BestFit'  BY <3>1, <3>5, <3>6 DEF BestFit
      <3> QED  BY <3>1, <3>7
    <2>7. CASE ~(best_fit_pos >= 0)
      <3>1. ip' = "byte" /\ i' = i + 1  BY <1>8, <2>7 DEF ByteDone
      <3>2. best_fit_len = Width + 1
        BY <1>0, <2>4, <2>7 DEF BestSoFar, FramesTypeOK
      <3>3. Fitting(i) = {}
        <4> SUFFICES ASSUME NEW r \in Fitting(i) PROVE FALSE  OBVIOUS
        <4>1. r.n \in 1 .. Width  BY FittingHole
        <4>2. Width + 1 < r.n \/ Width + 1 = r.n  BY <2>5, <3>2
        <4> QED  BY <1>3, <4>1, <4>2
      <3>4. 0 .. i' - 1 = (0 .. i - 1) \cup {i}  BY <1>3, <3>1
      <3>5. Early'  BY <2>2, <2>4, <3>3, <3>4
      <3> QED  BY <3>1, <3>5 DEF BestFit
    <2> QED  BY <2>6, <2>7
  <1>9. CASE NoByte
    <2>1. ip = "byte" /\ i >= Bytes /\ ip' = "fail" /\ UNCHANGED <<bitmap, pages, i>>
      BY <1>9 DEF NoByte, locals
    <2>2. \A b : Fitting(b)' = Fitting(b)  BY <2>1, FittingSame
    <2>3. 0 .. Bytes - 1 \subseteq 0 .. i - 1
      <3>1. Bytes \in Nat
        <4>1. \A n \in Nat, w \in Nat \ {0} : n \div w \in Nat  OBVIOUS
        <4> QED  BY <4>1, SizesAssumption DEF Bytes
      <3> QED  BY <1>3, <2>1, <3>1
    <2>4. pages \in 1 .. Width => \A b \in 0 .. Bytes - 1 : Fitting(b) = {}  BY <1>2, <2>1, <2>3
    <2> QED  BY <2>1, <2>2, <2>4 DEF BestFit
  <1>10. CASE Skip \/ Run \/ RunEnd
    <2>1. pages > Width /\ pages' = pages
      BY <1>0, <1>10 DEF Skip, Run, RunEnd, FrameInv, InSkip, InRun
    <2>2. pages' \notin 1 .. Width  BY <1>0, <1>3, <2>1 DEF FramesTypeOK
    <2> QED  BY <2>2 DEF BestFit
  <1>11. CASE Mark \/ Fail
    <2>1. ip' = "idle"  BY <1>11 DEF Mark, Fail, Leave
    <2> QED  BY <2>1 DEF BestFit
  <1>12. CASE (\E r \in held : Free(r)) \/ (\E r \in Reservable : Reserve(r))
    <2>1. ip' = "idle"  BY <1>12 DEF Free, Reserve
    <2> QED  BY <2>1 DEF BestFit
  <1>13. CASE UNCHANGED framesVars
    <2>1. UNCHANGED <<ip, bitmap, pages, i, j, best_fit_len, best_fit_pos, last_one, page_no>>
      BY <1>13 DEF framesVars, locals
    <2>2. \A b : Fitting(b)' = Fitting(b)  BY <2>1, FittingSame
    <2>3. BestFit  BY DEF BestInv
    <2>4. BestFit'  BY <2>1, <2>2, <2>3 DEF BestFit
    <2>5. BestSoFar' = BestSoFar  BY <2>1, <2>2 DEF BestSoFar, Behind
    <2> QED  BY <1>2, <2>1, <2>2, <2>4, <2>5
  <1> QED
    BY <1>4, <1>5, <1>6, <1>7, <1>8, <1>9, <1>10, <1>11, <1>12, <1>13 DEF FramesNext, Search

(* A request for at most eight pages gets the first of the shortest holes  *)
(* that hold it, in the first byte that has one, and NULL only if no byte  *)
(* has one.                                                                *)
THEOREM BestFitIsBest == Uncovered = {} /\ FramesSpec => []BestFit
  <1>1. Uncovered = {} /\ FramesInit => BestInv
    BY InitFrames DEF BestInv, BestFit, FramesInit
  <1>2. BestInv => BestFit  BY DEF BestInv
  <1> QED  BY <1>1, <1>2, BestStep, PTL DEF FramesSpec

-----------------------------------------------------------------------------
(* The lock.  The facts about finite sets are needed only here. *)
INSTANCE FiniteSetTheorems

(* There are finitely many threads, so they can be counted. *)
LEMMA ThreadsCounted == Counting
  <1>1. IsFiniteSet(Depths)
    BY FS_Interval, MaxDepthAssumption DEF Depths
  <1>2. IsFiniteSet(Threads)
    BY <1>1, FS_Product, CPUsAssumption DEF Threads
  <1>3. ASSUME NEW S \in SUBSET Threads
        PROVE  /\ Cardinality(S) \in Nat
               /\ Cardinality(S) = 0 <=> S = {}
               /\ \A t \in Threads \ S : Cardinality(S \cup {t}) = Cardinality(S) + 1
               /\ \A t \in S : Cardinality(S \ {t}) = Cardinality(S) - 1
    <2>1. IsFiniteSet(S)
      BY <1>2, FS_Subset
    <2>2. Cardinality(S) \in Nat /\ (Cardinality(S) = 0 <=> S = {})
      BY <2>1, FS_CardinalityType, FS_EmptySet
    <2>3. \A t \in Threads \ S : Cardinality(S \cup {t}) = Cardinality(S) + 1
      BY <2>1, FS_AddElement
    <2>4. \A t \in S : Cardinality(S \ {t}) = Cardinality(S) - 1
      BY <2>1, FS_RemoveElement
    <2> QED
      BY <2>2, <2>3, <2>4
  <1> QED
    BY <1>3 DEF Counting

(* LockInv holds in every reachable state, for every set of processors and *)
(* every interrupt depth.                                                  *)
THEOREM LockInvariant == Spec => []LockInv
  <1>1. Init => LockInv
    <2> SUFFICES ASSUME Init PROVE LockInv
      OBVIOUS
    <2>1. CountedReaders = {}
      BY DEF Init, CountedReaders, Counted
    <2>2. TypeOK
      <3>1. 0 \in Depths
        BY MaxDepthAssumption DEF Depths
      <3> QED
        BY <3>1, Zenon DEF Init, TypeOK, PCs, Ops
    <2>6. ControlInv /\ HolderUninterruptible
      BY DEF Init, ControlInv, HolderUninterruptible, ReaderPCs
    <2>3. MutexInv
      BY DEF Init, MutexInv, InMtx, InSemMtx, PsemPCs, Mutexes
    <2>4. CountInv
      BY <2>1, ThreadsCounted DEF Init, CountInv, Leading, Counting
    <2>5. SemInv
      BY <2>1 DEF Init, SemInv, ReadersHaveSem, WriterHasSem
    <2> QED
      BY <2>2, <2>3, <2>4, <2>5, <2>6 DEF LockInv
  <1>2. LockInv /\ [Next]_vars => LockInv'
    BY ThreadsCounted, ControlPreserved, MutexPreserved, CountPreserved, SemPreserved DEF LockInv, ControlPart
  <1> QED
    BY <1>1, <1>2, PTL DEF Spec

(* Neither the semaphore's count nor the reader count of rwlock.c goes     *)
(* below zero, and no field of the lock or flag of a CPU loses its type.   *)
THEOREM LockTypes == Spec => []TypeOK
  <1>1. LockInv => TypeOK
    BY DEF LockInv, ControlPart
  <1> QED
    BY <1>1, LockInvariant, PTL

(* rwlock_write_acquire excludes every other holder. *)
THEOREM WriterExcludes == Spec => []Exclusion
  BY LockInvariant, LockInvExcludes, PTL

(* A holder or waiter of the lock is never interrupted on its own CPU. *)
THEOREM HolderNotInterrupted == Spec => []HolderUninterruptible
  <1>1. LockInv => HolderUninterruptible
    BY DEF LockInv
  <1> QED
    BY <1>1, LockInvariant, PTL

(* The releases give back all that the acquires took. *)
THEOREM LockGivenBack == Spec => []QuiescentIsFree
  <1>1. LockInv => QuiescentIsFree
    <2> SUFFICES ASSUME LockInv, \A t \in Threads : pc[t] \in {"idle", "cli", "rel_irq"}
                 PROVE  sem_count = 1 /\ reader_count = 0 /\ \A m \in Mutexes : ~locked[m]
      BY DEF QuiescentIsFree
    <2>1. CountedReaders = {}
      BY DEF CountedReaders, Counted, PsemPCs
    <2>2. reader_count = 0
      BY <2>1, ThreadsCounted DEF LockInv, CountInv, Counting
    <2>3. sem_count = 1
      BY <2>1 DEF LockInv, SemInv, ReadersHaveSem, WriterHasSem
    <2>4. \A m \in Mutexes : ~locked[m]
      BY DEF LockInv, MutexInv, InMtx, InSemMtx, PsemPCs, Mutexes
    <2> QED
      BY <2>2, <2>3, <2>4
  <1> QED
    BY <1>1, LockInvariant, PTL

(* rwlock.c implements the readers/writers lock. *)
THEOREM ImplementsLock == Spec => ImplementsReadersWriters
  <1>1. Init => Abstract!Init
    BY DEF Init, Abstract!Init, Holds
  <1>2. LockInv /\ LockInv' /\ [Next]_vars => [Abstract!Next]_<<Readers, Writers>>
    BY LockStepMaps
  <1>3. Readers = {t \in Threads : Holds(t, "read")} /\ Writers = {t \in Threads : Holds(t, "write")}
    BY DEF Readers, Writers
  <1> QED
    BY <1>1, <1>2, <1>3, LockInvariant, PTL DEF Spec, ImplementsReadersWriters, Abstract!Spec, Readers, Writers
=============================================================================
