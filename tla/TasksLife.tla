----------------------------- MODULE TasksLife ------------------------------
(***************************************************************************)
(* Proofs about the life of a task in Tasks, for every number of CPUs,     *)
(* tasks and priorities: as long as no context is damaged, no task_struct  *)
(* is freed while the list points to it.                                   *)
(*                                                                         *)
(* Two invariants are inductive on top of TaskInv.  LifeInv follows a task *)
(* from the list to its end; IdlesListed says that the idle tasks stay in  *)
(* their slots.  Undamaged is a hypothesis, in the state before and after  *)
(* each step: a task that yields may be resumed on a second CPU before the *)
(* first has saved its context, and then a CPU runs one task with the      *)
(* task_struct of another.                                                 *)
(*                                                                         *)
(* The steps also keep IdlesOwned (an idle task that is RUNNING belongs to *)
(* a CPU) where no handler of the timer has been interrupted by itself.    *)
(***************************************************************************)
EXTENDS TasksProofs

-----------------------------------------------------------------------------
(* The other steps that leave the list, _current and the contexts alone. *)

(* task_new as far as the free pid: no idle task has it. *)
LEMMA NewFindPidQuiet ==
  ASSUME TaskInv, TaskInv', LifeInv, IdlesListed, NEW c \in CPUs, NewFindPid(c)
  PROVE  Quiet(c) /\ IdleStep(c)
  <1>1. PICK p \in Pids : tasks[p] = NULL /\ Call(c, [Frame("new") EXCEPT !.pid = p])
    BY DEF NewFindPid
  <1> DEFINE f == [Frame("new") EXCEPT !.pid = p]
  <1>2. f \in InnerFrames /\ f.pc = "new" /\ f.pid = p
    BY Zenon DEF Frame, Frames, PCs, InnerFrames, InnerPCs
  <1> HIDE DEF f
  <1>3. Call(c, f) /\ Top(c).pc = "user" /\ UNCHANGED <<tasks, tcb, ctx, current>>
    BY <1>1 DEF NewFindPid, At, f
  <1>4. /\ \A d \in CPUs : d # c => code'[d] = code[d]
        /\ code'[c][1] = code[c][1] /\ Last(code'[c]) = f /\ Len(code'[c]) = Len(code[c]) + 1
        /\ \A i \in 1 .. Len(code[c]) : code'[c][i] = code[c][i]
    BY <1>2, <1>3, CallEffect
  <1>5. code[c] \in Stacks /\ code'[c] \in Stacks /\ Len(code[c]) \in Nat
    BY StackTop DEF TaskInv, StacksOK
  <1>6. p \notin CPUs
    BY <1>1, UsersAssumption DEF IdlesListed, Tcbs, Idles
  <1>7. NewPid(code'[c])
    <2>1. NewPid(code[c])  BY DEF IdlesListed
    <2>2. Len(code'[c]) <= Len(code[c]) + 1 /\ Len(code'[c]) - 1 = Len(code[c])  BY <1>4, <1>5
    <2> QED  BY <1>2, <1>4, <1>5, <1>6, <2>1, <2>2, NewPidPush
  <1>8. Below(code'[c])
    BY <1>3, <1>4, <1>5, BelowPush DEF LifeInv, BelowSound, Top
  <1>9. Kept(c)  BY <1>3 DEF Kept
  <1> QED  BY <1>2, <1>3, <1>4, <1>7, <1>8, <1>9, SameQuiet

(* task_detach *)
LEMMA DetachQuiet ==
  ASSUME TaskInv, LifeInv, IdlesListed, NEW c \in CPUs, Detach(c)
  PROVE  Quiet(c) /\ IdleStep(c)
  <1>1. PICK u \in Users : tcb' = [tcb EXCEPT ![u].detached = TRUE]  BY Zenon DEF Detach
  <1>2. u \in Tcbs /\ tcb \in [Tcbs -> TaskStructs] /\ tcb[u] \in TaskStructs
    BY DEF Tcbs, TaskInv, StructsOK
  <1>3. tcb'[u] = [tcb[u] EXCEPT !.detached = TRUE] /\ \A t \in Tcbs : t # u => tcb'[t] = tcb[t]
    BY <1>1, <1>2
  <1>4. Kept(c)
    <2>1. Same(tcb'[u], tcb[u])  BY <1>2, <1>3, SameWrite, ZenonT(30)
    <2> QED  BY <1>3, <2>1, Zenon DEF Same, Kept
  <1>5. UNCHANGED <<tasks, ctx, current, code>> /\ Top(c).pc = "user"  BY DEF Detach, At
  <1> QED  BY <1>4, <1>5, SameQuiet DEF LifeInv, BelowSound, IdlesListed, Top

(* task_join, and an iteration of its loop *)
LEMMA JoinQuiet ==
  ASSUME TaskInv, TaskInv', LifeInv, IdlesListed, NEW c \in CPUs, Join(c)
  PROVE  Quiet(c) /\ IdleStep(c)
  <1>1. PICK u \in Users : /\ tcb' = [tcb EXCEPT ![u].joined = TRUE]
                           /\ Call(c, [Frame("join") EXCEPT !.t = u])
    BY Zenon DEF Join
  <1> DEFINE f == [Frame("join") EXCEPT !.t = u]
  <1>2. f \in InnerFrames /\ f.pc = "join"
    BY Zenon DEF Frame, Frames, PCs, InnerFrames, InnerPCs, Tcbs
  <1> HIDE DEF f
  <1>3. Call(c, f) /\ Top(c).pc = "user" /\ UNCHANGED <<tasks, ctx, current>>
    BY <1>1 DEF Join, At, f
  <1>4. /\ \A d \in CPUs : d # c => code'[d] = code[d]
        /\ code'[c][1] = code[c][1] /\ Last(code'[c]) = f /\ Len(code'[c]) = Len(code[c]) + 1
        /\ \A i \in 1 .. Len(code[c]) : code'[c][i] = code[c][i]
    BY <1>2, <1>3, CallEffect
  <1>5. code[c] \in Stacks /\ code'[c] \in Stacks /\ Len(code[c]) \in Nat
    BY StackTop DEF TaskInv, StacksOK
  <1>6. NewPid(code'[c])
    <2>1. NewPid(code[c])  BY DEF IdlesListed
    <2>2. Len(code'[c]) <= Len(code[c]) + 1 /\ Len(code'[c]) - 1 = Len(code[c])  BY <1>4, <1>5
    <2>3. Last(code'[c]).pc # "new"  BY <1>2, <1>4
    <2> QED  BY <1>4, <1>5, <2>1, <2>2, <2>3, NewPidPush
  <1>7. Below(code'[c])
    BY <1>3, <1>4, <1>5, BelowPush DEF LifeInv, BelowSound, Top
  <1>8. u \in Tcbs /\ tcb \in [Tcbs -> TaskStructs] /\ tcb[u] \in TaskStructs
    BY DEF Tcbs, TaskInv, StructsOK
  <1>9. tcb'[u] = [tcb[u] EXCEPT !.joined = TRUE] /\ \A t \in Tcbs : t # u => tcb'[t] = tcb[t]
    BY <1>1, <1>8
  <1>10. Kept(c)
    <2>1. Same(tcb'[u], tcb[u])  BY <1>8, <1>9, SameWrite, Zenon
    <2> QED  BY <1>9, <2>1, Zenon DEF Same, Kept
  <1> QED  BY <1>2, <1>3, <1>4, <1>6, <1>7, <1>10, SameQuiet

LEMMA JoinWaitsQuiet ==
  ASSUME TaskInv, TaskInv', LifeInv, IdlesListed, NEW c \in CPUs, JoinWaits(c)
  PROVE  Quiet(c) /\ IdleStep(c)
  <1> DEFINE u == Top(c).t
             f == [Top(c) EXCEPT !.pc = "join_yield"]
  <1>1. /\ Top(c).pc = "join" /\ Top(c).pc \in InnerPCs /\ Top(c).pc \notin SchedPCs
        /\ tcb' = [tcb EXCEPT ![u].dynamic_prio = 0] /\ Replace(c, f)
        /\ UNCHANGED <<tasks, ctx, current>>
    BY DEF JoinWaits, At, Goto, InnerPCs, SchedPCs
  <1>2. Top(c) \in InnerFrames /\ u \in Tcbs  BY <1>1, TopFrame DEF InnerFrames, Tcbs
  <1>3. f \in InnerFrames /\ f.pc = "join_yield" /\ f.isr = Top(c).isr
    BY <1>1, <1>2, FrameMove DEF InnerPCs, SchedPCs
  <1> HIDE DEF f
  <1>4. tcb \in [Tcbs -> TaskStructs] /\ tcb[u] \in TaskStructs  BY <1>2 DEF TaskInv, StructsOK
  <1>5. tcb'[u] = [tcb[u] EXCEPT !.dynamic_prio = 0] /\ \A t \in Tcbs : t # u => tcb'[t] = tcb[t]
    BY <1>1, <1>2, <1>4
  <1>6. Same(tcb'[u], tcb[u])  BY <1>4, <1>5 DEF Same, TaskStructs
  <1>7. Kept(c)  BY <1>5, <1>6, Zenon DEF Same, Kept
  <1>9. /\ \A d \in CPUs : d # c => code'[d] = code[d]
        /\ code'[c][1] = code[c][1] /\ Last(code'[c]) = f
        /\ Below(code'[c]) /\ NewPid(code'[c])
    BY <1>1, <1>3, MoveShape
  <1> QED  BY <1>1, <1>3, <1>7, <1>9, SameQuiet

(* task_cleanup by a joiner: the task it frees has ended. *)
LEMMA JoinCleansQuiet ==
  ASSUME TaskInv, LifeInv, IdlesListed, NEW c \in CPUs, JoinCleans(c)
  PROVE  Quiet(c) /\ IdleStep(c)
  <1> DEFINE u == Top(c).t
             q == [tcb[u] EXCEPT !.mapped = FALSE]
  <1>1. /\ Top(c).pc = "join" /\ Top(c).pc \in InnerPCs \ SchedPCs
        /\ tcb' = [tcb EXCEPT ![u] = q] /\ Return(c) /\ tcb[u].state = "TERMINATED"
        /\ UNCHANGED <<tasks, ctx, current>>
    BY DEF JoinCleans, At, InnerPCs, SchedPCs
  <1>2. u \in Tcbs  BY <1>1, TopFrame DEF InnerFrames, Tcbs
  <1>3. tcb \in [Tcbs -> TaskStructs] /\ tcb[u] \in TaskStructs  BY <1>2 DEF TaskInv, StructsOK
  <1>4. q.pid = tcb[u].pid /\ q.state = tcb[u].state /\ q.interruptible = tcb[u].interruptible
    BY <1>3 DEF TaskStructs
  <1> HIDE DEF q
  <1>5. tcb'[u] = q /\ \A t \in Tcbs : t # u => tcb'[t] = tcb[t]  BY <1>1, <1>2, <1>3
  <1>6. Kept(c)  BY <1>1, <1>4, <1>5 DEF Kept
  <1>7. Len(code[c]) = 2 /\ code[c][1] \in OuterFrames
    BY <1>1, StackTop DEF TaskInv, StacksOK, Top, Stacks
  <1>8. /\ \A d \in CPUs : d # c => code'[d] = code[d]
        /\ code'[c][1] = code[c][1] /\ Below(code'[c]) /\ NewPid(code'[c])
        /\ Last(code'[c]).pc \notin {"removed", "dead", "scan", "pick", "go", "swap"}
        /\ Last(code'[c]) = code[c][1]
    BY <1>1, <1>7, ReturnShape
  <1>9. Last(code'[c]).pc # "sched"  BY <1>7, <1>8 DEF OuterFrames, OuterPCs
  <1> QED  BY <1>1, <1>6, <1>8, <1>9, SameQuiet

(* schedule up to its choice *)
LEMMA EnterQuiet ==
  ASSUME TaskInv, TaskInv', LifeInv, IdlesListed, NEW c \in CPUs, Enter(c)
  PROVE  Quiet(c) /\ IdleStep(c)
  <1> DEFINE u == current[c]
             f == [Top(c) EXCEPT !.pc = "scan"]
             q == [tcb[u] EXCEPT !.interruptible = FALSE]
  <1>1. /\ Top(c).pc = "sched" /\ Top(c).pc \in InnerPCs
        /\ tcb' = [tcb EXCEPT ![u] = q] /\ Replace(c, f)
        /\ UNCHANGED <<tasks, ctx, current>>
    BY DEF Enter, At, Goto, InnerPCs
  <1>2. Top(c) \in InnerFrames  BY <1>1, TopFrame
  <1>3. f \in InnerFrames /\ f.pc = "scan" /\ f.isr = Top(c).isr /\ f.pc \in SchedPCs
    BY <1>2, FrameMove DEF InnerPCs, SchedPCs
  <1>4. tcb \in [Tcbs -> TaskStructs] /\ u \in Tcbs /\ tcb[u] \in TaskStructs
    BY RunningTask DEF TaskInv, StructsOK
  <1>5. q.pid = tcb[u].pid /\ q.state = tcb[u].state /\ q.mapped = tcb[u].mapped /\ ~q.interruptible
    BY <1>4 DEF TaskStructs
  <1> HIDE DEF f, q
  <1>6. tcb'[u] = q /\ \A t \in Tcbs : t # u => tcb'[t] = tcb[t]  BY <1>1, <1>4
  <1>7. Kept(c)  BY <1>5, <1>6 DEF Kept
  <1>9. /\ \A d \in CPUs : d # c => code'[d] = code[d]
        /\ code'[c][1] = code[c][1] /\ Last(code'[c]) = f
        /\ Below(code'[c]) /\ NewPid(code'[c])
    BY <1>1, <1>3, MoveShape
  <1> QED  BY <1>1, <1>3, <1>5, <1>6, <1>7, <1>9, SameQuiet, Zenon

LEMMA ScanQuiet ==
  ASSUME TaskInv, TaskInv', LifeInv, IdlesListed, NEW c \in CPUs, Scan(c)
  PROVE  Quiet(c) /\ IdleStep(c)
  <1> DEFINE next == IF \E p \in Pids : Best(p) THEN CHOOSE p \in Pids : Best(p) ELSE NoPid
             f == [Top(c) EXCEPT !.pc = "pick", !.pid = next]
  <1>1. next \in Pids \cup {NoPid}  OBVIOUS
  <1>2. /\ Top(c).pc = "scan" /\ Top(c).pc \in InnerPCs /\ Replace(c, f)
        /\ UNCHANGED <<tasks, tcb, ctx, current>>
    BY DEF Scan, At, InnerPCs
  <1> HIDE DEF next
  <1>3. f \in InnerFrames /\ f.pc = "pick" /\ f.pc \in SchedPCs /\ f.isr = Top(c).isr
    BY <1>1, <1>2, TopFrame, Zenon DEF Frames, PCs, InnerFrames, InnerPCs, SchedPCs
  <1> HIDE DEF f
  <1>4. Kept(c) /\ ~tcb'[current[c]].interruptible
    BY <1>2 DEF Kept, LifeInv, NotPreempted, cur
  <1>6. /\ \A d \in CPUs : d # c => code'[d] = code[d]
        /\ code'[c][1] = code[c][1] /\ Last(code'[c]) = f
        /\ Below(code'[c]) /\ NewPid(code'[c])
    BY <1>2, <1>3, MoveShape
  <1> QED  BY <1>2, <1>3, <1>4, <1>6, SameQuiet

LEMMA RechargeQuiet ==
  ASSUME TaskInv, TaskInv', LifeInv, IdlesListed, NEW c \in CPUs, Recharge(c)
  PROVE  Quiet(c) /\ IdleStep(c)
  <1> DEFINE f == [Top(c) EXCEPT !.pc = "scan"]
  <1>1. /\ Top(c).pc = "pick" /\ Top(c).pc \in InnerPCs /\ Replace(c, f)
        /\ UNCHANGED <<tasks, ctx, current>>
    BY DEF Recharge, At, Goto, InnerPCs
  <1>2. Top(c) \in InnerFrames  BY <1>1, TopFrame
  <1>3. f \in InnerFrames /\ f.pc = "scan" /\ f.isr = Top(c).isr /\ f.pc \in SchedPCs
    BY <1>2, FrameMove DEF InnerPCs, SchedPCs
  <1> HIDE DEF f
  <1>4. ASSUME NEW t \in Tcbs
        PROVE  Same(tcb'[t], tcb[t])
    <2>1. tcb[t] \in TaskStructs  BY DEF TaskInv, StructsOK
    <2>2. tcb'[t] \in {tcb[t], [tcb[t] EXCEPT !.dynamic_prio = Recharged(tcb[t])]}
      BY DEF Recharge
    <2> QED  BY <2>1, <2>2 DEF Same, TaskStructs
  <1>5. Kept(c)  BY <1>4 DEF Kept, Same
  <1>6. ~tcb'[current[c]].interruptible
    BY <1>1, <1>4, RunningTask DEF Same, LifeInv, NotPreempted, cur
  <1>8. /\ \A d \in CPUs : d # c => code'[d] = code[d]
        /\ code'[c][1] = code[c][1] /\ Last(code'[c]) = f
        /\ Below(code'[c]) /\ NewPid(code'[c])
    BY <1>1, <1>3, MoveShape
  <1> QED  BY <1>1, <1>3, <1>5, <1>6, <1>8, SameQuiet

(* The choice: an idle task that it makes RUNNING is the CPU's. *)
LEMMA PickQuiet ==
  ASSUME TaskInv, TaskInv', LifeInv, IdlesListed, NEW c \in CPUs, Pick(c)
  PROVE  Quiet(c) /\ IdleStep(c)
  <1> DEFINE p == Top(c).pid
             u == tasks[p]
  <1>1. /\ Top(c).pc = "pick" /\ Top(c).pc \in InnerPCs /\ p # NoPid
        /\ UNCHANGED <<tasks, ctx, current>>
    BY DEF Pick, At, InnerPCs
  <1>2. Top(c) \in InnerFrames /\ Top(c) \in Frames /\ p \in Pids  BY <1>1, TopFrame DEF Frames
  <1>4. CASE u = NULL
    <2> DEFINE f == [Top(c) EXCEPT !.pc = "fault"]
    <2>1. Replace(c, f) /\ tcb' = tcb  BY <1>4 DEF Pick, Fault, Goto
    <2>2. f \in InnerFrames /\ f.pc = "fault" /\ f.isr = Top(c).isr /\ f.pc \in SchedPCs
      BY <1>2, FrameMove DEF InnerPCs, SchedPCs
    <2> HIDE DEF f
    <2>3. Kept(c)  BY <2>1 DEF Kept
    <2>4. /\ \A d \in CPUs : d # c => code'[d] = code[d]
          /\ code'[c][1] = code[c][1] /\ Last(code'[c]) = f
          /\ Below(code'[c]) /\ NewPid(code'[c])
      BY <1>1, <2>1, <2>2, MoveShape, Zenon
    <2> QED  BY <1>1, <2>2, <2>3, <2>4, SameQuiet
  <1>5. CASE u # NULL
    <2> DEFINE f == [Top(c) EXCEPT !.pc = "go"]
               q == [tcb[u] EXCEPT !.state = "RUNNING"]
    <2>1. Replace(c, f) /\ tcb' = [tcb EXCEPT ![u] = q]  BY <1>5 DEF Pick, Goto
    <2>2. f \in InnerFrames /\ f.pc = "go" /\ f.isr = Top(c).isr /\ f.pc \in SchedPCs /\ f.pid = p
      BY <1>1, <1>2 DEF InnerFrames, InnerPCs, SchedPCs, Frames, PCs
    <2>3. tcb \in [Tcbs -> TaskStructs] /\ u \in Tcbs /\ tcb[u] \in TaskStructs
      BY <1>2, <1>5 DEF TaskInv, StructsOK, ListOK, Listable
    <2>4. /\ q.pid = tcb[u].pid /\ q.mapped = tcb[u].mapped /\ q.interruptible = tcb[u].interruptible
          /\ q.state = "RUNNING"
      BY <2>3 DEF TaskStructs
    <2> HIDE DEF f, q
    <2>5. tcb'[u] = q /\ \A t \in Tcbs : t # u => tcb'[t] = tcb[t]  BY <2>1, <2>3
    <2>6. /\ \A d \in CPUs : d # c => code'[d] = code[d]
          /\ code'[c][1] = code[c][1] /\ Last(code'[c]) = f
          /\ Below(code'[c]) /\ NewPid(code'[c])
      BY <1>1, <2>1, <2>2, MoveShape, Zenon
    <2>7. ~tcb'[current[c]].interruptible
      BY <1>1, <2>4, <2>5, RunningTask DEF LifeInv, NotPreempted, cur
    <2>8. Quiet(c)  BY <1>1, <2>2, <2>4, <2>5, <2>6, <2>7, Zenon DEF Quiet
    <2>9. \A t \in Idles : t = u => Owns(c, t)'  BY <1>1, <2>2, <2>6, Zenon DEF Owns, At, Top
    <2>10. ASSUME NEW t \in Idles, tcb'[t].state = "RUNNING"
           PROVE  Owns(c, t)' \/ (tcb[t].state = "RUNNING" /\ ~Owns(c, t))
      <3>1. ~Owns(c, t)  BY <1>1 DEF Owns, At
      <3>2. t # u => tcb'[t] = tcb[t]  BY <2>5 DEF Tcbs
      <3>3. t = u => Owns(c, t)'  BY <2>9
      <3> QED  BY <2>10, <3>1, <3>2, <3>3
    <2> QED  BY <2>6, <2>8, <2>10 DEF IdleStep
  <1> QED  BY <1>4, <1>5

(* The end of schedule: whatever it returns to is not between a search and *)
(* its choice, and an idle task returns to its hlt if it was interrupted   *)
(* once.                                                                   *)
LEMMA LeaveQuiet ==
  ASSUME TaskInv, LifeInv, IdlesListed, Undamaged, NEW c \in CPUs, Leave(c)
  PROVE  Quiet(c) /\ IdleStep(c)
  <1> DEFINE u == current[c]
             q == [tcb[u] EXCEPT !.interruptible = TRUE]
  <1>1. /\ Top(c).pc = "resumed" /\ Top(c).pc \in InnerPCs
        /\ tcb' = [tcb EXCEPT ![u] = q] /\ Return(c)
        /\ UNCHANGED <<tasks, ctx, current>>
    BY DEF Leave, At, InnerPCs
  <1>2. tcb \in [Tcbs -> TaskStructs] /\ u \in Tcbs /\ tcb[u] \in TaskStructs
    BY RunningTask DEF TaskInv, StructsOK
  <1>3. q.pid = tcb[u].pid /\ q.state = tcb[u].state /\ q.mapped = tcb[u].mapped
    BY <1>2 DEF TaskStructs
  <1> HIDE DEF q
  <1>4. tcb'[u] = q /\ \A t \in Tcbs : t # u => tcb'[t] = tcb[t]  BY <1>1, <1>2
  <1>5. /\ \A d \in CPUs : d # c => code'[d] = code[d]
        /\ code'[c][1] = code[c][1] /\ code'[c] \in Stacks
        /\ Below(code'[c]) /\ NewPid(code'[c])
        /\ Last(code'[c]).pc \notin {"removed", "dead", "scan", "pick", "go", "swap"}
        /\ Len(code[c]) = 2 => Last(code'[c]) = code[c][1] /\ Len(code'[c]) = 1
    BY <1>1, ReturnShape
  <1>6. Quiet(c)  BY <1>1, <1>3, <1>4, <1>5 DEF Quiet
  <1>7. ASSUME HandlersApart, NEW t \in Idles, tcb'[t].state = "RUNNING"
        PROVE  Owns(c, t)' \/ (tcb[t].state = "RUNNING" /\ ~Owns(c, t))
    <2>1. tcb[t].state = "RUNNING"  BY <1>3, <1>4, <1>7 DEF Tcbs
    <2>2. CASE Owns(c, t)
      <3>1. code[c][1].t = t /\ current[c] = t
        BY <1>1, <2>2 DEF Owns, At, Undamaged, ContextsKept
      <3>2. code[c] \in Stacks /\ code[c][1] \in OuterFrames  BY DEF TaskInv, StacksOK, Stacks
      <3>3. Len(code[c]) = 2
        <4>1. Len(code[c]) \in Nat /\ Len(code[c]) >= 2  BY <1>1, <3>2, StackTop DEF Top
        <4>2. \A i \in 2 .. Len(code[c]) : code[c][i].isr  BY <3>1, <3>2 DEF Stacks
        <4>3. \A i \in 1 .. Len(code[c]) - 1 : ~code[c][i].isr
          BY <1>7 DEF HandlersApart, OneHandler
        <4>4. \A n \in Nat : n >= 2 /\ n # 2 => 2 \in 2 .. n /\ 2 \in 1 .. n - 1  OBVIOUS
        <4> QED  BY <4>1, <4>2, <4>3, <4>4, Zenon
      <3>4. Last(code'[c]).pc \in OuterPCs  BY <1>5, <3>2, <3>3 DEF OuterFrames
      <3>5. Owns(c, t)'
        BY <1>1, <3>1, <3>4 DEF Owns, At, Top, OuterPCs
      <3> QED  BY <3>5
    <2> QED  BY <2>1, <2>2
  <1> QED  BY <1>5, <1>6, <1>7 DEF IdleStep

(* task_switch_to when the slot has been emptied *)
LEMMA SwitchFaultQuiet ==
  ASSUME TaskInv, TaskInv', LifeInv, IdlesListed, NEW c \in CPUs, SwitchTo(c), tasks[Top(c).pid] = NULL
  PROVE  Quiet(c) /\ IdleStep(c)
  <1> DEFINE f == [Top(c) EXCEPT !.pc = "fault"]
  <1>1. /\ Top(c).pc = "go" /\ Top(c).pc \in InnerPCs /\ Replace(c, f)
        /\ UNCHANGED <<tasks, tcb, ctx, current>>
    BY DEF SwitchTo, At, InnerPCs, Fault, Goto
  <1>2. Top(c) \in InnerFrames  BY <1>1, TopFrame
  <1>3. f \in InnerFrames /\ f.pc = "fault" /\ f.isr = Top(c).isr /\ f.pc \in SchedPCs
    BY <1>2, FrameMove DEF InnerPCs, SchedPCs
  <1> HIDE DEF f
  <1>5. /\ \A d \in CPUs : d # c => code'[d] = code[d]
        /\ code'[c][1] = code[c][1] /\ Last(code'[c]) = f
        /\ Below(code'[c]) /\ NewPid(code'[c])
    BY <1>1, <1>3, MoveShape, Zenon
  <1>6. Quiet(c)  BY <1>1, <1>3, <1>5 DEF Quiet
  <1>7. \A t \in Idles : ~Owns(c, t)
    BY <1>1, UsersAssumption, Zenon DEF Owns, At, Tcbs
  <1> QED  BY <1>1, <1>5, <1>6, <1>7, Zenon DEF IdleStep

-----------------------------------------------------------------------------
(* The steps that write the list, _current or a context. *)

(* and the only ones with an idle task. *)
LEMMA IdleSlot ==
  ASSUME LifeInv, IdlesListed, NEW q \in Pids, tasks[q] \in Idles
  PROVE  q \in CPUs
  <1>1. PICK i \in CPUs : tasks[q] = Idle(i)  BY DEF Idles
  <1>2. i \in Pids /\ tasks[i] = Idle(i)  BY IdleSlots DEF IdlesListed
  <1>3. Idle(i) # NULL  BY UsersAssumption DEF Tcbs, Idles
  <1>4. tcb[Idle(i)].pid = q /\ tcb[Idle(i)].pid = i
    BY <1>1, <1>2, <1>3 DEF LifeInv, ListSound
  <1> QED  BY <1>4

(* cpu_switch_to: the context that it loads is of the new _current, which  *)
(* has not ended, and the one that it saves is of another task.            *)
LEMMA SwapKeeps ==
  ASSUME TaskInv, LifeInv, IdlesListed, Undamaged, NEW c \in CPUs, Swap(c)
  PROVE  LifeInv' /\ IdlesListed' /\ OwnedKept
  <1> DEFINE f == [Frame("resumed") EXCEPT !.isr = Top(c).isr, !.iflag = iflag[c]]
             saved == Append(Front(code[c]), f)
             t == current[c]
             prev == code[c][1].t
  <1>1. Top(c).pc = "swap" /\ Top(c).pc \in InnerPCs /\ UNCHANGED <<tasks, tcb, current>>
    BY DEF Swap, At, InnerPCs
  <1>2. Top(c) \in Frames /\ Top(c).isr \in BOOLEAN /\ code[c] \in Stacks
    BY TopFrame
  <1>3. Top(c).t = t /\ Top(c).prev = prev /\ prev # t
    BY <1>1 DEF LifeInv, SwapSound, Undamaged, ContextsKept, At
  <1>4. t \in Tcbs /\ prev \in Tcbs
    BY <1>2 DEF TaskInv, ListOK, Stacks, OuterFrames, Tcbs
  <1>5. f \in InnerFrames /\ f.pc = "resumed" /\ f.isr = Top(c).isr
    BY <1>2, SavedFrame DEF TaskInv, FlagsOK
  <1>6. ctx' = [ctx EXCEPT ![Top(c).prev] = saved] /\ code' = [code EXCEPT ![c] = ctx'[Top(c).t]]
    BY DEF Swap
  <1> HIDE DEF f
  <1>7. /\ saved \in Stacks /\ Last(saved) = f /\ Len(saved) = Len(code[c])
        /\ \A i \in 1 .. Len(code[c]) - 1 : saved[i] = code[c][i]
        /\ saved[1] = code[c][1]
    BY <1>1, <1>2, <1>5, StackStep DEF Top, SchedPCs
  <1> HIDE DEF saved
  <1>8. ctx'[prev] = saved /\ \A u \in Tcbs : u # prev => ctx'[u] = ctx[u]
    BY <1>3, <1>4, <1>6 DEF TaskInv, StacksOK
  <1>9. code'[c] = ctx[t] /\ \A d \in CPUs : d # c => code'[d] = code[d]
    BY <1>3, <1>4, <1>6, <1>8 DEF TaskInv, StacksOK
  <1>10. Last(ctx[t]).pc \in {"hlt", "user", "resumed"}
    BY <1>4 DEF TaskInv, StacksOK, Contexts
  <1>11. ~Ended(ctx[t])  BY <1>4 DEF LifeInv, EndedOff
  <1>12. ListSound'  BY <1>1 DEF LifeInv, ListSound
  <1>13. RunnerSound'  BY <1>1, <1>9 DEF LifeInv, RunnerSound, At, Top, cur
  <1>14. EndedOff'
    <2>1. ASSUME NEW d \in CPUs, Ended(code'[d])
          PROVE  ~Listed(code[d][1].t)' /\ \A e \in CPUs \ {d} : current'[e] # code'[d][1].t
      <3>1. d # c /\ code'[d] = code[d]  BY <1>9, <1>11, <2>1
      <3> QED  BY <1>1, <2>1, <3>1 DEF LifeInv, EndedOff, Listed
    <2>2. ASSUME NEW u \in Tcbs, Ended(ctx'[u])
          PROVE  ~Listed(u)' /\ \A d \in CPUs : current'[d] # u
      <3>1. CASE u = prev
        <4>1. Ended(code[c])  BY <1>7, <1>8, <2>2, <3>1 DEF Ended
        <4>2. ~Listed(prev) /\ \A d \in CPUs \ {c} : current[d] # prev
          BY <4>1 DEF LifeInv, EndedOff
        <4> QED  BY <1>1, <1>3, <3>1, <4>2 DEF Listed
      <3>2. CASE u # prev
        BY <1>1, <1>8, <2>2, <3>2, Zenon DEF LifeInv, EndedOff, Listed
      <3> QED  BY <3>1, <3>2
    <2> QED  BY <2>1, <2>2 DEF EndedOff, Listed
  <1>15. EndedAlone'  BY <1>9, <1>11, Zenon DEF LifeInv, EndedAlone, Ended
  <1>16. NotPreempted'
    <2> SUFFICES ASSUME NEW d \in CPUs, Last(code'[d]).pc \in {"removed", "dead", "scan", "pick", "go"}
                 PROVE  ~tcb[current[d]].interruptible
      BY <1>1 DEF NotPreempted, Top, cur
    <2> QED  BY <1>9, <1>10 DEF LifeInv, NotPreempted, Top, cur
  <1>17. Below(saved) /\ NewPid(saved)
    <2>1. Below(saved)  BY <1>2, <1>7, BelowStep DEF LifeInv, BelowSound
    <2>2. NewPid(code[c]) /\ Last(saved).pc # "new"  BY <1>5, <1>7 DEF IdlesListed
    <2>3. Len(saved) <= Len(code[c]) + 1
      <3>1. Len(code[c]) \in Nat  BY <1>2, StackTop
      <3>2. \A m, n : n \in Nat /\ m = n => m <= n + 1  OBVIOUS
      <3> QED  BY <1>7, <3>1, <3>2, Zenon
    <2>4. \A i \in 1 .. Len(saved) - 1 : saved[i] = code[c][i]  BY <1>7
    <2>5. NewPid(saved)  BY <1>2, <1>7, <2>2, <2>3, <2>4, NewPidPush
    <2> QED  BY <2>1, <2>5
  <1>18. BelowSound'
    <2>1. \A d \in CPUs : Below(code'[d])  BY <1>4, <1>9 DEF LifeInv, BelowSound
    <2>2. \A u \in Tcbs : Below(ctx'[u])  BY <1>8, <1>17 DEF LifeInv, BelowSound
    <2> QED  BY <2>1, <2>2 DEF BelowSound, Below
  <1>19. SwapSound'  BY <1>1, <1>9, <1>10 DEF LifeInv, SwapSound, At, Top
  <1>20. IdlesListed'
    <2>1. \A d \in CPUs : NewPid(code'[d])  BY <1>4, <1>9, Zenon DEF IdlesListed
    <2>2. \A u \in Tcbs : NewPid(ctx'[u])  BY <1>8, <1>17 DEF IdlesListed
    <2> QED  BY <1>1, <2>1, <2>2, Zenon DEF IdlesListed, NewPid
  <1>21. OwnedKept
    <2> SUFFICES ASSUME IdlesOwned, NEW u \in Idles, tcb[u].state = "RUNNING"
                 PROVE  \E d \in CPUs : Owns(d, u)'
      BY <1>1 DEF OwnedKept, IdlesOwned
    <2>1. PICK d \in CPUs : Owns(d, u)  BY DEF IdlesOwned
    <2>2. Owns(d, u)'  BY <1>1, <1>9, <1>10, <2>1 DEF Owns, At, Top
    <2> QED  BY <2>2
  <1> QED
    BY <1>12, <1>13, <1>14, <1>15, <1>16, <1>18, <1>19, <1>20, <1>21 DEF LifeInv

(* task_switch_to: the task it makes _current is in the list. *)
LEMMA SwitchToKeeps ==
  ASSUME TaskInv, TaskInv', LifeInv, IdlesListed, NEW c \in CPUs, SwitchTo(c), tasks[Top(c).pid] # NULL
  PROVE  LifeInv' /\ IdlesListed' /\ OwnedKept
  <1> DEFINE p == Top(c).pid
             next == tasks[p]
             same == [Frame("resumed") EXCEPT !.isr = Top(c).isr]
             swap == [Top(c) EXCEPT !.pc = "swap", !.t = next, !.prev = current[c]]
             f == IF next = current[c] THEN same ELSE swap
  <1>1. /\ Top(c).pc = "go" /\ Top(c).pc \in InnerPCs /\ Replace(c, f)
        /\ current' = [current EXCEPT ![c] = next] /\ UNCHANGED <<tasks, tcb, ctx>>
    BY DEF SwitchTo, At, InnerPCs
  <1>2. Top(c) \in InnerFrames /\ Top(c) \in Frames /\ p \in Pids /\ Top(c).isr \in BOOLEAN
    BY <1>1, TopFrame DEF InnerFrames
  <1>3. next \in Tcbs /\ current[c] \in Tcbs /\ Listed(next)
    BY <1>2 DEF TaskInv, ListOK, Listable, Listed
  <1>4. /\ swap \in InnerFrames /\ swap.pc = "swap" /\ swap.isr = Top(c).isr
        /\ swap.t = next /\ swap.prev = current[c]
    BY <1>2, <1>3, Zenon DEF Frames, PCs, InnerFrames, InnerPCs, SchedPCs
  <1>5. same \in InnerFrames /\ same.pc = "resumed" /\ same.isr = Top(c).isr
    BY <1>2, PlainFrame
  <1> HIDE DEF swap, same
  <1>6. /\ f \in InnerFrames /\ f.pc \in {"resumed", "swap"} /\ f.isr = Top(c).isr
        /\ f.pc = "swap" => f.t = next /\ f.prev = current[c] /\ next # current[c]
    BY <1>4, <1>5, Zenon
  <1> HIDE DEF f
  <1>7. f.pc \in SchedPCs /\ f.pc # "new"  BY <1>6 DEF SchedPCs
  <1>8. /\ \A d \in CPUs : d # c => code'[d] = code[d]
        /\ code'[c][1] = code[c][1] /\ Last(code'[c]) = f
        /\ Below(code'[c]) /\ NewPid(code'[c])
    BY <1>1, <1>6, <1>7, MoveShape, Zenon
  <1>9. current'[c] = next /\ \A d \in CPUs : d # c => current'[d] = current[d]
    BY <1>1 DEF TaskInv, ListOK
  <1> HIDE DEF next
  <1>10. \A d \in CPUs : code'[d][1] = code[d][1]  BY <1>8
  <1>11. ListSound'  BY <1>1 DEF LifeInv, ListSound
  <1>12. RunnerSound'
    <2> SUFFICES ASSUME NEW d \in CPUs, At(d, "swap")' \/ code'[d][1].pc \notin {"dead", "bye"}
                 PROVE  tcb[current'[d]].mapped /\ tcb[current'[d]].state # "TERMINATED"
      BY <1>1 DEF RunnerSound, cur
    <2>1. CASE d # c
      BY <1>8, <1>9, <2>1 DEF LifeInv, RunnerSound, At, Top, cur
    <2>2. CASE d = c
      BY <1>2, <1>9, <2>2 DEF LifeInv, ListSound, next
    <2> QED  BY <2>1, <2>2
  <1>13. EndedOff'
    <2>1. ASSUME NEW d \in CPUs, Ended(code'[d])
          PROVE  ~Listed(code[d][1].t)' /\ \A e \in CPUs \ {d} : current'[e] # code'[d][1].t
      <3>1. ~Listed(code[d][1].t) /\ \A e \in CPUs \ {d} : current[e] # code[d][1].t
        BY <1>10, <2>1 DEF LifeInv, EndedOff, Ended
      <3> QED  BY <1>1, <1>3, <1>9, <1>10, <3>1 DEF Listed
    <2>2. ASSUME NEW t \in Tcbs, Ended(ctx'[t])
          PROVE  ~Listed(t)' /\ \A d \in CPUs : current'[d] # t
      <3>1. ~Listed(t) /\ \A d \in CPUs : current[d] # t  BY <1>1, <2>2 DEF LifeInv, EndedOff
      <3> QED  BY <1>1, <1>3, <1>9, <3>1 DEF Listed
    <2> QED  BY <2>1, <2>2 DEF EndedOff, Listed
  <1>14. EndedAlone'
    <2>1. Len(code[c]) # 1
      <3>1. Len(code[c]) \in Nat /\ Len(code[c]) >= 2
        BY <1>1, StackTop, Zenon DEF TaskInv, StacksOK, Top
      <3>2. \A n : n \in Nat /\ n >= 2 => n # 1  OBVIOUS
      <3> QED  BY <3>1, <3>2, Zenon
    <2>2. code[c][1].pc \notin {"removed", "dead"}  BY <2>1 DEF LifeInv, EndedAlone
    <2> QED  BY <1>8, <2>2 DEF LifeInv, EndedAlone
  <1>15. NotPreempted'
    <2> SUFFICES ASSUME NEW d \in CPUs, Last(code'[d]).pc \in {"removed", "dead", "scan", "pick", "go"}
                 PROVE  ~tcb[current'[d]].interruptible
      BY <1>1, Zenon DEF NotPreempted, Top, cur
    <2> QED  BY <1>6, <1>8, <1>9 DEF LifeInv, NotPreempted, Top, cur
  <1>16. BelowSound'
    <2>1. \A d \in CPUs : Below(code'[d])  BY <1>8, Zenon DEF LifeInv, BelowSound
    <2> QED  BY <1>1, <2>1, Zenon DEF LifeInv, BelowSound, Below
  <1>17. SwapSound'
    <2> SUFFICES ASSUME NEW d \in CPUs, Last(code'[d]).pc = "swap"
                 PROVE  /\ Last(code'[d]).t = current'[d]
                        /\ Last(code'[d]).prev # Last(code'[d]).t
      BY DEF SwapSound, At, Top
    <2>1. CASE d # c  BY <1>8, <1>9, <2>1 DEF LifeInv, SwapSound, At, Top
    <2>2. CASE d = c  BY <1>6, <1>8, <1>9, <2>2, Zenon
    <2> QED  BY <2>1, <2>2
  <1>18. IdlesListed'
    <2>1. \A d \in CPUs : NewPid(code'[d])  BY <1>8, Zenon DEF IdlesListed
    <2> QED  BY <1>1, <2>1 DEF IdlesListed, NewPid
  <1>19. OwnedKept
    <2> SUFFICES ASSUME IdlesOwned, NEW t \in Idles, tcb[t].state = "RUNNING"
                 PROVE  \E d \in CPUs : Owns(d, t)'
      BY <1>1 DEF OwnedKept, IdlesOwned
    <2>1. PICK d \in CPUs : Owns(d, t)  BY DEF IdlesOwned
    <2>2. CASE d = c
      <3>1. next = t  BY <1>1, <2>1, <2>2, Zenon DEF Owns, At, next
      <3>2. Owns(d, t)'  BY <1>6, <1>8, <1>9, <2>2, <3>1 DEF Owns, At, Top
      <3> QED  BY <3>2
    <2>3. CASE d # c
      <3>1. Owns(d, t)'  BY <1>1, <1>8, <1>9, <2>1, <2>3, Zenon DEF Owns, At, Top
      <3> QED  BY <3>1
    <2> QED  BY <2>2, <2>3
  <1> QED
    BY <1>11, <1>12, <1>13, <1>14, <1>15, <1>16, <1>17, <1>18, <1>19, Zenon DEF LifeInv

(* A task made by task_new: its task_struct was free, so nothing refers to *)
(* a task that had it before, other than a CPU that is leaving that task.  *)
LEMMA NewInstallKeeps ==
  ASSUME TaskInv, LifeInv, IdlesListed, Undamaged, Undamaged', NEW c \in CPUs, NewInstall(c)
  PROVE  LifeInv' /\ IdlesListed' /\ OwnedKept
  <1> DEFINE p == Top(c).pid
  <1>1. PICK t \in Users, prio \in Prios :
          /\ ~tcb[t].mapped
          /\ tcb' = [tcb EXCEPT ![t] = NewTask(prio, p)]
          /\ ctx' = [ctx EXCEPT ![t] = <<Entry(t)>>]
          /\ tasks' = [tasks EXCEPT ![p] = t]
    BY Zenon DEF NewInstall
  <1>2. Top(c).pc = "new" /\ Top(c).pc \in InnerPCs \ SchedPCs /\ Return(c) /\ current' = current
    BY DEF NewInstall, At, InnerPCs, SchedPCs
  <1>3. code[c] \in Stacks /\ code[c][1] \in OuterFrames /\ Len(code[c]) = 2
    BY <1>2, StackTop DEF TaskInv, StacksOK, Stacks, Top
  <1>4. p \in Pids \ CPUs
    <2>1. p \in Pids  BY <1>2, TopFrame DEF InnerFrames
    <2>2. code[c][2] = Top(c)  BY <1>3 DEF Top, Last
    <2>3. 2 >= 2  OBVIOUS
    <2> QED  BY <1>2, <1>3, <2>1, <2>2, <2>3 DEF IdlesListed, NewPid
  <1> HIDE DEF p
  <1>5. t \in Tcbs /\ t \notin Idles /\ t # NULL  BY UsersAssumption DEF Tcbs
  <1>6. /\ \A d \in CPUs : d # c => code'[d] = code[d]
        /\ code'[c][1] = code[c][1] /\ Below(code'[c]) /\ NewPid(code'[c])
        /\ Last(code'[c]).pc \notin {"removed", "dead", "scan", "pick", "go", "swap"}
        /\ Last(code'[c]) = code[c][1]
    BY <1>2, <1>3, ReturnShape, Zenon
  <1>7. \A d \in CPUs : code'[d][1] = code[d][1]  BY <1>6
  <1>8. tcb'[t] = NewTask(prio, p) /\ \A u \in Tcbs : u # t => tcb'[u] = tcb[u]
    BY <1>1, <1>5 DEF TaskInv, StructsOK
  <1>9. /\ tcb'[t].pid = p /\ tcb'[t].mapped /\ tcb'[t].state = "READY"
    BY <1>8 DEF NewTask
  <1>10. ctx'[t] = <<Entry(t)>> /\ \A u \in Tcbs : u # t => ctx'[u] = ctx[u]
    BY <1>1, <1>5 DEF TaskInv, StacksOK
  <1>11. tasks'[p] = t /\ \A q \in Pids : q # p => tasks'[q] = tasks[q]
    BY <1>1, <1>4 DEF TaskInv, ListOK
  <1>12. \A q \in Pids : tasks[q] # t  BY <1>1, <1>5 DEF LifeInv, ListSound
  <1>13. \A u : (\E q \in Pids : tasks'[q] = u) /\ u # t => Listed(u)
    BY <1>11 DEF Listed
  <1>14. \A d \in CPUs : current[d] \in Tcbs  BY DEF TaskInv, ListOK
  <1>15. \A q \in Pids : tasks[q] # NULL => tasks[q] \in Tcbs  BY DEF TaskInv, ListOK, Listable
  <1>16. ListSound'  BY <1>8, <1>9, <1>11, <1>12, <1>15 DEF LifeInv, ListSound
  <1>17. RunnerSound'
    <2> SUFFICES ASSUME NEW d \in CPUs, At(d, "swap")' \/ code'[d][1].pc \notin {"dead", "bye"}
                 PROVE  tcb'[current[d]].mapped /\ tcb'[current[d]].state # "TERMINATED"
      BY <1>2, Zenon DEF RunnerSound, cur
    <2>1. At(d, "swap") \/ code[d][1].pc \notin {"dead", "bye"}
      BY <1>6, <1>7 DEF At, Top
    <2>2. tcb[current[d]].mapped /\ tcb[current[d]].state # "TERMINATED"
      BY <2>1 DEF LifeInv, RunnerSound, cur
    <2> QED  BY <1>1, <1>8, <1>14, <2>2
  <1>18. ASSUME NEW d \in CPUs, Ended(code[d])
         PROVE  code[d][1].t # t
    <2> SUFFICES ASSUME code[d][1].t = t PROVE FALSE
      OBVIOUS
    <2>1. CASE code[d][1].pc \in {"dead", "bye"}
      BY <1>7, <1>9, <2>1 DEF Undamaged
    <2>2. CASE code[d][1].pc = "removed"
      <3>1. Top(d) = code[d][1]  BY <2>2 DEF LifeInv, EndedAlone, Top, Last
      <3>2. current[d] = t  BY <2>2, <3>1 DEF Undamaged, ContextsKept, At
      <3> QED  BY <1>1, <2>2, <3>2 DEF LifeInv, RunnerSound, cur
    <2> QED  BY <1>18, <2>1, <2>2 DEF Ended
  <1>19. EndedOff'
    <2>1. ASSUME NEW d \in CPUs, Ended(code'[d])
          PROVE  ~Listed(code[d][1].t)' /\ \A e \in CPUs \ {d} : current'[e] # code'[d][1].t
      <3>1. Ended(code[d])  BY <1>7, <2>1 DEF Ended
      <3>2. ~Listed(code[d][1].t) /\ \A e \in CPUs \ {d} : current[e] # code[d][1].t
        BY <3>1 DEF LifeInv, EndedOff
      <3>3. \A q \in Pids : tasks'[q] # code'[d][1].t  BY <1>7, <1>13, <1>18, <3>1, <3>2
      <3> QED  BY <1>2, <1>7, <3>2, <3>3 DEF Listed
    <2>2. ASSUME NEW u \in Tcbs, Ended(ctx'[u])
          PROVE  ~Listed(u)' /\ \A d \in CPUs : current'[d] # u
      <3>1. u # t
        <4>1. Entry(t).pc = "user"  BY DEF Entry, Frame
        <4> QED  BY <1>10, <2>2, <4>1 DEF Ended
      <3>2. ~Listed(u) /\ \A d \in CPUs : current[d] # u
        BY <1>10, <2>2, <3>1 DEF LifeInv, EndedOff
      <3>3. \A q \in Pids : tasks'[q] # u  BY <1>13, <3>1, <3>2
      <3> QED  BY <1>2, <3>2, <3>3 DEF Listed
    <2> QED  BY <2>1, <2>2 DEF EndedOff, Listed
  <1>20. EndedAlone'
    <2>1. 2 # 1  OBVIOUS
    <2>2. code[c][1].pc \notin {"removed", "dead"}  BY <1>3, <2>1 DEF LifeInv, EndedAlone
    <2> QED  BY <1>6, <2>2 DEF LifeInv, EndedAlone
  <1>21. NotPreempted'
    <2> SUFFICES ASSUME NEW d \in CPUs, Last(code'[d]).pc \in {"removed", "dead", "scan", "pick", "go"}
                 PROVE  ~tcb'[current[d]].interruptible
      BY <1>2 DEF NotPreempted, Top, cur
    <2>1. d # c /\ code'[d] = code[d] /\ Top(d).pc \in {"removed", "dead", "scan", "pick", "go"}
      BY <1>6 DEF Top
    <2>2. current[d] # t
      <3> SUFFICES ASSUME current[d] = t PROVE FALSE
        OBVIOUS
      <3>1. code[d][1].t = t  BY <2>1 DEF Undamaged, ContextsKept, At
      <3>2. code[d][1].pc \in {"dead", "bye"}  BY <1>1, Zenon DEF LifeInv, RunnerSound, cur
      <3> QED  BY <1>18, <3>1, <3>2 DEF Ended
    <2> QED  BY <1>8, <1>14, <2>1, <2>2, Zenon DEF LifeInv, NotPreempted, cur
  <1>22. Below(<<Entry(t)>>) /\ NewPid(<<Entry(t)>>)
    <2>1. Len(<<Entry(t)>>) = 1 /\ 1 .. 1 - 1 = {} /\ ~(1 >= 2)  OBVIOUS
    <2> QED  BY <2>1 DEF Below, NewPid
  <1>23. BelowSound'
    <2>1. \A d \in CPUs : Below(code'[d])  BY <1>6 DEF LifeInv, BelowSound
    <2>2. \A u \in Tcbs : Below(ctx'[u])  BY <1>10, <1>22 DEF LifeInv, BelowSound
    <2> QED  BY <2>1, <2>2 DEF BelowSound, Below
  <1>24. SwapSound'  BY <1>2, <1>6 DEF LifeInv, SwapSound, At, Top
  <1>25. IdlesListed'
    <2>1. \A i \in CPUs : tasks'[i] = Idle(i)  BY <1>4, <1>11, IdleSlots, Zenon DEF IdlesListed
    <2>2. \A u \in Users : tcb'[u].pid \notin CPUs
      BY <1>4, <1>8, <1>9 DEF IdlesListed, Tcbs
    <2>3. \A d \in CPUs : NewPid(code'[d])  BY <1>6 DEF IdlesListed
    <2>4. \A u \in Tcbs : NewPid(ctx'[u])  BY <1>10, <1>22 DEF IdlesListed
    <2> QED  BY <2>1, <2>2, <2>3, <2>4, Zenon DEF IdlesListed, NewPid
  <1>26. OwnedKept
    <2> SUFFICES ASSUME IdlesOwned, NEW u \in Idles, tcb'[u].state = "RUNNING"
                 PROVE  \E d \in CPUs : Owns(d, u)'
      BY DEF OwnedKept, IdlesOwned
    <2>1. u # t /\ u \in Tcbs  BY <1>5 DEF Tcbs
    <2>2. PICK d \in CPUs : Owns(d, u)  BY <1>8, <2>1 DEF IdlesOwned
    <2>3. CASE d = c
      <3>1. code[c][1].pc \in OuterPCs /\ current[c] = u
        BY <1>2, <1>3, <2>2, <2>3 DEF Owns, At, OuterFrames
      <3>2. Owns(d, u)'  BY <1>2, <1>6, <2>3, <3>1 DEF Owns, At, Top, OuterPCs
      <3> QED  BY <3>2
    <2>4. CASE d # c
      <3>1. At(d, "go") => Top(d).pid \in Pids  BY TopFrame DEF At, InnerPCs, InnerFrames
      <3>2. At(d, "go") => Top(d).pid # p  BY <1>4, <2>2, <3>1, IdleSlot, Zenon DEF Owns
      <3>3. Owns(d, u)'  BY <1>2, <1>6, <1>11, <2>2, <2>4, <3>1, <3>2 DEF Owns, At, Top
      <3> QED  BY <3>3
    <2> QED  BY <2>3, <2>4
  <1> QED
    BY <1>16, <1>17, <1>19, <1>20, <1>21, <1>23, <1>24, <1>25, <1>26 DEF LifeInv

(* Without memory, task_new empties a slot that is no idle task's. *)
LEMMA NewNoMemoryKeeps ==
  ASSUME TaskInv, LifeInv, IdlesListed, NEW c \in CPUs, NewNoMemory(c)
  PROVE  LifeInv' /\ IdlesListed' /\ OwnedKept
  <1> DEFINE p == Top(c).pid
  <1>1. /\ Top(c).pc = "new" /\ Top(c).pc \in InnerPCs \ SchedPCs /\ Return(c)
        /\ UNCHANGED <<tcb, ctx, current>> /\ tasks' = [tasks EXCEPT ![p] = NULL]
    BY DEF NewNoMemory, At, InnerPCs, SchedPCs
  <1>2. code[c] \in Stacks /\ code[c][1] \in OuterFrames /\ Len(code[c]) = 2
    BY <1>1, StackTop DEF TaskInv, StacksOK, Stacks, Top
  <1>3. p \in Pids \ CPUs
    <2>1. p \in Pids  BY <1>1, TopFrame DEF InnerFrames
    <2>2. code[c][2] = Top(c)  BY <1>2 DEF Top, Last
    <2>3. 2 >= 2  OBVIOUS
    <2> QED  BY <1>1, <1>2, <2>1, <2>2, <2>3 DEF IdlesListed, NewPid
  <1> HIDE DEF p
  <1>4. /\ \A d \in CPUs : d # c => code'[d] = code[d]
        /\ code'[c][1] = code[c][1] /\ Below(code'[c]) /\ NewPid(code'[c])
        /\ Last(code'[c]).pc \notin {"removed", "dead", "scan", "pick", "go", "swap"}
        /\ Last(code'[c]) = code[c][1]
    BY <1>1, <1>2, ReturnShape, Zenon
  <1>5. \A d \in CPUs : code'[d][1] = code[d][1]  BY <1>4
  <1>6. \A q \in Pids : tasks'[q] = IF q = p THEN NULL ELSE tasks[q]  BY <1>1 DEF TaskInv, ListOK
  <1>7. \A t \in Tcbs : Listed(t)' => Listed(t)  BY <1>6, UsersAssumption DEF Listed
  <1>8. ListSound'  BY <1>1, <1>6 DEF LifeInv, ListSound
  <1>9. RunnerSound'  BY <1>1, <1>4, <1>5 DEF LifeInv, RunnerSound, At, Top, cur
  <1>10. EndedOff'
    <2>1. \A d \in CPUs : code[d][1].t \in Tcbs
      <3>1. \A d \in CPUs : code[d][1] \in OuterFrames  BY DEF TaskInv, StacksOK, Stacks
      <3> QED  BY <3>1 DEF OuterFrames, Tcbs
    <2>2. ASSUME NEW d \in CPUs, Ended(code'[d])
          PROVE  ~Listed(code[d][1].t)' /\ \A e \in CPUs \ {d} : current'[e] # code'[d][1].t
      <3>1. ~Listed(code[d][1].t) /\ \A e \in CPUs \ {d} : current[e] # code[d][1].t
        BY <1>5, <2>2 DEF LifeInv, EndedOff, Ended
      <3>2. \A q \in Pids : tasks'[q] # code'[d][1].t
        BY <1>5, <1>6, <2>1, <3>1, UsersAssumption DEF Listed
      <3> QED  BY <1>1, <1>5, <3>1, <3>2 DEF Listed
    <2>3. ASSUME NEW t \in Tcbs, Ended(ctx'[t])
          PROVE  ~Listed(t)' /\ \A d \in CPUs : current'[d] # t
      BY <1>1, <1>7, <2>3 DEF LifeInv, EndedOff
    <2> QED  BY <2>2, <2>3 DEF EndedOff, Listed
  <1>11. EndedAlone'
    <2>1. 2 # 1  OBVIOUS
    <2>2. code[c][1].pc \notin {"removed", "dead"}  BY <1>2, <2>1 DEF LifeInv, EndedAlone
    <2> QED  BY <1>4, <2>2 DEF LifeInv, EndedAlone
  <1>12. NotPreempted'  BY <1>1, <1>4 DEF LifeInv, NotPreempted, Top, cur
  <1>13. BelowSound' /\ SwapSound'
    BY <1>1, <1>4 DEF LifeInv, BelowSound, SwapSound, Below, At, Top
  <1>14. IdlesListed'
    <2>1. \A i \in CPUs : tasks'[i] = Idle(i)  BY <1>3, <1>6, IdleSlots, Zenon DEF IdlesListed
    <2>2. \A d \in CPUs : NewPid(code'[d])  BY <1>4 DEF IdlesListed
    <2> QED  BY <1>1, <2>1, <2>2 DEF IdlesListed, NewPid
  <1>15. OwnedKept
    <2> SUFFICES ASSUME IdlesOwned, NEW u \in Idles, tcb[u].state = "RUNNING"
                 PROVE  \E d \in CPUs : Owns(d, u)'
      BY <1>1 DEF OwnedKept, IdlesOwned
    <2>1. PICK d \in CPUs : Owns(d, u)  BY DEF IdlesOwned
    <2>2. CASE d = c
      <3>1. code[c][1].pc \in OuterPCs /\ current[c] = u
        BY <1>1, <1>2, <2>1, <2>2 DEF Owns, At, OuterFrames
      <3>2. Owns(d, u)'  BY <1>1, <1>4, <2>2, <3>1 DEF Owns, At, Top, OuterPCs
      <3> QED  BY <3>2
    <2>3. CASE d # c
      <3>1. At(d, "go") => Top(d).pid \in Pids  BY TopFrame DEF At, InnerPCs, InnerFrames
      <3>2. At(d, "go") => Top(d).pid # p  BY <1>3, <2>1, <3>1, IdleSlot, Zenon DEF Owns
      <3>3. Owns(d, u)'  BY <1>1, <1>4, <1>6, <2>1, <2>3, <3>1, <3>2 DEF Owns, At, Top
      <3> QED  BY <3>3
    <2> QED  BY <2>2, <2>3
  <1> QED
    BY <1>8, <1>9, <1>10, <1>11, <1>12, <1>13, <1>14, <1>15 DEF LifeInv

-----------------------------------------------------------------------------
(* The steps in which a task ends. *)

(* What they leave of the stacks *)
LEMMA EndEffect ==
  ASSUME TaskInv, Undamaged, NEW c \in CPUs, Top(c).pc \in {"user", "removed", "dead"},
         NEW p \in {"removed", "dead", "bye"}, Goto(c, p)
  PROVE  /\ \A d \in CPUs : d # c => code'[d] = code[d]
         /\ Len(code'[c]) = 1 /\ Last(code'[c]) = code'[c][1]
         /\ code'[c][1].pc = p /\ code'[c][1].t = current[c]
         /\ Top(c) = code[c][1] /\ current[c] \in Users
  <1> DEFINE g == [Top(c) EXCEPT !.pc = p]
  <1>1. code[c] \in Stacks /\ code \in [CPUs -> Stacks]  BY DEF TaskInv, StacksOK
  <1>2. Top(c).pc \in OuterPCs /\ Top(c) \in OuterFrames /\ Top(c) = code[c][1]
    BY TopFrame DEF OuterPCs
  <1>3. g \in OuterFrames /\ g.pc = p /\ g.t = Top(c).t
    <2>1. p \in OuterPCs /\ p # "hlt" /\ Top(c).pc # "hlt"  BY DEF OuterPCs
    <2> QED  BY <1>2, <2>1, FrameGoto
  <1>4. current[c] = Top(c).t  BY <1>2 DEF Undamaged, ContextsKept, At
  <1>5. current[c] \in Users  BY <1>2, <1>4 DEF OuterFrames
  <1>6. code' = [code EXCEPT ![c] = Append(Front(code[c]), g)]  BY DEF Goto, Replace
  <1> HIDE DEF g
  <1>7. code'[c] = Append(Front(code[c]), g) /\ \A d \in CPUs : d # c => code'[d] = code[d]
    BY <1>1, <1>6
  <1>8. code'[c] = <<g>>  BY <1>1, <1>2, <1>3, <1>7, StackBase, Zenon DEF Top
  <1>9. Len(code'[c]) = 1 /\ code'[c][1] = g  BY <1>8
  <1>10. Last(code'[c]) = g  BY <1>9 DEF Last
  <1> QED  BY <1>2, <1>3, <1>4, <1>5, <1>7, <1>9, <1>10

(* They keep the two invariants: nobody else is on the task, and it has    *)
(* left the list with the first of them.                                   *)
LEMMA EndKeeps ==
  ASSUME TaskInv, LifeInv, IdlesListed, Undamaged, NEW c \in CPUs,
         Top(c).pc \in {"user", "removed", "dead"},
         NEW p \in {"removed", "dead", "bye"}, Goto(c, p), UNCHANGED <<ctx, current>>,
         \A t \in Tcbs : t # current[c] => tcb'[t] = tcb[t],
         tcb'[current[c]].pid = tcb[current[c]].pid,
         p # "bye" => ~tcb'[current[c]].interruptible,
         p = "removed" => tcb'[current[c]].mapped /\ tcb'[current[c]].state # "TERMINATED",
         \A q \in Pids : /\ tasks'[q] \in {tasks[q], NULL} /\ tasks'[q] # current[c]
                         /\ tasks[q] \in Idles => tasks'[q] = tasks[q]
  PROVE  LifeInv' /\ IdlesListed' /\ OwnedKept
  <1> DEFINE u == current[c]
  <1>1. /\ \A d \in CPUs : d # c => code'[d] = code[d]
        /\ Len(code'[c]) = 1 /\ Last(code'[c]) = code'[c][1]
        /\ code'[c][1].pc = p /\ code'[c][1].t = u
        /\ Top(c) = code[c][1] /\ u \in Users
    BY EndEffect, Zenon
  <1>2. \A d \in CPUs : current[d] \in Tcbs /\ (d # c => current[d] # u)
    BY Zenon DEF TaskInv, ListOK, Undamaged
  <1>3. \A q \in Pids : tasks[q] # NULL => tasks[q] \in Tcbs  BY Zenon DEF TaskInv, ListOK, Listable
  <1>4. \A t \in Tcbs : Listed(t)' => Listed(t)  BY UsersAssumption DEF Listed
  <1>5. ListSound'  BY <1>3 DEF LifeInv, ListSound
  <1>6. RunnerSound'
    <2> SUFFICES ASSUME NEW d \in CPUs, At(d, "swap")' \/ code'[d][1].pc \notin {"dead", "bye"}
                 PROVE  tcb'[current[d]].mapped /\ tcb'[current[d]].state # "TERMINATED"
      BY DEF RunnerSound, cur
    <2>1. CASE d # c
      <3>1. code'[d] = code[d] /\ tcb'[current[d]] = tcb[current[d]]  BY <1>1, <1>2, <2>1, Zenon
      <3>2. At(d, "swap") \/ code[d][1].pc \notin {"dead", "bye"}  BY <3>1, Zenon DEF At, Top
      <3> QED  BY <3>1, <3>2 DEF LifeInv, RunnerSound, cur
    <2>2. CASE d = c
      <3>1. p = "removed"  BY <1>1, <2>2 DEF At, Top
      <3> QED  BY <2>2, <3>1, Zenon
    <2> QED  BY <2>1, <2>2
  <1>7. EndedOff'
    <2>1. ASSUME NEW d \in CPUs, Ended(code'[d])
          PROVE  ~Listed(code[d][1].t)' /\ \A e \in CPUs \ {d} : current'[e] # code'[d][1].t
      <3>1. CASE d = c
        <4>1. \A q \in Pids : tasks'[q] # code'[c][1].t  BY <1>1
        <4> QED  BY <1>1, <1>2, <3>1, <4>1, Zenon DEF Listed
      <3>2. CASE d # c
        <4>1. code'[d] = code[d] /\ code[d][1] \in OuterFrames
          BY <1>1, <3>2, Zenon DEF TaskInv, StacksOK, Stacks
        <4>2. code[d][1].t # NULL
          BY <4>1, UsersAssumption, Zenon DEF OuterFrames, Tcbs
        <4>3. ~Listed(code[d][1].t) /\ \A e \in CPUs \ {d} : current[e] # code[d][1].t
          BY <2>1, <4>1, Zenon DEF LifeInv, EndedOff
        <4>4. \A q \in Pids : tasks'[q] # code'[d][1].t  BY <4>1, <4>2, <4>3, Zenon DEF Listed
        <4> QED  BY <4>1, <4>3, <4>4 DEF Listed
      <3> QED  BY <3>1, <3>2, Zenon
    <2>2. ASSUME NEW t \in Tcbs, Ended(ctx'[t])
          PROVE  ~Listed(t)' /\ \A d \in CPUs : current'[d] # t
      BY <1>4, <2>2, UsersAssumption, Zenon DEF LifeInv, EndedOff
    <2> QED  BY <2>1, <2>2, Zenon DEF EndedOff, Listed
  <1>8. EndedAlone'  BY <1>1, Zenon DEF LifeInv, EndedAlone
  <1>9. NotPreempted'
    <2> SUFFICES ASSUME NEW d \in CPUs, Last(code'[d]).pc \in {"removed", "dead", "scan", "pick", "go"}
                 PROVE  ~tcb'[current[d]].interruptible
      BY DEF NotPreempted, Top, cur
    <2>1. CASE d # c
      <3>1. code'[d] = code[d] /\ tcb'[current[d]] = tcb[current[d]]  BY <1>1, <1>2, <2>1
      <3> QED  BY <3>1 DEF LifeInv, NotPreempted, Top, cur
    <2>2. CASE d = c  BY <1>1, <2>2, Zenon
    <2> QED  BY <2>1, <2>2, Zenon
  <1>10. Below(code'[c]) /\ NewPid(code'[c])
    <2>1. 1 .. 1 - 1 = {} /\ ~(1 >= 2)  OBVIOUS
    <2>2. Below(code'[c])  BY <1>1, <2>1, Zenon DEF Below
    <2>3. NewPid(code'[c])  BY <1>1, <2>1, Zenon DEF NewPid
    <2> QED  BY <2>2, <2>3
  <1>11. BelowSound'  BY <1>1, <1>10, Zenon DEF LifeInv, BelowSound, Below
  <1>12. SwapSound'
    <2> SUFFICES ASSUME NEW d \in CPUs, Last(code'[d]).pc = "swap"
                 PROVE  Last(code'[d]).t = current[d] /\ Last(code'[d]).prev # Last(code'[d]).t
      BY DEF SwapSound, At, Top
    <2>1. d # c /\ code'[d] = code[d]  BY <1>1
    <2> QED  BY <2>1 DEF LifeInv, SwapSound, At, Top
  <1>13. IdlesListed'
    <2>1. \A i \in CPUs : tasks'[i] = Idle(i)  BY IdleSlots, ZenonT(30) DEF IdlesListed, Idles
    <2>2. \A t \in Users : tcb'[t].pid \notin CPUs
      BY DEF IdlesListed, Tcbs
    <2>3. \A d \in CPUs : NewPid(code'[d])  BY <1>1, <1>10, Zenon DEF IdlesListed
    <2> QED  BY <2>1, <2>2, <2>3, Zenon DEF IdlesListed, NewPid
  <1>14. OwnedKept
    <2> SUFFICES ASSUME IdlesOwned, NEW t \in Idles, tcb'[t].state = "RUNNING"
                 PROVE  \E d \in CPUs : Owns(d, t)'
      BY DEF OwnedKept, IdlesOwned
    <2>1. t # u /\ t \in Tcbs  BY <1>1, UsersAssumption, Zenon DEF Tcbs
    <2>2. PICK d \in CPUs : Owns(d, t)  BY <2>1 DEF IdlesOwned
    <2>3. d # c  BY <1>1, <2>1, <2>2, Zenon DEF Owns, At
    <2>4. At(d, "go") => Top(d).pid \in Pids
      BY TopFrame, Zenon DEF At, InnerPCs, InnerFrames
    <2>5. Owns(d, t)'  BY <1>1, <2>2, <2>3, <2>4, Zenon DEF Owns, At, Top
    <2> QED  BY <2>5
  <1> QED
    BY <1>5, <1>6, <1>7, <1>8, <1>9, <1>11, <1>12, <1>13, <1>14 DEF LifeInv

(* on_current_task_return_cb *)
LEMMA TaskReturnsKeeps ==
  ASSUME TaskInv, LifeInv, IdlesListed, Undamaged, NEW c \in CPUs, TaskReturns(c)
  PROVE  LifeInv' /\ IdlesListed' /\ OwnedKept
  <1> DEFINE u == current[c]
             q == [tcb[u] EXCEPT !.interruptible = FALSE]
  <1>1. /\ Top(c).pc = "user" /\ Goto(c, "removed") /\ UNCHANGED <<ctx, current>>
        /\ tcb' = [tcb EXCEPT ![u] = q] /\ tasks' = [tasks EXCEPT ![tcb[u].pid] = NULL]
    BY DEF TaskReturns, At, cur
  <1>2. tcb \in [Tcbs -> TaskStructs] /\ u \in Tcbs /\ tcb[u] \in TaskStructs
    BY RunningTask DEF TaskInv, StructsOK
  <1>3. u \in Users /\ Top(c) = code[c][1]  BY <1>1, EndEffect
  <1>4. /\ q.pid = tcb[u].pid /\ q.mapped = tcb[u].mapped /\ q.state = tcb[u].state
        /\ ~q.interruptible
    BY <1>2 DEF TaskStructs
  <1>5. tcb[u].mapped /\ tcb[u].state # "TERMINATED"
    BY <1>1, <1>3 DEF LifeInv, RunnerSound, cur
  <1> HIDE DEF q
  <1>6. tcb'[u] = q /\ \A t \in Tcbs : t # u => tcb'[t] = tcb[t]  BY <1>1, <1>2
  <1>7. ASSUME NEW n \in Pids
        PROVE  /\ tasks'[n] \in {tasks[n], NULL} /\ tasks'[n] # u
               /\ tasks[n] \in Idles => tasks'[n] = tasks[n]
    <2>1. tasks'[n] = IF n = tcb[u].pid THEN NULL ELSE tasks[n]
      BY <1>1 DEF TaskInv, ListOK
    <2>2. u # NULL  BY <1>2, UsersAssumption
    <2>3. tasks[n] = u => tcb[u].pid = n  BY <2>2 DEF LifeInv, ListSound
    <2>4. tasks[n] \in Idles => n # tcb[u].pid
      BY <1>3, IdleSlot DEF IdlesListed
    <2> QED  BY <2>1, <2>2, <2>3, <2>4
  <1> QED  BY <1>1, <1>4, <1>5, <1>6, <1>7, EndKeeps, Zenon

LEMMA TerminateKeeps ==
  ASSUME TaskInv, LifeInv, IdlesListed, Undamaged, NEW c \in CPUs, Terminate(c)
  PROVE  LifeInv' /\ IdlesListed' /\ OwnedKept
  <1> DEFINE u == current[c]
             q == [tcb[u] EXCEPT !.state = IF @ = "RUNNING" THEN "TERMINATED" ELSE @]
  <1>1. /\ Top(c).pc = "removed" /\ Goto(c, "dead") /\ UNCHANGED <<tasks, ctx, current>>
        /\ tcb' = [tcb EXCEPT ![u] = q]
    BY DEF Terminate, At
  <1>2. tcb \in [Tcbs -> TaskStructs] /\ u \in Tcbs /\ tcb[u] \in TaskStructs
    BY RunningTask DEF TaskInv, StructsOK
  <1>3. Top(c) = code[c][1] /\ code[c][1].t = u
    BY <1>1, EndEffect DEF Undamaged, ContextsKept, At
  <1>4. q.pid = tcb[u].pid /\ q.interruptible = tcb[u].interruptible
    BY <1>2 DEF TaskStructs
  <1> HIDE DEF q
  <1>5. tcb'[u] = q /\ \A t \in Tcbs : t # u => tcb'[t] = tcb[t]  BY <1>1, <1>2
  <1>6. ~tcb[u].interruptible  BY <1>1 DEF LifeInv, NotPreempted, cur
  <1>7. \A n \in Pids : tasks[n] # u  BY <1>1, <1>3 DEF LifeInv, EndedOff, Ended, Listed
  <1> QED  BY <1>1, <1>4, <1>5, <1>6, <1>7, EndKeeps

LEMMA CleanSelfKeeps ==
  ASSUME TaskInv, LifeInv, IdlesListed, Undamaged, NEW c \in CPUs, CleanSelf(c)
  PROVE  LifeInv' /\ IdlesListed' /\ OwnedKept
  <1> DEFINE u == current[c]
             q == [tcb[u] EXCEPT !.mapped = @ /\ ~cur(c).detached]
  <1>1. /\ Top(c).pc = "dead" /\ Goto(c, "bye") /\ UNCHANGED <<tasks, ctx, current>>
        /\ tcb' = [tcb EXCEPT ![u] = q]
    BY DEF CleanSelf, At
  <1>2. tcb \in [Tcbs -> TaskStructs] /\ u \in Tcbs /\ tcb[u] \in TaskStructs
    BY RunningTask DEF TaskInv, StructsOK
  <1>3. Top(c) = code[c][1] /\ code[c][1].t = u
    BY <1>1, EndEffect DEF Undamaged, ContextsKept, At
  <1>4. q.pid = tcb[u].pid  BY <1>2 DEF TaskStructs
  <1> HIDE DEF q
  <1>5. tcb'[u] = q /\ \A t \in Tcbs : t # u => tcb'[t] = tcb[t]  BY <1>1, <1>2
  <1>6. \A n \in Pids : tasks[n] # u  BY <1>1, <1>3 DEF LifeInv, EndedOff, Ended, Listed
  <1> QED  BY <1>1, <1>4, <1>5, <1>6, EndKeeps, Zenon

-----------------------------------------------------------------------------
(* Every step between two undamaged states keeps the two invariants. *)
LEMMA LifeStep ==
  ASSUME TaskInv, TaskInv', LifeInv, IdlesListed, Undamaged, Undamaged', [Next]_vars
  PROVE  LifeInv' /\ IdlesListed' /\ (HandlersApart => OwnedKept)
  <1>1. ASSUME NEW c \in CPUs, Quiet(c), IdleStep(c)
        PROVE  LifeInv' /\ IdlesListed' /\ (HandlersApart => OwnedKept)
    BY <1>1, QuietLife, QuietIdles
  <1>2. ASSUME NEW c \in CPUs, KernelStep(c)
        PROVE  LifeInv' /\ IdlesListed' /\ (HandlersApart => OwnedKept)
    <2>1. CASE JoinYields(c) \/ LastYield(c)  BY <1>1, <2>1, YieldQuiet
    <2>2. CASE JoinWaits(c) \/ JoinCleans(c)  BY <1>1, <2>2, JoinWaitsQuiet, JoinCleansQuiet
    <2>3. CASE Enter(c) \/ Scan(c) \/ Pick(c) \/ Recharge(c)
      BY <1>1, <2>3, EnterQuiet, ScanQuiet, PickQuiet, RechargeQuiet
    <2>4. CASE SwitchTo(c)  BY <1>1, <2>4, SwitchFaultQuiet, SwitchToKeeps
    <2>5. CASE Leave(c)  BY <1>1, <2>5, LeaveQuiet
    <2>6. CASE NewInstall(c) \/ NewNoMemory(c) \/ Terminate(c) \/ CleanSelf(c) \/ Swap(c)
      BY <2>6, NewInstallKeeps, NewNoMemoryKeeps, TerminateKeeps, CleanSelfKeeps, SwapKeeps
    <2> QED  BY <1>2, <2>1, <2>2, <2>3, <2>4, <2>5, <2>6 DEF KernelStep
  <1>3. ASSUME NEW c \in CPUs, UserStep(c)
        PROVE  LifeInv' /\ IdlesListed' /\ (HandlersApart => OwnedKept)
    <2>1. CASE UserYield(c)  BY <1>1, <2>1, YieldQuiet
    <2>2. CASE NewFindPid(c) \/ Detach(c) \/ Join(c)
      BY <1>1, <2>2, NewFindPidQuiet, DetachQuiet, JoinQuiet
    <2>3. CASE TaskReturns(c)  BY <2>3, TaskReturnsKeeps
    <2> QED  BY <1>3, <2>1, <2>2, <2>3 DEF UserStep
  <1>4. ASSUME NEW c \in CPUs, Tick(c)
        PROVE  LifeInv' /\ IdlesListed' /\ (HandlersApart => OwnedKept)
    BY <1>1, <1>4, TickQuiet
  <1>5. CASE UNCHANGED vars
    <2>1. UNCHANGED <<tcb, tasks, current, ctx, code>>  BY <1>5 DEF vars
    <2>2. ListSound' /\ RunnerSound' /\ SwapSound'
      BY <2>1 DEF LifeInv, ListSound, RunnerSound, SwapSound, At, Top, cur
    <2>3. EndedOff' /\ EndedAlone'  BY <2>1 DEF LifeInv, EndedOff, EndedAlone, Listed, Ended
    <2>4. NotPreempted' /\ BelowSound'  BY <2>1 DEF LifeInv, NotPreempted, BelowSound, Below, Top, cur
    <2>5. IdlesListed' /\ OwnedKept
      BY <2>1 DEF IdlesListed, OwnedKept, IdlesOwned, Owns, NewPid, At, Top
    <2> QED  BY <2>2, <2>3, <2>4, <2>5 DEF LifeInv
  <1> QED  BY <1>2, <1>3, <1>4, <1>5 DEF Next

(* As long as no context is damaged, a task in the list keeps its pid and  *)
(* its memory until it has left the list, a task that has returned is on   *)
(* no other CPU, and the idle tasks stay in their slots.                   *)
THEOREM LifeInvariant == Spec /\ []Undamaged => [](LifeInv /\ IdlesListed)
  <1>1. Init => TaskInv /\ LifeInv /\ IdlesListed  BY InitInv, InitLife
  <1>2. TaskInv /\ LifeInv /\ IdlesListed /\ Undamaged /\ Undamaged' /\ [Next]_vars =>
          (TaskInv /\ LifeInv /\ IdlesListed)'
    BY StepInv, LifeStep
  <1> QED  BY <1>1, <1>2, PTL DEF Spec

(* Neither on_current_task_return_cb nor task_join frees a task_struct     *)
(* that the list still points to, as long as no context is damaged.        *)
THEOREM ListNotDangling == Spec /\ []Undamaged => []NoDangling
  <1>1. LifeInv => NoDangling  BY DEF LifeInv, ListSound, NoDangling
  <1> QED  BY <1>1, LifeInvariant, PTL
=============================================================================
