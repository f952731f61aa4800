----------------------------- MODULE TasksJoin ------------------------------
(***************************************************************************)
(* What follows from the life of a task, for every number of CPUs, tasks   *)
(* and priorities: as long as no context is damaged, a task_struct that a  *)
(* task_join waits for is not freed, and schedule always finds a task if   *)
(* besides no handler of the timer is interrupted.                         *)
(*                                                                         *)
(* JoinInv is inductive on top of TaskInv and LifeInv.  It says that every *)
(* CPU has a stack of its own, that a task that is waited for is still     *)
(* mapped, and that one task waits for it, on a CPU or in the context it   *)
(* will be resumed with.  It needs one more hypothesis, SavedFirst: a CPU  *)
(* that goes on with a stack that another CPU has not saved yet goes on    *)
(* with an old one, perhaps in a task_join that is over.                   *)
(*                                                                         *)
(* That the handlers are not interrupted is one more hypothesis of the     *)
(* last part, HandlersMasked.  It makes HandlersApart inductive, and with  *)
(* it IdlesOwned.  MaskInv proves it where there is one CPU.               *)
(***************************************************************************)
EXTENDS TasksLife

-----------------------------------------------------------------------------
(* Who waits for whom in task_join, as long as no context is damaged. *)

(* A task is resumed only where its stack has been saved: no CPU is on a   *)
(* stack that another CPU has chosen to go on with.                        *)
SavedFirst == \A c, d \in CPUs : c # d => current[c] # code[d][1].t

(* The stack s is in a task_join of u. *)
Joining(s, u) == Len(s) >= 2 /\ s[2].pc \in {"join", "join_yield"} /\ s[2].t = u

(* The task t waits for u, on the CPU that is on t's stack or, if there is *)
(* none, in the context that t will be resumed with.                       *)
OnCpu(t) == \E c \in CPUs : code[c][1].t = t
Resumable(t) == ~OnCpu(t) /\ (Listed(t) \/ \E c \in CPUs : current[c] = t)
JoinedBy(t, u) ==
  \/ \E c \in CPUs : code[c][1].t = t /\ Joining(code[c], u)
  \/ Resumable(t) /\ Joining(ctx[t], u)

(* Its memory waits for the joiner, which nobody else gives back: *)
Held(u) == tcb[u].mapped /\ tcb[u].joined /\ ~tcb[u].detached

(* every CPU has a stack of its own, a task that is waited for is held,    *)
(* and one task waits for it.                                              *)
StacksApart == \A c, d \in CPUs : c # d => code[c][1].t # code[d][1].t
JoinedHeld == \A t \in Tcbs, u \in Users : JoinedBy(t, u) => Held(u)
JoinedOnce == \A t, v \in Tcbs, u \in Users : JoinedBy(t, u) /\ JoinedBy(v, u) => t = v
JoinInv == StacksApart /\ JoinedHeld /\ JoinedOnce

(* A step after which no more waits for anybody keeps the invariant if it  *)
(* takes nothing from a task that is still waited for.                     *)
LEMMA JoinLess ==
  ASSUME JoinInv, StacksApart',
         \A t \in Tcbs, u \in Users : JoinedBy(t, u)' => JoinedBy(t, u) /\ (Held(u) => Held(u)')
  PROVE  JoinInv'
  <1>1. JoinedHeld'  BY DEF JoinInv, JoinedHeld
  <1>2. JoinedOnce'  BY DEF JoinInv, JoinedOnce
  <1> QED  BY <1>1, <1>2 DEF JoinInv

(* The outermost frame of a CPU is a task's. *)
LEMMA BaseTask ==
  ASSUME TaskInv, NEW c \in CPUs
  PROVE  code[c][1].t \in Tcbs
  <1>1. code[c][1] \in OuterFrames  BY DEF TaskInv, StacksOK, Stacks
  <1> QED  BY <1>1 DEF OuterFrames, Tcbs

(* What a step of CPU c leaves if it leaves the contexts, puts nothing     *)
(* into the list and makes _current only what is in it: c's stack stays    *)
(* the task's own and is in no other task_join than before.                *)
JoinStep(c) ==
  /\ ctx' = ctx /\ \A t \in Tcbs : Listed(t)' => Listed(t)
  /\ \A d \in CPUs : current'[d] = current[d] \/ Listed(current'[d])
  /\ \A d \in CPUs : d # c => code'[d] = code[d]
  /\ code'[c][1].t = code[c][1].t
  /\ \A u \in Users : Joining(code'[c], u) => Joining(code[c], u)

(* After such a step no more waits than before, *)
LEMMA JoinStepLess ==
  ASSUME JoinInv, NEW c \in CPUs, JoinStep(c)
  PROVE  StacksApart' /\ \A t \in Tcbs, u \in Users : JoinedBy(t, u)' => JoinedBy(t, u)
  <1>1. \A d \in CPUs : code'[d][1].t = code[d][1].t  BY DEF JoinStep
  <1>2. StacksApart'  BY <1>1 DEF JoinInv, StacksApart
  <1>3. ASSUME NEW t \in Tcbs, NEW u \in Users, JoinedBy(t, u)'
        PROVE  JoinedBy(t, u)
    <2>1. \A d \in CPUs : Joining(code'[d], u) => Joining(code[d], u)  BY DEF JoinStep
    <2>2. CASE \E d \in CPUs : code'[d][1].t = t /\ Joining(code'[d], u)
      BY <1>1, <2>1, <2>2 DEF JoinedBy
    <2>3. CASE Resumable(t)' /\ Joining(ctx'[t], u)
      <3>1. Resumable(t)  BY <1>1, <2>3 DEF Resumable, OnCpu, JoinStep
      <3>2. ctx' = ctx  BY DEF JoinStep
      <3> QED  BY <2>3, <3>1, <3>2 DEF JoinedBy
    <2> QED  BY <1>3, <2>2, <2>3 DEF JoinedBy, Joining
  <1> QED  BY <1>2, <1>3

(* Nothing changes between r and q that decides about a task's memory. *)
Keeps(q, r) == q.mapped = r.mapped /\ q.joined = r.joined /\ q.detached = r.detached

(* so it keeps the invariant if it leaves those fields alone, *)
LEMMA JoinKept ==
  ASSUME JoinInv, NEW c \in CPUs, JoinStep(c), \A u \in Users : Keeps(tcb'[u], tcb[u])
  PROVE  JoinInv'
  <1>1. \A u \in Users : Held(u) => Held(u)'  BY DEF Keeps, Held
  <1> QED  BY <1>1, JoinStepLess, JoinLess

(* as a write of the scheduler to a task_struct does. *)
LEMMA KeepsWrite ==
  ASSUME TaskInv, NEW t \in Tcbs, NEW x,
         \/ tcb' = [tcb EXCEPT ![t].state = x]
         \/ tcb' = [tcb EXCEPT ![t].dynamic_prio = x]
         \/ tcb' = [tcb EXCEPT ![t].interruptible = x]
  PROVE  \A u \in Users : Keeps(tcb'[u], tcb[u])
  <1> DEFINE r == tcb[t]
  <1>1. tcb \in [Tcbs -> TaskStructs] /\ r \in TaskStructs  BY DEF TaskInv, StructsOK
  <1>2. PICK q : /\ q \in {[r EXCEPT !.state = x], [r EXCEPT !.dynamic_prio = x], [r EXCEPT !.interruptible = x]}
                 /\ tcb' = [tcb EXCEPT ![t] = q]
    BY Zenon
  <1>3. Keeps(q, r)  BY <1>1, <1>2 DEF Keeps, TaskStructs
  <1> HIDE DEF r
  <1>4. \A u \in Tcbs : tcb'[u] = IF u = t THEN q ELSE tcb[u]  BY <1>1, <1>2
  <1> QED  BY <1>3, <1>4 DEF Keeps, Tcbs, r

(* task_yield and the handler write two of them. *)
LEMMA KeepsPreempt ==
  ASSUME TaskInv, NEW c \in CPUs,
         tcb' = [tcb EXCEPT ![current[c]].state = Preempted(@),
                            ![current[c]].dynamic_prio = 0]
  PROVE  \A u \in Users : Keeps(tcb'[u], tcb[u])
  <1> DEFINE t == current[c]
             q == [tcb[t] EXCEPT !.state = Preempted(@), !.dynamic_prio = 0]
  <1>1. tcb \in [Tcbs -> TaskStructs] /\ t \in Tcbs /\ tcb[t] \in TaskStructs
    BY RunningTask DEF TaskInv, StructsOK
  <1>2. tcb' = [tcb EXCEPT ![t] = q]  BY <1>1, Zenon
  <1>3. Keeps(q, tcb[t])  BY <1>1 DEF Keeps, TaskStructs
  <1> HIDE DEF q
  <1>4. \A u \in Tcbs : tcb'[u] = IF u = t THEN q ELSE tcb[u]  BY <1>1, <1>2
  <1> QED  BY <1>3, <1>4, Zenon DEF Keeps, Tcbs

(* The task_join that a stack is in, when one frame is pushed or replaced, *)
LEMMA JoiningPush ==
  ASSUME NEW s \in Stacks, NEW r \in Stacks, Len(r) <= Len(s) + 1,
         \A i \in 1 .. Len(r) - 1 : r[i] = s[i],
         Last(r).pc \in {"join", "join_yield"} =>
           Len(r) = Len(s) /\ Last(s).pc \in {"join", "join_yield"} /\ Last(r).t = Last(s).t
  PROVE  \A u : Joining(r, u) => Joining(s, u)
  <1>1. Len(s) \in Nat /\ Len(r) \in Nat  BY StackTop
  <1>2. Len(r) = 2 => r[2] = Last(r)  BY DEF Last
  <1>3. Len(r) > 2 => r[2] = s[2] /\ Len(s) >= 2  BY <1>1
  <1>4. Len(r) >= 2 => Len(r) = 2 \/ Len(r) > 2
    <2>1. \A n \in Nat : n >= 2 => n = 2 \/ n > 2  OBVIOUS
    <2> QED  BY <1>1, <2>1, Zenon
  <1>5. Len(r) = 2 /\ Len(r) = Len(s) => s[2] = Last(s) /\ Len(s) >= 2
    <2>1. 2 >= 2  OBVIOUS
    <2> QED  BY <2>1, Zenon DEF Last
  <1> QED  BY <1>2, <1>3, <1>4, <1>5, Zenon DEF Joining

(* and when one returns. *)
LEMMA JoiningPop ==
  ASSUME NEW s \in Stacks, NEW r \in Stacks, Len(r) <= Len(s),
         \A i \in 1 .. Len(r) : r[i] = s[i]
  PROVE  \A u : Joining(r, u) => Joining(s, u)
  <1>1. Len(s) \in Nat /\ Len(r) \in Nat  BY StackTop
  <1>2. Len(r) >= 2 => r[2] = s[2] /\ Len(s) >= 2  BY <1>1
  <1> QED  BY <1>2, Zenon DEF Joining

(* The innermost frame moves on in its function, *)
LEMMA MoveJoin ==
  ASSUME TaskInv, TaskInv', NEW c \in CPUs, Top(c).pc \in InnerPCs,
         NEW f \in InnerFrames, f.isr = Top(c).isr, f.pc \in SchedPCs \/ Top(c).pc \notin SchedPCs,
         f.pc \in {"join", "join_yield"} => Top(c).pc \in {"join", "join_yield"} /\ f.t = Top(c).t,
         Replace(c, f), UNCHANGED <<tasks, ctx>>,
         \A d \in CPUs : current'[d] = current[d] \/ Listed(current'[d])
  PROVE  JoinStep(c)
  <1>1. /\ \A d \in CPUs : d # c => code'[d] = code[d]
        /\ code'[c][1] = code[c][1] /\ Last(code'[c]) = f /\ Len(code'[c]) = Len(code[c])
        /\ \A i \in 1 .. Len(code[c]) - 1 : code'[c][i] = code[c][i]
    BY ReplaceEffect
  <1>2. code[c] \in Stacks /\ code'[c] \in Stacks /\ Len(code[c]) \in Nat
    BY StackTop DEF TaskInv, StacksOK
  <1>3. Len(code'[c]) <= Len(code[c]) + 1
    <2>1. \A m, n : n \in Nat /\ m = n => m <= n + 1  OBVIOUS
    <2> QED  BY <1>1, <1>2, <2>1, Zenon
  <1>4. \A i \in 1 .. Len(code'[c]) - 1 : code'[c][i] = code[c][i]  BY <1>1
  <1>5. \A u : Joining(code'[c], u) => Joining(code[c], u)
    BY <1>1, <1>2, <1>3, <1>4, JoiningPush, Zenon DEF Top
  <1> QED  BY <1>1, <1>5 DEF JoinStep, Listed

(* a function other than task_join is called, *)
LEMMA CallJoin ==
  ASSUME TaskInv, TaskInv', NEW c \in CPUs, NEW f \in InnerFrames, Call(c, f),
         f.pc \notin {"join", "join_yield"},
         \/ Top(c).pc = "user"
         \/ f.pc \in SchedPCs /\ f.isr,
         UNCHANGED <<tasks, current, ctx>>
  PROVE  JoinStep(c)
  <1>1. /\ \A d \in CPUs : d # c => code'[d] = code[d]
        /\ code'[c][1] = code[c][1] /\ Last(code'[c]) = f /\ Len(code'[c]) = Len(code[c]) + 1
        /\ \A i \in 1 .. Len(code[c]) : code'[c][i] = code[c][i]
    BY CallEffect
  <1>2. code[c] \in Stacks /\ code'[c] \in Stacks /\ Len(code[c]) \in Nat
    BY StackTop DEF TaskInv, StacksOK
  <1>3. Len(code'[c]) <= Len(code[c]) + 1 /\ Len(code'[c]) - 1 = Len(code[c])
    BY <1>1, <1>2
  <1>4. \A i \in 1 .. Len(code'[c]) - 1 : code'[c][i] = code[c][i]  BY <1>1, <1>3
  <1>5. \A u : Joining(code'[c], u) => Joining(code[c], u)
    BY <1>1, <1>2, <1>3, <1>4, JoiningPush
  <1> QED  BY <1>1, <1>5 DEF JoinStep, Listed

(* one returns, *)
LEMMA ReturnJoin ==
  ASSUME TaskInv, NEW c \in CPUs, Top(c).pc \in InnerPCs, Return(c)
  PROVE  /\ \A d \in CPUs : d # c => code'[d] = code[d]
         /\ code'[c][1] = code[c][1]
         /\ \A u : Joining(code'[c], u) => Joining(code[c], u)
  <1>1. /\ \A d \in CPUs : d # c => code'[d] = code[d]
        /\ code'[c][1] = code[c][1] /\ code'[c] \in Stacks /\ Len(code'[c]) = Len(code[c]) - 1
        /\ \A i \in 1 .. Len(code[c]) - 1 : code'[c][i] = code[c][i]
    BY ReturnEffect
  <1>2. code[c] \in Stacks /\ Len(code[c]) \in Nat
    BY StackTop DEF TaskInv, StacksOK
  <1>3. Len(code'[c]) <= Len(code[c])
    <2>1. \A m, n : n \in Nat /\ m = n - 1 => m <= n  OBVIOUS
    <2> QED  BY <1>1, <1>2, <2>1, Zenon
  <1>4. \A i \in 1 .. Len(code'[c]) : code'[c][i] = code[c][i]  BY <1>1
  <1> QED  BY <1>1, <1>2, <1>3, <1>4, JoiningPop

(* or the task's own code goes on. *)
LEMMA BaseJoin ==
  ASSUME TaskInv, NEW c \in CPUs, Top(c).pc \in {"user", "removed", "dead", "bye"},
         NEW p \in {"removed", "dead", "bye"}, Goto(c, p), UNCHANGED <<current, ctx>>,
         \A t \in Tcbs : Listed(t)' => Listed(t)
  PROVE  JoinStep(c)
  <1> DEFINE f == [Top(c) EXCEPT !.pc = p]
  <1>1. code[c] \in Stacks /\ code \in [CPUs -> Stacks] /\ Top(c).pc \in OuterPCs /\ Top(c).pc # "hlt"
    BY DEF TaskInv, StacksOK, OuterPCs
  <1>2. Top(c) \in OuterFrames /\ Top(c) = code[c][1]
    BY <1>1, TopFrame
  <1>3. f \in OuterFrames /\ f.t = Top(c).t
    <2>1. p \in OuterPCs /\ p # "hlt"  BY DEF OuterPCs
    <2> QED  BY <1>1, <1>2, <2>1, FrameGoto
  <1>4. code'[c] = Append(Front(code[c]), f) /\ \A d \in CPUs : d # c => code'[d] = code[d]
    BY <1>1 DEF Goto, Replace
  <1> HIDE DEF f
  <1>5. code'[c] = <<f>>  BY <1>1, <1>3, <1>4, StackBase, Zenon DEF Top
  <1>6. code'[c][1] = f /\ ~(Len(code'[c]) >= 2)  BY <1>5
  <1> QED  BY <1>2, <1>3, <1>4, <1>6 DEF JoinStep, Joining

-----------------------------------------------------------------------------
(* The steps after which no more waits than before. *)

(* schedule up to its choice, an iteration of the loop of task_join, and   *)
(* task_switch_to if it finds an empty slot                                *)
LEMMA MovesJoin ==
  ASSUME TaskInv, TaskInv', NEW c \in CPUs,
         \/ Enter(c) \/ Recharge(c) \/ JoinWaits(c)
         \/ Pick(c) \/ (SwitchTo(c) /\ tasks[Top(c).pid] = NULL)
  PROVE  JoinStep(c)
  <1>1. PICK p \in {"scan", "join_yield", "go", "fault"} :
             /\ Goto(c, p) /\ UNCHANGED <<tasks, current, ctx>>
             /\ Top(c).pc \in {"sched", "pick", "join", "go"}
             /\ p = "join_yield" <=> Top(c).pc = "join"
             /\ p = "go" => Top(c).pid \in Pids
    <2>1. CASE Enter(c) \/ Recharge(c)  BY <2>1 DEF Enter, Recharge, At
    <2>2. CASE JoinWaits(c)  BY <2>2 DEF JoinWaits, At
    <2>3. CASE Pick(c)
      <3>1. Top(c).pid \in Pids  BY <2>3, TopFrame DEF Pick, Frames
      <3> QED  BY <2>3, <3>1 DEF Pick, Fault, At
    <2>4. CASE SwitchTo(c) /\ tasks[Top(c).pid] = NULL  BY <2>4 DEF SwitchTo, Fault, At
    <2> QED  BY <2>1, <2>2, <2>3, <2>4
  <1> DEFINE f == [Top(c) EXCEPT !.pc = p]
  <1>2. Top(c).pc \in InnerPCs /\ Top(c) \in InnerFrames  BY <1>1, TopFrame DEF InnerPCs
  <1>3. f \in InnerFrames /\ f.pc = p /\ f.isr = Top(c).isr /\ f.t = Top(c).t
    BY <1>1, <1>2 DEF InnerFrames, InnerPCs, SchedPCs, Frames, PCs
  <1>4. Replace(c, f)  BY <1>1 DEF Goto
  <1> HIDE DEF f
  <1>5. f.pc \in SchedPCs \/ Top(c).pc \notin SchedPCs  BY <1>1, <1>3 DEF SchedPCs
  <1>6. f.pc \in {"join", "join_yield"} => Top(c).pc \in {"join", "join_yield"} /\ f.t = Top(c).t
    BY <1>1, <1>3
  <1> QED  BY <1>1, <1>2, <1>3, <1>4, <1>5, <1>6, MoveJoin

(* the search of schedule *)
LEMMA ScanJoin ==
  ASSUME TaskInv, TaskInv', NEW c \in CPUs, Scan(c)
  PROVE  JoinStep(c)
  <1> DEFINE next == IF \E p \in Pids : Best(p) THEN CHOOSE p \in Pids : Best(p) ELSE NoPid
             f == [Top(c) EXCEPT !.pc = "pick", !.pid = next]
  <1>1. next \in Pids \cup {NoPid}  OBVIOUS
  <1>2. /\ Top(c).pc = "scan" /\ Top(c).pc \in InnerPCs /\ Replace(c, f)
        /\ UNCHANGED <<tasks, ctx, current>>
    BY DEF Scan, At, InnerPCs
  <1> HIDE DEF next
  <1>3. f \in InnerFrames /\ f.pc = "pick" /\ f.pc \in SchedPCs /\ f.isr = Top(c).isr
    BY <1>1, <1>2, TopFrame, Zenon DEF Frames, PCs, InnerFrames, InnerPCs, SchedPCs
  <1> HIDE DEF f
  <1> QED  BY <1>2, <1>3, MoveJoin

(* task_yield: the frame of task_join that calls it stays. *)
LEMMA YieldJoin ==
  ASSUME TaskInv, NEW c \in CPUs, UserYield(c) \/ JoinYields(c) \/ LastYield(c)
  PROVE  JoinStep(c)
  <1>1. /\ \A d \in CPUs : d # c => code'[d] = code[d]
        /\ code'[c][1] = code[c][1] /\ Last(code'[c]) = Frame("sched")
        /\ Len(code[c]) = 1 \/ (code'[c][2].pc = "join" /\ code'[c][2].t = code[c][2].t)
        /\ Len(code'[c]) = Len(code[c]) + 1 /\ Len(code[c]) \in 1 .. 2
    BY YieldEffect
  <1>2. UNCHANGED <<tasks, current, ctx>>  BY DEF UserYield, JoinYields, LastYield, Yield
  <1>3. CASE Len(code[c]) = 1
    <2>1. Len(code'[c]) = 2 /\ code'[c][2].pc = "sched"  BY <1>1, <1>3 DEF Last, Frame
    <2> QED  BY <1>1, <1>2, <2>1 DEF JoinStep, Joining, Listed
  <1>4. CASE Len(code[c]) # 1
    <2>1. Len(code[c]) = 2 /\ code[c] \in Stacks  BY <1>1, <1>4 DEF TaskInv, StacksOK
    <2>2. Top(c) = code[c][2]  BY <2>1 DEF Top, Last
    <2>3. Top(c).pc \notin {"user", "bye"}
      BY <2>1, StackTop DEF Top, OuterPCs
    <2>4. code[c][2].pc = "join_yield"
      BY <2>2, <2>3 DEF UserYield, LastYield, JoinYields, At
    <2>5. \A u : Joining(code'[c], u) => Joining(code[c], u)
      BY <1>1, <1>4, <2>1, <2>4 DEF Joining
    <2> QED  BY <1>1, <1>2, <2>5 DEF JoinStep, Listed
  <1> QED  BY <1>3, <1>4

(* task_new up to its search, and the handler of the timer *)
LEMMA CallsJoin ==
  ASSUME TaskInv, TaskInv', NEW c \in CPUs, NewFindPid(c) \/ TickPreempts(c)
  PROVE  JoinStep(c)
  <1>1. CASE NewFindPid(c)
    <2>1. PICK p \in Pids : Call(c, [Frame("new") EXCEPT !.pid = p])  BY <1>1 DEF NewFindPid
    <2> DEFINE f == [Frame("new") EXCEPT !.pid = p]
    <2>2. f \in InnerFrames /\ f.pc = "new"
      BY Zenon DEF Frame, Frames, PCs, InnerFrames, InnerPCs
    <2>3. Call(c, f)  BY <2>1
    <2> HIDE DEF f
    <2>4. Top(c).pc = "user" /\ UNCHANGED <<tasks, ctx, current>>  BY <1>1 DEF NewFindPid, At
    <2> QED  BY <2>2, <2>3, <2>4, CallJoin
  <1>2. CASE TickPreempts(c)
    <2> DEFINE f == [Frame("sched") EXCEPT !.isr = TRUE]
    <2>1. f \in InnerFrames /\ f.pc = "sched" /\ f.isr /\ f.pc \in SchedPCs
      BY Zenon DEF Frame, Frames, PCs, InnerFrames, InnerPCs, SchedPCs
    <2>2. Call(c, f) /\ UNCHANGED <<tasks, ctx, current>>  BY <1>2 DEF TickPreempts
    <2> HIDE DEF f
    <2> QED  BY <2>1, <2>2, CallJoin
  <1> QED  BY <1>1, <1>2

(* the end of schedule *)
LEMMA LeaveJoin ==
  ASSUME TaskInv, NEW c \in CPUs, Leave(c)
  PROVE  JoinStep(c)
  <1>1. Top(c).pc \in InnerPCs /\ Return(c) /\ UNCHANGED <<tasks, ctx, current>>
    BY DEF Leave, At, InnerPCs
  <1> QED  BY <1>1, ReturnJoin DEF JoinStep, Listed

(* task_detach: a task that is waited for is no longer its creator's. *)
LEMMA DetachJoin ==
  ASSUME TaskInv, JoinInv, NEW c \in CPUs, Detach(c)
  PROVE  JoinInv'
  <1>1. PICK w \in Users : Owned(w) /\ tcb' = [tcb EXCEPT ![w].detached = TRUE]  BY Zenon DEF Detach
  <1>2. UNCHANGED <<tasks, ctx, current, code>>  BY DEF Detach
  <1>3. JoinStep(c)  BY <1>2 DEF JoinStep, Listed, Joining
  <1>4. tcb \in [Tcbs -> TaskStructs] /\ Users \subseteq Tcbs  BY DEF TaskInv, StructsOK, Tcbs
  <1>5. \A u \in Users : u # w => tcb'[u] = tcb[u]  BY <1>1, <1>4
  <1>6. ASSUME NEW t \in Tcbs, NEW u \in Users, JoinedBy(t, u)
        PROVE  Held(u)'
    <2>1. Held(u)  BY <1>6 DEF JoinInv, JoinedHeld
    <2>2. u # w  BY <1>1, <2>1 DEF Owned, Held
    <2> QED  BY <1>5, <2>1, <2>2 DEF Held
  <1> QED  BY <1>3, <1>6, JoinStepLess, JoinLess

(* task_join: one task more waits, for a task nobody waits for. *)
LEMMA JoinJoin ==
  ASSUME TaskInv, JoinInv, NEW c \in CPUs, Join(c)
  PROVE  JoinInv'
  <1>1. PICK w \in Users : /\ Owned(w) /\ tcb' = [tcb EXCEPT ![w].joined = TRUE]
                           /\ Call(c, [Frame("join") EXCEPT !.t = w])
    BY Zenon DEF Join
  <1> DEFINE f == [Frame("join") EXCEPT !.t = w]
             v == code[c][1].t
  <1>2. f \in InnerFrames /\ f.pc = "join" /\ f.t = w
    BY Zenon DEF Frame, Frames, PCs, InnerFrames, InnerPCs, Tcbs
  <1> HIDE DEF f
  <1>3. Call(c, f) /\ Top(c).pc = "user" /\ UNCHANGED <<tasks, ctx, current>>
    BY <1>1 DEF Join, At, f
  <1>4. /\ \A d \in CPUs : d # c => code'[d] = code[d]
        /\ code'[c][1] = code[c][1] /\ Last(code'[c]) = f /\ Len(code'[c]) = Len(code[c]) + 1
    BY <1>2, <1>3, CallEffect
  <1>5. Len(code[c]) = 1  BY <1>3, TopFrame DEF OuterPCs
  <1>6. code'[c][2] = f  BY <1>4, <1>5 DEF Last
  <1>7. \A u : Joining(code'[c], u) => u = w  BY <1>2, <1>6 DEF Joining
  <1>8. \A d \in CPUs : code'[d][1].t = code[d][1].t  BY <1>4
  <1>9. StacksApart'  BY <1>8 DEF JoinInv, StacksApart
  <1>10. ASSUME NEW t \in Tcbs, NEW u \in Users, JoinedBy(t, u)'
         PROVE  JoinedBy(t, u) \/ (u = w /\ t = v)
    <2>1. CASE \E d \in CPUs : code'[d][1].t = t /\ Joining(code'[d], u)
      BY <1>4, <1>7, <1>8, <2>1 DEF JoinedBy
    <2>2. CASE Resumable(t)' /\ Joining(ctx'[t], u)
      <3>1. Resumable(t)  BY <1>3, <1>8, <2>2 DEF Resumable, OnCpu, Listed
      <3> QED  BY <1>3, <2>2, <3>1 DEF JoinedBy
    <2> QED  BY <1>10, <2>1, <2>2 DEF JoinedBy, Joining
  <1>11. \A t \in Tcbs : ~JoinedBy(t, w)  BY <1>1 DEF JoinInv, JoinedHeld, Held, Owned
  <1>12. tcb \in [Tcbs -> TaskStructs] /\ Users \subseteq Tcbs /\ tcb[w] \in TaskStructs
    BY DEF TaskInv, StructsOK, Tcbs
  <1>13. \A u \in Users : tcb'[u] = IF u = w THEN [tcb[w] EXCEPT !.joined = TRUE] ELSE tcb[u]
    BY <1>1, <1>12
  <1>14. Held(w)'  BY <1>1, <1>12, <1>13 DEF Held, Owned, TaskStructs
  <1>15. \A u \in Users : Held(u) => Held(u)'  BY <1>13, <1>14 DEF Held
  <1>16. JoinedHeld'  BY <1>10, <1>14, <1>15 DEF JoinInv, JoinedHeld
  <1>17. JoinedOnce'  BY <1>10, <1>11 DEF JoinInv, JoinedOnce
  <1> QED  BY <1>9, <1>16, <1>17 DEF JoinInv

(* task_cleanup by a joiner: it was the only one to wait. *)
LEMMA CleansJoin ==
  ASSUME TaskInv, JoinInv, NEW c \in CPUs, JoinCleans(c)
  PROVE  JoinInv'
  <1>1. /\ Top(c).pc = "join" /\ Top(c).pc \in InnerPCs /\ Top(c).pc \notin SchedPCs
        /\ tcb' = [tcb EXCEPT ![Top(c).t].mapped = FALSE] /\ Return(c)
        /\ UNCHANGED <<tasks, ctx, current>>
    BY DEF JoinCleans, At, InnerPCs, SchedPCs
  <1>2. PICK w \in Users : w = Top(c).t  BY <1>1, TopFrame DEF InnerFrames
  <1> DEFINE v == code[c][1].t
  <1>3. Len(code[c]) = 2  BY <1>1, StackTop DEF Top, TaskInv, StacksOK
  <1>4. JoinedBy(v, w)
    <2>1. code[c][2] = Top(c) /\ 2 >= 2  BY <1>3 DEF Top, Last
    <2>2. Joining(code[c], w)  BY <1>1, <1>2, <1>3, <2>1 DEF Joining
    <2> QED  BY <2>2 DEF JoinedBy
  <1>5. JoinStep(c)  BY <1>1, ReturnJoin DEF JoinStep, Listed
  <1>6. Len(code'[c]) = 1 /\ code'[c][1] = code[c][1]
    <2>1. Len(code'[c]) = Len(code[c]) - 1 /\ code'[c][1] = code[c][1]  BY <1>1, ReturnEffect
    <2> QED  BY <1>3, <2>1
  <1>7. \A t \in Tcbs, u \in Users : JoinedBy(t, u)' => JoinedBy(t, u)  BY <1>5, JoinStepLess
  <1>8. StacksApart'  BY <1>5, JoinStepLess
  <1>9. ASSUME NEW t \in Tcbs, JoinedBy(t, w)'
        PROVE  FALSE
    <2>1. v \in Tcbs /\ JoinedBy(t, w)  BY <1>2, <1>7, <1>9, BaseTask
    <2>2. t = v  BY <1>2, <1>4, <2>1 DEF JoinInv, JoinedOnce
    <2>3. OnCpu(t)'  BY <1>6, <2>2 DEF OnCpu
    <2>4. ~Joining(code'[c], w)  BY <1>6 DEF Joining
    <2>5. \A d \in CPUs : code'[d][1].t = t => d = c  BY <1>6, <1>8, <2>2 DEF StacksApart
    <2>6. ~Resumable(t)'  BY <2>3 DEF Resumable
    <2>7. \E d \in CPUs : code'[d][1].t = t /\ Joining(code'[d], w)
      BY <1>9, <2>6, Zenon DEF JoinedBy, Joining
    <2> QED  BY <2>4, <2>5, <2>7
  <1>10. tcb \in [Tcbs -> TaskStructs] /\ Users \subseteq Tcbs  BY DEF TaskInv, StructsOK, Tcbs
  <1>11. \A u \in Users : u # w => tcb'[u] = tcb[u]  BY <1>1, <1>2, <1>10
  <1>12. \A u \in Users : u # w => (Held(u) => Held(u)')  BY <1>11 DEF Held
  <1>13. \A t \in Tcbs, u \in Users : JoinedBy(t, u)' => JoinedBy(t, u) /\ (Held(u) => Held(u)')
    BY <1>7, <1>9, <1>12
  <1> QED  BY <1>8, <1>13, JoinLess

(* on_current_task_return_cb: what it frees is detached, so nobody waits. *)
LEMMA EndsJoin ==
  ASSUME TaskInv, JoinInv, NEW c \in CPUs, TaskReturns(c) \/ Terminate(c) \/ CleanSelf(c)
  PROVE  JoinInv'
  <1>1. current[c] \in Tcbs /\ tcb \in [Tcbs -> TaskStructs] /\ tcb[current[c]] \in TaskStructs
    BY RunningTask DEF TaskInv, StructsOK
  <1>2. CASE TaskReturns(c)
    <2>1. \A t \in Tcbs : Listed(t)' => Listed(t)
      <3>1. tasks \in [Pids -> Listable] /\ tasks' = [tasks EXCEPT ![cur(c).pid] = NULL]
        BY <1>2 DEF TaskInv, ListOK, TaskReturns
      <3>2. \A p \in Pids : tasks'[p] \in {tasks[p], NULL}  BY <3>1
      <3> QED  BY <3>2, UsersAssumption DEF Listed
    <2>2. JoinStep(c)  BY <1>2, <2>1, BaseJoin DEF TaskReturns, At
    <2>3. \A u \in Users : Keeps(tcb'[u], tcb[u])  BY <1>1, <1>2, KeepsWrite, Zenon DEF TaskReturns
    <2> QED  BY <2>2, <2>3, JoinKept
  <1>3. CASE Terminate(c)
    <2>1. \A t \in Tcbs : Listed(t)' => Listed(t)  BY <1>3 DEF Terminate, Listed
    <2>2. JoinStep(c)  BY <1>3, <2>1, BaseJoin DEF Terminate, At
    <2>3. PICK x : tcb' = [tcb EXCEPT ![current[c]].state = x]  BY <1>3, Zenon DEF Terminate
    <2>4. \A u \in Users : Keeps(tcb'[u], tcb[u])  BY <1>1, <2>3, KeepsWrite, Zenon
    <2> QED  BY <2>2, <2>4, JoinKept
  <1>4. CASE CleanSelf(c)
    <2>1. \A t \in Tcbs : Listed(t)' => Listed(t)  BY <1>4 DEF CleanSelf, Listed
    <2>2. JoinStep(c)  BY <1>4, <2>1, BaseJoin DEF CleanSelf, At
    <2> DEFINE t == current[c]
               q == [tcb[t] EXCEPT !.mapped = @ /\ ~tcb[t].detached]
    <2>3. tcb' = [tcb EXCEPT ![t] = q]  BY <1>4 DEF CleanSelf, cur
    <2>4. /\ q.joined = tcb[t].joined /\ q.detached = tcb[t].detached
          /\ q.mapped <=> tcb[t].mapped /\ ~tcb[t].detached
      BY <1>1, Zenon DEF TaskStructs
    <2> HIDE DEF q
    <2>5. \A u \in Users : tcb'[u] = IF u = t THEN q ELSE tcb[u]  BY <1>1, <2>3 DEF Tcbs
    <2>6. \A u \in Users : Held(u) => Held(u)'  BY <2>4, <2>5 DEF Held
    <2> QED  BY <2>2, <2>6, JoinStepLess, JoinLess
  <1> QED  BY <1>2, <1>3, <1>4

(* The rest of task_new: nobody waits for memory that is not mapped, and   *)
(* the new task waits for nobody.                                          *)
LEMMA InstallJoin ==
  ASSUME TaskInv, JoinInv, NEW c \in CPUs, NewInstall(c)
  PROVE  JoinInv'
  <1>1. PICK w \in Users, prio \in Prios :
             /\ ~tcb[w].mapped /\ tcb' = [tcb EXCEPT ![w] = NewTask(prio, Top(c).pid)]
             /\ ctx' = [ctx EXCEPT ![w] = <<Entry(w)>>] /\ tasks' = [tasks EXCEPT ![Top(c).pid] = w]
    BY Zenon DEF NewInstall
  <1>2. Top(c).pc \in InnerPCs /\ Return(c) /\ current' = current
    BY DEF NewInstall, At, InnerPCs
  <1>3. /\ \A d \in CPUs : d # c => code'[d] = code[d]
        /\ code'[c][1] = code[c][1]
        /\ \A u : Joining(code'[c], u) => Joining(code[c], u)
    BY <1>2, ReturnJoin
  <1>4. \A d \in CPUs : code'[d][1].t = code[d][1].t  BY <1>3
  <1>5. StacksApart'  BY <1>4 DEF JoinInv, StacksApart
  <1>6. ASSUME NEW t \in Tcbs, NEW u \in Users, JoinedBy(t, u)'
        PROVE  JoinedBy(t, u)
    <2>1. CASE \E d \in CPUs : code'[d][1].t = t /\ Joining(code'[d], u)
      BY <1>3, <1>4, <2>1 DEF JoinedBy
    <2>2. CASE Resumable(t)' /\ Joining(ctx'[t], u)
      <3>1. w \in Tcbs /\ ctx \in [Tcbs -> Contexts] /\ tasks \in [Pids -> Listable]
        BY DEF Tcbs, TaskInv, StacksOK, ListOK
      <3>2. ctx'[w] = <<Entry(w)>> /\ \A v \in Tcbs : v # w => ctx'[v] = ctx[v]  BY <1>1, <3>1
      <3>3. t # w
        <4>1. Len(<<Entry(w)>>) = 1 /\ ~(1 >= 2)  OBVIOUS
        <4> QED  BY <2>2, <3>2, <4>1 DEF Joining
      <3>4. Listed(t)' => Listed(t)
        <4>1. \A p \in Pids : tasks'[p] \in {tasks[p], w}  BY <1>1, <3>1
        <4> QED  BY <3>3, <4>1 DEF Listed
      <3>5. Resumable(t)  BY <1>2, <1>4, <2>2, <3>4 DEF Resumable, OnCpu
      <3> QED  BY <2>2, <3>2, <3>3, <3>5 DEF JoinedBy
    <2> QED  BY <1>6, <2>1, <2>2 DEF JoinedBy, Joining
  <1>7. tcb \in [Tcbs -> TaskStructs] /\ Users \subseteq Tcbs  BY DEF TaskInv, StructsOK, Tcbs
  <1>8. \A u \in Users : u # w => tcb'[u] = tcb[u]  BY <1>1, <1>7
  <1>9. \A u \in Users : Held(u) => Held(u)'  BY <1>1, <1>8 DEF Held
  <1> QED  BY <1>5, <1>6, <1>9, JoinLess

(* task_switch_to a task that is in the list *)
LEMMA SwitchJoin ==
  ASSUME TaskInv, TaskInv', NEW c \in CPUs, SwitchTo(c), tasks[Top(c).pid] # NULL
  PROVE  JoinStep(c)
  <1>1. PICK p \in Pids : p = Top(c).pid  BY TopFrame DEF SwitchTo, At, InnerFrames, InnerPCs
  <1>2. PICK next \in Tcbs : next = tasks[p]
    BY <1>1 DEF TaskInv, ListOK, Listable
  <1> DEFINE f == IF next = current[c]
                  THEN [Frame("resumed") EXCEPT !.isr = Top(c).isr]
                  ELSE [Top(c) EXCEPT !.pc = "swap", !.t = next, !.prev = current[c]]
  <1>3. /\ Top(c).pc = "go" /\ Top(c).pc \in InnerPCs /\ Replace(c, f) /\ UNCHANGED <<tasks, ctx>>
        /\ current' = [current EXCEPT ![c] = next]
    BY <1>1, <1>2 DEF SwitchTo, At, InnerPCs
  <1>4. f \in InnerFrames /\ f.isr = Top(c).isr /\ f.pc \in {"resumed", "swap"}
    <2>1. Top(c) \in InnerFrames /\ Top(c).isr \in BOOLEAN  BY <1>3, TopFrame
    <2>2. current[c] \in Tcbs  BY RunningTask
    <2>3. CASE next = current[c]  BY <2>1, <2>3, PlainFrame
    <2>4. CASE next # current[c]
      BY <2>1, <2>2, <2>4, Zenon DEF InnerFrames, InnerPCs, SchedPCs, Frames, PCs
    <2> QED  BY <2>3, <2>4
  <1> HIDE DEF f
  <1>5. \A d \in CPUs : current'[d] = current[d] \/ Listed(current'[d])
    BY <1>2, <1>3 DEF TaskInv, ListOK, Listed
  <1> QED  BY <1>3, <1>4, <1>5, MoveJoin DEF SchedPCs

(* cpu_switch_to: the task that was resumable is on the CPU, and the one   *)
(* that was on it is where its context says.                               *)
LEMMA SwapJoin ==
  ASSUME TaskInv, LifeInv, Undamaged, SavedFirst, JoinInv, NEW c \in CPUs, Swap(c)
  PROVE  JoinInv'
  <1> DEFINE f == [Frame("resumed") EXCEPT !.isr = Top(c).isr, !.iflag = iflag[c]]
             saved == Append(Front(code[c]), f)
  <1>1. Top(c).pc = "swap" /\ Top(c).pc \in InnerPCs /\ UNCHANGED <<tasks, tcb, current>>
    BY DEF Swap, At, InnerPCs
  <1>2. Top(c) \in Frames /\ Top(c).isr \in BOOLEAN /\ code[c] \in Stacks  BY TopFrame
  <1>3. PICK t \in Tcbs, prev \in Tcbs : t = current[c] /\ prev = code[c][1].t
    BY BaseTask, RunningTask
  <1>4. Top(c).t = t /\ Top(c).prev = prev /\ prev # t
    BY <1>1, <1>3 DEF LifeInv, SwapSound, Undamaged, ContextsKept, At
  <1>5. f \in InnerFrames /\ f.pc = "resumed" /\ f.isr = Top(c).isr
    BY <1>2, SavedFrame DEF TaskInv, FlagsOK
  <1>6. ctx' = [ctx EXCEPT ![prev] = saved] /\ code' = [code EXCEPT ![c] = ctx'[t]]
    BY <1>4 DEF Swap
  <1> HIDE DEF f
  <1>7. /\ saved \in Stacks /\ Last(saved) = f /\ Len(saved) = Len(code[c])
        /\ \A i \in 1 .. Len(code[c]) - 1 : saved[i] = code[c][i]
    BY <1>1, <1>2, <1>5, StackStep DEF Top, SchedPCs
  <1> HIDE DEF saved
  <1>8. ctx'[prev] = saved /\ \A u \in Tcbs : u # prev => ctx'[u] = ctx[u]
    BY <1>6 DEF TaskInv, StacksOK
  <1>9. code'[c] = ctx[t] /\ \A d \in CPUs : d # c => code'[d] = code[d]
    BY <1>4, <1>6, <1>8 DEF TaskInv, StacksOK
  <1>10. \A u : Joining(saved, u) => Joining(code[c], u)
    <2>1. Len(saved) <= Len(code[c]) + 1
      <3>1. Len(code[c]) \in Nat  BY <1>2, StackTop
      <3>2. \A m, n : n \in Nat /\ m = n => m <= n + 1  OBVIOUS
      <3> QED  BY <1>7, <3>1, <3>2, Zenon
    <2>2. \A i \in 1 .. Len(saved) - 1 : saved[i] = code[c][i]  BY <1>7
    <2> QED  BY <1>2, <1>5, <1>7, <2>1, <2>2, JoiningPush
  <1>11. ctx[t][1].t = t  BY DEF Undamaged, ContextsKept
  <1>12. \A d \in CPUs : code[d][1].t # t  BY <1>3, <1>4 DEF SavedFirst
  <1>13. StacksApart'  BY <1>9, <1>11, <1>12 DEF JoinInv, StacksApart
  <1>14. Resumable(t)  BY <1>3, <1>12 DEF Resumable, OnCpu
  <1>15. ASSUME NEW v \in Tcbs, NEW u \in Users, JoinedBy(v, u)'
         PROVE  JoinedBy(v, u)
    <2>1. CASE \E d \in CPUs : code'[d][1].t = v /\ Joining(code'[d], u)
      BY <1>9, <1>11, <1>14, <2>1 DEF JoinedBy
    <2>2. CASE Resumable(v)' /\ Joining(ctx'[v], u)
      <3>1. v # t  BY <1>9, <1>11, <2>2 DEF Resumable, OnCpu
      <3>2. CASE v = prev  BY <1>3, <1>8, <1>10, <2>2, <3>2 DEF JoinedBy
      <3>3. CASE v # prev
        <4>1. ~OnCpu(v)  BY <1>3, <1>9, <2>2, <3>3 DEF Resumable, OnCpu
        <4>2. Resumable(v)  BY <1>1, <2>2, <4>1 DEF Resumable, Listed
        <4> QED  BY <1>8, <2>2, <3>3, <4>2 DEF JoinedBy
      <3> QED  BY <3>2, <3>3
    <2> QED  BY <1>15, <2>1, <2>2 DEF JoinedBy, Joining
  <1>16. \A u \in Users : Held(u) => Held(u)'  BY <1>1 DEF Held
  <1> QED  BY <1>13, <1>15, <1>16, JoinLess

-----------------------------------------------------------------------------
(* At kmain's sti one task waits, on CPU 0, for one that is not detached. *)
LEMMA InitJoin == Init => JoinInv
  <1> SUFFICES ASSUME Init PROVE JoinInv
    OBVIOUS
  <1> DEFINE w == Last(Started)
             join == [Frame("join") EXCEPT !.t = w]
  <1>1. w \in Users /\ w \in Tcbs /\ w \in Elements(Started) /\ w \notin Detached
    <2>1. Len(Started) \in DOMAIN Started /\ w \in Users  BY StartedAssumption DEF Last
    <2> QED  BY <2>1, StartedAssumption DEF Last, Elements, Tcbs
  <1>2. /\ ctx = [t \in Tcbs |-> <<Entry(t)>>]
        /\ code = [c \in CPUs |-> IF c = 0 THEN <<Entry(Boot(c)), join>> ELSE <<Entry(Boot(c))>>]
    BY Zenon DEF Init
  <1>3. join.t = w /\ \A t : Len(<<Entry(t)>>) = 1  BY DEF Frame
  <1>4. \A c \in CPUs : code[c][1].t = Boot(c)
    <2>1. \A t : Entry(t).t = t  BY DEF Entry, Frame
    <2>2. \A e, f : <<e>>[1] = e /\ <<e, f>>[1] = e  OBVIOUS
    <2> HIDE DEF join
    <2> QED  BY <1>2, <2>1, <2>2
  <1>5. ASSUME NEW t \in Tcbs, NEW u \in Users, JoinedBy(t, u)
        PROVE  t = Boot(0) /\ u = w
    <2>1. ~(1 >= 2)  OBVIOUS
    <2>2. ~Joining(ctx[t], u)  BY <1>2, <1>3, <2>1 DEF Joining
    <2>3. PICK c \in CPUs : code[c][1].t = t /\ Joining(code[c], u)  BY <1>5, <2>2 DEF JoinedBy
    <2>4. c = 0
      <3>1. c # 0 => code[c] = <<Entry(Boot(c))>>  BY <1>2
      <3> QED  BY <1>3, <2>1, <2>3, <3>1, Zenon DEF Joining
    <2>5. code[c] = <<Entry(Boot(c)), join>>  BY <1>2, <2>4
    <2>6. \A e, f : <<e, f>>[2] = f  OBVIOUS
    <2> HIDE DEF join
    <2>7. code[c][2].t = w  BY <1>3, <2>5, <2>6
    <2> QED  BY <1>4, <2>3, <2>4, <2>7 DEF Joining
  <1>6. Held(w)
    <2> DEFINE pidOf(t) == NCPU - 1 + CHOOSE i \in 1 .. Len(Started) : Started[i] = t
               started(t, pr) == [NewTask(pr, pidOf(t)) EXCEPT !.detached = t \in Detached,
                                                               !.joined = t = w]
               fresh(pr) == [NewTask(pr, NoPid) EXCEPT !.mapped = FALSE]
               first(t, pr) == CASE t \in Boots -> BootTask
                                 [] t \in Idles -> NewTask(IdlePrio, t[2])
                                 [] t \in Elements(Started) -> started(t, pr)
                                 [] OTHER -> fresh(pr)
    <2>1. PICK prio \in [Users -> Prios] : tcb = [t \in Tcbs |-> first(t, prio[t])]
      BY Zenon DEF Init
    <2>2. w \notin Boots /\ w \notin Idles  BY <1>1, UsersAssumption
    <2>3. tcb[w] = first(w, prio[w])
      <3> HIDE DEF first
      <3> QED  BY <1>1, <2>1
    <2> HIDE DEF pidOf
    <2>4. started(w, prio[w]).mapped /\ started(w, prio[w]).joined /\ ~started(w, prio[w]).detached
      BY <1>1, Zenon DEF NewTask
    <2> HIDE DEF started, fresh
    <2>5. first(w, prio[w]) = started(w, prio[w])  BY <1>1, <2>2
    <2> QED  BY <2>3, <2>4, <2>5 DEF Held
  <1>7. StacksApart  BY <1>4 DEF StacksApart, Boot
  <1> HIDE DEF w
  <1>8. JoinedHeld  BY <1>5, <1>6 DEF JoinedHeld
  <1>9. JoinedOnce  BY <1>5 DEF JoinedOnce
  <1> QED  BY <1>7, <1>8, <1>9 DEF JoinInv

(* Every step from an undamaged state in which every stack that a CPU goes *)
(* on with has been saved keeps the invariant.                             *)
LEMMA JoinStepAll ==
  ASSUME TaskInv, TaskInv', LifeInv, Undamaged, SavedFirst, JoinInv, [Next]_vars
  PROVE  JoinInv'
  <1>1. ASSUME NEW c \in CPUs, JoinStep(c),
               \/ tcb' = tcb
               \/ \E t \in Tcbs : \E x : \/ tcb' = [tcb EXCEPT ![t].state = x]
                                         \/ tcb' = [tcb EXCEPT ![t].dynamic_prio = x]
                                         \/ tcb' = [tcb EXCEPT ![t].interruptible = x]
        PROVE  JoinInv'
    <2>1. tcb' = tcb => \A u \in Users : Keeps(tcb'[u], tcb[u])  BY DEF Keeps
    <2>2. \A u \in Users : Keeps(tcb'[u], tcb[u])  BY <1>1, <2>1, KeepsWrite
    <2> QED  BY <1>1, <2>2, JoinKept
  <1>2. ASSUME NEW c \in CPUs
        PROVE  current[c] \in Tcbs
    BY RunningTask
  <1>3. ASSUME NEW c \in CPUs, KernelStep(c)
        PROVE  JoinInv'
    <2>1. CASE JoinYields(c) \/ LastYield(c)
      BY <2>1, YieldJoin, KeepsPreempt, JoinKept, Zenon DEF JoinYields, LastYield, Yield
    <2>2. CASE Enter(c)  BY <1>1, <1>2, <2>2, MovesJoin, Zenon DEF Enter
    <2>3. CASE Scan(c)  BY <1>1, <2>3, ScanJoin, Zenon DEF Scan
    <2>4. CASE JoinWaits(c)
      <3>1. Top(c).t \in Tcbs  BY <2>4, TopFrame DEF JoinWaits, At, InnerPCs, InnerFrames, Tcbs
      <3> QED  BY <1>1, <2>4, <3>1, MovesJoin, Zenon DEF JoinWaits
    <2>5. CASE Pick(c)
      <3>1. Top(c).pid \in Pids  BY <2>5, TopFrame DEF Pick, Frames
      <3>2. tasks[Top(c).pid] # NULL => tasks[Top(c).pid] \in Tcbs
        BY <3>1 DEF TaskInv, ListOK, Listable
      <3> QED  BY <1>1, <2>5, <3>2, MovesJoin DEF Pick
    <2>6. CASE Recharge(c)
      <3>1. ASSUME NEW u \in Users
            PROVE  Keeps(tcb'[u], tcb[u])
        <4>1. u \in Tcbs /\ tcb[u] \in TaskStructs  BY DEF TaskInv, StructsOK, Tcbs
        <4>2. tcb'[u] \in {tcb[u], [tcb[u] EXCEPT !.dynamic_prio = Recharged(tcb[u])]}
          BY <2>6, <4>1 DEF Recharge
        <4> QED  BY <4>1, <4>2 DEF Keeps, TaskStructs
      <3> QED  BY <2>6, <3>1, MovesJoin, JoinKept
    <2>7. CASE SwitchTo(c)
      <3>1. JoinStep(c)  BY <2>7, MovesJoin, SwitchJoin
      <3> QED  BY <1>1, <2>7, <3>1 DEF SwitchTo
    <2>8. CASE Leave(c)  BY <1>1, <1>2, <2>8, LeaveJoin, Zenon DEF Leave
    <2>9. CASE Swap(c)  BY <2>9, SwapJoin
    <2>10. CASE NewInstall(c) \/ JoinCleans(c)  BY <2>10, InstallJoin, CleansJoin
    <2>11. CASE Terminate(c) \/ CleanSelf(c)  BY <2>11, EndsJoin
    <2>12. CASE NewNoMemory(c)
      <3>1. /\ Top(c).pc \in InnerPCs /\ Return(c) /\ UNCHANGED <<tcb, ctx, current>>
            /\ tasks' = [tasks EXCEPT ![Top(c).pid] = NULL]
        BY <2>12 DEF NewNoMemory, At, InnerPCs
      <3>2. \A t \in Tcbs : Listed(t)' => Listed(t)
        BY <3>1, UsersAssumption DEF TaskInv, ListOK, Listed
      <3> QED  BY <1>1, <3>1, <3>2, ReturnJoin DEF JoinStep
    <2> QED
      BY <1>3, <2>1, <2>2, <2>3, <2>4, <2>5, <2>6, <2>7, <2>8, <2>9, <2>10, <2>11, <2>12 DEF KernelStep
  <1>4. ASSUME NEW c \in CPUs, UserStep(c)
        PROVE  JoinInv'
    <2>1. CASE UserYield(c)  BY <2>1, YieldJoin, KeepsPreempt, JoinKept, Zenon DEF UserYield, Yield
    <2>2. CASE NewFindPid(c)  BY <1>1, <2>2, CallsJoin DEF NewFindPid
    <2>3. CASE Detach(c) \/ Join(c)  BY <2>3, DetachJoin, JoinJoin
    <2>4. CASE TaskReturns(c)  BY <2>4, EndsJoin
    <2> QED  BY <1>4, <2>1, <2>2, <2>3, <2>4 DEF UserStep
  <1>5. ASSUME NEW c \in CPUs, Tick(c)
        PROVE  JoinInv'
    <2>1. CASE TickCounts(c)
      <3>1. JoinStep(c)  BY <2>1 DEF TickCounts, JoinStep, Listed, Joining
      <3>2. PICK x : tcb' = [tcb EXCEPT ![current[c]].dynamic_prio = x]  BY <2>1, Zenon DEF TickCounts
      <3> QED  BY <1>1, <1>2, <3>1, <3>2, Zenon
    <2>2. CASE TickPreempts(c)
      BY <2>2, CallsJoin, KeepsPreempt, JoinKept, Zenon DEF TickPreempts
    <2> QED  BY <1>5, <2>1, <2>2 DEF Tick
  <1>6. CASE UNCHANGED vars
    <2>1. UNCHANGED <<tcb, tasks, current, ctx, code>>  BY <1>6 DEF vars
    <2>2. StacksApart'  BY <2>1 DEF JoinInv, StacksApart
    <2>3. \A t \in Tcbs, u \in Users : JoinedBy(t, u)' => JoinedBy(t, u) /\ (Held(u) => Held(u)')
      BY <2>1 DEF JoinedBy, Resumable, OnCpu, Joining, Listed, Held
    <2> QED  BY <2>2, <2>3, JoinLess
  <1> QED  BY <1>3, <1>4, <1>5, <1>6 DEF Next

(* The join frames of a stack: there is at most one, the task's own call. *)
LEMMA JoinFrame ==
  ASSUME NEW s \in Stacks, NEW i \in DOMAIN s, s[i].pc \in {"join", "join_yield"}
  PROVE  s[i].t \in Users /\ Joining(s, s[i].t)
  <1>1. Len(s) \in Nat /\ i \in 1 .. Len(s)  BY StackTop
  <1>2. i # 1  BY DEF Stacks, OuterFrames, OuterPCs
  <1>3. ~(i \in 3 .. Len(s))  BY DEF Stacks, SchedPCs
  <1>4. i = 2 /\ Len(s) >= 2  BY <1>1, <1>2, <1>3
  <1>5. s[2] \in InnerFrames  BY <1>1, <1>4 DEF Stacks
  <1> QED  BY <1>4, <1>5 DEF InnerFrames, Joining

(* What is waited for is mapped, so every task_join reads mapped memory. *)
LEMMA JoinInvMapped ==
  ASSUME TaskInv, JoinInv
  PROVE  JoinedMapped
  <1>1. ASSUME NEW c \in CPUs, NEW i \in DOMAIN code[c], code[c][i].pc \in {"join", "join_yield"}
        PROVE  tcb[code[c][i].t].mapped
    <2>1. code[c][i].t \in Users /\ Joining(code[c], code[c][i].t)
      BY <1>1, JoinFrame DEF TaskInv, StacksOK
    <2>2. JoinedBy(code[c][1].t, code[c][i].t) /\ code[c][1].t \in Tcbs
      BY <2>1, BaseTask DEF JoinedBy
    <2> QED  BY <2>1, <2>2 DEF JoinInv, JoinedHeld, Held
  <1>2. ASSUME NEW t \in Users, Listed(t), \A c \in CPUs : code[c][1].t # t,
               NEW i \in DOMAIN ctx[t], ctx[t][i].pc \in {"join", "join_yield"}
        PROVE  tcb[ctx[t][i].t].mapped
    <2>1. t \in Tcbs /\ ctx[t] \in Stacks  BY DEF Tcbs, TaskInv, StacksOK, Contexts
    <2>2. ctx[t][i].t \in Users /\ Joining(ctx[t], ctx[t][i].t)  BY <1>2, <2>1, JoinFrame
    <2>3. JoinedBy(t, ctx[t][i].t)  BY <1>2, <2>2 DEF JoinedBy, Resumable, OnCpu
    <2> QED  BY <2>1, <2>2, <2>3 DEF JoinInv, JoinedHeld, Held
  <1> QED  BY <1>1, <1>2 DEF JoinedMapped

(* A task_struct stays mapped while a task_join is reading its state, and  *)
(* is not freed a second time by it, as long as no context is damaged and  *)
(* no CPU goes on with a stack that another has not saved yet.  One CPU    *)
(* alone satisfies the second condition.                                   *)
THEOREM JoinedStaysMapped == Spec /\ []Undamaged /\ []SavedFirst => []JoinedMapped
  <1>1. Init => JoinInv  BY InitJoin
  <1>2. TaskInv /\ TaskInv' /\ LifeInv /\ Undamaged /\ SavedFirst /\ JoinInv /\ [Next]_vars => JoinInv'
    BY JoinStepAll
  <1>3. TaskInv /\ JoinInv => JoinedMapped  BY JoinInvMapped
  <1> QED  BY <1>1, <1>2, <1>3, TaskInvariant, LifeInvariant, PTL DEF Spec

-----------------------------------------------------------------------------
(* A handler of the timer that is masked is not interrupted by itself. *)

(* Interrupts are off in the handlers, on every CPU and in every context   *)
(* that was saved in one.                                                  *)
MaskInv == HandlersMasked /\ \A t \in Tcbs : Last(ctx[t]).isr => ~Last(ctx[t]).iflag

(* The last frame of a stack is replaced, *)
LEMMA OneReplace ==
  ASSUME NEW s \in Stacks, NEW f, OneHandler(s)
  PROVE  LET r == Append(Front(s), f) IN OneHandler(r) /\ Last(r) = f
  <1>1. s \in Seq(Frames) /\ Len(s) \in Nat \ {0}  BY StackTop
  <1> DEFINE q == Front(s)
             r == Append(q, f)
  <1>2. q \in Seq(Frames) /\ Len(q) = Len(s) - 1 /\ \A i \in 1 .. Len(q) : q[i] = s[i]
    <2>1. CASE Len(s) = 1
      <3>1. q = <<>>  BY <1>1, <2>1 DEF Front
      <3> QED  BY <2>1, <3>1
    <2>2. CASE Len(s) >= 2
      <3>1. q \in Seq(Frames) /\ Len(q) = Len(s) - 1  BY <1>1, <2>2 DEF Front
      <3>2. \A i \in 1 .. Len(s) - 1 : q[i] = s[i]  BY <1>1, <2>2 DEF Front
      <3> QED  BY <3>1, <3>2
    <2>3. \A n \in Nat \ {0} : n = 1 \/ n >= 2  OBVIOUS
    <2> QED  BY <1>1, <2>1, <2>2, <2>3, Zenon
  <1> HIDE DEF q
  <1>3. Len(r) = Len(q) + 1 /\ r[Len(q) + 1] = f /\ \A i \in 1 .. Len(q) : r[i] = q[i]  BY <1>2
  <1> HIDE DEF r
  <1>4. Last(r) = f  BY <1>3, Zenon DEF Last
  <1>5. Len(r) - 1 = Len(s) - 1 /\ Len(q) = Len(s) - 1  BY <1>1, <1>2, <1>3
  <1>6. OneHandler(r)  BY <1>2, <1>3, <1>5 DEF OneHandler
  <1> QED  BY <1>4, <1>6 DEF q, r

(* one is pushed on a frame that is not the handler's, *)
LEMMA OnePush ==
  ASSUME NEW s \in Seq(Frames), Len(s) \in Nat \ {0}, NEW f, OneHandler(s), ~Last(s).isr
  PROVE  OneHandler(Append(s, f)) /\ Last(Append(s, f)) = f
  <1> DEFINE r == Append(s, f)
  <1>1. Len(r) = Len(s) + 1 /\ r[Len(s) + 1] = f /\ \A i \in 1 .. Len(s) : r[i] = s[i]  OBVIOUS
  <1> HIDE DEF r
  <1>2. Last(r) = f  BY <1>1, Zenon DEF Last
  <1>3. \A i \in 1 .. Len(s) : i = Len(s) \/ i \in 1 .. Len(s) - 1  OBVIOUS
  <1>4. Len(r) - 1 = Len(s)  BY <1>1
  <1>5. OneHandler(r)  BY <1>1, <1>3, <1>4 DEF OneHandler, Last
  <1> QED  BY <1>2, <1>5 DEF r

(* and one returns, perhaps from the handler. *)
LEMMA OnePop ==
  ASSUME NEW s \in Stacks, Last(s).pc \in InnerPCs, OneHandler(s)
  PROVE  OneHandler(Front(s)) /\ ~Last(Front(s)).isr
  <1>1. Len(s) \in Nat /\ Len(s) >= 2  BY StackTop
  <1>2. Len(Front(s)) = Len(s) - 1 /\ \A i \in 1 .. Len(s) - 1 : Front(s)[i] = s[i]  BY StackPop
  <1>3. Len(s) - 1 \in 1 .. Len(s) - 1 /\ \A i \in 1 .. Len(s) - 1 - 1 : i \in 1 .. Len(s) - 1
    BY <1>1
  <1> QED  BY <1>2, <1>3 DEF OneHandler, Last

(* A stack with one frame is in no handler that was interrupted. *)
LEMMA OneEntry ==
  ASSUME NEW t \in Tcbs
  PROVE  OneHandler(<<Entry(t)>>) /\ Last(<<Entry(t)>>) = Entry(t) /\ ~Entry(t).isr
  <1>1. Len(<<Entry(t)>>) = 1 /\ <<Entry(t)>>[1] = Entry(t)  OBVIOUS
  <1>2. ~(\E i : i \in 1 .. 1 - 1)  OBVIOUS
  <1> QED  BY <1>1, <1>2 DEF OneHandler, Last, Entry, Frame

(* With one CPU the release of a lock does not set the flag if it was off. *)
LEMMA UnlockMasks ==
  ASSUME TaskInv, NEW c \in CPUs, NEW f \in BOOLEAN, Unlock(c, f)
  PROVE  (\A d \in CPUs : d # c => iflag'[d] = iflag[d]) /\ (NCPU = 1 => (iflag'[c] => f))
  <1>1. PICK g \in Released(f) : iflag' = [iflag EXCEPT ![c] = g]  BY DEF Unlock
  <1>2. ~(1 > 1)  OBVIOUS
  <1>3. NCPU = 1 => (g => f)  BY <1>1, <1>2 DEF Released
  <1> QED  BY <1>1, <1>3 DEF TaskInv, FlagsOK

(* A step of CPU c that leaves the contexts alone keeps both, if it leaves *)
(* c's stack and flag so.                                                  *)
LEMMA ApartKept ==
  ASSUME HandlersApart, NEW c \in CPUs, ctx' = ctx, OneHandler(code'[c]),
         \A d \in CPUs : d # c => code'[d] = code[d]
  PROVE  /\ HandlersApart'
         /\ (\A d \in CPUs : d # c => iflag'[d] = iflag[d]) /\ (Last(code'[c]).isr => ~iflag'[c])
            => (MaskInv => MaskInv')
  <1>1. HandlersApart'  BY DEF HandlersApart, OneHandler
  <1> QED  BY <1>1 DEF MaskInv, HandlersMasked, Top

(* The innermost frame moves on, *)
LEMMA MovesApart ==
  ASSUME TaskInv, HandlersApart, NEW c \in CPUs, NEW f, Replace(c, f), f.isr = Top(c).isr,
         ctx' = ctx, Unlock(c, iflag[c]) \/ UNCHANGED iflag
  PROVE  HandlersApart' /\ (NCPU = 1 => (MaskInv => MaskInv'))
  <1>1. code[c] \in Stacks /\ OneHandler(code[c]) /\ iflag[c] \in BOOLEAN
    BY DEF TaskInv, StacksOK, FlagsOK, HandlersApart
  <1>2. code'[c] = Append(Front(code[c]), f) /\ \A d \in CPUs : d # c => code'[d] = code[d]
    BY DEF Replace, TaskInv, StacksOK
  <1>3. OneHandler(code'[c]) /\ Last(code'[c]) = f  BY <1>1, <1>2, OneReplace
  <1>4. NCPU = 1 => (\A d \in CPUs : d # c => iflag'[d] = iflag[d]) /\ (iflag'[c] => iflag[c])
    BY <1>1, UnlockMasks
  <1> QED  BY <1>2, <1>3, <1>4, ApartKept DEF MaskInv, HandlersMasked

(* a function is called that is not the handler's, *)
LEMMA CallsApart ==
  ASSUME TaskInv, HandlersApart, NEW c \in CPUs, NEW f, Call(c, f), ~f.isr, ~Top(c).isr,
         ctx' = ctx, Unlock(c, iflag[c]) \/ UNCHANGED iflag
  PROVE  HandlersApart' /\ (NCPU = 1 => (MaskInv => MaskInv'))
  <1>1. /\ code[c] \in Seq(Frames) /\ Len(code[c]) \in Nat \ {0} /\ OneHandler(code[c])
        /\ iflag[c] \in BOOLEAN
    BY StackTop DEF TaskInv, StacksOK, FlagsOK, HandlersApart
  <1>2. code'[c] = Append(code[c], f) /\ \A d \in CPUs : d # c => code'[d] = code[d]
    BY DEF Call, TaskInv, StacksOK
  <1>3. OneHandler(code'[c]) /\ Last(code'[c]) = f  BY <1>1, <1>2, OnePush DEF Top
  <1>4. NCPU = 1 => \A d \in CPUs : d # c => iflag'[d] = iflag[d]  BY <1>1, UnlockMasks
  <1> QED  BY <1>2, <1>3, <1>4, ApartKept

(* or returns.                                                             *)
LEMMA ReturnsApart ==
  ASSUME TaskInv, NEW c \in CPUs, Top(c).pc \in InnerPCs, Return(c), HandlersApart
  PROVE  /\ OneHandler(code'[c]) /\ ~Last(code'[c]).isr
         /\ \A d \in CPUs : d # c => code'[d] = code[d]
  <1>1. code[c] \in Stacks /\ OneHandler(code[c])  BY DEF TaskInv, StacksOK, HandlersApart
  <1>2. code'[c] = Front(code[c]) /\ \A d \in CPUs : d # c => code'[d] = code[d]
    BY DEF Return, TaskInv, StacksOK
  <1> QED  BY <1>1, <1>2, OnePop DEF Top

(* cpu_switch_to exchanges two stacks, and the flags with them. *)
LEMMA SwapApart ==
  ASSUME TaskInv, HandlersApart, NEW c \in CPUs, Swap(c)
  PROVE  HandlersApart' /\ (NCPU = 1 => (MaskInv => MaskInv'))
  <1> DEFINE f == [Frame("resumed") EXCEPT !.isr = Top(c).isr, !.iflag = iflag[c]]
             saved == Append(Front(code[c]), f)
             prev == Top(c).prev
             t == Top(c).t
  <1>1. /\ code[c] \in Stacks /\ OneHandler(code[c]) /\ iflag[c] \in BOOLEAN /\ Top(c).isr \in BOOLEAN
        /\ t \in Tcbs
    <2>1. Top(c).isr \in BOOLEAN /\ t \in Tcbs
      BY TopFrame DEF Swap, At, InnerFrames, InnerPCs
    <2> QED  BY <2>1 DEF TaskInv, StacksOK, FlagsOK, HandlersApart
  <1>2. f.isr = Top(c).isr /\ f.iflag = iflag[c]  BY <1>1, SavedFrame
  <1>3. ctx' = [ctx EXCEPT ![prev] = saved] /\ code' = [code EXCEPT ![c] = ctx'[t]]
        /\ iflag' = [iflag EXCEPT ![c] = Last(ctx'[t]).iflag]
    BY DEF Swap
  <1> HIDE DEF f
  <1>4. OneHandler(saved) /\ Last(saved) = f  BY <1>1, OneReplace
  <1> HIDE DEF saved
  <1>5. \A u \in Tcbs : ctx'[u] = saved \/ ctx'[u] = ctx[u]  BY <1>3 DEF TaskInv, StacksOK
  <1>6. \A u \in Tcbs : OneHandler(ctx'[u])  BY <1>4, <1>5 DEF HandlersApart
  <1>7. code'[c] = ctx'[t] /\ \A d \in CPUs : d # c => code'[d] = code[d]
    BY <1>3 DEF TaskInv, StacksOK
  <1>8. HandlersApart'  BY <1>1, <1>6, <1>7 DEF HandlersApart, OneHandler
  <1>9. ASSUME MaskInv
        PROVE  MaskInv'
    <2>1. \A u \in Tcbs : Last(ctx'[u]).isr => ~Last(ctx'[u]).iflag
      BY <1>2, <1>4, <1>5, <1>9 DEF MaskInv, HandlersMasked
    <2>2. iflag'[c] = Last(code'[c]).iflag /\ \A d \in CPUs : d # c => iflag'[d] = iflag[d]
      BY <1>3, <1>7 DEF TaskInv, FlagsOK
    <2> QED  BY <1>1, <1>7, <1>9, <2>1, <2>2 DEF MaskInv, HandlersMasked, Top
  <1> QED  BY <1>8, <1>9

(* At kmain's sti no CPU is in a handler. *)
LEMMA InitApart == Init => HandlersApart /\ MaskInv
  <1> SUFFICES ASSUME Init PROVE HandlersApart /\ MaskInv
    OBVIOUS
  <1> DEFINE join == [Frame("join") EXCEPT !.t = Last(Started)]
  <1>1. /\ ctx = [t \in Tcbs |-> <<Entry(t)>>]
        /\ code = [c \in CPUs |-> IF c = 0 THEN <<Entry(Boot(c)), join>> ELSE <<Entry(Boot(c))>>]
    BY Zenon DEF Init
  <1>2. \A t \in Tcbs : OneHandler(ctx[t]) /\ ~Last(ctx[t]).isr  BY <1>1, OneEntry
  <1>3. ASSUME NEW c \in CPUs
        PROVE  OneHandler(code[c]) /\ ~Last(code[c]).isr
    <2>1. Boot(c) \in Tcbs  BY DEF Tcbs, Boots
    <2>2. OneHandler(<<Entry(Boot(c))>>) /\ Last(<<Entry(Boot(c))>>) = Entry(Boot(c)) /\ ~Entry(Boot(c)).isr
      BY <2>1, OneEntry
    <2>3. ~join.isr  BY DEF Frame
    <2> HIDE DEF join
    <2>4. \A e, f : Len(<<e, f>>) = 2 /\ <<e, f>>[1] = e /\ <<e, f>>[2] = f  OBVIOUS
    <2>5. \A i \in 1 .. 2 - 1 : i = 1  OBVIOUS
    <2>6. ASSUME NEW s, Len(s) = 2, ~s[1].isr
          PROVE  OneHandler(s) /\ Last(s) = s[2]
      BY <2>5, <2>6, Zenon DEF OneHandler, Last
    <2>7. OneHandler(<<Entry(Boot(c)), join>>) /\ Last(<<Entry(Boot(c)), join>>) = join
      BY <2>2, <2>4, <2>6, Zenon
    <2> QED  BY <1>1, <2>2, <2>3, <2>7, Zenon
  <1> QED  BY <1>2, <1>3 DEF HandlersApart, MaskInv, HandlersMasked, Top

(* Every step from a state in which the handlers are masked keeps them     *)
(* apart, and with one CPU it keeps them masked.                           *)
LEMMA ApartStep ==
  ASSUME TaskInv, TaskInv', HandlersApart, HandlersMasked, [Next]_vars
  PROVE  HandlersApart' /\ (NCPU = 1 => (MaskInv => MaskInv'))
  <1> DEFINE Goal == HandlersApart' /\ (NCPU = 1 => (MaskInv => MaskInv'))
  <1>1. ASSUME NEW c \in CPUs,
               \/ JoinWaits(c) \/ TaskReturns(c) \/ Terminate(c) \/ CleanSelf(c)
               \/ Enter(c) \/ Scan(c) \/ Pick(c) \/ Recharge(c) \/ SwitchTo(c)
        PROVE  Goal
    <2>1. Top(c) \in Frames  BY TopFrame
    <2>2. \A p : [Top(c) EXCEPT !.pc = p].isr = Top(c).isr  BY <2>1 DEF Frames
    <2>3. ctx' = ctx /\ (Unlock(c, iflag[c]) \/ UNCHANGED iflag)
      BY <1>1, Zenon DEF JoinWaits, TaskReturns, Terminate, CleanSelf, Enter, Scan, Pick, Recharge, SwitchTo
    <2>4. CASE \E p : Goto(c, p)  BY <2>2, <2>3, <2>4, MovesApart DEF Goto
    <2>5. CASE Scan(c)
      <3>1. PICK n : Replace(c, [Top(c) EXCEPT !.pc = "pick", !.pid = n])  BY <2>5 DEF Scan
      <3>2. [Top(c) EXCEPT !.pc = "pick", !.pid = n].isr = Top(c).isr  BY <2>1 DEF Frames
      <3> QED  BY <2>3, <3>1, <3>2, MovesApart
    <2>6. CASE SwitchTo(c) /\ tasks[Top(c).pid] # NULL
      <3> DEFINE next == tasks[Top(c).pid]
                 f == [Frame("resumed") EXCEPT !.isr = Top(c).isr]
                 g == [Top(c) EXCEPT !.pc = "swap", !.t = next, !.prev = current[c]]
      <3>1. f.isr = Top(c).isr /\ g.isr = Top(c).isr  BY <2>1 DEF Frames, Frame
      <3>2. Replace(c, f) \/ Replace(c, g)  BY <2>6 DEF SwitchTo
      <3> HIDE DEF f, g
      <3> QED  BY <2>3, <3>1, <3>2, MovesApart
    <2>7. (\E p : Goto(c, p)) \/ Scan(c) \/ (SwitchTo(c) /\ tasks[Top(c).pid] # NULL)
      BY <1>1, Zenon DEF JoinWaits, TaskReturns, Terminate, CleanSelf, Enter, Pick, Recharge, SwitchTo, Fault
    <2> QED  BY <2>4, <2>5, <2>6, <2>7
  <1>2. ASSUME NEW c \in CPUs, NewFindPid(c) \/ Join(c)
        PROVE  Goal
    <2>1. ~Top(c).isr  BY <1>2, TopFrame DEF NewFindPid, Join, At, OuterPCs, OuterFrames
    <2>2. PICK f : Call(c, f) /\ ~f.isr
      <3>1. CASE NewFindPid(c)
        <4>1. PICK p \in Pids : Call(c, [Frame("new") EXCEPT !.pid = p])  BY <3>1 DEF NewFindPid
        <4>2. ~[Frame("new") EXCEPT !.pid = p].isr  BY DEF Frame
        <4> QED  BY <4>1, <4>2
      <3>2. CASE Join(c)
        <4>1. PICK t \in Users : Call(c, [Frame("join") EXCEPT !.t = t])  BY <3>2 DEF Join
        <4>2. ~[Frame("join") EXCEPT !.t = t].isr  BY DEF Frame
        <4> QED  BY <4>1, <4>2
      <3> QED  BY <1>2, <3>1, <3>2
    <2>3. ctx' = ctx /\ (Unlock(c, iflag[c]) \/ UNCHANGED iflag)  BY <1>2 DEF NewFindPid, Join
    <2> QED  BY <2>1, <2>2, <2>3, CallsApart
  <1>3. ASSUME NEW c \in CPUs, UserYield(c) \/ JoinYields(c) \/ LastYield(c)
        PROVE  Goal
    <2>1. PICK back :
            /\ Yield(c, back)
            /\ \/ Top(c).pc \in {"user", "bye"} /\ back = Top(c)
               \/ Top(c).pc = "join_yield" /\ back = [Top(c) EXCEPT !.pc = "join"]
      BY <1>3 DEF UserYield, JoinYields, LastYield, At
    <2> DEFINE r == Append(Front(code[c]), back)
    <2>2. r \in Stacks  BY <2>1, YieldStacks DEF TaskInv
    <2>3. ~back.isr
      <3>1. Top(c).pc \in {"user", "bye"} => ~Top(c).isr  BY TopFrame DEF OuterPCs, OuterFrames
      <3>2. Top(c).pc = "join_yield" => ~[Top(c) EXCEPT !.pc = "join"].isr
        BY TopFrame DEF InnerPCs, SchedPCs, InnerFrames, Frames
      <3> QED  BY <2>1, <3>1, <3>2
    <2>4. code[c] \in Stacks /\ OneHandler(code[c]) /\ iflag[c] \in BOOLEAN
      BY DEF TaskInv, StacksOK, FlagsOK, HandlersApart
    <2>5. OneHandler(r) /\ Last(r) = back  BY <2>4, OneReplace
    <2>6. /\ code'[c] = Append(r, Frame("sched")) /\ \A d \in CPUs : d # c => code'[d] = code[d]
          /\ ctx' = ctx /\ Unlock(c, iflag[c])
      BY <2>1 DEF Yield, TaskInv, StacksOK
    <2> HIDE DEF r
    <2>7. OneHandler(code'[c]) /\ Last(code'[c]) = Frame("sched")
      BY <2>2, <2>3, <2>5, <2>6, StackTop, OnePush
    <2>8. ~Last(code'[c]).isr  BY <2>7 DEF Frame
    <2>9. \A d \in CPUs : d # c => iflag'[d] = iflag[d]  BY <2>4, <2>6, UnlockMasks
    <2> QED  BY <2>6, <2>7, <2>8, <2>9, ApartKept
  <1>4. ASSUME NEW c \in CPUs, NewNoMemory(c) \/ JoinCleans(c) \/ Leave(c)
        PROVE  Goal
    <2>1. Top(c).pc \in InnerPCs /\ Return(c) /\ ctx' = ctx
      BY <1>4 DEF NewNoMemory, JoinCleans, Leave, At, InnerPCs
    <2>2. \A d \in CPUs : d # c => iflag'[d] = iflag[d]
      <3>1. CASE Leave(c)  BY <3>1 DEF Leave, TaskInv, FlagsOK
      <3>2. CASE Unlock(c, iflag[c])  BY <3>2, UnlockMasks DEF TaskInv, FlagsOK
      <3> QED  BY <1>4, <3>1, <3>2 DEF NewNoMemory, JoinCleans
    <2> QED  BY <2>1, <2>2, ReturnsApart, ApartKept
  <1>5. ASSUME NEW c \in CPUs, NewInstall(c)
        PROVE  Goal
    <2>1. Top(c).pc \in InnerPCs /\ Return(c) /\ Unlock(c, iflag[c])
      BY <1>5 DEF NewInstall, At, InnerPCs
    <2>2. PICK t \in Users : ctx' = [ctx EXCEPT ![t] = <<Entry(t)>>]  BY <1>5 DEF NewInstall
    <2>3. t \in Tcbs  BY DEF Tcbs
    <2>4. \A u \in Tcbs : OneHandler(ctx'[u]) /\ (~Last(ctx'[u]).isr \/ ctx'[u] = ctx[u])
      BY <2>2, <2>3, OneEntry DEF TaskInv, StacksOK, HandlersApart
    <2>5. \A d \in CPUs : d # c => iflag'[d] = iflag[d]
      BY <2>1, UnlockMasks DEF TaskInv, FlagsOK
    <2>6. /\ OneHandler(code'[c]) /\ ~Last(code'[c]).isr
          /\ \A d \in CPUs : d # c => code'[d] = code[d]
      BY <2>1, ReturnsApart
    <2>7. HandlersApart'  BY <2>4, <2>6 DEF HandlersApart, OneHandler
    <2>8. MaskInv => MaskInv'  BY <2>4, <2>5, <2>6 DEF MaskInv, HandlersMasked, Top
    <2> QED  BY <2>7, <2>8
  <1>6. ASSUME NEW c \in CPUs, TickPreempts(c)
        PROVE  Goal
    <2> DEFINE f == [Frame("sched") EXCEPT !.isr = TRUE]
    <2>1. Call(c, f) /\ ctx' = ctx /\ Unlock(c, FALSE) /\ iflag[c]
      BY <1>6 DEF TickPreempts, Interruptible
    <2> HIDE DEF f
    <2>2. ~Last(code[c]).isr  BY <2>1 DEF HandlersMasked, Top
    <2>3. code[c] \in Seq(Frames) /\ Len(code[c]) \in Nat \ {0} /\ OneHandler(code[c])
      BY StackTop DEF TaskInv, StacksOK, HandlersApart
    <2>4. code'[c] = Append(code[c], f) /\ \A d \in CPUs : d # c => code'[d] = code[d]
      BY <2>1 DEF Call, TaskInv, StacksOK
    <2>5. OneHandler(code'[c])  BY <2>2, <2>3, <2>4, OnePush
    <2>6. (\A d \in CPUs : d # c => iflag'[d] = iflag[d]) /\ (NCPU = 1 => ~iflag'[c])
      BY <2>1, UnlockMasks
    <2> QED  BY <2>1, <2>4, <2>5, <2>6, ApartKept
  <1>7. ASSUME NEW c \in CPUs, Swap(c)
        PROVE  Goal
    BY <1>7, SwapApart
  <1>8. ASSUME UNCHANGED <<ctx, code, iflag>>
        PROVE  Goal
    BY <1>8 DEF HandlersApart, OneHandler, MaskInv, HandlersMasked, Top
  <1>9. ASSUME UNCHANGED vars
        PROVE  Goal
    BY <1>8, <1>9 DEF vars
  <1>10. ASSUME NEW c \in CPUs, Detach(c) \/ TickCounts(c)
         PROVE  Goal
    BY <1>8, <1>10 DEF Detach, TickCounts
  <1> HIDE DEF Goal
  <1>11. ASSUME NEW c \in CPUs, KernelStep(c)
         PROVE  Goal
    BY <1>1, <1>3, <1>4, <1>5, <1>7, <1>11 DEF KernelStep
  <1>12. ASSUME NEW c \in CPUs, UserStep(c) \/ Tick(c)
         PROVE  Goal
    BY <1>1, <1>2, <1>3, <1>6, <1>10, <1>12 DEF UserStep, Tick
  <1>13. Goal  BY <1>9, <1>11, <1>12 DEF Next
  <1> QED  BY <1>13 DEF Goal

-----------------------------------------------------------------------------
(* schedule always finds a task. *)

(* If every CPU is given one of the CPUs without c, two are given the same. *)
Pigeonhole ==
  \A c \in CPUs : \A f \in [CPUs -> CPUs \ {c}] : \E i, j \in CPUs : i # j /\ f[i] = f[j]

(* A CPU that searches has no idle task, each of the others at most one,   *)
(* so one of the idle tasks is not RUNNING.                                *)
LEMMA IdleLeft ==
  ASSUME Pigeonhole, IdlesOwned, NEW c \in CPUs, At(c, "scan")
  PROVE  \E i \in CPUs : tcb[Idle(i)].state # "RUNNING"
  <1> SUFFICES ASSUME \A i \in CPUs : tcb[Idle(i)].state = "RUNNING"
               PROVE  FALSE
    OBVIOUS
  <1> DEFINE others == CPUs \ {c}
             owner == [i \in CPUs |-> CHOOSE d \in others : Owns(d, Idle(i))]
  <1>1. \A i \in CPUs : \E d \in others : Owns(d, Idle(i))
    <2> SUFFICES ASSUME NEW i \in CPUs
                 PROVE  \E d \in others : Owns(d, Idle(i))
      OBVIOUS
    <2>1. PICK d \in CPUs : Owns(d, Idle(i))  BY DEF IdlesOwned, Idles
    <2>2. d # c  BY <2>1 DEF Owns, At
    <2> QED  BY <2>1, <2>2
  <1>2. \A i \in CPUs : owner[i] \in others /\ Owns(owner[i], Idle(i))  BY <1>1
  <1>3. owner \in [CPUs -> others]  BY <1>2
  <1> HIDE DEF owner
  <1>4. PICK i, j \in CPUs : i # j /\ owner[i] = owner[j]  BY <1>3 DEF Pigeonhole
  <1>5. Owns(owner[i], Idle(i)) /\ Owns(owner[i], Idle(j))  BY <1>2, <1>4
  <1>6. Idle(i) = Idle(j)  BY <1>5 DEF Owns
  <1> QED  BY <1>4, <1>6 DEF Idle

(* It is READY, and in the list. *)
LEMMA ReadyLeft ==
  ASSUME Pigeonhole, TaskInv, LifeInv, IdlesListed, IdlesOwned
  PROVE  SomethingReady
  <1> SUFFICES ASSUME NEW c \in CPUs, At(c, "scan")
               PROVE  \E p \in Pids : Ready(p)
    BY DEF SomethingReady
  <1>1. PICK i \in CPUs : tcb[Idle(i)].state # "RUNNING"  BY IdleLeft
  <1>2. i \in Pids /\ tasks[i] = Idle(i) /\ Idle(i) \in Tcbs
    BY IdleSlots DEF IdlesListed, Tcbs, Idles
  <1>3. Idle(i) # NULL  BY <1>2, UsersAssumption
  <1>4. tcb[Idle(i)].state # "TERMINATED"  BY <1>2, <1>3 DEF LifeInv, ListSound
  <1>5. tcb[Idle(i)].state \in States  BY <1>2 DEF TaskInv, StructsOK, TaskStructs
  <1>6. Ready(i)  BY <1>1, <1>2, <1>3, <1>4, <1>5 DEF Ready, States
  <1> QED  BY <1>2, <1>6

(* The facts about finite sets are taken in only here, since the rest does *)
(* not need them and would be slower with them.                            *)
INSTANCE FiniteSetTheorems

LEMMA CPUsPigeonhole == Pigeonhole
  <1> SUFFICES ASSUME NEW c \in CPUs, NEW f \in [CPUs -> CPUs \ {c}]
               PROVE  \E i, j \in CPUs : i # j /\ f[i] = f[j]
    BY DEF Pigeonhole
  <1>1. IsFiniteSet(CPUs)  BY CPUsAssumption, FS_Interval DEF CPUs
  <1>2. /\ IsFiniteSet(CPUs \ {c})
        /\ Cardinality(CPUs \ {c}) = Cardinality(CPUs) - 1
        /\ Cardinality(CPUs) \in Nat
    BY <1>1, FS_RemoveElement, FS_CardinalityType
  <1>3. Cardinality(CPUs \ {c}) < Cardinality(CPUs)  BY <1>2
  <1> QED  BY <1>1, <1>2, <1>3, FS_PigeonHole

(* The endless loop of schedule always finds a task, whatever the number   *)
(* of CPUs and tasks, as long as no context is damaged and the handlers of *)
(* the timer are not interrupted: there are as many idle tasks as CPUs,    *)
(* and the CPU that searches is on none of them.                           *)
THEOREM ScheduleFinds == Spec /\ []Undamaged /\ []HandlersMasked => []SomethingReady
  <1>1. Init => IdlesOwned /\ HandlersApart  BY InitLife, InitApart
  <1>2. /\ TaskInv /\ TaskInv' /\ LifeInv /\ IdlesListed /\ Undamaged /\ Undamaged' /\ HandlersMasked
        /\ IdlesOwned /\ HandlersApart /\ [Next]_vars
        => (IdlesOwned /\ HandlersApart)'
    BY LifeStep, ApartStep DEF OwnedKept
  <1>3. TaskInv /\ LifeInv /\ IdlesListed /\ IdlesOwned => SomethingReady
    BY CPUsPigeonhole, ReadyLeft
  <1> QED  BY <1>1, <1>2, <1>3, TaskInvariant, LifeInvariant, PTL DEF Spec

(* With one CPU the handlers need no hypothesis: no other CPU's acquire    *)
(* can have the release in the handler set the interrupt flag.             *)
THEOREM OneCpuFinds == NCPU = 1 => (Spec /\ []Undamaged => [](HandlersMasked /\ SomethingReady))
  <1> SUFFICES ASSUME NCPU = 1
               PROVE  Spec /\ []Undamaged => [](HandlersMasked /\ SomethingReady)
    OBVIOUS
  <1>1. Init => HandlersApart /\ MaskInv  BY InitApart
  <1>2. TaskInv /\ TaskInv' /\ HandlersApart /\ MaskInv /\ [Next]_vars => (HandlersApart /\ MaskInv)'
    BY ApartStep DEF MaskInv
  <1>3. MaskInv => HandlersMasked  BY DEF MaskInv
  <1> QED  BY <1>1, <1>2, <1>3, TaskInvariant, ScheduleFinds, PTL DEF Spec
=============================================================================
