------------------------------- MODULE Tasks --------------------------------
(***************************************************************************)
(* kernel/tasks/tasks.c and cpu_switch_to.S: the task list, the priority   *)
(* round-robin scheduler that every CPU runs, and the life of a task from  *)
(* task_new to its clean-up.                                               *)
(*                                                                         *)
(* A section under lock_tasklist is one step (RWLock proves that the lock  *)
(* is a readers/writers lock whose holder is not interrupted); everything  *)
(* between two sections can interleave with other CPUs and, when the code  *)
(* runs with interrupts enabled, with the timer interrupt.  A section need *)
(* not leave the interrupt flag as it found it (Released).                 *)
(*                                                                         *)
(* What a CPU executes is a stack of frames, the innermost last.  The      *)
(* context cpu_switch_to saves in a task_struct is such a stack, so a CPU  *)
(* that loads a context before the CPU that runs the task has saved it     *)
(* resumes an old one.                                                     *)
(***************************************************************************)
EXTENDS Integers, FiniteSets, Sequences

CONSTANTS
  NCPU,       \* the number of processors; processor 0 runs kmain
  Users,      \* task_structs that task_new may get from the heap
  Started,    \* the tasks kmain has created before its sti, as a sequence
  Detached,   \* those of them it has passed to task_detach, not the last
  MaxTasks,   \* MAX_CONCURRENT_TASKS
  Prios,      \* priorities passed to task_new
  MaxLag,     \* bound: how far below zero ticks may take a dynamic_prio
  MaxDepth    \* bound: how many frames deep a tick may put a stack

CPUs == 0 .. NCPU - 1
IdlePrio == 1

(* The elements of a sequence, its last one, and the rest. *)
Elements(s) == {s[i] : i \in DOMAIN s}
Last(s) == s[Len(s)]
Front(s) == SubSeq(s, 1, Len(s) - 1)

(* The task_struct of each CPU's first task and of its idle task. *)
Boot(c) == <<"boot", c>>
Idle(c) == <<"idle", c>>
Boots == {Boot(c) : c \in CPUs}
Idles == {Idle(c) : c \in CPUs}
Tcbs == Boots \cup Idles \cup Users
NULL == <<"null">>

Pids == 0 .. MaxTasks - 1
NoPid == -1

ASSUME CPUsAssumption == NCPU \in Nat \ {0}
ASSUME UsersAssumption ==
  /\ IsFiniteSet(Users)
  /\ Users \cap (Boots \cup Idles) = {}
  /\ NULL \notin Tcbs
ASSUME StartedAssumption ==
  /\ Started \in Seq(Users)
  /\ Started # <<>>
  /\ \A i, j \in 1 .. Len(Started) : Started[i] = Started[j] => i = j
  /\ Detached \subseteq Elements(Started)
  /\ Last(Started) \notin Detached
ASSUME BoundsAssumption ==
  /\ MaxTasks \in Nat
  /\ NCPU + Len(Started) <= MaxTasks
  /\ Prios \subseteq Nat \ {0}
  /\ Prios # {}
  /\ MaxLag \in Nat
  /\ MaxDepth \in Nat

States == {"READY", "RUNNING", "TERMINATED"}
PCs == {"hlt", "user", "new", "join", "join_yield", "removed", "dead", "bye",
        "sched", "scan", "pick", "go", "swap", "resumed", "fault"}

(* A frame: the next statement, whether the timer handler has called it,   *)
(* the local pid or next, the local task pointers, and the interrupt flag  *)
(* in the EFLAGS that cpu_switch_to has pushed on it (set for a new task). *)
(* The outermost frame of a stack points to the task the stack belongs to. *)
Frames == [pc : PCs, isr : BOOLEAN, pid : Pids \cup {NoPid},
           t : Tcbs \cup {NULL}, prev : Tcbs \cup {NULL}, iflag : BOOLEAN]
Frame(p) == [pc |-> p, isr |-> FALSE, pid |-> NoPid, t |-> NULL, prev |-> NULL,
             iflag |-> TRUE]
Entry(t) == [Frame(IF t \in Users THEN "user" ELSE "hlt") EXCEPT !.t = t]

VARIABLES
  tasks,     \* _tasks
  nr_tasks,  \* _nr_tasks
  tcb,       \* the task_structs
  ctx,       \* the context each task_struct holds: esp, eip and the stack
  current,   \* _current
  code,      \* what each CPU executes: its registers and stack
  iflag      \* each CPU's interrupt flag

vars == <<tasks, nr_tasks, tcb, ctx, current, code, iflag>>

TaskStructs ==
  [state : States, static_prio : Nat, dynamic_prio : Int, interruptible : BOOLEAN,
   detached : BOOLEAN, joined : BOOLEAN, pid : Pids \cup {NoPid}, mapped : BOOLEAN]

TypeOK ==
  /\ tasks \in [Pids -> Tcbs \cup {NULL}]
  /\ nr_tasks \in Int
  /\ tcb \in [Tcbs -> TaskStructs]
  /\ ctx \in [Tcbs -> Seq(Frames)]
  /\ current \in [CPUs -> Tcbs]
  /\ code \in [CPUs -> Seq(Frames) \ {<<>>}]
  /\ iflag \in [CPUs -> BOOLEAN]

-----------------------------------------------------------------------------
(* Mutant of NewTask: the pid is stored one too high. *)
NewTaskNextPid(prio, pid) ==
  [state |-> "READY", static_prio |-> prio, dynamic_prio |-> 0, interruptible |-> TRUE,
   detached |-> FALSE, joined |-> FALSE, pid |-> pid + 1, mapped |-> TRUE]

(* What task_new leaves in a task_struct.  "joined" is not in the code: it *)
(* records that a caller has passed the task to task_join, which a caller  *)
(* may do once, and not after task_detach.                                 *)
NewTask(prio, pid) ==
  [state |-> "READY", static_prio |-> prio, dynamic_prio |-> 0, interruptible |-> TRUE,
   detached |-> FALSE, joined |-> FALSE, pid |-> pid, mapped |-> TRUE]

(* A bootstrap task's pid is 99999 and it is in no list; its static_prio   *)
(* is what mmu_mmap's memory happens to hold, which nothing reads.         *)
BootTask ==
  [NewTask(IdlePrio, NoPid) EXCEPT !.state = "RUNNING", !.dynamic_prio = 1]

(* Mutant of FirstTask: the bootstrap tasks are in the list, not the idle. *)
FirstTaskBoot(p) ==
  CASE p < NCPU -> Boot(p)
    [] p \in NCPU .. NCPU + Len(Started) - 1 -> Started[p - NCPU + 1]
    [] OTHER -> NULL

(* The moment of kmain's sti: tasks_init has run, kmain has created the    *)
(* Started tasks, detached some and calls task_join on the last.           *)
FirstTask(p) ==
  CASE p < NCPU -> Idle(p)
    [] p \in NCPU .. NCPU + Len(Started) - 1 -> Started[p - NCPU + 1]
    [] OTHER -> NULL

Init ==
  \E prio \in [Users -> Prios] :
    LET waited == Last(Started)
        pidOf(t) == NCPU - 1 + CHOOSE i \in 1 .. Len(Started) : Started[i] = t
    IN
    /\ tasks = [p \in Pids |-> FirstTask(p)]
    /\ nr_tasks = NCPU + Len(Started)
    /\ tcb = [t \in Tcbs |->
                CASE t \in Boots -> BootTask
                  [] t \in Idles -> NewTask(IdlePrio, t[2])
                  [] t \in Elements(Started) ->
                       [NewTask(prio[t], pidOf(t)) EXCEPT !.detached = t \in Detached,
                                                          !.joined = t = waited]
                  [] OTHER -> [NewTask(prio[t], NoPid) EXCEPT !.mapped = FALSE]]
    /\ ctx = [t \in Tcbs |-> <<Entry(t)>>]
    /\ current = [c \in CPUs |-> Boot(c)]
    /\ code = [c \in CPUs |->
                 IF c = 0 THEN <<Entry(Boot(c)), [Frame("join") EXCEPT !.t = waited]>>
                          ELSE <<Entry(Boot(c))>>]
    /\ iflag = [c \in CPUs |-> TRUE]

-----------------------------------------------------------------------------
(* The innermost frame of a CPU, and the ways a step changes it. *)
Top(c) == Last(code[c])
At(c, pc) == Top(c).pc = pc
Replace(c, f) == code' = [code EXCEPT ![c] = Append(Front(@), f)]
Goto(c, pc) == Replace(c, [Top(c) EXCEPT !.pc = pc])
Call(c, f) == code' = [code EXCEPT ![c] = Append(@, f)]
Return(c) == code' = [code EXCEPT ![c] = Front(@)]
Fault(c) == Goto(c, "fault")

cur(c) == tcb[current[c]]

(* What the release of a lock may leave in the interrupt flag of a CPU     *)
(* that had f when it asked for the lock.  The release sets the flag if    *)
(* the last of all acquires to store into the lock's one field found it    *)
(* set: a tick before the cli (rwlock.c:31, spinlock.c:17) has the handler *)
(* store "off", and the acquire of another CPU may store either.           *)
Released(f) == IF f \/ NCPU > 1 THEN BOOLEAN ELSE {FALSE}
Unlock(c, f) == \E g \in Released(f) : iflag' = [iflag EXCEPT ![c] = g]

(* Mutant of Preempted: the task stays in TASK_RUNNING. *)
PreemptedRuns(state) == state

(* A task that stops running may be chosen again. *)
Preempted(state) == IF state = "RUNNING" THEN "READY" ELSE state

(* task_yield up to its call of schedule; back is where it returns to. *)
Yield(c, back) ==
  /\ tcb' = [tcb EXCEPT ![current[c]].state = Preempted(@),
                        ![current[c]].dynamic_prio = 0]
  /\ code' = [code EXCEPT ![c] = Append(Append(Front(@), back), Frame("sched"))]
  /\ Unlock(c, iflag[c])
  /\ UNCHANGED <<tasks, nr_tasks, ctx, current>>

-----------------------------------------------------------------------------
(* What a task's own code does: it yields, *)
UserYield(c) ==
  /\ At(c, "user")
  /\ Yield(c, Top(c))

(* creates a task (task_new up to the search for a free pid; it returns    *)
(* NULL and changes nothing if there is none),                             *)
NewFindPid(c) ==
  /\ At(c, "user")
  /\ nr_tasks # MaxTasks
  /\ \E p \in Pids :
       /\ tasks[p] = NULL
       /\ \A q \in Pids : q < p => tasks[q] # NULL
       /\ Call(c, [Frame("new") EXCEPT !.pid = p])
  /\ Unlock(c, iflag[c])
  /\ UNCHANGED <<tasks, nr_tasks, tcb, ctx, current>>

(* (the rest of task_new: map a task_struct, fill it in, install it)       *)
NewInstall(c) ==
  /\ At(c, "new")
  /\ \E t \in Users, prio \in Prios :
       /\ ~tcb[t].mapped
       /\ tcb' = [tcb EXCEPT ![t] = NewTask(prio, Top(c).pid)]
       /\ ctx' = [ctx EXCEPT ![t] = <<Entry(t)>>]
       /\ tasks' = [tasks EXCEPT ![Top(c).pid] = t]
  /\ nr_tasks' = nr_tasks + 1
  /\ Return(c)
  /\ Unlock(c, iflag[c])
  /\ UNCHANGED current

(* (without memory the task_struct is filled in at address 0, which is     *)
(* mapped: the slot stays empty, and counts as taken)                      *)
NewNoMemory(c) ==
  /\ At(c, "new")
  /\ \A t \in Users : tcb[t].mapped
  /\ tasks' = [tasks EXCEPT ![Top(c).pid] = NULL]
  /\ nr_tasks' = nr_tasks + 1
  /\ Return(c)
  /\ Unlock(c, iflag[c])
  /\ UNCHANGED <<tcb, ctx, current>>

(* A task whose creator may still detach it or join it. *)
Owned(t) == t \in Users /\ tcb[t].mapped /\ ~tcb[t].detached /\ ~tcb[t].joined

(* detaches one, *)
Detach(c) ==
  /\ At(c, "user")
  /\ \E t \in Users :
       /\ Owned(t)
       /\ t # current[c]
       /\ tcb' = [tcb EXCEPT ![t].detached = TRUE]
  /\ UNCHANGED <<tasks, nr_tasks, ctx, current, code, iflag>>

(* joins one, *)
Join(c) ==
  /\ At(c, "user")
  /\ \E t \in Users :
       /\ Owned(t)
       /\ t # current[c]
       /\ tcb' = [tcb EXCEPT ![t].joined = TRUE]
       /\ Call(c, [Frame("join") EXCEPT !.t = t])
  /\ UNCHANGED <<tasks, nr_tasks, ctx, current, iflag>>

(* (the loop of task_join while the task has not terminated,               *)
JoinWaits(c) ==
  /\ At(c, "join")
  /\ tcb[Top(c).t].state # "TERMINATED"
  /\ tcb' = [tcb EXCEPT ![Top(c).t].dynamic_prio = 0]
  /\ Goto(c, "join_yield")
  /\ UNCHANGED <<tasks, nr_tasks, ctx, current, iflag>>

JoinYields(c) ==
  /\ At(c, "join_yield")
  /\ Yield(c, [Top(c) EXCEPT !.pc = "join"])

(* and its end, task_cleanup)                                              *)
JoinCleans(c) ==
  /\ At(c, "join")
  /\ tcb[Top(c).t].state = "TERMINATED"
  /\ tcb' = [tcb EXCEPT ![Top(c).t].mapped = FALSE]
  /\ Return(c)
  /\ Unlock(c, iflag[c])
  /\ UNCHANGED <<tasks, nr_tasks, ctx, current>>

-----------------------------------------------------------------------------
(* Mutant of TaskReturns: the task stays in the list. *)
TaskReturnsListed(c) ==
  /\ At(c, "user")
  /\ tcb' = [tcb EXCEPT ![current[c]].interruptible = FALSE]
  /\ Goto(c, "removed")
  /\ Unlock(c, iflag[c])
  /\ UNCHANGED <<tasks, nr_tasks, ctx, current>>

(* and returns, into on_current_task_return_cb.  Its pid is read when the  *)
(* section removes the task.                                               *)
TaskReturns(c) ==
  /\ At(c, "user")
  /\ tcb' = [tcb EXCEPT ![current[c]].interruptible = FALSE]
  /\ tasks' = [tasks EXCEPT ![cur(c).pid] = NULL]
  /\ nr_tasks' = nr_tasks - 1
  /\ Goto(c, "removed")
  /\ Unlock(c, iflag[c])
  /\ UNCHANGED <<ctx, current>>

Terminate(c) ==
  /\ At(c, "removed")
  /\ tcb' = [tcb EXCEPT ![current[c]].state = IF @ = "RUNNING" THEN "TERMINATED" ELSE @]
  /\ Goto(c, "dead")
  /\ UNCHANGED <<tasks, nr_tasks, ctx, current, iflag>>

(* Mutant of CleanSelf: the test of join_state is dropped. *)
CleanSelfAlways(c) ==
  /\ At(c, "dead")
  /\ tcb' = [tcb EXCEPT ![current[c]].mapped = FALSE]
  /\ Goto(c, "bye")
  /\ Unlock(c, iflag[c])
  /\ UNCHANGED <<tasks, nr_tasks, ctx, current>>

(* task_cleanup of a detached task, by itself *)
CleanSelf(c) ==
  /\ At(c, "dead")
  /\ tcb' = [tcb EXCEPT ![current[c]].mapped = @ /\ ~cur(c).detached]
  /\ Goto(c, "bye")
  /\ IF cur(c).detached THEN Unlock(c, iflag[c]) ELSE UNCHANGED iflag
  /\ UNCHANGED <<tasks, nr_tasks, ctx, current>>

LastYield(c) ==
  /\ At(c, "bye")
  /\ Yield(c, Top(c))

-----------------------------------------------------------------------------
(* schedule *)
Enter(c) ==
  /\ At(c, "sched")
  /\ tcb' = [tcb EXCEPT ![current[c]].interruptible = FALSE]
  /\ Goto(c, "scan")
  /\ UNCHANGED <<tasks, nr_tasks, ctx, current, iflag>>

Ready(p) == tasks[p] # NULL /\ tcb[tasks[p]].state = "READY"
Counter(p) == tcb[tasks[p]].dynamic_prio

(* The first slot with the greatest positive counter of the ready tasks. *)
Best(p) ==
  /\ Ready(p) /\ Counter(p) > 0
  /\ \A q \in Pids : Ready(q) => Counter(q) < Counter(p) \/ (Counter(q) = Counter(p) /\ p <= q)

(* The search, under the read lock. *)
Scan(c) ==
  /\ At(c, "scan")
  /\ LET next == IF \E p \in Pids : Best(p) THEN CHOOSE p \in Pids : Best(p) ELSE NoPid
     IN  Replace(c, [Top(c) EXCEPT !.pc = "pick", !.pid = next])
  /\ Unlock(c, iflag[c])
  /\ UNCHANGED <<tasks, nr_tasks, tcb, ctx, current>>

(* The choice, under the write lock: it does not look at the state again. *)
Pick(c) ==
  /\ At(c, "pick")
  /\ Top(c).pid # NoPid
  /\ IF tasks[Top(c).pid] = NULL
     THEN Fault(c) /\ UNCHANGED tcb
     ELSE /\ tcb' = [tcb EXCEPT ![tasks[Top(c).pid]].state = "RUNNING"]
          /\ Goto(c, "go")
  /\ Unlock(c, iflag[c])
  /\ UNCHANGED <<tasks, nr_tasks, ctx, current>>

(* Mutants of Recharged: the counter is not halved; nothing is added. *)
RechargedWhole(t) == t.dynamic_prio + t.static_prio
RechargedNothing(t) == t.dynamic_prio \div 2

Recharged(t) == t.dynamic_prio \div 2 + t.static_prio

Recharge(c) ==
  /\ At(c, "pick")
  /\ Top(c).pid = NoPid
  /\ tcb' = [t \in Tcbs |-> IF \E p \in Pids : tasks[p] = t /\ Ready(p)
                            THEN [tcb[t] EXCEPT !.dynamic_prio = Recharged(tcb[t])]
                            ELSE tcb[t]]
  /\ Goto(c, "scan")
  /\ Unlock(c, iflag[c])
  /\ UNCHANGED <<tasks, nr_tasks, ctx, current>>

(* task_switch_to(_tasks[next]), the list read without the lock *)
SwitchTo(c) ==
  /\ At(c, "go")
  /\ LET next == tasks[Top(c).pid] IN
     IF next = NULL
     THEN Fault(c) /\ UNCHANGED current
     ELSE /\ current' = [current EXCEPT ![c] = next]
          /\ Replace(c, IF next = current[c]
                        THEN [Frame("resumed") EXCEPT !.isr = Top(c).isr]
                        ELSE [Top(c) EXCEPT !.pc = "swap", !.t = next, !.prev = current[c]])
  /\ UNCHANGED <<tasks, nr_tasks, tcb, ctx, iflag>>

(* cpu_switch_to: save into prev, load from next, EFLAGS included *)
Swap(c) ==
  /\ At(c, "swap")
  /\ ctx' = [ctx EXCEPT ![Top(c).prev] =
               Append(Front(code[c]),
                      [Frame("resumed") EXCEPT !.isr = Top(c).isr, !.iflag = iflag[c]])]
  /\ code' = [code EXCEPT ![c] = ctx'[Top(c).t]]
  /\ iflag' = [iflag EXCEPT ![c] = Last(ctx'[Top(c).t]).iflag]
  /\ UNCHANGED <<tasks, nr_tasks, tcb, current>>

(* The end of schedule, and the return of task_yield or of the handler,    *)
(* whose iret restores the flag of what it interrupted.                    *)
Leave(c) ==
  /\ At(c, "resumed")
  /\ tcb' = [tcb EXCEPT ![current[c]].interruptible = TRUE]
  /\ Return(c)
  /\ iflag' = [iflag EXCEPT ![c] = @ \/ Top(c).isr]
  /\ UNCHANGED <<tasks, nr_tasks, ctx, current>>

-----------------------------------------------------------------------------
(* task_isr_tick on a CPU whose interrupts are enabled *)
Interruptible(c) == iflag[c] /\ ~At(c, "fault")
MayPreempt(c) == cur(c).interruptible /\ cur(c).dynamic_prio <= 1

TickCounts(c) ==
  /\ Interruptible(c)
  /\ ~MayPreempt(c)
  /\ cur(c).dynamic_prio > -MaxLag
  /\ tcb' = [tcb EXCEPT ![current[c]].dynamic_prio = @ - 1]
  /\ UNCHANGED <<tasks, nr_tasks, ctx, current, code, iflag>>

(* The interrupt gate clears the flag, and then the section is left. *)
TickPreempts(c) ==
  /\ Interruptible(c)
  /\ MayPreempt(c)
  /\ Len(code[c]) < MaxDepth
  /\ tcb' = [tcb EXCEPT ![current[c]].state = Preempted(@),
                        ![current[c]].dynamic_prio = 0]
  /\ Call(c, [Frame("sched") EXCEPT !.isr = TRUE])
  /\ Unlock(c, FALSE)
  /\ UNCHANGED <<tasks, nr_tasks, ctx, current>>

Tick(c) == TickCounts(c) \/ TickPreempts(c)

KernelStep(c) ==
  \/ NewInstall(c) \/ NewNoMemory(c) \/ JoinWaits(c) \/ JoinYields(c) \/ JoinCleans(c)
  \/ Terminate(c) \/ CleanSelf(c) \/ LastYield(c)
  \/ Enter(c) \/ Scan(c) \/ Pick(c) \/ Recharge(c) \/ SwitchTo(c) \/ Swap(c) \/ Leave(c)

UserStep(c) ==
  UserYield(c) \/ NewFindPid(c) \/ Detach(c) \/ Join(c) \/ TaskReturns(c)

Next == \E c \in CPUs : KernelStep(c) \/ UserStep(c) \/ Tick(c)

Spec == Init /\ [][Next]_vars

(* A CPU executes its code; the timer interrupt is redirected to every CPU *)
(* in turn and stays pending until the CPU enables interrupts, which a CPU *)
(* need not do ever again (Deaf).                                          *)
FairSpec == Spec /\ \A c \in CPUs : WF_vars(KernelStep(c)) /\ SF_vars(Tick(c))

-----------------------------------------------------------------------------
(* Properties *)

Listed(t) == \E p \in Pids : tasks[p] = t

(* tasks.c:186, "A task counter can never get larger than 2 * priority.",  *)
(* through every order of recharges, ticks, yields and joins.              *)
CounterBound ==
  \A p \in Pids : tasks[p] # NULL => Counter(p) < 2 * tcb[tasks[p]].static_prio

(* The endless loop of schedule always has a task to find: there are as    *)
(* many idle tasks as CPUs, and one that is not ready is on another CPU.   *)
(* With several CPUs that needs handlers that stay masked: one that the    *)
(* release at tasks.c:232 unmasks is interrupted before tasks.c:158, and   *)
(* the tick can leave an idle task RUNNING on no CPU.                      *)
SomethingReady ==
  \A c \in CPUs : At(c, "scan") => \E p \in Pids : Ready(p)

(* Neither on_current_task_return_cb nor task_join frees a task_struct     *)
(* that the list still points to, which every schedule would read.         *)
NoDangling == \A p \in Pids : tasks[p] # NULL => tcb[tasks[p]].mapped

(* tasks.c:23, "CPU will never return to this task again": once a CPU has  *)
(* left its bootstrap task, no choice of schedule leads back to one.       *)
BootstrapLeft ==
  [][\A c \in CPUs : current[c] \notin Boots => current'[c] \notin Boots]_vars

(* tasks.c:174, "Must lock to prevent 2 CPUs from picking the same next    *)
(* task."                                                                  *)
PickedOnce ==
  \A c, d \in CPUs : c # d /\ At(c, "go") /\ At(d, "go") => tasks[Top(c).pid] # tasks[Top(d).pid]

(* doc/Kernel.md 4.5.1: "the content of EIP, SS, general registers of each *)
(* thread are saved and restored accordingly": a task_struct holds the     *)
(* context of its own task, and a CPU runs the stack of its current task.  *)
ContextsKept ==
  /\ \A t \in Tcbs : ctx[t][1].t = t
  /\ \A c \in CPUs : code[c][1].t = IF At(c, "swap") THEN Top(c).prev ELSE current[c]

(* A task_struct stays mapped while a task_join is reading its state, and  *)
(* is not freed a second time by it: also when the joiner was preempted in *)
(* its loop, and whoever else returns or is cleaned up meanwhile, as long  *)
(* as the contexts are intact.                                             *)
JoinedMapped ==
  LET joins(s) == {i \in DOMAIN s : s[i].pc \in {"join", "join_yield"}}
      suspended(t) == Listed(t) /\ \A c \in CPUs : code[c][1].t # t
  IN  ContextsKept =>
        /\ \A c \in CPUs : \A i \in joins(code[c]) : tcb[code[c][i].t].mapped
        /\ \A t \in Users : suspended(t) => \A i \in joins(ctx[t]) : tcb[ctx[t][i].t].mapped

(* No context has been overwritten, no task is on two CPUs, and no         *)
(* task_struct of a task that has returned is used again while a CPU is    *)
(* still on it: the states in which the stacks of the C program still mean *)
(* something.                                                              *)
Undamaged ==
  /\ ContextsKept
  /\ \A c, d \in CPUs : c # d => current[c] # current[d]
  /\ \A c \in CPUs : code[c][1].pc \in {"dead", "bye"} => tcb[code[c][1].t].state = "TERMINATED"

(* The timer's handlers run with interrupts off. *)
HandlersMasked == \A c \in CPUs : Top(c).isr => ~iflag[c]

(* A CPU whose task goes on with interrupts off, behind a lock that it has *)
(* left in that way. *)
Deaf(c) == At(c, "user") /\ ~iflag[c]

(* No starvation: a task that is ready is eventually chosen however often  *)
(* the others yield, join or are created, as long as the contexts are      *)
(* intact, no task keeps a CPU deaf for ever, and the priorities are       *)
(* equal: a joiner of higher priority starves the task it waits for, whose *)
(* counter tasks.c:125 sets to 0.                                          *)
ReadyRuns ==
  []<>(\A c \in CPUs : ~Deaf(c)) =>
    \A t \in Users \cup Idles :
      (Listed(t) /\ tcb[t].state = "READY") ~> (tcb[t].state # "READY" \/ ~ContextsKept)
=============================================================================
