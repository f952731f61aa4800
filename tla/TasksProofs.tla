---------------------------- MODULE TasksProofs -----------------------------
(***************************************************************************)
(* Proofs about Tasks for every number of CPUs, tasks and priorities.      *)
(*                                                                         *)
(* Everything rests on one inductive invariant, TaskInv: besides the types *)
(* it says what shape a stack has (an outermost frame that belongs to the  *)
(* task's own code, then frames of the kernel), that the list never holds  *)
(* a bootstrap task, and that every counter is below twice its priority.   *)
(*                                                                         *)
(* The last parts prepare TasksLife: its invariants, and what it takes for *)
(* a step that leaves the list alone to keep them.                         *)
(***************************************************************************)
EXTENDS Tasks, TLAPS

OuterPCs == {"hlt", "user", "removed", "dead", "bye"}
InnerPCs == {"new", "join", "join_yield", "sched", "scan", "pick", "go", "swap", "resumed", "fault"}
SchedPCs == {"sched", "scan", "pick", "go", "swap", "resumed", "fault"}

(* The outermost frame says whose stack it is; the others are calls of the *)
(* task (task_new, task_join) or of schedule, in the handler or not.       *)
OuterFrames ==
  {f \in Frames : /\ f.pc \in OuterPCs
                  /\ f.pc = "hlt" => f.t \in Boots \cup Idles
                  /\ f.pc # "hlt" => f.t \in Users
                  /\ ~f.isr}
InnerFrames ==
  {f \in Frames : /\ f.pc \in InnerPCs
                  /\ f.pc = "go" => f.pid \in Pids
                  /\ f.pc = "new" => f.pid \in Pids
                  /\ f.pc \in {"join", "join_yield"} => f.t \in Users
                  /\ f.pc = "swap" => f.t \in Tcbs
                  /\ f.isr => f.pc \in SchedPCs}

(* Only a task's own code calls task_new and task_join, and an idle task   *)
(* calls nothing: it is preempted by the timer.                            *)
Stacks ==
  {s \in Seq(Frames) : /\ s # <<>>
                       /\ s[1] \in OuterFrames
                       /\ \A i \in 2 .. Len(s) : s[i] \in InnerFrames
                       /\ \A i \in 3 .. Len(s) : s[i].pc \in SchedPCs
                       /\ s[1].t \in Idles => \A i \in 2 .. Len(s) : s[i].isr}

(* A context that was saved resumes at the end of schedule, one that was   *)
(* made by task_new at the task's function.                                *)
Contexts == {s \in Stacks : Last(s).pc \in {"hlt", "user", "resumed"}}

Listable == (Tcbs \ Boots) \cup {NULL}

(* What the task_struct t may hold. *)
Structs(t) ==
  {r \in TaskStructs : t \notin Boots => r.static_prio >= 1 /\ r.dynamic_prio < 2 * r.static_prio}

StructsOK == tcb \in [Tcbs -> TaskStructs] /\ \A t \in Tcbs : tcb[t] \in Structs(t)
StacksOK == ctx \in [Tcbs -> Contexts] /\ code \in [CPUs -> Stacks]
ListOK ==
  /\ tasks \in [Pids -> Listable]
  /\ nr_tasks \in Int
  /\ current \in [CPUs -> Tcbs]
FlagsOK == iflag \in [CPUs -> BOOLEAN]

ShapeInv == StructsOK /\ StacksOK /\ ListOK
TaskInv == StructsOK /\ StacksOK /\ ListOK /\ FlagsOK

-----------------------------------------------------------------------------
(* What the operations on stacks preserve. *)

(* The innermost frame of a stack is a frame, of the one kind or the other *)
LEMMA StackTop ==
  ASSUME NEW s \in Stacks
  PROVE  /\ s \in Seq(Frames) /\ Len(s) \in Nat \ {0}
         /\ Last(s) \in Frames
         /\ Last(s) \in OuterFrames \/ Last(s) \in InnerFrames
         /\ Last(s).pc \in OuterPCs => Len(s) = 1 /\ Last(s) = s[1] /\ Last(s) \in OuterFrames
         /\ Last(s).pc \in InnerPCs => Len(s) >= 2 /\ Last(s) \in InnerFrames
         /\ Last(s).pc \in InnerPCs \ SchedPCs => Len(s) = 2
  <1>1. s \in Seq(Frames) /\ Len(s) \in Nat \ {0} /\ s[1] \in OuterFrames
    BY DEF Stacks
  <1>2. Len(s) >= 2 => Last(s) \in InnerFrames
    BY <1>1 DEF Stacks, Last
  <1>3. Len(s) >= 3 => Last(s).pc \in SchedPCs
    BY <1>1 DEF Stacks, Last
  <1>4. Len(s) = 1 => Last(s) = s[1]
    BY DEF Last
  <1>5. \A f \in OuterFrames : f \in Frames /\ f.pc \in OuterPCs /\ f.pc \notin InnerPCs
    BY DEF OuterFrames, OuterPCs, InnerPCs
  <1>6. \A f \in InnerFrames : f \in Frames /\ f.pc \in InnerPCs /\ f.pc \notin OuterPCs
    BY DEF InnerFrames, OuterPCs, InnerPCs
  <1>7. Len(s) = 1 \/ Len(s) = 2 \/ Len(s) >= 3
    <2>1. \A n \in Nat \ {0} : n = 1 \/ n = 2 \/ n >= 3  OBVIOUS
    <2> QED  BY <1>1, <2>1, Zenon
  <1> QED  BY <1>1, <1>2, <1>3, <1>4, <1>5, <1>6, <1>7

(* The stack of an idle task is not the one that calls task_yield. *)
LEMMA IdleStack ==
  ASSUME NEW s \in Stacks, s[1].t \in Idles, ~Last(s).isr
  PROVE  Len(s) = 1 /\ Last(s).pc = "hlt"
  <1>1. Len(s) = 1
    <2>1. \A n \in Nat \ {0} : n # 1 => n \in 2 .. n  OBVIOUS
    <2>2. Len(s) \in Nat \ {0}  BY StackTop
    <2> QED  BY <2>1, <2>2, Zenon DEF Stacks, Last
  <1>2. Last(s) \in OuterFrames /\ Last(s).t \in Idles  BY <1>1 DEF Stacks, Last
  <1> QED  BY <1>1, <1>2, UsersAssumption DEF OuterFrames

(* A call pushes a kernel frame. *)
LEMMA StackPush ==
  ASSUME NEW s \in Stacks, NEW f \in InnerFrames,
         f.pc \in SchedPCs \/ Len(s) = 1,
         s[1].t \in Idles => f.isr
  PROVE  /\ Append(s, f) \in Stacks
         /\ Last(Append(s, f)) = f /\ Len(Append(s, f)) = Len(s) + 1
         /\ \A i \in 1 .. Len(s) : Append(s, f)[i] = s[i]
         /\ Append(s, f)[1] = s[1]
  <1> DEFINE r == Append(s, f)
  <1>1. s \in Seq(Frames) /\ f \in Frames /\ Len(s) \in Nat \ {0}  BY DEF Stacks, InnerFrames
  <1>2. r \in Seq(Frames) /\ Len(r) = Len(s) + 1 /\ r[Len(s) + 1] = f  BY <1>1
  <1>3. \A i \in 1 .. Len(s) : r[i] = s[i]  BY <1>1
  <1> HIDE DEF r
  <1>4. r # <<>> /\ r[1] = s[1] /\ r[1] \in OuterFrames  BY <1>1, <1>2, <1>3 DEF Stacks
  <1>5. \A i \in 2 .. Len(r) : r[i] \in InnerFrames  BY <1>1, <1>2, <1>3 DEF Stacks
  <1>6. \A i \in 3 .. Len(r) : r[i].pc \in SchedPCs  BY <1>1, <1>2, <1>3 DEF Stacks
  <1>7. r[1].t \in Idles => \A i \in 2 .. Len(r) : r[i].isr  BY <1>1, <1>2, <1>3, <1>4 DEF Stacks
  <1>8. r \in Stacks  BY <1>2, <1>4, <1>5, <1>6, <1>7 DEF Stacks
  <1>9. Last(r) = f  BY <1>2, Zenon DEF Last
  <1> QED  BY <1>2, <1>3, <1>4, <1>8, <1>9, Zenon DEF r

(* A kernel frame that returns leaves a stack. *)
LEMMA StackPop ==
  ASSUME NEW s \in Stacks, Last(s).pc \in InnerPCs
  PROVE  /\ Front(s) \in Stacks /\ Len(Front(s)) = Len(s) - 1
         /\ \A i \in 1 .. Len(s) - 1 : Front(s)[i] = s[i]
         /\ s[1].t \in Idles => Last(s).isr
  <1>1. Len(s) \in Nat /\ Len(s) >= 2 /\ s \in Seq(Frames)  BY StackTop
  <1>2. Front(s) \in Seq(Frames) /\ Len(Front(s)) = Len(s) - 1  BY <1>1 DEF Front
  <1>3. \A i \in 1 .. Len(s) - 1 : Front(s)[i] = s[i]  BY <1>1 DEF Front
  <1>4. Front(s) # <<>> /\ Front(s)[1] = s[1]  BY <1>1, <1>2, <1>3
  <1>5. s[1].t \in Idles => Last(s).isr /\ \A i \in 2 .. Len(Front(s)) : Front(s)[i].isr
    BY <1>1, <1>2, <1>3 DEF Stacks, Last
  <1>6. \A i \in 2 .. Len(Front(s)) : Front(s)[i] \in InnerFrames  BY <1>1, <1>2, <1>3 DEF Stacks
  <1>7. \A i \in 3 .. Len(Front(s)) : Front(s)[i].pc \in SchedPCs  BY <1>1, <1>2, <1>3 DEF Stacks
  <1>8. s[1] \in OuterFrames  BY DEF Stacks
  <1> QED  BY <1>2, <1>3, <1>4, <1>5, <1>6, <1>7, <1>8, Zenon DEF Stacks

(* A kernel frame moves on to another statement. *)
LEMMA StackStep ==
  ASSUME NEW s \in Stacks, Last(s).pc \in InnerPCs, NEW f \in InnerFrames,
         f.isr = Last(s).isr, f.pc \in SchedPCs \/ Last(s).pc \notin SchedPCs
  PROVE  /\ Append(Front(s), f) \in Stacks
         /\ Last(Append(Front(s), f)) = f /\ Len(Append(Front(s), f)) = Len(s)
         /\ \A i \in 1 .. Len(s) - 1 : Append(Front(s), f)[i] = s[i]
         /\ Append(Front(s), f)[1] = s[1]
  <1>1. Front(s) \in Stacks /\ Front(s)[1] = s[1] /\ Len(s) \in Nat
    <2>1. Len(s) \in Nat /\ Len(s) >= 2  BY StackTop
    <2> QED  BY <2>1, StackPop
  <1>2. Last(s).pc \notin SchedPCs => Len(Front(s)) = 1
    <2>1. Last(s).pc \notin SchedPCs => Len(s) = 2  BY StackTop
    <2>2. Len(Front(s)) = Len(s) - 1  BY StackPop
    <2>3. 2 - 1 = 1  OBVIOUS
    <2> QED  BY <2>1, <2>2, <2>3, Zenon
  <1>3. s[1].t \in Idles => f.isr  BY StackPop
  <1> DEFINE r == Append(Front(s), f)
  <1>4. /\ r \in Stacks /\ Last(r) = f /\ Len(r) = Len(Front(s)) + 1
        /\ \A i \in 1 .. Len(Front(s)) : r[i] = Front(s)[i]
        /\ r[1] = Front(s)[1]
    BY <1>1, <1>2, <1>3, StackPush
  <1>5. /\ Len(Front(s)) = Len(s) - 1
        /\ \A i \in 1 .. Len(s) - 1 : Front(s)[i] = s[i]
    BY StackPop
  <1>6. \A n \in Nat : n - 1 + 1 = n  OBVIOUS
  <1> HIDE DEF r
  <1>7. Len(r) = Len(s)  BY <1>1, <1>4, <1>5, <1>6, Zenon
  <1> QED  BY <1>1, <1>4, <1>5, <1>7, Zenon DEF r

(* The task's own frame moves on: it is alone on the stack. *)
LEMMA StackBase ==
  ASSUME NEW s \in Stacks, Last(s).pc \in OuterPCs, NEW f \in OuterFrames
  PROVE  Append(Front(s), f) = <<f>> /\ <<f>> \in Stacks
  <1>1. Len(s) = 1 /\ s \in Seq(Frames)  BY StackTop
  <1>2. Front(s) = <<>>  BY <1>1 DEF Front
  <1>3. f \in Frames  BY DEF OuterFrames
  <1>4. Append(<<>>, f) = <<f>> /\ <<f>> \in Seq(Frames) /\ Len(<<f>>) = 1 /\ <<f>>[1] = f
    BY <1>3
  <1> QED  BY <1>2, <1>4 DEF Stacks

(* A frame the kernel pushes without local variables. *)
LEMMA PlainFrame ==
  ASSUME NEW p \in {"sched", "resumed"}, NEW i \in BOOLEAN
  PROVE  /\ Frame(p) \in InnerFrames
         /\ [Frame(p) EXCEPT !.isr = i] \in InnerFrames
         /\ Frame(p).pc = p /\ [Frame(p) EXCEPT !.isr = i].pc = p
         /\ [Frame(p) EXCEPT !.isr = i].isr = i
  BY DEF Frame, Frames, PCs, InnerFrames, InnerPCs, SchedPCs

(* The frame that cpu_switch_to saves. *)
LEMMA SavedFrame ==
  ASSUME NEW i \in BOOLEAN, NEW b \in BOOLEAN
  PROVE  LET f == [Frame("resumed") EXCEPT !.isr = i, !.iflag = b]
         IN  f \in InnerFrames /\ f.pc = "resumed" /\ f.isr = i /\ f.iflag = b
  BY DEF Frame, Frames, PCs, InnerFrames, InnerPCs, SchedPCs

(* The innermost frame of a CPU *)
LEMMA TopFrame ==
  ASSUME TaskInv, NEW c \in CPUs
  PROVE  /\ code[c] \in Stacks /\ Top(c) \in Frames /\ Top(c).isr \in BOOLEAN
         /\ Top(c).pc \in OuterPCs => Top(c) \in OuterFrames /\ Top(c) = code[c][1] /\ Len(code[c]) = 1
         /\ Top(c).pc \in InnerPCs => Top(c) \in InnerFrames
  <1>1. code[c] \in Stacks  BY DEF TaskInv, StacksOK
  <1> QED  BY <1>1, StackTop DEF Top, Frames

(* A frame that only moves to a statement without a condition on locals, a *)
(* task's own,                                                             *)
LEMMA FrameGoto ==
  ASSUME NEW f \in OuterFrames, f.pc # "hlt", NEW p \in OuterPCs, p # "hlt"
  PROVE  /\ [f EXCEPT !.pc = p] \in OuterFrames
         /\ [f EXCEPT !.pc = p].pc = p /\ [f EXCEPT !.pc = p].t = f.t
  BY DEF Frames, PCs, OuterFrames, OuterPCs

(* one of schedule, or one of task_join.                                   *)
LEMMA FrameMove ==
  ASSUME NEW f \in InnerFrames, NEW p \in InnerPCs \ {"new", "go", "swap"},
         p \notin SchedPCs => f.pc \in {"join", "join_yield"}
  PROVE  /\ [f EXCEPT !.pc = p] \in InnerFrames
         /\ [f EXCEPT !.pc = p].pc = p /\ [f EXCEPT !.pc = p].isr = f.isr
         /\ [f EXCEPT !.pc = p].t = f.t
  BY DEF Frames, PCs, InnerFrames, InnerPCs, SchedPCs

(* What the invariant says of the task on a CPU. *)
LEMMA RunningTask ==
  ASSUME TaskInv, NEW c \in CPUs
  PROVE  /\ current[c] \in Tcbs
         /\ tcb[current[c]] \in Structs(current[c])
         /\ tcb[current[c]] \in TaskStructs
  BY DEF TaskInv, ListOK, StructsOK

-----------------------------------------------------------------------------
(* The steps keep TaskInv. *)

(* The ways an action changes the code of a CPU keep every stack a stack. *)
LEMMA CodeStep ==
  ASSUME StacksOK, NEW c \in CPUs, Top(c).pc \in InnerPCs, NEW f \in InnerFrames,
         f.isr = Top(c).isr, f.pc \in SchedPCs \/ Top(c).pc \notin SchedPCs,
         Replace(c, f), ctx' = ctx
  PROVE  StacksOK'
  <1>1. Append(Front(code[c]), f) \in Stacks  BY StackStep DEF StacksOK, Top
  <1> QED  BY <1>1 DEF StacksOK, Replace

(* The same, when the task's own frame moves on, *)
LEMMA CodeBase ==
  ASSUME StacksOK, NEW c \in CPUs, Top(c).pc \in OuterPCs, NEW f \in OuterFrames,
         Replace(c, f), ctx' = ctx
  PROVE  StacksOK'
  <1>1. Append(Front(code[c]), f) \in Stacks  BY StackBase, Zenon DEF StacksOK, Top
  <1> QED  BY <1>1 DEF StacksOK, Replace

(* when a function is called, *)
LEMMA CodeCall ==
  ASSUME StacksOK, NEW c \in CPUs, NEW f \in InnerFrames, Call(c, f), ctx' = ctx,
         \/ Top(c).pc = "user"
         \/ f.pc \in SchedPCs /\ f.isr
  PROVE  StacksOK'
  <1>1. code[c] \in Stacks  BY DEF StacksOK
  <1>2. Top(c).pc = "user" => Len(code[c]) = 1 /\ code[c][1].t \notin Idles
    BY <1>1, StackTop, UsersAssumption DEF Top, OuterPCs, OuterFrames
  <1>3. Append(code[c], f) \in Stacks  BY <1>1, <1>2, StackPush
  <1> QED  BY <1>3 DEF StacksOK, Call

(* and when one returns. *)
LEMMA CodeReturn ==
  ASSUME StacksOK, NEW c \in CPUs, Top(c).pc \in InnerPCs, Return(c)
  PROVE  code' \in [CPUs -> Stacks]
  <1>1. Front(code[c]) \in Stacks  BY StackPop DEF StacksOK, Top
  <1> QED  BY <1>1 DEF StacksOK, Return

(* The frame a task starts with. *)
LEMMA EntryStack ==
  ASSUME NEW t \in Tcbs
  PROVE  /\ Entry(t) \in OuterFrames /\ Entry(t).pc \in {"hlt", "user"} /\ Entry(t).t = t
         /\ <<Entry(t)>> \in Contexts
  <1>1. Entry(t) \in OuterFrames /\ Entry(t).pc \in {"hlt", "user"} /\ Entry(t).t = t
    BY Zenon DEF Entry, Frame, Frames, PCs, OuterFrames, OuterPCs, Tcbs
  <1>2. <<Entry(t)>> \in Seq(Frames) /\ Len(<<Entry(t)>>) = 1 /\ <<Entry(t)>>[1] = Entry(t)
    BY <1>1 DEF OuterFrames
  <1> QED  BY <1>1, <1>2 DEF Stacks, Contexts, Last

(* task_yield pushes the frame of schedule on the caller's, which stays or *)
(* moves on.                                                               *)
LEMMA YieldStacks ==
  ASSUME StacksOK, NEW c \in CPUs, NEW back, Yield(c, back),
         \/ Top(c).pc \in {"user", "bye"} /\ back = Top(c)
         \/ Top(c).pc = "join_yield" /\ back = [Top(c) EXCEPT !.pc = "join"]
  PROVE  /\ StacksOK'
         /\ Append(Front(code[c]), back) \in Stacks
         /\ Append(Front(code[c]), back)[1] = code[c][1]
         /\ Len(Append(Front(code[c]), back)) = Len(code[c])
  <1> DEFINE s == code[c]
             r == Append(Front(s), back)
  <1>1. s \in Stacks /\ Top(c) = Last(s)  BY DEF StacksOK, Top
  <1>2. r \in Stacks /\ r[1] = s[1] /\ Len(r) = Len(s) /\ s[1].t \notin Idles
    <2>1. CASE Top(c).pc \in {"user", "bye"} /\ back = Top(c)
      <3>1. Len(s) = 1 /\ s[1] = back /\ back \in OuterFrames
        BY <1>1, <2>1, StackTop DEF OuterPCs
      <3>2. r = <<back>> /\ r \in Stacks  BY <1>1, <2>1, <3>1, StackBase, Zenon DEF OuterPCs
      <3>3. Len(<<back>>) = 1 /\ <<back>>[1] = back  OBVIOUS
      <3> QED  BY <2>1, <3>1, <3>2, <3>3, UsersAssumption DEF OuterFrames
    <2>2. CASE Top(c).pc = "join_yield" /\ back = [Top(c) EXCEPT !.pc = "join"]
      <3>1. Len(s) = 2 /\ Last(s) \in InnerFrames /\ Last(s) \in Frames
        BY <1>1, <2>2, StackTop DEF InnerPCs, SchedPCs
      <3>2. ~Last(s).isr  BY <1>1, <2>2, <3>1 DEF InnerFrames, SchedPCs, Frames
      <3>3. back \in InnerFrames /\ back.isr = Last(s).isr
        BY <1>1, <2>2, <3>1, <3>2 DEF InnerFrames, InnerPCs, Frames, PCs
      <3>4. r \in Stacks /\ Len(r) = Len(s) /\ r[1] = s[1]
        BY <1>1, <2>2, <3>3, StackStep, Zenon DEF InnerPCs, SchedPCs
      <3>8. s[1].t \notin Idles  BY <1>1, <2>2, <3>2, IdleStack
      <3> QED  BY <3>4, <3>8
    <2> QED  BY <2>1, <2>2
  <1> HIDE DEF r
  <1>3. Frame("sched") \in InnerFrames /\ Frame("sched").pc \in SchedPCs
    BY PlainFrame, Zenon DEF SchedPCs
  <1>4. Append(r, Frame("sched")) \in Stacks  BY <1>2, <1>3, StackPush
  <1>5. StacksOK'  BY <1>4 DEF StacksOK, Yield, r
  <1> QED  BY <1>2, <1>5 DEF r

(* Every field may be written, a counter only downwards or to zero. *)
LEMMA FieldWrite ==
  ASSUME NEW t, NEW r \in Structs(t)
  PROVE  /\ \A x \in States : [r EXCEPT !.state = x] \in Structs(t)
         /\ \A x \in BOOLEAN : [r EXCEPT !.interruptible = x] \in Structs(t)
         /\ \A x \in BOOLEAN : [r EXCEPT !.detached = x] \in Structs(t)
         /\ \A x \in BOOLEAN : [r EXCEPT !.joined = x] \in Structs(t)
         /\ \A x \in BOOLEAN : [r EXCEPT !.mapped = x] \in Structs(t)
  BY DEF Structs, TaskStructs

(* A counter may be set to anything below twice its task's priority. *)
LEMMA CounterWrite ==
  ASSUME NEW t, NEW r \in Structs(t), NEW x \in Int, x <= 0 \/ x <= r.dynamic_prio
  PROVE  [r EXCEPT !.dynamic_prio = x] \in Structs(t)
  BY DEF Structs, TaskStructs

(* Writing one task_struct keeps the invariant if what is written obeys it *)
LEMMA StructWrite ==
  ASSUME StructsOK, NEW t \in Tcbs, NEW r \in Structs(t), tcb' = [tcb EXCEPT ![t] = r]
  PROVE  StructsOK'
  <1>1. Structs(t) \subseteq TaskStructs  BY DEF Structs
  <1> QED  BY <1>1 DEF StructsOK

(* task_yield and the timer handler: *)
LEMMA YieldWrite ==
  ASSUME NEW t, NEW r \in Structs(t)
  PROVE  [r EXCEPT !.state = Preempted(@), !.dynamic_prio = 0] \in Structs(t)
  <1> DEFINE q == [r EXCEPT !.state = Preempted(@)]
  <1>1. r \in TaskStructs  BY DEF Structs
  <1>2. Preempted(r.state) \in States  BY <1>1 DEF Preempted, States, TaskStructs
  <1>3. q \in Structs(t)  BY <1>2, FieldWrite
  <1> HIDE DEF q
  <1>4. [q EXCEPT !.dynamic_prio = 0] \in Structs(t)  BY <1>3, CounterWrite
  <1> QED  BY <1>4 DEF q

(* The section of task_yield keeps the task_structs well formed, *)
LEMMA YieldStructs ==
  ASSUME TaskInv, NEW c \in CPUs,
         tcb' = [tcb EXCEPT ![current[c]].state = Preempted(@),
                            ![current[c]].dynamic_prio = 0]
  PROVE  StructsOK'
  <1> DEFINE t == current[c]
             r == [tcb[t] EXCEPT !.state = Preempted(@), !.dynamic_prio = 0]
  <1>1. t \in Tcbs /\ r \in Structs(t)  BY RunningTask, YieldWrite, Zenon
  <1>2. tcb' = [tcb EXCEPT ![t] = r]  BY RunningTask, Zenon DEF TaskInv, StructsOK
  <1> QED  BY <1>1, <1>2, StructWrite, Zenon DEF TaskInv

(* The counter after a recharge is below the bound if it was before: *)
(* d < 2 s implies d \div 2 + s < 2 s.                               *)
LEMMA RechargeWrite ==
  ASSUME NEW t, NEW r \in Structs(t)
  PROVE  [r EXCEPT !.dynamic_prio = Recharged(r)] \in Structs(t)
  <1>1. /\ r \in TaskStructs /\ r.dynamic_prio \in Int /\ r.static_prio \in Nat
        /\ t \notin Boots => r.static_prio >= 1 /\ r.dynamic_prio < 2 * r.static_prio
    BY DEF Structs, TaskStructs
  <1>2. \A d \in Int, s \in Nat : d \div 2 + s \in Int /\ (d < 2 * s => d \div 2 + s < 2 * s)
    OBVIOUS
  <1>3. Recharged(r) \in Int /\ (t \notin Boots => Recharged(r) < 2 * r.static_prio)
    BY <1>1, <1>2 DEF Recharged
  <1> QED  BY <1>1, <1>3 DEF Structs, TaskStructs

(* Whatever a step leaves in a CPU's interrupt flag is a flag: *)
LEMMA FlagsStep ==
  ASSUME TaskInv, StacksOK', [Next]_vars
  PROVE  FlagsOK'
  <1>1. ASSUME NEW c \in CPUs, NEW f, Unlock(c, f)
        PROVE  FlagsOK'
    <2>1. Released(f) \subseteq BOOLEAN  BY DEF Released
    <2> QED  BY <1>1, <2>1 DEF Unlock, TaskInv, FlagsOK
  <1>2. CASE UNCHANGED iflag  BY <1>2 DEF TaskInv, FlagsOK
  <1>3. ASSUME NEW c \in CPUs, Swap(c)
        PROVE  FlagsOK'
    <2>1. Top(c).t \in Tcbs  BY <1>3, TopFrame DEF Swap, At, InnerFrames, InnerPCs
    <2>2. ctx'[Top(c).t] \in Stacks  BY <2>1 DEF StacksOK, Contexts
    <2>3. Last(ctx'[Top(c).t]).iflag \in BOOLEAN  BY <2>2, StackTop DEF Frames
    <2>4. iflag' = [iflag EXCEPT ![c] = Last(ctx'[Top(c).t]).iflag]  BY <1>3 DEF Swap
    <2> QED  BY <2>3, <2>4 DEF TaskInv, FlagsOK
  <1>4. ASSUME NEW c \in CPUs, Leave(c)
        PROVE  FlagsOK'
    BY <1>4, TopFrame DEF Leave, TaskInv, FlagsOK
  <1>5. \/ UNCHANGED iflag
        \/ \E c \in CPUs : \E f : Unlock(c, f)
        \/ \E c \in CPUs : Swap(c) \/ Leave(c)
    BY ZenonT(30) DEF Next, KernelStep, UserStep, Tick, UserYield, NewFindPid, NewInstall, NewNoMemory,
       Detach, Join, JoinWaits, JoinYields, JoinCleans, TaskReturns, Terminate, CleanSelf, LastYield,
       Enter, Scan, Pick, Recharge, SwitchTo, TickCounts, TickPreempts, Yield, vars
  <1> QED  BY <1>1, <1>2, <1>3, <1>4, <1>5

(* Every step keeps the rest of the invariant, *)
LEMMA ShapeStep ==
  ASSUME TaskInv, [Next]_vars
  PROVE  ShapeInv'
  <1>1. ASSUME NEW c \in CPUs, UserYield(c) \/ JoinYields(c) \/ LastYield(c)
        PROVE  ShapeInv'
    <2> USE <1>1
    <2>1. PICK back :
            /\ Yield(c, back)
            /\ \/ Top(c).pc \in {"user", "bye"} /\ back = Top(c)
               \/ Top(c).pc = "join_yield" /\ back = [Top(c) EXCEPT !.pc = "join"]
      BY DEF UserYield, JoinYields, LastYield, At
    <2>2. StacksOK'  BY <2>1, YieldStacks DEF TaskInv
    <2>3. StructsOK'  BY <2>1, YieldStructs, Zenon DEF Yield
    <2>4. ListOK'  BY <2>1 DEF TaskInv, ListOK, Yield
    <2> QED  BY <2>2, <2>3, <2>4 DEF ShapeInv, TaskInv
  <1>2. ASSUME NEW c \in CPUs, NewFindPid(c)
        PROVE  ShapeInv'
    <2> USE <1>2
    <2>1. PICK p \in Pids : Call(c, [Frame("new") EXCEPT !.pid = p])  BY DEF NewFindPid
    <2>2. [Frame("new") EXCEPT !.pid = p] \in InnerFrames
      BY Zenon DEF Frame, Frames, PCs, InnerFrames, InnerPCs
    <2>3. StacksOK'  BY <2>1, <2>2, CodeCall DEF TaskInv, NewFindPid, At
    <2> QED  BY <2>3 DEF ShapeInv, TaskInv, StructsOK, ListOK, NewFindPid
  <1>3. ASSUME NEW c \in CPUs, NewInstall(c)
        PROVE  ShapeInv'
    <2> USE <1>3
    <2>1. PICK t \in Users, prio \in Prios :
            /\ tcb' = [tcb EXCEPT ![t] = NewTask(prio, Top(c).pid)]
            /\ ctx' = [ctx EXCEPT ![t] = <<Entry(t)>>]
            /\ tasks' = [tasks EXCEPT ![Top(c).pid] = t]
      BY Zenon DEF NewInstall
    <2>2. t \in Tcbs /\ t \notin Boots  BY UsersAssumption DEF Tcbs
    <2>3. Top(c).pid \in Pids \cup {NoPid}  BY TopFrame DEF Frames
    <2>4. NewTask(prio, Top(c).pid) \in Structs(t)
      BY <2>3, BoundsAssumption DEF NewTask, Structs, TaskStructs, States
    <2>5. StructsOK'  BY <2>1, <2>2, <2>4, StructWrite, Zenon DEF TaskInv
    <2>6. Top(c).pc \in InnerPCs /\ Return(c)  BY DEF NewInstall, At, InnerPCs
    <2>7. code' \in [CPUs -> Stacks]  BY <2>6, CodeReturn DEF TaskInv
    <2>8. ctx' \in [Tcbs -> Contexts]  BY <2>1, <2>2, EntryStack DEF TaskInv, StacksOK
    <2>9. ListOK'
      <3>1. t \in Listable  BY <2>2 DEF Listable
      <3>2. tasks' \in [Pids -> Listable]  BY <2>1, <3>1, Zenon DEF TaskInv, ListOK
      <3>3. nr_tasks' \in Int /\ current' = current  BY DEF TaskInv, ListOK, NewInstall
      <3> QED  BY <3>2, <3>3 DEF ShapeInv, TaskInv, ListOK
    <2> QED  BY <2>5, <2>7, <2>8, <2>9 DEF ShapeInv, TaskInv, StacksOK
  <1>4. ASSUME NEW c \in CPUs, Detach(c)
        PROVE  ShapeInv'
    <2> USE <1>4
    <2>1. PICK t \in Users : tcb' = [tcb EXCEPT ![t].detached = TRUE]  BY Zenon DEF Detach
    <2>2. t \in Tcbs /\ tcb[t] \in Structs(t)  BY DEF Tcbs, TaskInv, StructsOK
    <2>3. [tcb[t] EXCEPT !.detached = TRUE] \in Structs(t)  BY <2>2, FieldWrite, Zenon
    <2>4. StructsOK'  BY <2>1, <2>2, <2>3, StructWrite, Zenon DEF TaskInv
    <2> QED  BY <2>4 DEF ShapeInv, TaskInv, StacksOK, ListOK, Detach
  <1>5. ASSUME NEW c \in CPUs, Join(c)
        PROVE  ShapeInv'
    <2> USE <1>5
    <2>1. PICK t \in Users : /\ tcb' = [tcb EXCEPT ![t].joined = TRUE]
                             /\ Call(c, [Frame("join") EXCEPT !.t = t])
      BY Zenon DEF Join
    <2>2. t \in Tcbs /\ tcb[t] \in Structs(t)  BY DEF Tcbs, TaskInv, StructsOK
    <2>3. [tcb[t] EXCEPT !.joined = TRUE] \in Structs(t)  BY <2>2, FieldWrite, Zenon
    <2>4. StructsOK'  BY <2>1, <2>2, <2>3, StructWrite, Zenon DEF TaskInv
    <2>5. [Frame("join") EXCEPT !.t = t] \in InnerFrames
      BY <2>2, Zenon DEF Frame, Frames, PCs, InnerFrames, InnerPCs
    <2>6. StacksOK'  BY <2>1, <2>5, CodeCall DEF TaskInv, Join, At
    <2> QED  BY <2>4, <2>6 DEF ShapeInv, TaskInv, ListOK, Join
  <1>6. ASSUME NEW c \in CPUs, JoinWaits(c)
        PROVE  ShapeInv'
    <2> USE <1>6
    <2> DEFINE t == Top(c).t
    <2>1. StructsOK'
      <3>1. t \in Tcbs /\ tcb[t] \in Structs(t)
        BY TopFrame DEF JoinWaits, At, InnerPCs, InnerFrames, Tcbs, TaskInv, StructsOK
      <3>2. [tcb[t] EXCEPT !.dynamic_prio = 0] \in Structs(t)  BY <3>1, CounterWrite
      <3> QED  BY <3>1, <3>2, StructWrite, Zenon DEF ShapeInv, TaskInv, JoinWaits
    <2> DEFINE f == [Top(c) EXCEPT !.pc = "join_yield"]
    <2>2. Top(c).pc \in InnerPCs \ SchedPCs /\ f \in InnerFrames /\ f.isr = Top(c).isr
      BY TopFrame, FrameMove DEF JoinWaits, At, InnerPCs, SchedPCs
    <2>3. Replace(c, f) /\ ctx' = ctx  BY DEF JoinWaits, Goto
    <2> HIDE DEF f
    <2>4. StacksOK'  BY <2>2, <2>3, CodeStep DEF TaskInv
    <2> QED  BY <2>1, <2>4 DEF ShapeInv, TaskInv, ListOK, JoinWaits
  <1>7. ASSUME NEW c \in CPUs, JoinCleans(c)
        PROVE  ShapeInv'
    <2> USE <1>7
    <2> DEFINE t == Top(c).t
    <2>1. StructsOK'
      <3>1. t \in Tcbs /\ tcb[t] \in Structs(t)
        BY TopFrame DEF JoinCleans, At, InnerPCs, InnerFrames, Tcbs, TaskInv, StructsOK
      <3>2. [tcb[t] EXCEPT !.mapped = FALSE] \in Structs(t)  BY <3>1, FieldWrite, Zenon
      <3> QED  BY <3>1, <3>2, StructWrite, Zenon DEF ShapeInv, TaskInv, JoinCleans
    <2>2. Top(c).pc \in InnerPCs  BY DEF JoinCleans, At, InnerPCs
    <2>3. StacksOK'  BY <2>2, CodeReturn DEF TaskInv, StacksOK, JoinCleans
    <2> QED  BY <2>1, <2>3 DEF ShapeInv, TaskInv, ListOK, JoinCleans
  <1>8. ASSUME NEW c \in CPUs, TaskReturns(c)
        PROVE  ShapeInv'
    <2> USE <1>8
    <2> DEFINE t == current[c]
    <2>1. t \in Tcbs /\ [tcb[t] EXCEPT !.interruptible = FALSE] \in Structs(t)
      BY RunningTask, FieldWrite, Zenon
    <2>2. StructsOK'  BY <2>1, StructWrite, Zenon DEF TaskInv, TaskReturns
    <2>3. Top(c).pc \in OuterPCs /\ [Top(c) EXCEPT !.pc = "removed"] \in OuterFrames
      BY TopFrame, FrameGoto, Zenon DEF TaskReturns, At, OuterPCs
    <2>4. StacksOK'  BY <2>3, CodeBase DEF TaskInv, TaskReturns, Goto
    <2>5. NULL \in Listable  BY DEF Listable
    <2>6. tasks' \in [Pids -> Listable]  BY <2>5, Zenon DEF TaskInv, ListOK, TaskReturns
    <2>7. nr_tasks' \in Int /\ current' = current  BY DEF TaskInv, ListOK, TaskReturns
    <2> QED  BY <2>2, <2>4, <2>6, <2>7 DEF ShapeInv, TaskInv, ListOK
  <1>9. ASSUME NEW c \in CPUs, Terminate(c)
        PROVE  ShapeInv'
    <2> USE <1>9
    <2> DEFINE t == current[c]
               s == IF tcb[t].state = "RUNNING" THEN "TERMINATED" ELSE tcb[t].state
    <2>1. s \in States  BY RunningTask DEF TaskStructs, States
    <2>2. t \in Tcbs /\ [tcb[t] EXCEPT !.state = s] \in Structs(t)  BY <2>1, RunningTask, FieldWrite
    <2>3. tcb' = [tcb EXCEPT ![t] = [tcb[t] EXCEPT !.state = s]]  BY DEF Terminate
    <2> HIDE DEF s
    <2>4. StructsOK'  BY <2>2, <2>3, StructWrite, Zenon DEF TaskInv
    <2>5. Top(c).pc \in OuterPCs /\ [Top(c) EXCEPT !.pc = "dead"] \in OuterFrames
      BY TopFrame, FrameGoto, Zenon DEF Terminate, At, OuterPCs
    <2>6. StacksOK'  BY <2>5, CodeBase DEF TaskInv, Terminate, Goto
    <2> QED  BY <2>4, <2>6 DEF ShapeInv, TaskInv, ListOK, Terminate
  <1>10. ASSUME NEW c \in CPUs, CleanSelf(c)
        PROVE  ShapeInv'
    <2> USE <1>10
    <2> DEFINE t == current[c]
               m == tcb[t].mapped /\ ~cur(c).detached
    <2>1. m \in BOOLEAN  OBVIOUS
    <2>2. tcb' = [tcb EXCEPT ![t] = [tcb[t] EXCEPT !.mapped = m]]  BY DEF CleanSelf
    <2> HIDE DEF m
    <2>3. t \in Tcbs /\ [tcb[t] EXCEPT !.mapped = m] \in Structs(t)  BY <2>1, RunningTask, FieldWrite
    <2>4. StructsOK'  BY <2>2, <2>3, StructWrite, Zenon DEF TaskInv
    <2>5. Top(c).pc \in OuterPCs /\ [Top(c) EXCEPT !.pc = "bye"] \in OuterFrames
      BY TopFrame, FrameGoto, Zenon DEF CleanSelf, At, OuterPCs
    <2>6. StacksOK'  BY <2>5, CodeBase DEF TaskInv, CleanSelf, Goto
    <2> QED  BY <2>4, <2>6 DEF ShapeInv, TaskInv, ListOK, CleanSelf
  <1>11. ASSUME NEW c \in CPUs, Enter(c)
        PROVE  ShapeInv'
    <2> USE <1>11
    <2> DEFINE t == current[c]
    <2>1. t \in Tcbs /\ [tcb[t] EXCEPT !.interruptible = FALSE] \in Structs(t)
      BY RunningTask, FieldWrite, Zenon
    <2>2. StructsOK'  BY <2>1, StructWrite, Zenon DEF TaskInv, Enter
    <2>3. /\ Top(c).pc \in InnerPCs /\ [Top(c) EXCEPT !.pc = "scan"] \in InnerFrames
          /\ [Top(c) EXCEPT !.pc = "scan"].pc \in SchedPCs
          /\ [Top(c) EXCEPT !.pc = "scan"].isr = Top(c).isr
      BY TopFrame, FrameMove DEF Enter, At, InnerPCs, SchedPCs
    <2>4. StacksOK'  BY <2>3, CodeStep, Zenon DEF TaskInv, Enter, Goto
    <2> QED  BY <2>2, <2>4 DEF ShapeInv, TaskInv, ListOK, Enter
  <1>12. ASSUME NEW c \in CPUs, Scan(c)
        PROVE  ShapeInv'
    <2> USE <1>12
    <2> DEFINE next == IF \E p \in Pids : Best(p) THEN CHOOSE p \in Pids : Best(p) ELSE NoPid
               f == [Top(c) EXCEPT !.pc = "pick", !.pid = next]
    <2>1. next \in Pids \cup {NoPid}  OBVIOUS
    <2>2. Replace(c, f) /\ Top(c).pc \in InnerPCs  BY DEF Scan, At, InnerPCs
    <2> HIDE DEF next
    <2>3. f \in InnerFrames /\ f.pc \in SchedPCs /\ f.isr = Top(c).isr
      BY <2>1, <2>2, TopFrame, ZenonT(30) DEF Frames, PCs, InnerFrames, InnerPCs, SchedPCs
    <2>4. StacksOK'  BY <2>2, <2>3, CodeStep, Zenon DEF TaskInv, Scan
    <2> QED  BY <2>4 DEF ShapeInv, TaskInv, StructsOK, ListOK, Scan
  <1>13. ASSUME NEW c \in CPUs, Pick(c)
        PROVE  ShapeInv'
    <2> USE <1>13
    <2> DEFINE p == Top(c).pid
               t == tasks[p]
    <2>1. p \in Pids /\ Top(c) \in Frames /\ Top(c) \in InnerFrames /\ Top(c).pc \in InnerPCs
      BY TopFrame DEF Frames, Pick, At, InnerPCs
    <2>2. CASE t = NULL
      <3>1. /\ [Top(c) EXCEPT !.pc = "fault"] \in InnerFrames
            /\ [Top(c) EXCEPT !.pc = "fault"].pc \in SchedPCs
            /\ [Top(c) EXCEPT !.pc = "fault"].isr = Top(c).isr
        BY <2>1, FrameMove DEF InnerPCs, SchedPCs
      <3>2. StacksOK'  BY <2>1, <2>2, <3>1, CodeStep, Zenon DEF TaskInv, Pick, Fault, Goto
      <3> QED  BY <2>2, <3>2 DEF ShapeInv, TaskInv, StructsOK, ListOK, Pick
    <2>3. CASE t # NULL
      <3>1. t \in Tcbs /\ tcb[t] \in Structs(t)
        BY <2>1, <2>3 DEF TaskInv, ListOK, Listable, StructsOK
      <3>2. [tcb[t] EXCEPT !.state = "RUNNING"] \in Structs(t)  BY <3>1, FieldWrite, Zenon DEF States
      <3>3. tcb' = [tcb EXCEPT ![t] = [tcb[t] EXCEPT !.state = "RUNNING"]]  BY <2>3 DEF Pick
      <3>4. StructsOK'  BY <3>1, <3>2, <3>3, StructWrite, Zenon DEF TaskInv
      <3>5. /\ [Top(c) EXCEPT !.pc = "go"] \in InnerFrames
            /\ [Top(c) EXCEPT !.pc = "go"].pc \in SchedPCs
            /\ [Top(c) EXCEPT !.pc = "go"].isr = Top(c).isr
        BY <2>1 DEF Frames, PCs, InnerFrames, InnerPCs, SchedPCs
      <3>6. StacksOK'  BY <2>1, <2>3, <3>5, CodeStep, Zenon DEF TaskInv, Pick, Goto
      <3> QED  BY <3>4, <3>6 DEF ShapeInv, TaskInv, ListOK, Pick
    <2> QED  BY <2>2, <2>3
  <1>14. ASSUME NEW c \in CPUs, Recharge(c)
        PROVE  ShapeInv'
    <2> USE <1>14
    <2>1. StructsOK'
      <3> DEFINE new(t) == IF \E p \in Pids : tasks[p] = t /\ Ready(p)
                           THEN [tcb[t] EXCEPT !.dynamic_prio = Recharged(tcb[t])]
                           ELSE tcb[t]
      <3>1. tcb' = [t \in Tcbs |-> new(t)]  BY DEF Recharge
      <3>2. ASSUME NEW t \in Tcbs
            PROVE  new(t) \in Structs(t)
        <4>1. tcb[t] \in Structs(t)  BY DEF TaskInv, StructsOK
        <4>2. [tcb[t] EXCEPT !.dynamic_prio = Recharged(tcb[t])] \in Structs(t)  BY <4>1, RechargeWrite
        <4> QED  BY <4>1, <4>2
      <3>3. \A t \in Tcbs : Structs(t) \subseteq TaskStructs  BY DEF Structs
      <3> HIDE DEF new
      <3> QED  BY <3>1, <3>2, <3>3 DEF StructsOK
    <2>2. /\ Top(c).pc \in InnerPCs /\ [Top(c) EXCEPT !.pc = "scan"] \in InnerFrames
          /\ [Top(c) EXCEPT !.pc = "scan"].pc \in SchedPCs
          /\ [Top(c) EXCEPT !.pc = "scan"].isr = Top(c).isr
      BY TopFrame, FrameMove DEF Recharge, At, InnerPCs, SchedPCs
    <2>3. StacksOK'  BY <2>2, CodeStep, Zenon DEF TaskInv, Recharge, Goto
    <2> QED  BY <2>1, <2>3 DEF ShapeInv, TaskInv, ListOK, Recharge
  <1>15. ASSUME NEW c \in CPUs, SwitchTo(c)
        PROVE  ShapeInv'
    <2> USE <1>15
    <2> DEFINE next == tasks[Top(c).pid]
    <2>1. Top(c) \in InnerFrames /\ Top(c) \in Frames /\ Top(c).pc \in InnerPCs /\ Top(c).pid \in Pids
      BY TopFrame DEF SwitchTo, At, InnerFrames, InnerPCs
    <2>2. CASE next = NULL
      <3>1. /\ [Top(c) EXCEPT !.pc = "fault"] \in InnerFrames
            /\ [Top(c) EXCEPT !.pc = "fault"].pc \in SchedPCs
            /\ [Top(c) EXCEPT !.pc = "fault"].isr = Top(c).isr
        BY <2>1, FrameMove DEF InnerPCs, SchedPCs
      <3>2. StacksOK'  BY <2>1, <2>2, <3>1, CodeStep, Zenon DEF TaskInv, SwitchTo, Fault, Goto
      <3> QED  BY <2>2, <3>2 DEF ShapeInv, TaskInv, StructsOK, ListOK, SwitchTo
    <2>3. CASE next # NULL
      <3> DEFINE f == IF next = current[c]
                      THEN [Frame("resumed") EXCEPT !.isr = Top(c).isr]
                      ELSE [Top(c) EXCEPT !.pc = "swap", !.t = next, !.prev = current[c]]
      <3>1. next \in Tcbs /\ current[c] \in Tcbs  BY <2>1, <2>3 DEF TaskInv, ListOK, Listable
      <3>2. Top(c).isr \in BOOLEAN  BY <2>1 DEF Frames
      <3> DEFINE swap == [Top(c) EXCEPT !.pc = "swap", !.t = next, !.prev = current[c]]
      <3>3. swap \in InnerFrames /\ swap.pc \in SchedPCs /\ swap.isr = Top(c).isr
        BY <2>1, <3>1, Zenon DEF Frames, PCs, InnerFrames, InnerPCs, SchedPCs
      <3>4. f \in InnerFrames /\ f.pc \in SchedPCs /\ f.isr = Top(c).isr
        BY <3>2, <3>3, PlainFrame DEF SchedPCs
      <3>5. Replace(c, f)  BY <2>3 DEF SwitchTo
      <3> HIDE DEF f
      <3>6. StacksOK'  BY <2>1, <3>4, <3>5, CodeStep DEF TaskInv, SwitchTo
      <3>7. current' \in [CPUs -> Tcbs]  BY <2>3, <3>1 DEF TaskInv, ListOK, SwitchTo
      <3> QED  BY <3>6, <3>7 DEF ShapeInv, TaskInv, StructsOK, ListOK, SwitchTo
    <2> QED  BY <2>2, <2>3
  <1>16. ASSUME NEW c \in CPUs, Swap(c)
        PROVE  ShapeInv'
    <2> USE <1>16
    <2> DEFINE f == [Frame("resumed") EXCEPT !.isr = Top(c).isr, !.iflag = iflag[c]]
               saved == Append(Front(code[c]), f)
    <2>1. Top(c) \in Frames /\ Top(c).pc \in InnerPCs /\ Top(c).t \in Tcbs
      BY TopFrame DEF Swap, At, InnerFrames, InnerPCs
    <2>2. f \in InnerFrames /\ f.pc = "resumed" /\ f.isr = Top(c).isr
      BY <2>1, SavedFrame DEF Frames, TaskInv, FlagsOK
    <2> HIDE DEF f
    <2>3. saved \in Contexts
      <3>1. saved \in Stacks  BY <2>1, <2>2, StackStep DEF TaskInv, StacksOK, Top, SchedPCs
      <3>2. Front(code[c]) \in Seq(Frames)
        <4>1. code[c] \in Stacks  BY DEF TaskInv, StacksOK
        <4> QED  BY <2>1, <4>1, StackPop DEF Stacks, Top
      <3>3. f \in Frames  BY <2>2 DEF InnerFrames
      <3>4. Last(saved) = f  BY <3>2, <3>3 DEF Last
      <3> QED  BY <2>2, <3>1, <3>4 DEF Contexts
    <2>4. ctx' = [ctx EXCEPT ![Top(c).prev] = saved]  BY DEF Swap, f
    <2> HIDE DEF saved
    <2>5. ctx' \in [Tcbs -> Contexts]  BY <2>3, <2>4, Zenon DEF TaskInv, StacksOK
    <2>6. code' = [code EXCEPT ![c] = ctx'[Top(c).t]]  BY DEF Swap
    <2>7. code' \in [CPUs -> Stacks]  BY <2>1, <2>5, <2>6 DEF TaskInv, StacksOK, Contexts
    <2> QED  BY <2>5, <2>7 DEF ShapeInv, TaskInv, StructsOK, StacksOK, ListOK, Swap
  <1>17. ASSUME NEW c \in CPUs, Leave(c)
        PROVE  ShapeInv'
    <2> USE <1>17
    <2> DEFINE t == current[c]
    <2>1. t \in Tcbs /\ [tcb[t] EXCEPT !.interruptible = TRUE] \in Structs(t)
      BY RunningTask, FieldWrite, Zenon
    <2>2. StructsOK'  BY <2>1, StructWrite, Zenon DEF TaskInv, Leave
    <2>3. Top(c).pc \in InnerPCs  BY DEF Leave, At, InnerPCs
    <2>4. StacksOK'  BY <2>3, CodeReturn DEF TaskInv, StacksOK, Leave
    <2> QED  BY <2>2, <2>4 DEF ShapeInv, TaskInv, ListOK, Leave
  <1>18. ASSUME NEW c \in CPUs, Tick(c)
        PROVE  ShapeInv'
    <2> USE <1>18
    <2>1. CASE TickCounts(c)
      <3> DEFINE t == current[c]
      <3>1. t \in Tcbs /\ tcb[t] \in Structs(t) /\ tcb[t].dynamic_prio \in Int
        BY RunningTask DEF TaskStructs
      <3>2. \A n \in Int : n - 1 \in Int /\ n - 1 <= n  OBVIOUS
      <3>3. tcb[t].dynamic_prio - 1 \in Int /\ tcb[t].dynamic_prio - 1 <= tcb[t].dynamic_prio
        BY <3>1, <3>2, Zenon
      <3>4. [tcb[t] EXCEPT !.dynamic_prio = tcb[t].dynamic_prio - 1] \in Structs(t)
        BY <3>1, <3>3, CounterWrite, Zenon
      <3>5. StructsOK'  BY <2>1, <3>1, <3>4, StructWrite, Zenon DEF TaskInv, TickCounts
      <3> QED  BY <2>1, <3>5 DEF ShapeInv, TaskInv, StacksOK, ListOK, TickCounts
    <2>2. CASE TickPreempts(c)
      <3> DEFINE f == [Frame("sched") EXCEPT !.isr = TRUE]
      <3>1. f \in InnerFrames /\ f.pc \in SchedPCs /\ f.isr  BY PlainFrame, Zenon DEF SchedPCs
      <3>2. Call(c, f) /\ ctx' = ctx  BY <2>2 DEF TickPreempts
      <3> HIDE DEF f
      <3>4. StacksOK'  BY <3>1, <3>2, CodeCall DEF TaskInv
      <3>3. StructsOK'  BY <2>2, YieldStructs, Zenon DEF TickPreempts
      <3> QED  BY <2>2, <3>3, <3>4 DEF ShapeInv, TaskInv, ListOK, TickPreempts
    <2> QED  BY <2>1, <2>2 DEF Tick
  <1>19. ASSUME NEW c \in CPUs, NewNoMemory(c)
        PROVE  ShapeInv'
    <2> USE <1>19
    <2>1. Top(c).pc \in InnerPCs /\ Return(c)  BY DEF NewNoMemory, At, InnerPCs
    <2>2. StacksOK'  BY <2>1, CodeReturn DEF TaskInv, StacksOK, NewNoMemory
    <2>3. NULL \in Listable  BY DEF Listable
    <2>4. tasks' \in [Pids -> Listable]  BY <2>3, Zenon DEF TaskInv, ListOK, NewNoMemory
    <2>5. nr_tasks' \in Int /\ UNCHANGED <<current, tcb>>  BY DEF TaskInv, ListOK, NewNoMemory
    <2> QED  BY <2>2, <2>4, <2>5 DEF ShapeInv, TaskInv, StructsOK, ListOK
  <1>20. CASE UNCHANGED vars
    BY <1>20 DEF vars, ShapeInv, TaskInv, StructsOK, StacksOK, ListOK
  <1> QED
    BY <1>1, <1>2, <1>3, <1>4, <1>5, <1>6, <1>7, <1>8, <1>9, <1>10, <1>11, <1>12,
       <1>13, <1>14, <1>15, <1>16, <1>17, <1>18, <1>19, <1>20
       DEF Next, KernelStep, UserStep

(* and so all of it. *)
LEMMA StepInv ==
  ASSUME TaskInv, [Next]_vars
  PROVE  TaskInv'
  BY ShapeStep, FlagsStep DEF TaskInv, ShapeInv

-----------------------------------------------------------------------------
(* The state at kmain's sti *)

(* The list holds the idle tasks and the started tasks. *)
LEMMA FirstTasks ==
  ASSUME NEW p \in Pids
  PROVE  FirstTask(p) \in Listable
  <1>1. CASE p < NCPU
    <2>1. p \in CPUs  BY <1>1, CPUsAssumption, BoundsAssumption DEF CPUs, Pids
    <2>2. Idle(p) \in Idles /\ Idle(p) \notin Boots  BY <2>1 DEF Idles, Boots, Idle, Boot
    <2>3. p \notin NCPU .. NCPU + Len(Started) - 1  BY <1>1, CPUsAssumption DEF Pids
    <2>4. FirstTask(p) = Idle(p)  BY <1>1, <2>3 DEF FirstTask
    <2> QED  BY <2>2, <2>4 DEF Listable, Tcbs
  <1>2. CASE p \in NCPU .. NCPU + Len(Started) - 1
    <2>1. p - NCPU + 1 \in 1 .. Len(Started)
      BY <1>2, CPUsAssumption, StartedAssumption
    <2>2. Started[p - NCPU + 1] \in Users  BY <2>1, StartedAssumption
    <2>3. Started[p - NCPU + 1] \in Listable  BY <2>2, UsersAssumption DEF Listable, Tcbs
    <2>4. ~(p < NCPU)  BY <1>2, CPUsAssumption
    <2> QED  BY <1>2, <2>3, <2>4 DEF FirstTask
  <1>3. CASE ~(p < NCPU) /\ p \notin NCPU .. NCPU + Len(Started) - 1
    BY <1>3 DEF FirstTask, Listable
  <1> QED  BY <1>1, <1>2, <1>3

(* A fresh task_struct with a positive priority is sound. *)
LEMMA NewStruct ==
  ASSUME NEW t, NEW prio \in Nat \ {0}, NEW pid \in Pids \cup {NoPid}
  PROVE  NewTask(prio, pid) \in Structs(t)
  BY DEF NewTask, Structs, TaskStructs, States

(* The invariant holds when kmain enables interrupts. *)
LEMMA InitInv == Init => TaskInv
  <1> SUFFICES ASSUME Init PROVE TaskInv
    OBVIOUS
  <1> DEFINE waited == Last(Started)
             pidOf(t) == NCPU - 1 + CHOOSE i \in 1 .. Len(Started) : Started[i] = t
             started(t, pr) == [NewTask(pr, pidOf(t)) EXCEPT !.detached = t \in Detached,
                                                             !.joined = t = waited]
             fresh(pr) == [NewTask(pr, NoPid) EXCEPT !.mapped = FALSE]
             first(t, pr) == CASE t \in Boots -> BootTask
                               [] t \in Idles -> NewTask(IdlePrio, t[2])
                               [] t \in Elements(Started) -> started(t, pr)
                               [] OTHER -> fresh(pr)
  <1>1. PICK prio \in [Users -> Prios] : tcb = [t \in Tcbs |-> first(t, prio[t])]
    BY Zenon DEF Init
  <1>2. waited \in Users /\ waited \in Tcbs  BY StartedAssumption DEF Last, Tcbs
  <1>3. /\ tasks = [p \in Pids |-> FirstTask(p)]
        /\ nr_tasks = NCPU + Len(Started)
        /\ ctx = [t \in Tcbs |-> <<Entry(t)>>]
        /\ current = [c \in CPUs |-> Boot(c)]
    BY Zenon DEF Init
  <1>4. ASSUME NEW t \in Tcbs
        PROVE  first(t, prio[t]) \in Structs(t)
    <2>1. Boots \cap Idles = {} /\ Elements(Started) \cap (Boots \cup Idles) = {}
      <3>1. Boots \cap Idles = {}  BY DEF Boots, Idles, Boot, Idle
      <3>2. Elements(Started) \subseteq Users  BY StartedAssumption DEF Elements
      <3> QED  BY <3>1, <3>2, UsersAssumption
    <2>2. CASE t \in Boots
      <3> DEFINE r == NewTask(IdlePrio, NoPid)
                 q == [r EXCEPT !.state = "RUNNING"]
      <3>1. r \in Structs(t)  BY NewStruct DEF IdlePrio
      <3>2. BootTask = [q EXCEPT !.dynamic_prio = 1]  BY DEF BootTask
      <3> HIDE DEF r
      <3>3. q \in Structs(t)  BY <3>1, FieldWrite, Zenon DEF States
      <3> HIDE DEF q
      <3>4. BootTask \in Structs(t)  BY <2>2, <3>2, <3>3 DEF Structs, TaskStructs
      <3>5. first(t, prio[t]) = BootTask  BY <2>2, <2>1
      <3> QED  BY <3>4, <3>5, Zenon
    <2>3. CASE t \in Idles /\ t \notin Boots
      <3>1. t[2] \in CPUs  BY <2>3 DEF Idles, Idle
      <3>2. t[2] \in Pids  BY <3>1, CPUsAssumption, StartedAssumption, BoundsAssumption DEF CPUs, Pids
      <3>3. NewTask(IdlePrio, t[2]) \in Structs(t)  BY <3>2, NewStruct DEF IdlePrio
      <3>4. first(t, prio[t]) = NewTask(IdlePrio, t[2])  BY <2>3, <2>1
      <3> QED  BY <3>3, <3>4
    <2>4. CASE t \in Elements(Started) /\ t \notin Boots /\ t \notin Idles
      <3>1. prio[t] \in Nat \ {0}  BY <2>4, BoundsAssumption, Zenon DEF Tcbs
      <3>2. \E i \in 1 .. Len(Started) : Started[i] = t  BY <2>4 DEF Elements
      <3>3. pidOf(t) \in Pids  BY <3>2, CPUsAssumption, StartedAssumption, BoundsAssumption DEF Pids
      <3> HIDE DEF pidOf, waited
      <3>4. NewTask(prio[t], pidOf(t)) \in Structs(t)  BY <3>1, <3>3, NewStruct
      <3>5. started(t, prio[t]) \in Structs(t)
        <4> DEFINE d == t \in Detached
                   j == t = waited
                   r == NewTask(prio[t], pidOf(t))
        <4>1. d \in BOOLEAN /\ j \in BOOLEAN  OBVIOUS
        <4>2. r \in Structs(t)  BY <3>4
        <4>3. started(t, prio[t]) = [[r EXCEPT !.detached = d] EXCEPT !.joined = j]  OBVIOUS
        <4> HIDE DEF d, j, r
        <4>4. [r EXCEPT !.detached = d] \in Structs(t)  BY <4>1, <4>2, FieldWrite
        <4> QED  BY <4>1, <4>3, <4>4, FieldWrite, Zenon
      <3> HIDE DEF started
      <3> QED  BY <2>4, <3>5
    <2>5. CASE t \notin Elements(Started) /\ t \notin Boots /\ t \notin Idles
      <3>1. prio[t] \in Nat \ {0}  BY <2>5, BoundsAssumption, Zenon DEF Tcbs
      <3>2. NewTask(prio[t], NoPid) \in Structs(t)  BY <3>1, NewStruct
      <3>3. fresh(prio[t]) \in Structs(t)  BY <3>2, FieldWrite, Zenon
      <3> QED  BY <2>5, <3>3
    <2> QED  BY <2>2, <2>3, <2>4, <2>5
  <1>5. StructsOK
    <2>1. \A t \in Tcbs : Structs(t) \subseteq TaskStructs  BY DEF Structs
    <2> HIDE DEF first
    <2> QED  BY <1>1, <1>4, <2>1 DEF StructsOK
  <1>6. StacksOK
    <2> DEFINE join == [Frame("join") EXCEPT !.t = waited]
    <2>1. join \in InnerFrames  BY <1>2, Zenon DEF Frame, Frames, PCs, InnerFrames, InnerPCs
    <2>2. ASSUME NEW c \in CPUs
          PROVE  /\ <<Entry(Boot(c))>> \in Stacks
                 /\ <<Entry(Boot(c)), join>> \in Stacks
      <3>1. Boot(c) \in Tcbs  BY DEF Tcbs, Boots
      <3>2. <<Entry(Boot(c))>> \in Stacks  BY <3>1, EntryStack DEF Contexts
      <3>3. Entry(Boot(c)) \in OuterFrames  BY <3>1, EntryStack, Zenon
      <3> DEFINE e == Entry(Boot(c))
      <3> HIDE DEF e, join
      <3>4. <<e, join>> \in Seq(Frames) /\ Len(<<e, join>>) = 2
        BY <2>1, <3>3 DEF OuterFrames, InnerFrames, e
      <3>5. (\A i \in 2 .. 2 : i = 2) /\ 3 .. 2 = {}  OBVIOUS
      <3>6. e.t \notin Idles
        <4>1. e.t = Boot(c)  BY <3>1, EntryStack, Zenon DEF e
        <4> QED  BY <4>1 DEF Boot, Idles, Idle
      <3>7. <<e, join>> \in Stacks  BY <2>1, <3>3, <3>4, <3>5, <3>6 DEF Stacks, e
      <3> QED  BY <3>2, <3>7 DEF e
    <2>3. ctx \in [Tcbs -> Contexts]  BY <1>3, EntryStack
    <2>4. code = [c \in CPUs |-> IF c = 0 THEN <<Entry(Boot(c)), join>> ELSE <<Entry(Boot(c))>>]
      BY Zenon DEF Init
    <2> HIDE DEF join
    <2>5. code \in [CPUs -> Stacks]  BY <2>2, <2>4
    <2> QED  BY <2>3, <2>5 DEF StacksOK
  <1>7. ListOK
    <2>1. tasks \in [Pids -> Listable]  BY <1>3, FirstTasks
    <2>2. nr_tasks \in Int  BY <1>3, CPUsAssumption, StartedAssumption
    <2>3. current \in [CPUs -> Tcbs]  BY <1>3 DEF Tcbs, Boots
    <2> QED  BY <2>1, <2>2, <2>3 DEF ListOK
  <1>8. FlagsOK
    <2>1. iflag = [c \in CPUs |-> TRUE]  BY Zenon DEF Init
    <2> QED  BY <2>1 DEF FlagsOK
  <1> QED  BY <1>5, <1>6, <1>7, <1>8 DEF TaskInv

-----------------------------------------------------------------------------
(* The theorems *)

(* The shapes of the stacks, the contents of the list and the bounds of    *)
(* the counters are invariant under tasks.c's operations and the timer.    *)
THEOREM TaskInvariant == Spec => []TaskInv
  BY InitInv, StepInv, PTL DEF Spec

(* No operation of tasks.c stores a value of the wrong kind in the list, a *)
(* task_struct, a saved context or _current, and no CPU runs out of stack  *)
(* frames by returning once too often.                                     *)
THEOREM TypesKept == Spec => []TypeOK
  <1>1. TaskInv => TypeOK
    <2>1. Stacks \subseteq Seq(Frames) \ {<<>>} /\ Contexts \subseteq Seq(Frames)
      BY DEF Stacks, Contexts
    <2>2. Listable \subseteq Tcbs \cup {NULL}  BY DEF Listable
    <2> QED  BY <2>1, <2>2 DEF TaskInv, StructsOK, StacksOK, ListOK, FlagsOK, TypeOK
  <1> QED  BY <1>1, TaskInvariant, PTL

(* The comment of schedule on a counter's bound (tasks.c:186) holds for    *)
(* every number of CPUs, tasks and ticks and every order of recharges.     *)
THEOREM CountersBounded == Spec => []CounterBound
  <1>1. TaskInv => CounterBound
    <2> SUFFICES ASSUME TaskInv, NEW p \in Pids, tasks[p] # NULL
                 PROVE  Counter(p) < 2 * tcb[tasks[p]].static_prio
      BY DEF CounterBound
    <2>1. tasks[p] \in Tcbs \ Boots  BY DEF TaskInv, ListOK, Listable
    <2> QED  BY <2>1 DEF TaskInv, StructsOK, Structs, Counter
  <1> QED  BY <1>1, TaskInvariant, PTL

(* No choice of schedule leads a CPU back to a bootstrap task: they are    *)
(* never in the list, and _current only takes values from the list.        *)
THEOREM NeverBackToBoot == Spec => BootstrapLeft
  <1>1. ASSUME TaskInv, [Next]_vars
        PROVE  [\A c \in CPUs : current[c] \notin Boots => current'[c] \notin Boots]_vars
    <2>1. CASE current' = current  BY <2>1
    <2>2. ASSUME NEW d \in CPUs, SwitchTo(d)
          PROVE  \A c \in CPUs : current[c] \notin Boots => current'[c] \notin Boots
      <3>1. Top(d).pid \in Pids  BY <1>1, <2>2, TopFrame DEF SwitchTo, At, InnerFrames, InnerPCs
      <3>2. tasks[Top(d).pid] # NULL => tasks[Top(d).pid] \notin Boots
        BY <1>1, <3>1 DEF TaskInv, ListOK, Listable
      <3> QED  BY <1>1, <2>2, <3>2 DEF SwitchTo, TaskInv, ListOK
    <2>3. UNCHANGED vars \/ current' = current \/ \E d \in CPUs : SwitchTo(d)
      BY <1>1, ZenonT(30) DEF Next, KernelStep, UserStep, Tick, UserYield, NewFindPid, NewInstall,
         NewNoMemory, Detach, Join, JoinWaits, JoinYields, JoinCleans, TaskReturns, Terminate, CleanSelf, LastYield, Enter, Scan,
         Pick, Recharge, Swap, Leave, TickCounts, TickPreempts, Yield
    <2> QED  BY <2>1, <2>2, <2>3 DEF vars
  <1> QED  BY <1>1, TaskInvariant, PTL DEF Spec, BootstrapLeft

-----------------------------------------------------------------------------
(* The life of a task, as long as no context is damaged. *)

Ended(s) == s[1].pc \in {"removed", "dead", "bye"}

(* A task in the list is where its pid says, has its memory, has not ended *)
ListSound ==
  \A p \in Pids : tasks[p] # NULL =>
    /\ tcb[tasks[p]].pid = p
    /\ tcb[tasks[p]].mapped
    /\ tcb[tasks[p]].state # "TERMINATED"

(* and so has the task that a CPU is on or switching to,                   *)
RunnerSound ==
  \A c \in CPUs : At(c, "swap") \/ code[c][1].pc \notin {"dead", "bye"} =>
    cur(c).mapped /\ cur(c).state # "TERMINATED"

(* a task that is ending is in no list and on no other CPU,                *)
EndedOff ==
  /\ \A c \in CPUs : Ended(code[c]) =>
       ~Listed(code[c][1].t) /\ \A d \in CPUs \ {c} : current[d] # code[c][1].t
  /\ \A t \in Tcbs : Ended(ctx[t]) => ~Listed(t) /\ \A d \in CPUs : current[d] # t

(* has no other frame before its last task_yield, nor is a CPU preempted   *)
(* there or between the search of schedule and its choice,                 *)
EndedAlone ==
  \A c \in CPUs : code[c][1].pc \in {"removed", "dead"} => Len(code[c]) = 1
NotPreempted ==
  \A c \in CPUs : Top(c).pc \in {"removed", "dead", "scan", "pick", "go"} => ~cur(c).interruptible

(* so no frame waits there for another to return,                          *)
Below(s) == \A i \in 1 .. Len(s) - 1 : s[i].pc \notin {"scan", "pick", "go", "swap"}
BelowSound == (\A c \in CPUs : Below(code[c])) /\ (\A t \in Tcbs : Below(ctx[t]))

(* and cpu_switch_to gets two tasks, the second the new _current.          *)
SwapSound ==
  \A c \in CPUs : At(c, "swap") => Top(c).t = current[c] /\ Top(c).prev # Top(c).t

LifeInv ==
  /\ ListSound /\ RunnerSound /\ EndedOff /\ EndedAlone /\ NotPreempted
  /\ BelowSound /\ SwapSound

(* The first NCPU slots hold the idle tasks, and no pid that task_new has  *)
(* found or stored is one of theirs;                                       *)
NewPid(s) == Len(s) >= 2 /\ s[2].pc = "new" => s[2].pid \notin CPUs
IdlesListed ==
  /\ \A p \in CPUs : tasks[p] = Idle(p)
  /\ \A t \in Users : tcb[t].pid \notin CPUs
  /\ \A c \in CPUs : NewPid(code[c])
  /\ \A t \in Tcbs : NewPid(ctx[t])

(* an idle task that is RUNNING is one that a CPU has picked or is on.     *)
Owns(c, t) ==
  IF At(c, "go") THEN tasks[Top(c).pid] = t
                 ELSE current[c] = t /\ Top(c).pc \notin {"sched", "scan", "pick"}
IdlesOwned ==
  \A t \in Idles : tcb[t].state = "RUNNING" => \E c \in CPUs : Owns(c, t)

OwnedKept == IdlesOwned => IdlesOwned'

(* It is, unless the handler has been interrupted by itself.               *)
OneHandler(s) == \A i \in 1 .. Len(s) - 1 : ~s[i].isr
HandlersApart == (\A c \in CPUs : OneHandler(code[c])) /\ (\A t \in Tcbs : OneHandler(ctx[t]))

-----------------------------------------------------------------------------
(* What a step leaves of the stacks. *)

(* The frames below the innermost, when one frame is replaced, *)
LEMMA BelowStep ==
  ASSUME NEW s \in Stacks, NEW r, Below(s), Len(r) = Len(s),
         \A i \in 1 .. Len(s) - 1 : r[i] = s[i]
  PROVE  Below(r)
  BY DEF Below

(* pushed, *)
LEMMA BelowPush ==
  ASSUME NEW s \in Stacks, NEW r, Below(s), Len(r) = Len(s) + 1,
         \A i \in 1 .. Len(s) : r[i] = s[i], Last(s).pc \notin {"scan", "pick", "go", "swap"}
  PROVE  Below(r)
  <1>1. Len(s) \in Nat \ {0}  BY StackTop
  <1>2. \A i \in 1 .. Len(s) : i = Len(s) \/ i \in 1 .. Len(s) - 1  BY <1>1
  <1>3. Len(r) - 1 = Len(s)  BY <1>1
  <1> QED  BY <1>2, <1>3, Zenon DEF Below, Last

(* and when one returns. *)
LEMMA BelowPop ==
  ASSUME NEW s \in Stacks, NEW r, Below(s), Len(r) = Len(s) - 1,
         \A i \in 1 .. Len(s) - 1 : r[i] = s[i]
  PROVE  Below(r) /\ (Len(s) >= 2 => Last(r).pc \notin {"scan", "pick", "go", "swap"})
  <1>1. Len(s) \in Nat  BY StackTop
  <1>2. \A i \in 1 .. Len(r) - 1 : i \in 1 .. Len(s) - 1  BY <1>1
  <1>3. Len(s) >= 2 => Len(r) \in 1 .. Len(s) - 1  BY <1>1
  <1> QED  BY <1>2, <1>3 DEF Below, Last

(* The second frame of a stack, when one frame is pushed or replaced, *)
LEMMA NewPidPush ==
  ASSUME NEW s \in Stacks, NEW r \in Stacks, NewPid(s), Len(r) <= Len(s) + 1,
         \A i \in 1 .. Len(r) - 1 : r[i] = s[i],
         Last(r).pc = "new" => Last(r).pid \notin CPUs
  PROVE  NewPid(r)
  <1>1. Len(s) \in Nat /\ Len(r) \in Nat  BY StackTop
  <1>2. Len(r) = 2 => r[2] = Last(r)  BY DEF Last
  <1>3. Len(r) > 2 => r[2] = s[2] /\ Len(s) >= 2  BY <1>1
  <1>4. Len(r) >= 2 => Len(r) = 2 \/ Len(r) > 2
    <2>1. \A n \in Nat : n >= 2 => n = 2 \/ n > 2  OBVIOUS
    <2> QED  BY <1>1, <2>1, Zenon
  <1> QED  BY <1>2, <1>3, <1>4, Zenon DEF NewPid

(* and when one returns. *)
LEMMA NewPidPop ==
  ASSUME NEW s \in Stacks, NEW r \in Stacks, NewPid(s), Len(r) <= Len(s),
         \A i \in 1 .. Len(r) : r[i] = s[i]
  PROVE  NewPid(r)
  <1>1. Len(s) \in Nat /\ Len(r) \in Nat  BY StackTop
  <1>2. Len(r) >= 2 => r[2] = s[2] /\ Len(s) >= 2  BY <1>1
  <1> QED  BY <1>1, <1>2 DEF NewPid

(* A frame of the kernel moves on: *)
LEMMA ReplaceEffect ==
  ASSUME TaskInv, NEW c \in CPUs, Top(c).pc \in InnerPCs, NEW f \in InnerFrames,
         f.isr = Top(c).isr, f.pc \in SchedPCs \/ Top(c).pc \notin SchedPCs, Replace(c, f)
  PROVE  /\ \A d \in CPUs : d # c => code'[d] = code[d]
         /\ code'[c][1] = code[c][1] /\ Last(code'[c]) = f /\ Len(code'[c]) = Len(code[c])
         /\ \A i \in 1 .. Len(code[c]) - 1 : code'[c][i] = code[c][i]
  <1>1. code[c] \in Stacks /\ code \in [CPUs -> Stacks]  BY DEF TaskInv, StacksOK
  <1>2. code' = [code EXCEPT ![c] = Append(Front(code[c]), f)]  BY DEF Replace
  <1>3. code'[c] = Append(Front(code[c]), f) /\ \A d \in CPUs : d # c => code'[d] = code[d]
    BY <1>1, <1>2
  <1> QED  BY <1>1, <1>3, StackStep DEF Top

(* a function is called, *)
LEMMA CallEffect ==
  ASSUME TaskInv, NEW c \in CPUs, NEW f \in InnerFrames, Call(c, f),
         \/ Top(c).pc = "user"
         \/ f.pc \in SchedPCs /\ f.isr
  PROVE  /\ \A d \in CPUs : d # c => code'[d] = code[d]
         /\ code'[c][1] = code[c][1] /\ Last(code'[c]) = f /\ Len(code'[c]) = Len(code[c]) + 1
         /\ \A i \in 1 .. Len(code[c]) : code'[c][i] = code[c][i]
  <1>1. code[c] \in Stacks /\ code \in [CPUs -> Stacks]  BY DEF TaskInv, StacksOK
  <1>2. code'[c] = Append(code[c], f) /\ \A d \in CPUs : d # c => code'[d] = code[d]
    BY <1>1 DEF Call
  <1>3. Top(c).pc = "user" => Len(code[c]) = 1 /\ code[c][1].t \notin Idles
    BY <1>1, StackTop, UsersAssumption DEF Top, OuterPCs, OuterFrames
  <1> QED  BY <1>1, <1>2, <1>3, StackPush

(* one returns, *)
LEMMA ReturnEffect ==
  ASSUME TaskInv, NEW c \in CPUs, Top(c).pc \in InnerPCs, Return(c)
  PROVE  /\ \A d \in CPUs : d # c => code'[d] = code[d]
         /\ code'[c][1] = code[c][1] /\ code'[c] \in Stacks /\ Len(code'[c]) = Len(code[c]) - 1
         /\ \A i \in 1 .. Len(code[c]) - 1 : code'[c][i] = code[c][i]
         /\ Len(code[c]) = 2 => Last(code'[c]) = code[c][1]
  <1>1. code[c] \in Stacks /\ code \in [CPUs -> Stacks]  BY DEF TaskInv, StacksOK
  <1>2. code'[c] = Front(code[c]) /\ \A d \in CPUs : d # c => code'[d] = code[d]
    BY <1>1 DEF Return
  <1>3. /\ code'[c] \in Stacks /\ Len(code'[c]) = Len(code[c]) - 1
        /\ \A i \in 1 .. Len(code[c]) - 1 : code'[c][i] = code[c][i]
    BY <1>1, <1>2, StackPop DEF Top
  <1>4. Len(code[c]) \in Nat /\ Len(code[c]) >= 2  BY <1>1, StackTop DEF Top
  <1>5. code'[c][1] = code[c][1]  BY <1>3, <1>4
  <1>6. Len(code[c]) = 2 => Last(code'[c]) = code[c][1]
    <2>1. 2 - 1 = 1  OBVIOUS
    <2> QED  BY <1>3, <1>5, <2>1, Zenon DEF Last
  <1> QED  BY <1>2, <1>3, <1>5, <1>6

(* The other frames, when the innermost moves on in its function, *)
LEMMA MoveShape ==
  ASSUME TaskInv, TaskInv', LifeInv, IdlesListed, NEW c \in CPUs, Top(c).pc \in InnerPCs,
         NEW f \in InnerFrames, f.isr = Top(c).isr, f.pc \in SchedPCs \/ Top(c).pc \notin SchedPCs,
         f.pc # "new", Replace(c, f)
  PROVE  /\ \A d \in CPUs : d # c => code'[d] = code[d]
         /\ code'[c][1] = code[c][1] /\ Last(code'[c]) = f
         /\ Below(code'[c]) /\ NewPid(code'[c])
  <1>1. /\ \A d \in CPUs : d # c => code'[d] = code[d]
        /\ code'[c][1] = code[c][1] /\ Last(code'[c]) = f /\ Len(code'[c]) = Len(code[c])
        /\ \A i \in 1 .. Len(code[c]) - 1 : code'[c][i] = code[c][i]
    BY ReplaceEffect
  <1>2. code[c] \in Stacks /\ code'[c] \in Stacks /\ Len(code[c]) \in Nat
    BY StackTop DEF TaskInv, StacksOK
  <1>3. Below(code'[c])  BY <1>1, <1>2, BelowStep DEF LifeInv, BelowSound
  <1>4. Len(code'[c]) <= Len(code[c]) + 1
    <2>1. \A m, n : n \in Nat /\ m = n => m <= n + 1  OBVIOUS
    <2> QED  BY <1>1, <1>2, <2>1, Zenon
  <1>5. NewPid(code[c])  BY DEF IdlesListed
  <1>6. Last(code'[c]).pc # "new"  BY <1>1
  <1>7. \A i \in 1 .. Len(code'[c]) - 1 : code'[c][i] = code[c][i]  BY <1>1
  <1>8. NewPid(code'[c])  BY <1>2, <1>4, <1>5, <1>6, <1>7, NewPidPush
  <1> QED  BY <1>1, <1>3, <1>8

(* and when its function returns. *)
LEMMA ReturnShape ==
  ASSUME TaskInv, LifeInv, IdlesListed, NEW c \in CPUs, Top(c).pc \in InnerPCs, Return(c)
  PROVE  /\ \A d \in CPUs : d # c => code'[d] = code[d]
         /\ code'[c][1] = code[c][1] /\ code'[c] \in Stacks
         /\ Below(code'[c]) /\ NewPid(code'[c])
         /\ Last(code'[c]).pc \notin {"removed", "dead", "scan", "pick", "go", "swap"}
         /\ Len(code[c]) = 2 => Last(code'[c]) = code[c][1] /\ Len(code'[c]) = 1
  <1>1. /\ \A d \in CPUs : d # c => code'[d] = code[d]
        /\ code'[c][1] = code[c][1] /\ code'[c] \in Stacks /\ Len(code'[c]) = Len(code[c]) - 1
        /\ \A i \in 1 .. Len(code[c]) - 1 : code'[c][i] = code[c][i]
        /\ Len(code[c]) = 2 => Last(code'[c]) = code[c][1]
    BY ReturnEffect
  <1>2. code[c] \in Stacks /\ Len(code[c]) \in Nat /\ Len(code[c]) >= 2
    BY StackTop DEF TaskInv, StacksOK, Top
  <1>3. Below(code'[c]) /\ Last(code'[c]).pc \notin {"scan", "pick", "go", "swap"}
    BY <1>1, <1>2, BelowPop DEF LifeInv, BelowSound
  <1>4. Len(code'[c]) <= Len(code[c])
    <2>1. \A m, n : n \in Nat /\ m = n - 1 => m <= n  OBVIOUS
    <2> QED  BY <1>1, <1>2, <2>1, Zenon
  <1>5. \A i \in 1 .. Len(code'[c]) : code'[c][i] = code[c][i]  BY <1>1
  <1>6. NewPid(code[c])  BY DEF IdlesListed
  <1>7. NewPid(code'[c])  BY <1>1, <1>2, <1>4, <1>5, <1>6, NewPidPop
  <1>8. Last(code'[c]).pc \notin {"removed", "dead"}
    <2>1. Len(code[c]) # 1
      <3>1. \A n : n \in Nat /\ n >= 2 => n # 1  OBVIOUS
      <3> QED  BY <1>2, <3>1, Zenon
    <2>2. code[c][1].pc \notin {"removed", "dead"}  BY <2>1 DEF LifeInv, EndedAlone
    <2>3. Last(code'[c]).pc \in {"removed", "dead"} => Last(code'[c]) = code'[c][1]
      BY <1>1, StackTop DEF OuterPCs
    <2> QED  BY <1>1, <2>2, <2>3
  <1>9. Len(code[c]) = 2 => Len(code'[c]) = 1
    <2>1. 2 - 1 = 1  OBVIOUS
    <2> QED  BY <1>1, <2>1, Zenon
  <1> QED  BY <1>1, <1>3, <1>7, <1>8, <1>9

(* task_yield and the handler make the task on the CPU READY. *)
LEMMA PreemptTcb ==
  ASSUME TaskInv, NEW c \in CPUs,
         tcb' = [tcb EXCEPT ![current[c]].state = Preempted(@),
                            ![current[c]].dynamic_prio = 0]
  PROVE  /\ \A t \in Tcbs :
              /\ tcb'[t].pid = tcb[t].pid
              /\ tcb'[t].interruptible = tcb[t].interruptible
              /\ tcb'[t].mapped = tcb[t].mapped
              /\ tcb[t].state # "TERMINATED" => tcb'[t].state # "TERMINATED"
              /\ t # current[c] => tcb'[t].state = tcb[t].state
         /\ tcb'[current[c]].state # "RUNNING"
  <1> DEFINE u == current[c]
             q == [tcb[u] EXCEPT !.state = Preempted(@), !.dynamic_prio = 0]
  <1>1. tcb \in [Tcbs -> TaskStructs] /\ u \in Tcbs /\ tcb[u] \in TaskStructs
    BY RunningTask DEF TaskInv, StructsOK
  <1>2. tcb' = [tcb EXCEPT ![u] = q]  BY <1>1, Zenon
  <1>3. /\ q.pid = tcb[u].pid /\ q.interruptible = tcb[u].interruptible /\ q.mapped = tcb[u].mapped
        /\ q.state = Preempted(tcb[u].state)
    BY <1>1 DEF TaskStructs
  <1>4. /\ tcb[u].state # "TERMINATED" => Preempted(tcb[u].state) # "TERMINATED"
        /\ Preempted(tcb[u].state) # "RUNNING"
    BY DEF Preempted
  <1> HIDE DEF q
  <1>5. tcb'[u] = q /\ \A t \in Tcbs : t # u => tcb'[t] = tcb[t]  BY <1>1, <1>2, Zenon
  <1> QED  BY <1>3, <1>4, <1>5, Zenon

(* and leaves the rest of the stacks. *)
LEMMA YieldEffect ==
  ASSUME TaskInv, NEW c \in CPUs, UserYield(c) \/ JoinYields(c) \/ LastYield(c)
  PROVE  /\ \A d \in CPUs : d # c => code'[d] = code[d]
         /\ code'[c][1] = code[c][1] /\ Last(code'[c]) = Frame("sched")
         /\ Len(code[c]) = 1 \/ (code'[c][2].pc = "join" /\ code'[c][2].t = code[c][2].t)
         /\ Len(code'[c]) = Len(code[c]) + 1 /\ Len(code[c]) \in 1 .. 2
  <1>1. PICK back :
          /\ Yield(c, back)
          /\ \/ Top(c).pc \in {"user", "bye"} /\ back = Top(c)
             \/ Top(c).pc = "join_yield" /\ back = [Top(c) EXCEPT !.pc = "join"]
    BY DEF UserYield, JoinYields, LastYield, At
  <1> DEFINE s == code[c]
             r == Append(Front(s), back)
  <1>2. s \in Stacks /\ code \in [CPUs -> Stacks] /\ StacksOK /\ Top(c) = Last(s)
    BY DEF TaskInv, StacksOK, Top
  <1>3. r \in Stacks /\ r[1] = s[1] /\ Len(r) = Len(s)  BY <1>1, <1>2, YieldStacks
  <1>4. code'[c] = Append(r, Frame("sched")) /\ \A d \in CPUs : d # c => code'[d] = code[d]
    BY <1>1, <1>2 DEF Yield
  <1>5. Frame("sched") \in InnerFrames /\ Frame("sched").pc \in SchedPCs
    BY PlainFrame, Zenon DEF SchedPCs
  <1>6. s[1].t \notin Idles
    <2>1. Top(c).pc \in {"user", "bye", "join_yield"} /\ Top(c).pc # "hlt"  BY <1>1
    <2>2. ~Last(s).isr \/ s[1].t \notin Idles
      <3>1. CASE Top(c).pc = "join_yield"
        BY <1>2, <3>1, StackTop DEF InnerPCs, InnerFrames, SchedPCs
      <3>2. CASE Top(c).pc \in {"user", "bye"}
        BY <1>2, <3>2, StackTop, UsersAssumption DEF OuterPCs, OuterFrames
      <3> QED  BY <2>1, <3>1, <3>2
    <2> QED  BY <1>2, <2>1, <2>2, IdleStack
  <1> HIDE DEF r
  <1>7. /\ Last(code'[c]) = Frame("sched") /\ Len(code'[c]) = Len(r) + 1
        /\ \A i \in 1 .. Len(r) : code'[c][i] = r[i]
        /\ code'[c][1] = r[1]
    BY <1>3, <1>4, <1>5, <1>6, StackPush
  <1>8. Len(s) = 1 \/ (code'[c][2].pc = "join" /\ code'[c][2].t = s[2].t)
    <2>1. CASE Top(c).pc \in {"user", "bye"}
      BY <1>2, <2>1, StackTop DEF OuterPCs
    <2>2. CASE Top(c).pc = "join_yield"
      <3>1. Len(s) = 2 /\ Last(s) \in Frames /\ Last(s) \in InnerFrames /\ s[2] = Last(s)
        BY <1>2, <2>2, StackTop DEF InnerPCs, SchedPCs, Last
      <3>2. back.pc = "join" /\ back.t = s[2].t /\ back.isr = Last(s).isr /\ back \in InnerFrames
        <4>1. back = [Last(s) EXCEPT !.pc = "join"] /\ Last(s).pc = "join_yield"  BY <1>1, <1>2, <2>2
        <4>2. "join" \in InnerPCs \ {"new", "go", "swap"}  BY DEF InnerPCs
        <4> QED  BY <3>1, <4>1, <4>2, FrameMove
      <3>3. Last(r) = back  BY <1>2, <2>2, <3>2, StackStep DEF InnerPCs, SchedPCs, r
      <3>4. r[2] = back  BY <1>3, <3>1, <3>3 DEF Last
      <3>5. 2 \in 1 .. 2  OBVIOUS
      <3>6. code'[c][2] = r[2]  BY <1>3, <1>7, <3>1, <3>5, Zenon
      <3> QED  BY <3>2, <3>4, <3>6
    <2> QED  BY <1>1, <2>1, <2>2
  <1>9. Len(s) \in 1 .. 2
    <2>1. Len(s) = 1 \/ Len(s) = 2  BY <1>1, <1>2, StackTop, Zenon DEF OuterPCs, InnerPCs, SchedPCs
    <2>2. 1 \in 1 .. 2 /\ 2 \in 1 .. 2  OBVIOUS
    <2> QED  BY <2>1, <2>2
  <1> QED  BY <1>3, <1>4, <1>7, <1>8, <1>9

-----------------------------------------------------------------------------
(* The two invariants at kmain's sti *)

(* The slots of the idle tasks are slots of the list, *)
LEMMA IdleSlots == CPUs \subseteq Pids
  <1>1. Len(Started) \in Nat  BY StartedAssumption
  <1> QED  BY <1>1, CPUsAssumption, BoundsAssumption DEF CPUs, Pids

(* So do the invariants of the tasks' lives and of the idle tasks. *)
LEMMA InitLife == Init => LifeInv /\ IdlesListed /\ IdlesOwned
  <1> SUFFICES ASSUME Init PROVE LifeInv /\ IdlesListed /\ IdlesOwned
    OBVIOUS
  <1> DEFINE waited == Last(Started)
             pidOf(t) == NCPU - 1 + CHOOSE i \in 1 .. Len(Started) : Started[i] = t
             join == [Frame("join") EXCEPT !.t = waited]
  <1>1. PICK prio \in [Users -> Prios] :
          tcb = [t \in Tcbs |->
                   CASE t \in Boots -> BootTask
                     [] t \in Idles -> NewTask(IdlePrio, t[2])
                     [] t \in Elements(Started) ->
                          [NewTask(prio[t], pidOf(t)) EXCEPT !.detached = t \in Detached,
                                                             !.joined = t = waited]
                     [] OTHER -> [NewTask(prio[t], NoPid) EXCEPT !.mapped = FALSE]]
    BY Zenon DEF Init
  <1>2. /\ tasks = [p \in Pids |-> FirstTask(p)]
        /\ ctx = [t \in Tcbs |-> <<Entry(t)>>]
        /\ current = [c \in CPUs |-> Boot(c)]
        /\ code = [c \in CPUs |-> IF c = 0 THEN <<Entry(Boot(c)), join>> ELSE <<Entry(Boot(c))>>]
    BY Zenon DEF Init
  <1>3. /\ \A t \in Boots : t \notin Idles /\ t \notin Users
        /\ \A t \in Idles : t \notin Boots /\ t \notin Users
        /\ \A t \in Users : t \notin Boots /\ t \notin Idles
    BY UsersAssumption DEF Boots, Idles, Boot, Idle
  <1>4. Len(Started) \in Nat /\ Started \in Seq(Users) /\ Elements(Started) \subseteq Users
    BY StartedAssumption DEF Elements
  <1>5. ASSUME NEW t \in Boots PROVE tcb[t].mapped /\ tcb[t].state = "RUNNING"
    <2>1. t \in Tcbs /\ t \notin Elements(Started) /\ t \notin Idles  BY <1>3, <1>4 DEF Tcbs
    <2> HIDE DEF pidOf, waited
    <2>2. tcb[t] = BootTask  BY <1>1, <2>1, Zenon
    <2> QED  BY <2>2 DEF BootTask, NewTask
  <1>6. \A i \in CPUs : tcb[Idle(i)] = NewTask(IdlePrio, i)
    <2> SUFFICES ASSUME NEW i \in CPUs PROVE tcb[Idle(i)] = NewTask(IdlePrio, i)
      OBVIOUS
    <2>1. Idle(i) \in Idles /\ Idle(i) \in Tcbs /\ Idle(i)[2] = i  BY DEF Idles, Idle, Tcbs
    <2>2. Idle(i) \notin Boots /\ Idle(i) \notin Elements(Started)  BY <1>3, <1>4, <2>1
    <2> HIDE DEF pidOf, waited
    <2> QED  BY <1>1, <2>1, <2>2, Zenon
  <1>7. ASSUME NEW i \in 1 .. Len(Started)
        PROVE  /\ tcb[Started[i]].pid = NCPU - 1 + i /\ tcb[Started[i]].mapped
               /\ tcb[Started[i]].state = "READY"
    <2>1. Started[i] \in Users /\ Started[i] \in Tcbs /\ Started[i] \in Elements(Started)
      BY <1>4 DEF Tcbs, Elements
    <2>2. (CHOOSE j \in 1 .. Len(Started) : Started[j] = Started[i]) = i
      BY StartedAssumption
    <2>3. pidOf(Started[i]) = NCPU - 1 + i  BY <2>2, Zenon
    <2> HIDE DEF pidOf, waited
    <2>4. tcb[Started[i]] =
            [NewTask(prio[Started[i]], pidOf(Started[i])) EXCEPT
               !.detached = Started[i] \in Detached, !.joined = Started[i] = waited]
      BY <1>1, <1>3, <2>1, Zenon
    <2> QED  BY <2>3, <2>4 DEF NewTask
  <1> HIDE DEF pidOf
  <1> DEFINE idle(i) == NewTask(IdlePrio, i)
  <1>8. \A i : idle(i).pid = i /\ idle(i).mapped /\ idle(i).state = "READY"  BY DEF NewTask
  <1> HIDE DEF idle
  <1>9. \A i \in CPUs : tcb[Idle(i)] = idle(i)  BY <1>6 DEF idle
  <1>10. ASSUME NEW p \in Pids, tasks[p] # NULL
        PROVE  \/ p \in CPUs /\ tasks[p] = Idle(p)
               \/ p - NCPU + 1 \in 1 .. Len(Started) /\ tasks[p] = Started[p - NCPU + 1]
    <2>1. tasks[p] = FirstTask(p)  BY <1>2
    <2>2. CASE p < NCPU
      <3>1. p \in CPUs  BY <2>2, CPUsAssumption, BoundsAssumption DEF CPUs, Pids
      <3>2. p \notin NCPU .. NCPU + Len(Started) - 1  BY <1>4, <2>2, <3>1, CPUsAssumption DEF CPUs
      <3> QED  BY <2>1, <2>2, <3>1, <3>2, Zenon DEF FirstTask
    <2>3. CASE ~(p < NCPU)
      <3>1. p \in NCPU .. NCPU + Len(Started) - 1 /\ tasks[p] = Started[p - NCPU + 1]
        BY <1>10, <2>1, <2>3 DEF FirstTask
      <3>2. p - NCPU + 1 \in 1 .. Len(Started)
        BY <1>4, <2>3, <3>1, CPUsAssumption, BoundsAssumption DEF Pids
      <3> QED  BY <3>1, <3>2
    <2> QED  BY <2>2, <2>3
  <1>11. ListSound
    <2> SUFFICES ASSUME NEW p \in Pids, tasks[p] # NULL
                 PROVE  /\ tcb[tasks[p]].pid = p /\ tcb[tasks[p]].mapped
                        /\ tcb[tasks[p]].state # "TERMINATED"
      BY DEF ListSound
    <2>1. CASE p \in CPUs /\ tasks[p] = Idle(p)  BY <1>8, <1>9, <2>1
    <2>2. CASE p - NCPU + 1 \in 1 .. Len(Started) /\ tasks[p] = Started[p - NCPU + 1]
      <3>1. NCPU - 1 + (p - NCPU + 1) = p  BY CPUsAssumption, BoundsAssumption DEF Pids
      <3> QED  BY <1>7, <2>2, <3>1
    <2> QED  BY <1>10, <2>1, <2>2
  <1>12. \A t \in Tcbs : Entry(t).pc \in {"hlt", "user"}  BY DEF Entry, Frame
  <1>13. /\ \A c \in CPUs : code[c][1] = Entry(Boot(c)) /\ current[c] = Boot(c) /\ Boot(c) \in Boots
         /\ \A t \in Tcbs : ctx[t] = <<Entry(t)>>
    BY <1>2 DEF Boots
  <1>14. \A c \in CPUs : Boot(c) \in Tcbs /\ tcb[Boot(c)].mapped /\ tcb[Boot(c)].state # "TERMINATED"
    BY <1>5 DEF Boots, Tcbs
  <1>15. ASSUME NEW c \in CPUs
         PROVE  /\ Top(c).pc \in {"hlt", "user", "join"} /\ Below(code[c]) /\ NewPid(code[c])
    <2> HIDE DEF join
    <2>1. join.pc = "join"  BY DEF join, Frame
    <2>2. CASE c = 0
      <3>1. code[c] = <<Entry(Boot(c)), join>>  BY <1>2, <2>2
      <3>2. Len(code[c]) = 2 /\ code[c][2] = join /\ code[c][1] = Entry(Boot(c))  BY <3>1
      <3>3. 2 - 1 = 1 /\ \A i \in 1 .. 1 : i = 1  OBVIOUS
      <3>4. Top(c) = join  BY <3>2 DEF Top, Last
      <3>5. Below(code[c])  BY <1>12, <1>14, <3>2, <3>3 DEF Below
      <3> QED  BY <2>1, <3>2, <3>4, <3>5 DEF NewPid
    <2>3. CASE c # 0
      <3>1. code[c] = <<Entry(Boot(c))>>  BY <1>2, <2>3
      <3>2. Len(code[c]) = 1 /\ code[c][1] = Entry(Boot(c))  BY <3>1
      <3>3. 1 .. 1 - 1 = {} /\ ~(1 >= 2)  OBVIOUS
      <3>4. Top(c) = Entry(Boot(c))  BY <3>2 DEF Top, Last
      <3> QED  BY <1>12, <1>14, <3>2, <3>3, <3>4 DEF NewPid, Below
    <2> QED  BY <2>2, <2>3
  <1>16. ASSUME NEW t \in Tcbs
         PROVE  Below(ctx[t]) /\ NewPid(ctx[t]) /\ ~Ended(ctx[t])
    <2> DEFINE e == Entry(t)
    <2>1. ctx[t] = <<e>>  BY <1>13
    <2>2. e.pc \in {"hlt", "user"}  BY <1>12
    <2> HIDE DEF e
    <2>3. Len(ctx[t]) = 1 /\ ctx[t][1] = e  BY <2>1
    <2>4. 1 .. 1 - 1 = {} /\ ~(1 >= 2)  OBVIOUS
    <2> QED  BY <2>2, <2>3, <2>4 DEF Below, NewPid, Ended
  <1>17. \A c \in CPUs : code[c][1].pc \in {"hlt", "user"}  BY <1>12, <1>13, <1>14
  <1>18. RunnerSound  BY <1>13, <1>14 DEF RunnerSound, cur
  <1>19. EndedOff  BY <1>16, <1>17 DEF EndedOff, Ended
  <1>20. EndedAlone /\ NotPreempted  BY <1>15, <1>17 DEF EndedAlone, NotPreempted
  <1>21. BelowSound /\ SwapSound  BY <1>15, <1>16 DEF BelowSound, SwapSound, At
  <1>22. IdlesListed
    <2>1. ASSUME NEW i \in CPUs PROVE tasks[i] = Idle(i)
      <3>1. i < NCPU /\ i \notin NCPU .. NCPU + Len(Started) - 1  BY <1>4, CPUsAssumption DEF CPUs
      <3>2. tasks[i] = FirstTask(i)  BY <1>2, IdleSlots
      <3> QED  BY <3>1, <3>2 DEF FirstTask
    <2>2. ASSUME NEW t \in Users PROVE tcb[t].pid \notin CPUs
      <3>1. CASE t \in Elements(Started)
        <4>1. PICK i \in 1 .. Len(Started) : Started[i] = t
          <5>1. DOMAIN Started = 1 .. Len(Started)  BY StartedAssumption
          <5> QED  BY <3>1, <5>1 DEF Elements
        <4>2. tcb[t].pid = NCPU - 1 + i  BY <1>7, <4>1
        <4> QED  BY <1>4, <4>2, CPUsAssumption DEF CPUs
      <3>2. CASE t \notin Elements(Started)
        <4>1. tcb[t] = [NewTask(prio[t], NoPid) EXCEPT !.mapped = FALSE]
          BY <1>1, <1>3, <3>2, Zenon DEF Tcbs
        <4>2. tcb[t].pid = NoPid  BY <4>1 DEF NewTask
        <4> QED  BY <4>2, CPUsAssumption DEF CPUs, NoPid
      <3> QED  BY <3>1, <3>2
    <2> QED  BY <1>15, <1>16, <2>1, <2>2 DEF IdlesListed
  <1>23. IdlesOwned
    <2>1. \A t \in Idles : tcb[t].state = "READY"  BY <1>8, <1>9 DEF Idles
    <2> QED  BY <2>1 DEF IdlesOwned
  <1> QED
    BY <1>11, <1>18, <1>19, <1>20, <1>21, <1>22, <1>23 DEF LifeInv

-----------------------------------------------------------------------------
(* The steps that leave the list, _current and the contexts alone. *)

(* Most steps of a CPU c change no list, no context and no _current, leave *)
(* the outermost frames, and take nothing from a task that has not ended.  *)
Quiet(c) ==
  /\ UNCHANGED <<tasks, current, ctx>>
  /\ \A d \in CPUs : d # c => code'[d] = code[d]
  /\ code'[c][1] = code[c][1] /\ Below(code'[c])
  /\ \/ code'[c] = code[c] /\ tcb'[current[c]].interruptible = cur(c).interruptible
     \/ /\ Top(c).pc \notin {"removed", "dead"}
        /\ Last(code'[c]).pc \notin {"removed", "dead", "swap"}
        /\ Last(code'[c]).pc \in {"scan", "pick", "go"} => ~tcb'[current[c]].interruptible
  /\ \A t \in Tcbs :
       /\ tcb'[t].pid = tcb[t].pid
       /\ t # current[c] => tcb'[t].interruptible = tcb[t].interruptible
       /\ tcb[t].mapped /\ tcb[t].state # "TERMINATED" =>
            tcb'[t].mapped /\ tcb'[t].state # "TERMINATED"

(* Such a step keeps the invariant of the tasks' lives, *)
LEMMA QuietLife ==
  ASSUME TaskInv, LifeInv, Undamaged, NEW c \in CPUs, Quiet(c)
  PROVE  LifeInv'
  <1>1. \A d \in CPUs : code'[d][1] = code[d][1]  BY DEF Quiet
  <1>2. current' = current /\ tasks' = tasks /\ ctx' = ctx  BY DEF Quiet
  <1>3. \A d \in CPUs : current[d] \in Tcbs  BY DEF TaskInv, ListOK
  <1>4. \A p \in Pids : tasks[p] # NULL => tasks[p] \in Tcbs  BY DEF TaskInv, ListOK, Listable
  <1>5. ListSound'  BY <1>2, <1>4 DEF LifeInv, ListSound, Quiet
  <1>6. \A d \in CPUs : At(d, "swap")' => At(d, "swap") /\ code'[d] = code[d]
    BY DEF Quiet, At, Top
  <1>7. RunnerSound'
    <2> SUFFICES ASSUME NEW d \in CPUs, At(d, "swap")' \/ code'[d][1].pc \notin {"dead", "bye"}
                 PROVE  tcb'[current[d]].mapped /\ tcb'[current[d]].state # "TERMINATED"
      BY <1>2, Zenon DEF RunnerSound, cur
    <2>1. At(d, "swap") \/ code[d][1].pc \notin {"dead", "bye"}
      BY <1>1, <1>6, Zenon
    <2>2. tcb[current[d]].mapped /\ tcb[current[d]].state # "TERMINATED"
      BY <2>1, Zenon DEF LifeInv, RunnerSound, cur
    <2>3. \A t \in Tcbs : tcb[t].mapped /\ tcb[t].state # "TERMINATED" =>
            tcb'[t].mapped /\ tcb'[t].state # "TERMINATED"
      BY Zenon DEF Quiet
    <2> QED  BY <1>3, <2>2, <2>3, Zenon
  <1>8. EndedOff'
    BY <1>1, <1>2 DEF LifeInv, EndedOff, Ended, Listed
  <1>9. EndedAlone'
    <2>1. code[c][1].pc \in {"removed", "dead"} => Top(c) = code[c][1]
      <3>1. code[c][1].pc \in {"removed", "dead"} => Len(code[c]) = 1  BY DEF LifeInv, EndedAlone
      <3> QED  BY <3>1 DEF Top, Last
    <2> QED  BY <1>1, <2>1 DEF LifeInv, EndedAlone, Quiet
  <1>10. NotPreempted'
    <2> SUFFICES ASSUME NEW d \in CPUs, Last(code'[d]).pc \in {"removed", "dead", "scan", "pick", "go"}
                 PROVE  ~tcb'[current[d]].interruptible
      BY <1>2 DEF NotPreempted, Top, cur
    <2>1. CASE d # c
      <3>1. current[d] # current[c]  BY <2>1 DEF Undamaged
      <3>2. code'[d] = code[d]  BY <2>1 DEF Quiet
      <3>3. ~tcb[current[d]].interruptible  BY <3>2 DEF LifeInv, NotPreempted, Top, cur
      <3> QED  BY <1>3, <3>1, <3>3 DEF Quiet
    <2>2. CASE d = c
      BY <2>2 DEF LifeInv, NotPreempted, Top, cur, Quiet
    <2> QED  BY <2>1, <2>2
  <1>11. SwapSound'
    BY <1>2, <1>6 DEF LifeInv, SwapSound, Top
  <1>12. BelowSound'  BY <1>2 DEF LifeInv, BelowSound, Quiet, Below
  <1> QED  BY <1>5, <1>7, <1>8, <1>9, <1>10, <1>11, <1>12 DEF LifeInv

(* and that of the idle tasks, if the pid it finds is not one of theirs    *)
(* and no idle task that goes on running is left by the CPU.               *)
IdleStep(c) ==
  /\ NewPid(code'[c])
  /\ HandlersApart =>
       \A t \in Idles : tcb'[t].state = "RUNNING" =>
         Owns(c, t)' \/ (tcb[t].state = "RUNNING" /\ ~Owns(c, t))

LEMMA QuietIdles ==
  ASSUME TaskInv, IdlesListed, NEW c \in CPUs, Quiet(c), IdleStep(c)
  PROVE  IdlesListed' /\ (HandlersApart => OwnedKept)
  <1>1. current' = current /\ tasks' = tasks /\ ctx' = ctx  BY DEF Quiet
  <1>2. \A d \in CPUs : d # c => code'[d] = code[d]  BY DEF Quiet
  <1>3. IdlesListed'
    <2>1. \A t \in Users : tcb'[t].pid \notin CPUs
      BY DEF IdlesListed, Quiet, Tcbs
    <2>2. \A d \in CPUs : NewPid(code'[d])
      BY <1>2 DEF IdlesListed, IdleStep
    <2> QED  BY <1>1, <2>1, <2>2 DEF IdlesListed, NewPid
  <1>4. HandlersApart => OwnedKept
    <2> SUFFICES ASSUME HandlersApart, IdlesOwned, NEW t \in Idles, tcb'[t].state = "RUNNING"
                 PROVE  \E d \in CPUs : Owns(d, t)'
      BY DEF OwnedKept, IdlesOwned
    <2>1. CASE Owns(c, t)'  BY <2>1
    <2>2. CASE tcb[t].state = "RUNNING" /\ ~Owns(c, t)
      <3>1. PICK d \in CPUs : Owns(d, t)  BY <2>2 DEF IdlesOwned
      <3>2. code'[d] = code[d]  BY <1>2, <2>2, <3>1
      <3>3. Owns(d, t)'  BY <1>1, <3>1, <3>2 DEF Owns, At, Top
      <3> QED  BY <3>3
    <2> QED  BY <2>1, <2>2 DEF IdleStep
  <1> QED  BY <1>3, <1>4

(* The fields of a task_struct that matter here. *)
Same(q, r) ==
  q.pid = r.pid /\ q.mapped = r.mapped /\ q.state = r.state /\ q.interruptible = r.interruptible

(* A step of CPU c writes at most the flag of the task it is on, and frees *)
(* at most the memory of a task that has ended.                            *)
Kept(c) ==
  \A t \in Tcbs :
    /\ tcb'[t].pid = tcb[t].pid /\ tcb'[t].state = tcb[t].state
    /\ tcb[t].state # "TERMINATED" => tcb'[t].mapped = tcb[t].mapped
    /\ t # current[c] => tcb'[t].interruptible = tcb[t].interruptible

(* The fields it does not read: *)
LEMMA SameWrite ==
  ASSUME NEW r \in TaskStructs, NEW x
  PROVE  /\ Same([r EXCEPT !.detached = x], r)
         /\ Same([r EXCEPT !.joined = x], r)
         /\ Same([r EXCEPT !.dynamic_prio = x], r)
  BY DEF TaskStructs, Same

(* Such a step is quiet if it moves the CPU between statements of which    *)
(* both or none belong to schedule before its choice.                      *)
LEMMA SameQuiet ==
  ASSUME TaskInv, IdlesListed, NEW c \in CPUs, UNCHANGED <<tasks, current, ctx>>,
         Kept(c), \A d \in CPUs : d # c => code'[d] = code[d],
         code'[c][1] = code[c][1], Below(code'[c]), NewPid(code'[c]),
         Top(c).pc \notin {"removed", "dead", "go"},
         Last(code'[c]).pc \notin {"removed", "dead", "swap"},
         Last(code'[c]).pc \in {"scan", "pick", "go"} => ~tcb'[current[c]].interruptible,
         Last(code'[c]).pc \in {"sched", "scan", "pick", "go"} => Top(c).pc \in {"sched", "scan", "pick"}
  PROVE  Quiet(c) /\ IdleStep(c)
  <1>1. current[c] \in Tcbs  BY DEF TaskInv, ListOK
  <1>2. Quiet(c)  BY <1>1 DEF Quiet, Kept
  <1>3. ASSUME NEW t \in Idles
        PROVE  Owns(c, t) => Owns(c, t)'
    BY DEF Owns, At, Top
  <1>4. \A t \in Idles : tcb'[t].state = tcb[t].state  BY DEF Kept, Tcbs
  <1> QED  BY <1>2, <1>3, <1>4 DEF IdleStep

(* task_yield *)
LEMMA YieldQuiet ==
  ASSUME TaskInv, IdlesListed, NEW c \in CPUs, UserYield(c) \/ JoinYields(c) \/ LastYield(c)
  PROVE  Quiet(c) /\ IdleStep(c)
  <1>1. /\ tcb' = [tcb EXCEPT ![current[c]].state = Preempted(@),
                              ![current[c]].dynamic_prio = 0]
        /\ UNCHANGED <<tasks, current, ctx>>
        /\ Top(c).pc \in {"user", "join_yield", "bye"}
    BY DEF UserYield, JoinYields, LastYield, Yield, At
  <1>2. Last(code'[c]).pc = "sched"  BY YieldEffect, PlainFrame, Zenon
  <1>3. Quiet(c)
    <2>1. Last(code'[c]).pc \notin {"removed", "dead", "swap", "scan", "pick", "go"}  BY <1>2
    <2>2. Top(c).pc \notin {"removed", "dead"}  BY <1>1
    <2>3. (\A d \in CPUs : d # c => code'[d] = code[d]) /\ code'[c][1] = code[c][1]
      BY YieldEffect
    <2>4. \A t \in Tcbs :
            /\ tcb'[t].pid = tcb[t].pid /\ tcb'[t].interruptible = tcb[t].interruptible
            /\ tcb'[t].mapped = tcb[t].mapped
            /\ tcb[t].state # "TERMINATED" => tcb'[t].state # "TERMINATED"
      BY <1>1, PreemptTcb, Zenon
    <2>5. Below(code'[c])
      <3>1. code[c] \in Stacks /\ code[c][1] \in OuterFrames  BY DEF TaskInv, StacksOK, Stacks
      <3>2. code'[c][1].pc \notin {"scan", "pick", "go", "swap"}
        BY <2>3, <3>1 DEF OuterFrames, OuterPCs
      <3>3. CASE Len(code[c]) = 1
        <4>1. Len(code'[c]) - 1 = 1
          <5>1. Len(code'[c]) = Len(code[c]) + 1  BY YieldEffect
          <5>2. \A m, n : n = 1 /\ m = n + 1 => m - 1 = 1  OBVIOUS
          <5> QED  BY <3>3, <5>1, <5>2, Zenon
        <4>2. \A i \in 1 .. 1 : i = 1  OBVIOUS
        <4> QED  BY <3>2, <4>1, <4>2, Zenon DEF Below
      <3>4. CASE Len(code[c]) = 2
        <4>1. Len(code'[c]) - 1 = 2 /\ code'[c][2].pc = "join"
          <5>1. Len(code'[c]) = Len(code[c]) + 1 /\ (Len(code[c]) = 1 \/ code'[c][2].pc = "join")
            BY YieldEffect
          <5>2. (\A m, n : n = 2 /\ m = n + 1 => m - 1 = 2) /\ 2 # 1  OBVIOUS
          <5> QED  BY <3>4, <5>1, <5>2, Zenon
        <4>2. \A i \in 1 .. 2 : i = 1 \/ i = 2  OBVIOUS
        <4> QED  BY <3>2, <4>1, <4>2, Zenon DEF Below
      <3>5. \A i \in 1 .. 2 : i = 1 \/ i = 2  OBVIOUS
      <3> QED  BY <3>3, <3>4, <3>5, YieldEffect
    <2> QED  BY <1>1, <2>1, <2>2, <2>3, <2>4, <2>5, Zenon DEF Quiet
  <1>4. NewPid(code'[c])
    <2>1. code[c] \in Stacks /\ Len(code[c]) \in Nat  BY StackTop DEF TaskInv, StacksOK
    <2>2. CASE Len(code[c]) = 1
      <3>1. 1 + 1 = 2  OBVIOUS
      <3>2. Len(code'[c]) = 2  BY <2>2, <3>1, YieldEffect, Zenon
      <3>3. code'[c][2].pc = "sched"  BY <1>2, <3>2 DEF Last
      <3> QED  BY <3>3 DEF NewPid
    <2>3. CASE code'[c][2].pc = "join"  BY <2>3 DEF NewPid
    <2> QED  BY <2>2, <2>3, YieldEffect
  <1>5. \A t \in Idles : tcb'[t].state = "RUNNING" => tcb[t].state = "RUNNING" /\ ~Owns(c, t)
    BY <1>1, PreemptTcb, Zenon DEF Owns, At, Tcbs
  <1> QED  BY <1>3, <1>4, <1>5 DEF IdleStep

(* task_isr_tick, which does not preempt a CPU between its search and its  *)
(* choice.                                                                 *)
LEMMA TickQuiet ==
  ASSUME TaskInv, TaskInv', LifeInv, IdlesListed, Undamaged, Undamaged', NEW c \in CPUs, Tick(c)
  PROVE  Quiet(c) /\ IdleStep(c)
  <1>1. CASE TickCounts(c)
    <2> DEFINE u == current[c]
               q == [tcb[u] EXCEPT !.dynamic_prio = @ - 1]
    <2>1. tcb \in [Tcbs -> TaskStructs] /\ u \in Tcbs /\ tcb[u] \in TaskStructs
      BY RunningTask DEF TaskInv, StructsOK
    <2>2. tcb' = [tcb EXCEPT ![u] = q] /\ UNCHANGED <<tasks, current, ctx, code>>
      BY <1>1 DEF TickCounts
    <2>3. /\ q.pid = tcb[u].pid /\ q.interruptible = tcb[u].interruptible
          /\ q.mapped = tcb[u].mapped /\ q.state = tcb[u].state
      BY <2>1 DEF TaskStructs
    <2> HIDE DEF q
    <2>4. tcb'[u] = q /\ \A t \in Tcbs : t # u => tcb'[t] = tcb[t]  BY <2>1, <2>2
    <2>5. Quiet(c)
      <3>1. \A t \in Tcbs : /\ tcb'[t].pid = tcb[t].pid /\ tcb'[t].mapped = tcb[t].mapped
                            /\ tcb'[t].interruptible = tcb[t].interruptible
                            /\ tcb'[t].state = tcb[t].state
        BY <2>3, <2>4, Zenon
      <3>2. Below(code[c])  BY DEF LifeInv, BelowSound
      <3> QED  BY <2>1, <2>2, <3>1, <3>2 DEF Quiet, cur
    <2>6. \A t \in Tcbs : tcb'[t].state = tcb[t].state  BY <2>3, <2>4
    <2>7. IdleStep(c)
      BY <2>2, <2>6 DEF IdleStep, IdlesListed, Owns, At, Top, Tcbs
    <2> QED  BY <2>5, <2>7
  <1>2. CASE TickPreempts(c)
    <2> DEFINE f == [Frame("sched") EXCEPT !.isr = TRUE]
    <2>1. f \in InnerFrames /\ f.pc = "sched" /\ f.pc \in SchedPCs /\ f.isr
      BY PlainFrame, Zenon DEF SchedPCs
    <2>2. /\ Call(c, f) /\ UNCHANGED <<tasks, current, ctx>>
          /\ tcb' = [tcb EXCEPT ![current[c]].state = Preempted(@),
                                ![current[c]].dynamic_prio = 0]
          /\ cur(c).interruptible
      BY <1>2 DEF TickPreempts, MayPreempt
    <2> HIDE DEF f
    <2>3. Top(c).pc \notin {"removed", "dead", "scan", "pick", "go"}
      BY <2>2 DEF LifeInv, NotPreempted
    <2>4. /\ \A d \in CPUs : d # c => code'[d] = code[d]
          /\ code'[c][1] = code[c][1] /\ Last(code'[c]) = f /\ Len(code'[c]) = Len(code[c]) + 1
          /\ \A i \in 1 .. Len(code[c]) : code'[c][i] = code[c][i]
      BY <2>1, <2>2, CallEffect
    <2>5. Quiet(c)
      <3>1. Last(code'[c]).pc \notin {"removed", "dead", "swap", "scan", "pick", "go"}
        BY <2>1, <2>4
      <3>2. \A t \in Tcbs :
              /\ tcb'[t].pid = tcb[t].pid /\ tcb'[t].interruptible = tcb[t].interruptible
              /\ tcb'[t].mapped = tcb[t].mapped
              /\ tcb[t].state # "TERMINATED" => tcb'[t].state # "TERMINATED"
        BY <2>2, PreemptTcb, Zenon
      <3>3. ~At(c, "swap")
        <4> SUFFICES ASSUME At(c, "swap") PROVE FALSE
          OBVIOUS
        <4>1. code[c][1].t = Top(c).prev /\ Top(c).prev # current[c]
          BY DEF Undamaged, ContextsKept, LifeInv, SwapSound
        <4>2. code'[c][1].t = current[c]
          BY <2>2, <3>1 DEF Undamaged, ContextsKept, At, Top
        <4> QED  BY <2>4, <4>1, <4>2
      <3>4. Below(code'[c])
        <4>1. code[c] \in Stacks /\ Below(code[c])  BY DEF TaskInv, StacksOK, LifeInv, BelowSound
        <4>2. Last(code[c]).pc \notin {"scan", "pick", "go", "swap"}  BY <2>3, <3>3 DEF At, Top
        <4> QED  BY <2>4, <4>1, <4>2, BelowPush
      <3> QED  BY <2>2, <2>3, <2>4, <3>1, <3>2, <3>4, Zenon DEF Quiet
    <2>6. NewPid(code'[c])
      <3>1. code[c] \in Stacks /\ code'[c] \in Stacks /\ Len(code[c]) \in Nat
        BY StackTop DEF TaskInv, StacksOK
      <3>2. NewPid(code[c])  BY DEF IdlesListed
      <3>3. Last(code'[c]).pc # "new"  BY <2>1, <2>4
      <3>4. Len(code'[c]) <= Len(code[c]) + 1 /\ Len(code'[c]) - 1 = Len(code[c])  BY <2>4, <3>1
      <3> QED  BY <2>4, <3>1, <3>2, <3>3, <3>4, NewPidPush
    <2>7. \A t \in Idles : tcb'[t].state = "RUNNING" => tcb[t].state = "RUNNING" /\ ~Owns(c, t)
      BY <2>2, <2>3, PreemptTcb, Zenon DEF Owns, At, Tcbs
    <2> QED  BY <2>5, <2>6, <2>7 DEF IdleStep
  <1> QED  BY <1>1, <1>2 DEF Tick
=============================================================================
