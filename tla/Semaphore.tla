----------------------------- MODULE Semaphore ------------------------------
(***************************************************************************)
(* The counting semaphores of kernel/tasks/sem.c, with the wait queue of   *)
(* kernel/utils/queue.c and list.c they are built on.  Tasks call sem_wait *)
(* and sem_signal in turn, as test_multitask (kmain.c) and the register    *)
(* accesses of ioapic.c do.                                                *)
(*                                                                         *)
(* One step is one critical section of the semaphore's spinlock, or one    *)
(* access to a task's state outside it: the spinlock keeps other CPUs out  *)
(* of the section and its cli keeps the timer out.  Between two steps the  *)
(* timer may interrupt the task.  The scheduler is reduced to what sem.c   *)
(* sees of it: it takes a CPU from a task, which it leaves READY if it was *)
(* RUNNING, and gives the CPU to some READY task.                          *)
(***************************************************************************)
EXTENDS Integers, Sequences, FiniteSets

CONSTANTS
  Tasks,      \* the tasks that use the semaphore
  Cpus,
  Initial,    \* the count given to sem_init
  MaxNodes,   \* bound: how many list nodes mmu_mmap can supply
  Other       \* any task that does not use the semaphore

ASSUME SemaphoreAssumption ==
  IsFiniteSet(Tasks) /\ Initial \in Nat /\ MaxNodes \in Nat /\ Other \notin Tasks

NULL == 0
Nodes == 1 .. MaxNodes

VARIABLES
  count,      \* sem->count
  head, tail, size,   \* sem->task_queue
  used,       \* nodes 1 .. used have been allocated by list_create
  next, data, \* the fields of the nodes
  state,      \* the state of each task
  pc,         \* where each task is in sem_wait or sem_signal
  popped,     \* sem_signal's popped_task, per caller
  current,    \* the task on each CPU
  order       \* history: the tasks in the queue, in the order of their pushes

queue == <<head, tail, size, used, next, data>>
vars == <<count, queue, state, pc, popped, current, order>>

Points == {"out", "take", "push", "block", "yield", "back", "inside", "wake"}

Init ==
  /\ count = Initial
  /\ head = NULL /\ tail = NULL /\ size = 0 /\ used = 0
  /\ next = [n \in Nodes |-> NULL]
  /\ data = [n \in Nodes |-> Other]
  /\ state = [t \in Tasks |-> "READY"]
  /\ pc = [t \in Tasks |-> "out"]
  /\ popped = [t \in Tasks |-> Other]
  /\ current = [c \in Cpus |-> Other]
  /\ order = <<>>

Runs(t) == \E c \in Cpus : current[c] = t

(* Task t is in the wait queue. *)
Queued(t) == \E i \in DOMAIN order : order[i] = t

Goto(t, point) == pc' = [pc EXCEPT ![t] = point]

-----------------------------------------------------------------------------
(* sem_wait: the count is read in one critical section and acted on in     *)
(* another one.                                                            *)
ReadCount(t) ==
  /\ Runs(t) /\ pc[t] = "out"
  /\ Goto(t, IF count > 0 THEN "take" ELSE "push")
  /\ UNCHANGED <<count, queue, state, popped, current, order>>

TakeUnit(t) ==
  /\ Runs(t) /\ pc[t] = "take"
  /\ count' = count - 1
  /\ Goto(t, "inside")
  /\ UNCHANGED <<queue, state, popped, current, order>>

(* Mutant: the tail is set only by the push that starts the list. *)
QueuePushTailOnce(t) ==
  LET n == used + 1 IN
  /\ used < MaxNodes
  /\ used' = n
  /\ data' = [data EXCEPT ![n] = t]
  /\ \/ /\ head = NULL
        /\ head' = n /\ tail' = n /\ size' = 1
        /\ next' = [next EXCEPT ![n] = NULL]
     \/ /\ head # NULL
        /\ next' = [next EXCEPT ![n] = next[tail], ![tail] = n]
        /\ size' = size + 1
        /\ UNCHANGED <<head, tail>>

(* queue_push: list_create for the first node, list_insert_after the tail  *)
(* for a later one.                                                        *)
QueuePush(t) ==
  LET n == used + 1 IN
  /\ used < MaxNodes
  /\ used' = n
  /\ data' = [data EXCEPT ![n] = t]
  /\ tail' = n
  /\ \/ /\ head = NULL
        /\ head' = n /\ size' = 1
        /\ next' = [next EXCEPT ![n] = NULL]
     \/ /\ head # NULL
        /\ next' = [next EXCEPT ![n] = next[tail], ![tail] = n]
        /\ size' = size + 1
        /\ UNCHANGED head

Push(t) ==
  /\ Runs(t) /\ pc[t] = "push"
  /\ QueuePush(t)
  /\ order' = Append(order, t)
  /\ Goto(t, "block")
  /\ UNCHANGED <<count, state, popped, current>>

Block(t) ==
  /\ Runs(t) /\ pc[t] = "block"
  /\ state' = [state EXCEPT ![t] = "WAITING"]
  /\ Goto(t, "yield")
  /\ UNCHANGED <<count, queue, popped, current, order>>

(* Mutant: a task that leaves a CPU becomes READY whatever its state was. *)
LeftReady(c) ==
  IF current[c] \in Tasks THEN [state EXCEPT ![current[c]] = "READY"] ELSE state

(* task_yield and a timer tick: the task that leaves a CPU becomes READY   *)
(* unless its state was changed meanwhile, and the CPU goes to a READY     *)
(* task or to a task that has nothing to do with the semaphore.            *)
Left(c) ==
  IF current[c] \in Tasks /\ state[current[c]] = "RUNNING"
    THEN [state EXCEPT ![current[c]] = "READY"] ELSE state

Reschedule(c) ==
  \/ /\ current' = [current EXCEPT ![c] = Other]
     /\ state' = Left(c)
  \/ \E t \in Tasks :
       /\ Left(c)[t] = "READY"
       /\ current' = [current EXCEPT ![c] = t]
       /\ state' = [Left(c) EXCEPT ![t] = "RUNNING"]

Yield(c) ==
  LET t == current[c] IN
  /\ t \in Tasks /\ pc[t] = "yield"
  /\ Reschedule(c)
  /\ Goto(t, "back")
  /\ UNCHANGED <<count, queue, popped, order>>

Tick(c) ==
  /\ Reschedule(c)
  /\ UNCHANGED <<count, queue, pc, popped, order>>

(* A task that was switched back to returns from sem_wait. *)
Return(t) ==
  /\ Runs(t) /\ pc[t] = "back"
  /\ Goto(t, "inside")
  /\ UNCHANGED <<count, queue, state, popped, current, order>>

-----------------------------------------------------------------------------
(* The nodes that a walk along next from the given one visits. *)
Visited(list) ==
  {n \in Nodes : \A S \in SUBSET Nodes :
     list \in S /\ (\A m \in S : next[m] \in S \cup {NULL}) => n \in S}

(* list_remove(list, node): unlinks and frees the node if it comes after   *)
(* the list's first node.  queue_pop passes the old head as both, which    *)
(* does not come after itself: nothing is unlinked or freed.               *)
ListRemove(list, node) ==
  next' = [n \in Nodes |-> IF n \in Visited(list) /\ next[n] = node
                             THEN next[node] ELSE next[n]]

(* Mutant: the size is counted down a second time, for list_remove. *)
QueuePopTwice ==
  /\ head' = next[head]
  /\ ListRemove(head, head)
  /\ size' = size - 2
  /\ UNCHANGED <<tail, used, data>>

QueuePop ==
  /\ head' = next[head]
  /\ ListRemove(head, head)
  /\ size' = size - 1
  /\ UNCHANGED <<tail, used, data>>

(* Mutant: the count goes up only when a task was waiting. *)
SignalWaiting(t) ==
  /\ Runs(t) /\ pc[t] = "inside"
  /\ count' = IF head # NULL THEN count + 1 ELSE count
  /\ \/ /\ head = NULL
        /\ Goto(t, "out")
        /\ UNCHANGED <<queue, popped, order>>
     \/ /\ head # NULL
        /\ popped' = [popped EXCEPT ![t] = data[head]]
        /\ QueuePop
        /\ order' = Tail(order)
        /\ Goto(t, "wake")
  /\ UNCHANGED <<state, current>>

(* sem_signal's critical section. *)
Signal(t) ==
  /\ Runs(t) /\ pc[t] = "inside"
  /\ count' = count + 1
  /\ \/ /\ head = NULL
        /\ Goto(t, "out")
        /\ UNCHANGED <<queue, popped, order>>
     \/ /\ head # NULL
        /\ popped' = [popped EXCEPT ![t] = data[head]]
        /\ QueuePop
        /\ order' = Tail(order)
        /\ Goto(t, "wake")
  /\ UNCHANGED <<state, current>>

(* The popped task is made READY, outside the critical section. *)
Wake(t) ==
  /\ Runs(t) /\ pc[t] = "wake"
  /\ state' = [state EXCEPT ![popped[t]] = "READY"]
  /\ popped' = [popped EXCEPT ![t] = Other]
  /\ Goto(t, "out")
  /\ UNCHANGED <<count, queue, current, order>>

Next ==
  \/ \E t \in Tasks : \/ ReadCount(t) \/ TakeUnit(t) \/ Push(t) \/ Block(t)
                      \/ Return(t) \/ Signal(t) \/ Wake(t)
  \/ \E c \in Cpus : Yield(c) \/ Tick(c)

Spec == Init /\ [][Next]_vars

-----------------------------------------------------------------------------
(* No task is on two CPUs.  sem_signal can make a task READY that has not  *)
(* left its CPU yet; once another CPU has switched to it as well, two CPUs *)
(* share a stack and nothing can be said of what follows.                  *)
Undamaged == \A c, d \in Cpus : current[c] = current[d] /\ current[c] # Other => c = d

TypeOK ==
  /\ count \in Int /\ used \in 0 .. MaxNodes /\ size \in Nat
  /\ head \in {NULL} \cup Nodes /\ tail \in {NULL} \cup Nodes
  /\ next \in [Nodes -> {NULL} \cup Nodes]
  /\ data \in [Nodes -> Tasks \cup {Other}]
  /\ state \in [Tasks -> {"READY", "RUNNING", "WAITING"}]
  /\ pc \in [Tasks -> Points]
  /\ popped \in [Tasks -> Tasks \cup {Other}]
  /\ current \in [Cpus -> Tasks \cup {Other}]
  /\ order \in Seq(Tasks)

(* The linked list is a first-in first-out queue: from head it holds the   *)
(* tasks that were pushed and not yet popped, in the order of the pushes,  *)
(* and size counts them, although queue_pop leaves the tail pointing at a  *)
(* node it has dropped when the queue runs empty.  (queue.h:15 has it      *)
(* return and free the tail; the code, queue.c:21-24, takes the head.)     *)
QueueIsFifo ==
  \/ head = NULL /\ order = <<>>
  \/ /\ head # NULL /\ order # <<>> /\ size = Len(order)
     /\ \E path \in [DOMAIN order -> Nodes] :
          /\ path[1] = head
          /\ next[path[Len(order)]] = NULL
          /\ \A k \in 1 .. Len(order) - 1 : next[path[k]] = path[k + 1]
          /\ \A k \in DOMAIN order : data[path[k]] = order[k]

(* A task is in the wait queue at most once, and only while it is inside   *)
(* sem_wait: it returns from task_yield only after some sem_signal has     *)
(* popped it, even when the timer interrupts it between the push and the   *)
(* change of its state.                                                    *)
QueuedOnce ==
  /\ \A i, j \in DOMAIN order : order[i] = order[j] => i = j
  /\ \A t \in Tasks : Queued(t) => \/ pc[t] \in {"block", "yield"}
                                   \/ pc[t] = "back" /\ state[t] = "WAITING"

(* The tasks that hold a unit: those between sem_wait and sem_signal, and  *)
(* those that were popped and have not returned from sem_wait yet.         *)
Holders ==
  {t \in Tasks : \/ pc[t] = "inside"
                 \/ pc[t] \in {"block", "yield", "back"} /\ ~Queued(t)}

(* No unit of the semaphore is lost: the count and the tasks that hold a   *)
(* unit account for at least the initial count, also when several tasks    *)
(* have acted on the same stale reading of the count.                      *)
NoUnitLost == count + Cardinality(Holders) >= Initial

(* A popped task can run: once it has left the queue, and the sem_signal   *)
(* that popped it has set its state, it is not TASK_WAITING, as the        *)
(* comment in sem_signal promises.                                         *)
PoppedCanRun ==
  \A t \in Tasks : state[t] = "WAITING" =>
    \/ Queued(t)
    \/ \E s \in Tasks : pc[s] = "wake" /\ popped[s] = t
=============================================================================
