----------------------------- MODULE SyncProofs -----------------------------
(***************************************************************************)
(* Proofs about Console and about Semaphore, each on its own: the shell    *)
(* that waits for the keyboard's handler, and tasks that wait for tasks.   *)
(*                                                                         *)
(* Console: the flag that the shell and the keyboard's handler share is    *)
(* enough to keep them apart, and no key is written outside the line, for  *)
(* every size of the line and of the screen and for every keyboard.        *)
(*                                                                         *)
(* Semaphore: the list under the queue keeps its shape, and no unit is     *)
(* lost, for any number of tasks, CPUs and list nodes and any initial      *)
(* count.                                                                  *)
(***************************************************************************)
EXTENDS Semaphore, Console, TLAPS

-----------------------------------------------------------------------------
(* Console *)

AtCin == {"cin_pos", "wait", "halted"}
Editing == {"read", "edit", "echo"}

-----------------------------------------------------------------------------
(* The inductive invariant.  The flag is set only while the shell waits or *)
(* is about to, and stays set while the handler edits, because nobody but  *)
(* the handler clears it.                                                  *)
IsHandler(k) == k = [pc |-> k.pc, ascii |-> k.ascii, pos |-> k.pos]
FlagInv ==
  /\ IsHandler(kb) /\ kb.pc \in {"idle", "test"} \cup Editing
  /\ kb.pc \in Editing => _receiving_user_input
  /\ _receiving_user_input => shell \in AtCin

(* The position is in the line or just behind it, and the one that the     *)
(* handler has read and is about to write at is in the line, also if the   *)
(* shell resets the position in between.                                   *)
BoundsInv ==
  /\ _cin_pos \in 0 .. CIN_BUFSZ /\ DOMAIN _cin = 0 .. CIN_BUFSZ - 1
  /\ kb.pc = "edit" => /\ kb.pos \in 0 .. CIN_BUFSZ - 1
                       /\ kb.ascii = KEY_BACKSPACE => kb.pos # 0
  /\ shell # "panic"

ConsoleInv == FlagInv /\ BoundsInv

(* An interrupt of the keyboard *)
LEMMA IsrInv ==
  ASSUME ConsoleInv, NEW scan_code \in ScanCodes, IsrKeyboard(scan_code)
  PROVE  ConsoleInv'
<1> DEFINE ascii == ScanCodeToAscii(scan_code, is_shift_key_depressed)
<1>1. /\ kb.pc = "idle" /\ UNCHANGED <<shared, shell>>
      /\ kb' = kb \/ kb' = [kb EXCEPT !.pc = "test", !.ascii = ascii]
  BY DEF IsrKeyboard
<1> HIDE DEF ascii
<1>2. /\ IsHandler(kb') /\ kb'.pc \in {"idle", "test"}
  BY <1>1, Zenon DEF ConsoleInv, FlagInv, IsHandler
<1> QED BY <1>1, <1>2 DEF ConsoleInv, FlagInv, BoundsInv, shared, Editing, AtCin

(* The steps of the handler: it begins to edit only if the flag is set,    *)
(* and writes at a position that it has tested.                            *)
LEMMA HandlerInv ==
  ASSUME ConsoleInv, Handler
  PROVE  ConsoleInv'
<1> USE ConsoleAssumption
<1>1. CASE KeyTest
  BY <1>1 DEF ConsoleInv, FlagInv, BoundsInv, IsHandler, KeyTest, KeyGoto, shared, Editing, AtCin
<1>2. CASE KeyRead
  <2>1. FlagInv'
    BY <1>2, Zenon DEF ConsoleInv, FlagInv, IsHandler, KeyRead, shared, Editing, AtCin
  <2>2. /\ UNCHANGED <<_cin, _cin_pos, shell>> /\ kb'.pos = _cin_pos /\ kb'.ascii = kb.ascii
        /\ kb'.pc = "edit" => _cin_pos < CIN_BUFSZ /\ (kb.ascii = KEY_BACKSPACE => _cin_pos # 0)
    BY <1>2 DEF ConsoleInv, FlagInv, BoundsInv, IsHandler, KeyRead, shared
  <2> QED BY <2>1, <2>2 DEF ConsoleInv, BoundsInv
<1>3. CASE KeyEdit
  <2>1. FlagInv'
    BY <1>3 DEF ConsoleInv, FlagInv, IsHandler, KeyEdit, KeyGoto, Editing, AtCin
  <2>2. _cin_pos' \in 0 .. CIN_BUFSZ /\ DOMAIN _cin' = DOMAIN _cin /\ shell' = shell /\ kb'.pc = "echo"
    BY <1>3 DEF ConsoleInv, FlagInv, BoundsInv, IsHandler, KeyEdit, KeyGoto
  <2> QED BY <2>1, <2>2 DEF ConsoleInv, BoundsInv
<1>4. CASE KeyEcho
  BY <1>4 DEF ConsoleInv, FlagInv, BoundsInv, IsHandler, KeyEcho, KeyGoto, shared, Editing, AtCin
<1> QED BY <1>1, <1>2, <1>3, <1>4 DEF Handler

(* The steps of the shell: it leaves its loop only with the flag cleared.  *)
LEMMA ShellInv ==
  ASSUME ConsoleInv, ShellRuns
  PROVE  ConsoleInv'
<1> USE ConsoleAssumption
<1>1. CASE Prompt
  BY <1>1 DEF ConsoleInv, FlagInv, BoundsInv, Prompt, keyVars, shared, Editing, AtCin
<1>2. CASE CinReceive
  BY <1>2 DEF ConsoleInv, FlagInv, BoundsInv, CinReceive, keyVars, Editing, AtCin
<1>3. CASE CinTest
  BY <1>3 DEF ConsoleInv, FlagInv, BoundsInv, CinTest, keyVars, shared, Editing, AtCin
<1>4. CASE ShellWake
  BY <1>4 DEF ConsoleInv, FlagInv, BoundsInv, ShellWake, keyVars, shared, Editing, AtCin
<1>5. CASE CinTake
  <2>1. /\ shell = "take" /\ _cin_pos <= CIN_BUFSZ /\ shell' = "cmd" /\ _cin_pos' = 0
        /\ _cin' = Cleared /\ UNCHANGED <<kb, _receiving_user_input>>
    BY <1>5 DEF ConsoleInv, BoundsInv, CinTake, keyVars
  <2> QED BY <2>1 DEF ConsoleInv, FlagInv, BoundsInv, Cleared, Editing, AtCin
<1>6. CASE HandleCmd
  <2>1. shell = "cmd" /\ shell' = "prompt" /\ UNCHANGED <<keyVars, shared>>
    BY <1>6 DEF HandleCmd
  <2> QED BY <2>1 DEF ConsoleInv, FlagInv, BoundsInv, keyVars, shared, Editing, AtCin
<1> QED BY <1>1, <1>2, <1>3, <1>4, <1>5, <1>6 DEF ShellRuns

(* The shell and the handler keep the invariant (shell.c:46-106). *)
THEOREM ConsoleInvariant == ConsoleSpec => []ConsoleInv
<1>1. ConsoleInit => ConsoleInv
  BY ConsoleAssumption DEF ConsoleInit, ConsoleInv, FlagInv, BoundsInv, IsHandler, Cleared, Editing
<1>2. ConsoleInv /\ [ConsoleNext]_consoleVars => ConsoleInv'
  <2> SUFFICES ASSUME ConsoleInv, [ConsoleNext]_consoleVars PROVE ConsoleInv'
    OBVIOUS
  <2>1. CASE UNCHANGED consoleVars
    BY <2>1 DEF ConsoleInv, FlagInv, BoundsInv, IsHandler, consoleVars, keyVars, shared
  <2> QED BY <2>1, IsrInv, HandlerInv, ShellInv DEF ConsoleNext
<1> QED BY <1>1, <1>2, PTL DEF ConsoleSpec

(* HandlerAlone (shell.c:47, 50, 94): the handler works on the buffer and  *)
(* on the screen only while the shell waits for it.                        *)
THEOREM HandlerIsAlone == ConsoleSpec => []HandlerAlone
<1>1. ConsoleInv => HandlerAlone
  BY DEF ConsoleInv, FlagInv, HandlerAlone, Editing, AtCin
<1> QED BY <1>1, ConsoleInvariant, PTL

(* A key is written inside the line (shell.c:59, 64), and the panic of     *)
(* shell_cin on a line that is too long (shell.c:104) is out of reach.     *)
InsideLine == (kb.pc = "edit" => kb.pos \in DOMAIN _cin) /\ shell # "panic"

(* No key leaves the line, whatever comes between the handler's look at    *)
(* the position and its write.                                             *)
THEOREM LineBounded == ConsoleSpec => []InsideLine
<1>1. ConsoleInv => InsideLine
  BY DEF ConsoleInv, BoundsInv, InsideLine
<1> QED BY <1>1, ConsoleInvariant, PTL

-----------------------------------------------------------------------------
(* Semaphore *)

(* The shape of the list: the nodes of the queue are consecutive, since    *)
(* they are allocated in the order of the pushes and dropped in the same   *)
(* order; the tail is the last node as long as the queue is not empty.     *)
Shape ==
  /\ head = NULL => order = <<>>
  /\ head # NULL =>
       /\ head <= used /\ tail = used
       /\ Len(order) = used - head + 1 /\ size = Len(order)
       /\ next[used] = NULL
       /\ \A n \in head .. used - 1 : next[n] = n + 1
       /\ \A n \in head .. used : data[n] = order[n - head + 1]

ListInv == TypeOK /\ Shape

(* The invariant holds before the first call. *)
LEMMA ListInit == Init => ListInv
BY SemaphoreAssumption DEF Init, ListInv, TypeOK, Shape, Nodes, NULL, Points

(* A walk that starts at the head meets only nodes of the queue. *)
LEMMA VisitedInQueue ==
  ASSUME ListInv, head # NULL
  PROVE  \A n \in Visited(head) : n \in head .. used
<1> DEFINE S == head .. used
<1>1. head \in Nodes /\ used \in Nodes /\ head <= used
  BY SemaphoreAssumption DEF ListInv, TypeOK, Shape, Nodes, NULL
<1>2. S \in SUBSET Nodes /\ head \in S
  BY <1>1, SemaphoreAssumption DEF Nodes
<1>3. \A m \in S : next[m] \in S \cup {NULL}
  <2> TAKE m \in S
  <2>1. CASE m = used
    BY <2>1 DEF ListInv, Shape
  <2>2. CASE m # used
    <3>1. m \in head .. used - 1 /\ m + 1 \in head .. used
      BY <1>1, <2>2 DEF Nodes
    <3> QED BY <3>1 DEF ListInv, Shape
  <2> QED BY <2>1, <2>2
<1> QED BY <1>2, <1>3, Zenon DEF Visited

(* list_remove, called with the head as the list and as the node, changes  *)
(* no link.                                                                *)
LEMMA RemoveNothing ==
  ASSUME ListInv, head # NULL, ListRemove(head, head)
  PROVE  next' = next
<1>1. head \in Nodes /\ used \in Nodes /\ head <= used /\ next \in [Nodes -> {NULL} \cup Nodes]
  BY SemaphoreAssumption DEF ListInv, TypeOK, Shape, Nodes, NULL
<1>2. \A n \in Visited(head) : next[n] # head
  <2> TAKE n \in Visited(head)
  <2>1. n \in head .. used BY VisitedInQueue
  <2>2. CASE n = used
    BY <2>2, <1>1 DEF ListInv, Shape, Nodes, NULL
  <2>3. CASE n # used
    <3>1. n \in head .. used - 1 BY <2>1, <2>3, <1>1 DEF Nodes
    <3>2. next[n] = n + 1 BY <3>1 DEF ListInv, Shape
    <3> QED BY <3>1, <3>2, <1>1 DEF Nodes
  <2> QED BY <2>2, <2>3
<1>3. next' = [n \in Nodes |-> next[n]]
  BY <1>2 DEF ListRemove
<1> QED BY <1>1, <1>3

(* A push adds a node at the end of the list. *)
LEMMA PushShape ==
  ASSUME ListInv, NEW t \in Tasks, QueuePush(t), order' = Append(order, t)
  PROVE  Shape'
<1> DEFINE n == used + 1
<1>1. /\ used \in Nat /\ n \in Nodes /\ n \in Nat /\ order \in Seq(Tasks)
      /\ next \in [Nodes -> {NULL} \cup Nodes]
      /\ data \in [Nodes -> Tasks \cup {Other}]
      /\ head \in {NULL} \cup Nodes /\ tail \in {NULL} \cup Nodes
  BY SemaphoreAssumption DEF ListInv, TypeOK, QueuePush, Nodes
<1>2. used' = n /\ tail' = n /\ data' = [data EXCEPT ![n] = t]
  BY DEF QueuePush
<1>3. CASE head = NULL
  <2>1. head' = n /\ size' = 1 /\ next' = [next EXCEPT ![n] = NULL]
    BY <1>3 DEF QueuePush
  <2>2. order' = <<t>> BY <1>3 DEF ListInv, Shape
  <2>3. next'[n] = NULL /\ data'[n] = t
    BY <1>1, <1>2, <2>1
  <2>4. Len(order') = 1 /\ order'[1] = t BY <2>2
  <2> HIDE DEF n
  <2>5. n # NULL BY <1>1 DEF Nodes, NULL
  <2>6. \A m \in n .. n : data'[m] = order'[m - n + 1]
    BY <2>3, <2>4, <1>1
  <2>7. \A m \in n .. n - 1 : next'[m] = m + 1
    BY <1>1
  <2>8. 1 = n - n + 1 BY <1>1
  <2> QED BY <1>1, <1>2, <2>1, <2>3, <2>4, <2>5, <2>6, <2>7, <2>8 DEF Shape
<1>4. CASE head # NULL
  <2>1. head' = head /\ size' = size + 1 /\ next' = [next EXCEPT ![n] = next[tail], ![tail] = n]
    BY <1>4 DEF QueuePush
  <2>2. /\ head <= used /\ tail = used
        /\ Len(order) = used - head + 1 /\ size = Len(order)
        /\ next[used] = NULL
        /\ \A m \in head .. used - 1 : next[m] = m + 1
        /\ \A m \in head .. used : data[m] = order[m - head + 1]
    BY <1>4 DEF ListInv, Shape
  <2>3. head \in Nat /\ head >= 1 /\ used \in Nodes /\ used # n
    BY <1>1, <1>4, <2>2, SemaphoreAssumption DEF Nodes, NULL
  <2>4. next'[n] = NULL /\ next'[used] = n
    BY <1>1, <2>1, <2>2, <2>3
  <2>5. \A m \in head .. used - 1 : next'[m] = m + 1
    BY <1>1, <2>1, <2>2, <2>3, SemaphoreAssumption DEF Nodes
  <2>6. Len(order') = Len(order) + 1 /\ order'[Len(order) + 1] = t
        /\ \A k \in 1 .. Len(order) : order'[k] = order[k]
    BY <1>1
  <2>7. \A m \in head .. used : data'[m] = data[m]
    BY <1>1, <1>2, <2>3, SemaphoreAssumption DEF Nodes
  <2>8. data'[n] = t BY <1>1, <1>2
  <2>9. \A m \in head .. used : m - head + 1 \in 1 .. Len(order)
    BY <1>1, <2>2, <2>3
  <2>10. \A m \in head .. used : data'[m] = order'[m - head + 1]
    BY <2>2, <2>6, <2>7, <2>9
  <2>11. n - head + 1 = Len(order) + 1 /\ n - 1 = used
    BY <1>1, <2>2, <2>3
  <2>12. data'[n] = order'[n - head + 1] BY <2>6, <2>8, <2>11
  <2>13. \A m \in head .. n : m \in head .. used \/ m = n
    BY <1>1, <2>3
  <2>14. \A m \in head .. n - 1 : m \in head .. used - 1 \/ m = used
    BY <1>1, <2>3
  <2>15. \A m \in head .. n : data'[m] = order'[m - head + 1]
    BY <2>10, <2>12, <2>13, Zenon
  <2>16. \A m \in head .. n - 1 : next'[m] = m + 1
    BY <2>4, <2>5, <2>14
  <2>17. head <= n /\ Len(order') = n - head + 1 /\ size' = Len(order')
    BY <1>1, <2>1, <2>2, <2>3, <2>6
  <2> HIDE DEF n
  <2> QED BY <1>2, <1>4, <2>1, <2>4, <2>15, <2>16, <2>17, Zenon DEF Shape
<1> QED BY <1>3, <1>4

(* A pop drops the first node. *)
LEMMA PopShape ==
  ASSUME ListInv, head # NULL, QueuePop, order' = Tail(order)
  PROVE  Shape' /\ order # <<>> /\ data[head] = order[1] /\ size' \in Nat
         /\ head' \in {NULL} \cup Nodes /\ next' = next
<1>1. /\ used \in Nat /\ head \in Nodes /\ head \in Nat /\ order \in Seq(Tasks)
      /\ next \in [Nodes -> {NULL} \cup Nodes]
  BY SemaphoreAssumption DEF ListInv, TypeOK, Nodes, NULL
<1>2. /\ head <= used /\ tail = used
      /\ Len(order) = used - head + 1 /\ size = Len(order)
      /\ next[used] = NULL
      /\ \A m \in head .. used - 1 : next[m] = m + 1
      /\ \A m \in head .. used : data[m] = order[m - head + 1]
  BY DEF ListInv, Shape
<1>3. head' = next[head] /\ size' = size - 1 /\ tail' = tail /\ used' = used /\ data' = data
  BY DEF QueuePop
<1>4. next' = next BY RemoveNothing DEF QueuePop
<1>5. Len(order) >= 1 /\ order # <<>> BY <1>1, <1>2
<1>6. Len(order') = Len(order) - 1 /\ \A k \in 1 .. Len(order) - 1 : order'[k] = order[k + 1]
  BY <1>1, <1>5
<1>7. data[head] = order[1]
  <2>1. head \in head .. used /\ head - head + 1 = 1 BY <1>1, <1>2
  <2> QED BY <1>2, <2>1
<1>8. size' \in Nat BY <1>1, <1>2, <1>3, <1>5
<1>9. Shape'
  <2>1. CASE head = used
    <3>1. head' = NULL BY <1>2, <1>3, <2>1
    <3>2. Len(order) = 1 BY <1>1, <1>2, <2>1
    <3>3. order' = <<>> BY <1>1, <3>2
    <3> QED BY <3>1, <3>3 DEF Shape
  <2>2. CASE head # used
    <3>1. head \in head .. used - 1 BY <1>1, <1>2, <2>2
    <3>2. head' = head + 1 BY <1>2, <1>3, <3>1
    <3>3. head + 1 <= used /\ head + 1 # NULL BY <1>1, <3>1 DEF NULL
    <3>4. Len(order') = used - (head + 1) + 1 /\ size' = Len(order')
      BY <1>1, <1>2, <1>3, <1>6
    <3>5. \A m \in head + 1 .. used - 1 : next[m] = m + 1
      BY <1>1, <1>2
    <3>6. \A m \in head + 1 .. used : data[m] = order'[m - (head + 1) + 1]
      <4> TAKE m \in head + 1 .. used
      <4>1. m \in head .. used /\ m - head \in 1 .. Len(order) - 1 /\ m - (head + 1) + 1 = m - head
        BY <1>1, <1>2
      <4> QED BY <1>2, <1>6, <4>1
    <3> QED BY <1>2, <1>3, <1>4, <3>2, <3>3, <3>4, <3>5, <3>6, Zenon DEF Shape
  <2> QED BY <2>1, <2>2
<1>10. head' \in {NULL} \cup Nodes BY <1>1, <1>3
<1> QED BY <1>4, <1>5, <1>7, <1>8, <1>9, <1>10

(* Every step keeps the types and the shape of the list. *)
LEMMA ListStep == ListInv /\ [Next]_vars => ListInv'
<1> SUFFICES ASSUME ListInv, [Next]_vars PROVE ListInv' OBVIOUS
<1> USE SemaphoreAssumption
<1>0. TypeOK /\ Shape BY DEF ListInv
<1>1. CASE UNCHANGED <<queue, order>>
  <2>1. Shape' BY <1>0, <1>1 DEF Shape, queue
  <2> SUFFICES TypeOK' BY <2>1 DEF ListInv
  <2>2. ASSUME NEW t \in Tasks, ReadCount(t) PROVE TypeOK'
    BY <1>0, <2>2 DEF TypeOK, ReadCount, queue, Goto, Points
  <2>3. ASSUME NEW t \in Tasks, TakeUnit(t) PROVE TypeOK'
    BY <1>0, <2>3 DEF TypeOK, TakeUnit, queue, Goto, Points
  <2>4. ASSUME NEW t \in Tasks, Push(t) PROVE TypeOK'
    BY <1>0, <1>1, <2>4 DEF TypeOK, Push, queue, Goto, Points
  <2>5. ASSUME NEW t \in Tasks, Block(t) PROVE TypeOK'
    BY <1>0, <2>5 DEF TypeOK, Block, queue, Goto, Points
  <2>6. ASSUME NEW t \in Tasks, Return(t) PROVE TypeOK'
    BY <1>0, <2>6 DEF TypeOK, Return, queue, Goto, Points
  <2>7. ASSUME NEW t \in Tasks, Signal(t) PROVE TypeOK'
    <3>1. popped' \in [Tasks -> Tasks \cup {Other}]
      BY <1>0, <2>7 DEF TypeOK, Signal, Nodes, NULL
    <3>2. count' \in Int /\ pc' \in [Tasks -> Points] /\ state' = state /\ current' = current
      BY <1>0, <2>7 DEF TypeOK, Signal, Goto, Points
    <3> QED BY <1>0, <1>1, <3>1, <3>2 DEF TypeOK, queue
  <2>8. ASSUME NEW t \in Tasks, Wake(t) PROVE TypeOK'
    BY <1>0, <2>8, Zenon DEF TypeOK, Wake, queue, Goto, Points
  <2>9. ASSUME NEW c \in Cpus, Reschedule(c)
        PROVE  /\ state' \in [Tasks -> {"READY", "RUNNING", "WAITING"}]
               /\ current' \in [Cpus -> Tasks \cup {Other}]
    BY <1>0, <2>9 DEF TypeOK, Reschedule, Left
  <2>10. ASSUME NEW c \in Cpus, Yield(c) PROVE TypeOK'
    BY <1>0, <2>9, <2>10 DEF TypeOK, Yield, queue, Goto, Points
  <2>11. ASSUME NEW c \in Cpus, Tick(c) PROVE TypeOK'
    BY <1>0, <2>9, <2>11 DEF TypeOK, Tick, queue
  <2>12. CASE UNCHANGED vars
    BY <1>0, <2>12 DEF TypeOK, vars, queue
  <2> QED BY <2>2, <2>3, <2>4, <2>5, <2>6, <2>7, <2>8, <2>10, <2>11, <2>12 DEF Next
<1>2. ASSUME NEW t \in Tasks, Push(t) PROVE ListInv'
  <2>1. QueuePush(t) /\ order' = Append(order, t)
        /\ UNCHANGED <<count, state, popped, current>> /\ pc' = [pc EXCEPT ![t] = "block"]
    BY <1>2 DEF Push, Goto
  <2>2. Shape' BY <2>1, PushShape
  <2>3. used + 1 \in Nodes /\ used' = used + 1 /\ used' \in 0 .. MaxNodes
    BY <1>0, <2>1 DEF TypeOK, QueuePush, Nodes
  <2>4. data' \in [Nodes -> Tasks \cup {Other}] /\ tail' \in Nodes
    BY <1>0, <2>1, <2>3 DEF TypeOK, QueuePush
  <2>5. head' \in {NULL} \cup Nodes /\ size' \in Nat
    BY <1>0, <2>1, <2>3 DEF TypeOK, QueuePush
  <2>6. next' \in [Nodes -> {NULL} \cup Nodes]
    <3>1. CASE head = NULL
      BY <1>0, <2>1, <2>3, <3>1 DEF TypeOK, QueuePush
    <3>2. CASE head # NULL
      <4>1. tail \in Nodes
        BY <1>0, <3>2 DEF TypeOK, Shape, Nodes, NULL
      <4> QED BY <1>0, <2>1, <2>3, <3>2, <4>1 DEF TypeOK, QueuePush
    <3> QED BY <3>1, <3>2
  <2>7. order' \in Seq(Tasks) BY <1>0, <2>1 DEF TypeOK
  <2>8. pc' \in [Tasks -> Points] BY <1>0, <2>1 DEF TypeOK, Points
  <2>9. TypeOK'
    BY <1>0, <2>1, <2>3, <2>4, <2>5, <2>6, <2>7, <2>8 DEF TypeOK
  <2> QED BY <2>2, <2>9 DEF ListInv
<1>3. ASSUME NEW t \in Tasks, Signal(t), head # NULL PROVE ListInv'
  <2>1. /\ QueuePop /\ order' = Tail(order) /\ count' = count + 1
        /\ UNCHANGED <<state, current, tail, used, data>>
        /\ pc' = [pc EXCEPT ![t] = "wake"] /\ popped' = [popped EXCEPT ![t] = data[head]]
    BY <1>3 DEF Signal, Goto, QueuePop
  <2>2. Shape' /\ order # <<>> /\ size' \in Nat /\ head' \in {NULL} \cup Nodes /\ next' = next
    BY <1>3, <2>1, PopShape
  <2>3. order' \in Seq(Tasks) BY <1>0, <2>1, <2>2 DEF TypeOK
  <2>4. data[head] \in Tasks \cup {Other}
    BY <1>0, <1>3 DEF TypeOK
  <2>5. pc' \in [Tasks -> Points] BY <1>0, <2>1 DEF TypeOK, Points
  <2>6. popped' \in [Tasks -> Tasks \cup {Other}] BY <1>0, <2>1, <2>4 DEF TypeOK
  <2>7. TypeOK'
    BY <1>0, <2>1, <2>2, <2>3, <2>5, <2>6 DEF TypeOK
  <2> QED BY <2>2, <2>7 DEF ListInv
<1>4. ASSUME NEW t \in Tasks, Signal(t), head = NULL PROVE UNCHANGED <<queue, order>>
  BY <1>4 DEF Signal
<1>5. ASSUME NEW t \in Tasks, ReadCount(t) \/ TakeUnit(t) \/ Block(t) \/ Return(t) \/ Wake(t)
      PROVE  UNCHANGED <<queue, order>>
  BY <1>5 DEF ReadCount, TakeUnit, Block, Return, Wake
<1>6. ASSUME NEW c \in Cpus, Yield(c) \/ Tick(c) PROVE UNCHANGED <<queue, order>>
  BY <1>6 DEF Yield, Tick
<1>7. CASE UNCHANGED vars BY <1>1, <1>7 DEF vars
<1> QED BY <1>1, <1>2, <1>3, <1>4, <1>5, <1>6, <1>7 DEF Next

(* The types and the shape of the wait queue hold in every state. *)
THEOREM ListInvariant == Spec => []ListInv
BY ListInit, ListStep, PTL DEF Spec

(* The list of waiting tasks, the count and what each task does stay       *)
(* within their types: the last node and the first are nodes or NULL.      *)
THEOREM SemaphoreTypes == Spec => []TypeOK
<1>1. ListInv => TypeOK BY DEF ListInv
<1> QED BY <1>1, ListInvariant, PTL

(* The wait queue is first-in first-out in every state: queue_push and     *)
(* queue_pop never lose, repeat or reorder a blocked task, although        *)
(* queue_pop leaves a stale tail.                                          *)
THEOREM WaitQueueFifo == Spec => []QueueIsFifo
<1>1. ListInv => QueueIsFifo
  <2> SUFFICES ASSUME ListInv PROVE QueueIsFifo OBVIOUS
  <2>1. CASE head = NULL BY <2>1 DEF ListInv, Shape, QueueIsFifo
  <2>2. CASE head # NULL
    <3> DEFINE path == [k \in DOMAIN order |-> head + k - 1]
    <3>1. /\ head \in Nodes /\ head \in Nat /\ used \in Nat /\ used \in Nodes
          /\ order \in Seq(Tasks) /\ head >= 1 /\ used <= MaxNodes
      BY <2>2, SemaphoreAssumption DEF ListInv, TypeOK, Shape, Nodes, NULL
    <3>2. /\ head <= used /\ Len(order) = used - head + 1 /\ size = Len(order)
          /\ next[used] = NULL
          /\ \A m \in head .. used - 1 : next[m] = m + 1
          /\ \A m \in head .. used : data[m] = order[m - head + 1]
      BY <2>2 DEF ListInv, Shape
    <3>3. DOMAIN order = 1 .. Len(order) /\ Len(order) \in Nat /\ Len(order) >= 1
      BY <3>1, <3>2
    <3>4. \A k \in 1 .. Len(order) : head + k - 1 \in head .. used /\ head + k - 1 \in Nodes
      BY <3>1, <3>2, SemaphoreAssumption DEF Nodes
    <3>5. path \in [DOMAIN order -> Nodes] BY <3>3, <3>4
    <3>6. path[1] = head BY <3>1, <3>3
    <3>7. path[Len(order)] = used BY <3>1, <3>2, <3>3
    <3>8. \A k \in 1 .. Len(order) - 1 : next[path[k]] = path[k + 1]
      <4> TAKE k \in 1 .. Len(order) - 1
      <4>1. path[k] = head + k - 1 /\ path[k + 1] = head + k BY <3>1, <3>3
      <4>2. head + k - 1 \in head .. used - 1 BY <3>1, <3>2
      <4>3. head + k - 1 + 1 = head + k BY <3>1
      <4> QED BY <3>2, <4>1, <4>2, <4>3
    <3>9. \A k \in DOMAIN order : data[path[k]] = order[k]
      <4> TAKE k \in DOMAIN order
      <4>1. path[k] = head + k - 1 /\ head + k - 1 \in head .. used BY <3>3, <3>4
      <4>2. (head + k - 1) - head + 1 = k BY <3>1, <3>3
      <4> QED BY <3>2, <4>1, <4>2
    <3>10. order # <<>> BY <3>3
    <3> HIDE DEF path
    <3> QED BY <2>2, <3>2, <3>5, <3>6, <3>7, <3>8, <3>9, <3>10 DEF QueueIsFifo
  <2> QED BY <2>1, <2>2
<1> QED BY <1>1, ListInvariant, PTL

-----------------------------------------------------------------------------
(* With one CPU.  A task that is parked in sem_wait is about to block, or  *)
(* is TASK_WAITING.  Every task of the queue is parked, and so is every    *)
(* task that was popped and not yet made READY, which is in the queue no   *)
(* more and is woken by one sem_signal only.  The task on the CPU is       *)
(* RUNNING unless it has just set its own state to TASK_WAITING.           *)
OneCpu == \A c, d \in Cpus : c = d

Parked(t) ==
  /\ pc[t] \in {"block", "yield", "back"}
  /\ pc[t] # "block" => state[t] = "WAITING"

Distinct == \A i, j \in DOMAIN order : order[i] = order[j] => i = j
QueuedParked == \A t \in Tasks : Queued(t) => Parked(t)
PoppedParked ==
  \A s \in Tasks : pc[s] = "wake" =>
    popped[s] \in Tasks /\ Parked(popped[s]) /\ ~Queued(popped[s])
WokenOnce ==
  \A s, u \in Tasks : pc[s] = "wake" /\ pc[u] = "wake" /\ popped[s] = popped[u] => s = u
RunningState ==
  \A t \in Tasks : Runs(t) => \/ state[t] = "RUNNING"
                              \/ state[t] = "WAITING" /\ pc[t] = "yield"

OnceInv ==
  /\ OneCpu /\ ListInv
  /\ Distinct /\ QueuedParked /\ PoppedParked /\ WokenOnce /\ RunningState

(* The invariant for one CPU holds before the first call. *)
LEMMA OnceInit == OneCpu /\ Init => OnceInv
<1> SUFFICES ASSUME OneCpu, Init PROVE OnceInv OBVIOUS
<1>1. ListInv BY ListInit
<1>2. Distinct /\ \A t \in Tasks : ~Queued(t) BY DEF Init, Distinct, Queued
<1>3. \A t \in Tasks : pc[t] # "wake" /\ ~Runs(t)
  BY SemaphoreAssumption DEF Init, Runs
<1> QED BY <1>1, <1>2, <1>3 DEF OnceInv, QueuedParked, PoppedParked, WokenOnce, RunningState

(* A step of task t that changes only its own point, outside the points of *)
(* a parked or a waking task.                                              *)
LEMMA OwnStep ==
  ASSUME OnceInv, NEW t \in Tasks, ~Parked(t), NEW p \in Points \ {"block", "yield", "back", "wake"},
         pc' = [pc EXCEPT ![t] = p], UNCHANGED <<state, current, order, popped>>, ListInv'
  PROVE  OnceInv'
<1>0. TypeOK BY DEF OnceInv, ListInv
<1>1. \A u \in Tasks : pc'[u] = IF u = t THEN p ELSE pc[u] BY <1>0 DEF TypeOK
<1>2. \A u \in Tasks : Queued(u)' <=> Queued(u) BY DEF Queued
<1>3. \A u \in Tasks : Parked(u) => Parked(u)' BY <1>1 DEF Parked
<1>4. \A s \in Tasks : pc'[s] = "wake" => pc[s] = "wake" BY <1>1
<1>5. Distinct' BY DEF OnceInv, Distinct
<1>6. QueuedParked' BY <1>2, <1>3 DEF OnceInv, QueuedParked
<1>7. PoppedParked' BY <1>2, <1>3, <1>4 DEF OnceInv, PoppedParked
<1>8. WokenOnce' BY <1>4 DEF OnceInv, WokenOnce
<1>9. RunningState'
  <2> SUFFICES ASSUME NEW u \in Tasks, Runs(u)'
               PROVE  state'[u] = "RUNNING" \/ (state'[u] = "WAITING" /\ pc'[u] = "yield")
    BY DEF RunningState
  <2>1. Runs(u) BY DEF Runs
  <2>2. state[u] = "RUNNING" \/ (state[u] = "WAITING" /\ pc[u] = "yield")
    BY <2>1 DEF OnceInv, RunningState
  <2>3. u = t => state[u] = "RUNNING" BY <2>2 DEF Parked
  <2> QED BY <1>1, <2>2, <2>3
<1> QED BY <1>5, <1>6, <1>7, <1>8, <1>9 DEF OnceInv, OneCpu

(* The scheduler: a parked task stays parked when a CPU changes hands, and *)
(* the task that gets the CPU is RUNNING.                                  *)
LEMMA RescheduleParked ==
  ASSUME OnceInv, NEW c \in Cpus, Reschedule(c)
  PROVE  /\ \A u \in Tasks : pc[u] # "block" /\ Parked(u) => state'[u] = "WAITING"
         /\ \A u \in Tasks : Runs(u)' => state'[u] = "RUNNING"
<1>0. TypeOK /\ OneCpu /\ RunningState BY DEF OnceInv, ListInv
<1>1. \A u \in Tasks : state[u] = "WAITING" => Left(c)[u] = "WAITING"
  BY <1>0 DEF Left, TypeOK
<1>2. Left(c) \in [Tasks -> {"READY", "RUNNING", "WAITING"}]
  BY <1>0 DEF Left, TypeOK
<1>3. \A u \in Tasks : Runs(u)' => current'[c] = u
  BY <1>0 DEF OneCpu, Runs
<1>4. CASE current' = [current EXCEPT ![c] = Other] /\ state' = Left(c)
  <2>1. current'[c] = Other BY <1>0, <1>4 DEF TypeOK
  <2>2. \A u \in Tasks : ~Runs(u)' BY <1>3, <2>1, SemaphoreAssumption
  <2> QED BY <1>1, <1>4, <2>2 DEF Parked
<1>5. ASSUME NEW t \in Tasks, Left(c)[t] = "READY", current' = [current EXCEPT ![c] = t],
             state' = [Left(c) EXCEPT ![t] = "RUNNING"]
      PROVE  /\ \A u \in Tasks : pc[u] # "block" /\ Parked(u) => state'[u] = "WAITING"
             /\ \A u \in Tasks : Runs(u)' => state'[u] = "RUNNING"
  <2>1. current'[c] = t BY <1>0, <1>5 DEF TypeOK
  <2>2. \A u \in Tasks : state'[u] = IF u = t THEN "RUNNING" ELSE Left(c)[u]
    BY <1>2, <1>5
  <2> QED BY <1>1, <1>3, <1>5, <2>1, <2>2 DEF Parked
<1> QED BY <1>4, <1>5 DEF Reschedule

(* Every critical section, tick and switch keeps it. *)
LEMMA OnceStep == OnceInv /\ [Next]_vars => OnceInv'
<1> SUFFICES ASSUME OnceInv, [Next]_vars PROVE OnceInv' OBVIOUS
<1>0. /\ TypeOK /\ Shape /\ ListInv /\ ListInv' /\ OneCpu /\ Distinct /\ QueuedParked
      /\ PoppedParked /\ WokenOnce /\ RunningState
  BY ListStep DEF OnceInv, ListInv
<1>1. ASSUME NEW t \in Tasks, ReadCount(t) PROVE OnceInv'
  BY <1>0, <1>1, OwnStep, Zenon DEF ReadCount, Parked, Goto, Points
<1>2. ASSUME NEW t \in Tasks, TakeUnit(t) PROVE OnceInv'
  BY <1>0, <1>2, OwnStep, Zenon DEF TakeUnit, Parked, Goto, Points
<1>3. ASSUME NEW t \in Tasks, Return(t) PROVE OnceInv'
  BY <1>0, <1>3, OwnStep, Zenon DEF Return, Parked, Goto, Points, RunningState
<1>4. ASSUME NEW t \in Tasks, Signal(t), head = NULL PROVE OnceInv'
  BY <1>0, <1>4, OwnStep DEF Signal, Parked, Goto, Points
<1>5. ASSUME NEW t \in Tasks, Push(t) PROVE OnceInv'
  <2>1. /\ Runs(t) /\ pc[t] = "push" /\ order' = Append(order, t)
        /\ UNCHANGED <<state, popped, current>>
        /\ \A u \in Tasks : pc'[u] = IF u = t THEN "block" ELSE pc[u]
    BY <1>0, <1>5 DEF Push, Goto, TypeOK
  <2>2. /\ Len(order') = Len(order) + 1 /\ DOMAIN order = 1 .. Len(order) /\ Len(order) \in Nat
        /\ DOMAIN order' = 1 .. Len(order) + 1
        /\ order'[Len(order) + 1] = t /\ \A i \in 1 .. Len(order) : order'[i] = order[i]
    BY <1>0, <2>1 DEF TypeOK
  <2>3. ~Queued(t) BY <1>0, <2>1 DEF QueuedParked, Parked
  <2>4. \A u \in Tasks : u # t => (Queued(u)' <=> Queued(u)) BY <2>2 DEF Queued
  <2>5. \A u \in Tasks : Parked(u) => Parked(u)' /\ u # t BY <2>1 DEF Parked
  <2>6. Distinct'
    <3> SUFFICES ASSUME NEW i \in DOMAIN order', NEW j \in DOMAIN order', order'[i] = order'[j]
                 PROVE  i = j BY DEF Distinct
    <3>1. \A k \in DOMAIN order' : k \in 1 .. Len(order) \/ k = Len(order) + 1 BY <2>2
    <3>2. \A k \in 1 .. Len(order) : order[k] # t BY <2>2, <2>3 DEF Queued
    <3> QED BY <1>0, <2>2, <3>1, <3>2 DEF Distinct
  <2>7. Parked(t)' BY <2>1 DEF Parked
  <2>8. QueuedParked' BY <1>0, <2>4, <2>5, <2>7 DEF QueuedParked
  <2>9. \A s \in Tasks : pc'[s] = "wake" => pc[s] = "wake" BY <2>1
  <2>10. PoppedParked' BY <1>0, <2>1, <2>4, <2>5, <2>9 DEF PoppedParked
  <2>11. WokenOnce' BY <1>0, <2>1, <2>9 DEF WokenOnce
  <2>12. RunningState' BY <1>0, <2>1 DEF RunningState, Runs
  <2> QED BY <1>0, <2>6, <2>8, <2>10, <2>11, <2>12 DEF OnceInv, OneCpu
<1>6. ASSUME NEW t \in Tasks, Block(t) PROVE OnceInv'
  <2>1. /\ pc[t] = "block" /\ UNCHANGED <<popped, current, order>>
        /\ \A u \in Tasks : pc'[u] = IF u = t THEN "yield" ELSE pc[u]
        /\ \A u \in Tasks : state'[u] = IF u = t THEN "WAITING" ELSE state[u]
    BY <1>0, <1>6 DEF Block, Goto, TypeOK
  <2>2. \A u \in Tasks : Parked(u) => Parked(u)' BY <2>1 DEF Parked
  <2>3. \A u \in Tasks : Queued(u)' <=> Queued(u) BY <2>1 DEF Queued
  <2>4. \A s \in Tasks : pc'[s] = "wake" => pc[s] = "wake" BY <2>1
  <2>5. Distinct' BY <1>0, <2>1 DEF Distinct
  <2>6. QueuedParked' BY <1>0, <2>2, <2>3 DEF QueuedParked
  <2>7. PoppedParked' BY <1>0, <2>1, <2>2, <2>3, <2>4 DEF PoppedParked
  <2>8. WokenOnce' BY <1>0, <2>1, <2>4 DEF WokenOnce
  <2>9. RunningState' BY <1>0, <2>1 DEF RunningState, Runs
  <2> QED BY <1>0, <2>5, <2>6, <2>7, <2>8, <2>9 DEF OnceInv, OneCpu
<1>7. ASSUME NEW t \in Tasks, Signal(t), head # NULL PROVE OnceInv'
  <2>1. /\ pc[t] = "inside" /\ order' = Tail(order) /\ QueuePop /\ UNCHANGED <<state, current>>
        /\ \A u \in Tasks : pc'[u] = IF u = t THEN "wake" ELSE pc[u]
        /\ \A u \in Tasks : popped'[u] = IF u = t THEN data[head] ELSE popped[u]
    BY <1>0, <1>7 DEF Signal, Goto, TypeOK
  <2>2. order # <<>> /\ data[head] = order[1] BY <1>0, <1>7, <2>1, PopShape
  <2>3. /\ \A i \in DOMAIN order' : i + 1 \in DOMAIN order /\ order'[i] = order[i + 1] /\ i \in Nat \ {0}
        /\ 1 \in DOMAIN order /\ order[1] \in Tasks
    BY <1>0, <2>1, <2>2 DEF TypeOK
  <2>4. \A u \in Tasks : Queued(u)' => Queued(u) BY <2>3 DEF Queued
  <2>5. PICK h \in Tasks : h = order[1] BY <2>3
  <2>6. Queued(h) /\ ~Queued(h)'
    <3>1. \A i \in DOMAIN order' : i + 1 # 1 BY <2>3
    <3>2. \A i \in DOMAIN order' : order'[i] # h BY <1>0, <2>3, <2>5, <3>1 DEF Distinct
    <3> QED BY <2>3, <2>5, <3>2 DEF Queued
  <2>7. \A u \in Tasks : Parked(u) => Parked(u)' /\ u # t BY <2>1 DEF Parked
  <2>8. Distinct'
    <3> SUFFICES ASSUME NEW i \in DOMAIN order', NEW j \in DOMAIN order', order'[i] = order'[j]
                 PROVE  i = j BY DEF Distinct
    <3>1. i + 1 = j + 1 BY <1>0, <2>3 DEF Distinct
    <3> QED BY <2>3, <3>1
  <2>9. QueuedParked' BY <1>0, <2>4, <2>7 DEF QueuedParked
  <2>10. popped'[t] = h /\ Parked(h)' BY <1>0, <2>1, <2>2, <2>5, <2>6, <2>7 DEF QueuedParked
  <2>11. \A s \in Tasks \ {t} : pc'[s] = "wake" => pc[s] = "wake" /\ popped'[s] = popped[s]
    BY <2>1
  <2>12. PoppedParked'
    BY <1>0, <2>4, <2>6, <2>7, <2>10, <2>11 DEF PoppedParked
  <2>13. \A s \in Tasks \ {t} : pc[s] = "wake" => popped[s] # h
    BY <1>0, <2>6 DEF PoppedParked
  <2>14. WokenOnce' BY <1>0, <2>10, <2>11, <2>13 DEF WokenOnce
  <2>15. RunningState' BY <1>0, <2>1 DEF RunningState, Runs
  <2> QED BY <1>0, <2>8, <2>9, <2>12, <2>14, <2>15 DEF OnceInv, OneCpu
<1>8. ASSUME NEW t \in Tasks, Wake(t) PROVE OnceInv'
  <2>1. PICK h \in Tasks : h = popped[t] BY <1>0, <1>8 DEF Wake, PoppedParked
  <2>2. /\ Runs(t) /\ pc[t] = "wake" /\ UNCHANGED <<order, current>>
        /\ \A u \in Tasks : state'[u] = IF u = h THEN "READY" ELSE state[u]
        /\ \A u \in Tasks : pc'[u] = IF u = t THEN "out" ELSE pc[u]
        /\ \A u \in Tasks \ {t} : popped'[u] = popped[u]
    BY <1>0, <1>8, <2>1 DEF Wake, Goto, TypeOK
  <2>3. Parked(h) /\ ~Queued(h) /\ h # t BY <1>0, <2>1, <2>2 DEF PoppedParked, Parked
  <2>4. \A u \in Tasks \ {h} : Parked(u) => Parked(u)' BY <2>2 DEF Parked
  <2>5. \A u \in Tasks : Queued(u)' <=> Queued(u) BY <2>2 DEF Queued
  <2>6. Distinct' BY <1>0, <2>2 DEF Distinct
  <2>7. QueuedParked' BY <1>0, <2>3, <2>4, <2>5 DEF QueuedParked
  <2>8. \A s \in Tasks : pc'[s] = "wake" =>
          pc[s] = "wake" /\ popped'[s] = popped[s] /\ popped[s] # h
    BY <1>0, <2>1, <2>2 DEF WokenOnce
  <2>9. PoppedParked' BY <1>0, <2>4, <2>5, <2>8 DEF PoppedParked
  <2>10. WokenOnce' BY <1>0, <2>8 DEF WokenOnce
  <2>11. \A u \in Tasks : Runs(u)' => u = t
    BY <1>0, <2>2 DEF Runs, OneCpu
  <2>12. RunningState' BY <1>0, <2>2, <2>3, <2>11 DEF RunningState
  <2> QED BY <1>0, <2>6, <2>7, <2>9, <2>10, <2>12 DEF OnceInv, OneCpu
<1>9. ASSUME NEW c \in Cpus, Yield(c) \/ Tick(c) PROVE OnceInv'
  <2>1. /\ Reschedule(c) /\ UNCHANGED <<order, popped>>
        /\ \A u \in Tasks : pc'[u] = pc[u] \/ (pc[u] = "yield" /\ pc'[u] = "back")
    BY <1>0, <1>9 DEF Yield, Tick, Goto, TypeOK
  <2>2. /\ \A u \in Tasks : pc[u] # "block" /\ Parked(u) => state'[u] = "WAITING"
        /\ \A u \in Tasks : Runs(u)' => state'[u] = "RUNNING"
    BY <1>0, <2>1, RescheduleParked
  <2>3. \A u \in Tasks : Parked(u) => Parked(u)' BY <2>1, <2>2 DEF Parked
  <2>4. \A u \in Tasks : Queued(u)' <=> Queued(u) BY <2>1 DEF Queued
  <2>5. \A s \in Tasks : pc'[s] = "wake" => pc[s] = "wake" BY <2>1
  <2>6. Distinct' BY <1>0, <2>1 DEF Distinct
  <2>7. QueuedParked' BY <1>0, <2>3, <2>4 DEF QueuedParked
  <2>8. PoppedParked' BY <1>0, <2>1, <2>3, <2>4, <2>5 DEF PoppedParked
  <2>9. WokenOnce' BY <1>0, <2>1, <2>5 DEF WokenOnce
  <2>10. RunningState' BY <2>2 DEF RunningState
  <2> QED BY <1>0, <2>6, <2>7, <2>8, <2>9, <2>10 DEF OnceInv, OneCpu
<1>10. CASE UNCHANGED vars
  <2>1. Distinct' /\ QueuedParked' /\ PoppedParked' /\ WokenOnce' /\ RunningState'
    BY <1>0, <1>10, Zenon DEF vars, Distinct, QueuedParked, PoppedParked, WokenOnce, RunningState,
                       Queued, Parked, Runs
  <2> QED BY <1>0, <2>1 DEF OnceInv, OneCpu
<1> QED BY <1>1, <1>2, <1>3, <1>4, <1>5, <1>6, <1>7, <1>8, <1>9, <1>10 DEF Next

(* With one CPU, a task is in the wait queue at most once and only while   *)
(* it is inside sem_wait, for any number of tasks: it never returns from   *)
(* sem_wait before a sem_signal has popped it.  With several CPUs it can   *)
(* be on two of them at once, and the property fails.                      *)
THEOREM BlockedOnce == OneCpu /\ Spec => []QueuedOnce
<1>1. OnceInv => QueuedOnce
  BY DEF OnceInv, QueuedOnce, Distinct, QueuedParked, Parked
<1> QED BY <1>1, OnceInit, OnceStep, PTL DEF Spec

-----------------------------------------------------------------------------
INSTANCE FiniteSetTheorems

UnitInv == ListInv /\ NoUnitLost

(* How the tasks that hold a unit and the count change together. *)
LEMMA HoldersGrow ==
  ASSUME TypeOK, TypeOK', NoUnitLost, count' = count, Holders \subseteq Holders'
  PROVE  NoUnitLost'
<1>1. IsFiniteSet(Holders) /\ IsFiniteSet(Holders')
  BY SemaphoreAssumption, FS_Subset DEF Holders
<1>2. Cardinality(Holders) <= Cardinality(Holders')
  BY <1>1, FS_Subset
<1>3. Cardinality(Holders) \in Nat /\ Cardinality(Holders') \in Nat
  BY <1>1, FS_CardinalityType
<1>4. \A a, b \in Nat : a <= b /\ count + a >= Initial => count + b >= Initial
  BY SemaphoreAssumption DEF TypeOK
<1> QED BY <1>2, <1>3, <1>4 DEF NoUnitLost

(* A task that takes a unit from the count becomes a holder. *)
LEMMA HolderAdded ==
  ASSUME TypeOK, NoUnitLost, NEW t \in Tasks, t \notin Holders,
         count' = count - 1, Holders' = Holders \cup {t}
  PROVE  NoUnitLost'
<1>1. IsFiniteSet(Holders)
  BY SemaphoreAssumption, FS_Subset DEF Holders
<1>2. Cardinality(Holders') = Cardinality(Holders) + 1
  BY <1>1, FS_AddElement
<1>3. Cardinality(Holders) \in Nat
  BY <1>1, FS_CardinalityType
<1>4. \A a \in Nat : count + a >= Initial => (count - 1) + (a + 1) >= Initial
  BY SemaphoreAssumption DEF TypeOK
<1> QED BY <1>2, <1>3, <1>4 DEF NoUnitLost

(* A holder that leaves gives its unit to the count. *)
LEMMA HolderLeaves ==
  ASSUME TypeOK, NoUnitLost, NEW t \in Tasks,
         count' = count + 1, Holders \ {t} \subseteq Holders'
  PROVE  NoUnitLost'
<1>1. IsFiniteSet(Holders) /\ IsFiniteSet(Holders')
  BY SemaphoreAssumption, FS_Subset DEF Holders
<1>2. IsFiniteSet(Holders \ {t}) /\ Cardinality(Holders \ {t}) >= Cardinality(Holders) - 1
  <2>1. Cardinality(Holders) \in Nat BY <1>1, FS_CardinalityType
  <2>2. /\ IsFiniteSet(Holders \ {t})
        /\ Cardinality(Holders \ {t}) =
             IF t \in Holders THEN Cardinality(Holders) - 1 ELSE Cardinality(Holders)
    BY <1>1, FS_RemoveElement, Zenon
  <2>3. \A a \in Nat : a >= a - 1 /\ a - 1 >= a - 1 OBVIOUS
  <2> QED BY <2>1, <2>2, <2>3
<1>3. Cardinality(Holders \ {t}) <= Cardinality(Holders')
  BY <1>1, FS_Subset
<1>4. Cardinality(Holders) \in Nat /\ Cardinality(Holders') \in Nat /\ Cardinality(Holders \ {t}) \in Nat
  BY <1>1, <1>2, FS_CardinalityType
<1>5. \A a, b, c \in Nat : b >= a - 1 /\ b <= c /\ count + a >= Initial => (count + 1) + c >= Initial
  BY SemaphoreAssumption DEF TypeOK
<1> QED BY <1>2, <1>3, <1>4, <1>5 DEF NoUnitLost

(* No unit of the semaphore is ever lost, for any number of tasks and      *)
(* CPUs: every sem_signal gives back what the sem_wait before it took.     *)
THEOREM UnitsKept == Spec => []NoUnitLost
<1>1. Init => NoUnitLost
  <2> SUFFICES ASSUME Init PROVE NoUnitLost OBVIOUS
  <2>1. Holders = {} BY DEF Init, Holders
  <2> QED BY <2>1, FS_EmptySet, SemaphoreAssumption DEF NoUnitLost, Init
<1>2. UnitInv /\ [Next]_vars => NoUnitLost'
  <2> SUFFICES ASSUME ListInv, NoUnitLost, [Next]_vars PROVE NoUnitLost'
    BY DEF UnitInv
  <2>0. TypeOK /\ TypeOK' /\ Shape BY ListStep DEF ListInv
  <2>1. ASSUME NEW t \in Tasks, ReadCount(t) PROVE NoUnitLost'
    <3>1. Holders \subseteq Holders' /\ count' = count
      BY <2>0, <2>1 DEF ReadCount, Holders, Queued, Goto, TypeOK
    <3> QED BY <2>0, <3>1, HoldersGrow
  <2>2. ASSUME NEW t \in Tasks, TakeUnit(t) PROVE NoUnitLost'
    <3>1. Holders' = Holders \cup {t} /\ t \notin Holders /\ count' = count - 1
      BY <2>0, <2>2, Zenon DEF TakeUnit, Holders, Queued, Goto, TypeOK
    <3> QED BY <2>0, <3>1, HolderAdded
  <2>3. ASSUME NEW t \in Tasks, Push(t) PROVE NoUnitLost'
    <3>0. order \in Seq(Tasks) /\ order' = Append(order, t)
      BY <2>0, <2>3 DEF Push, TypeOK
    <3>1. \A u \in Tasks : u # t /\ Queued(u)' => Queued(u)
      BY <3>0 DEF Queued
    <3>2. Holders \subseteq Holders' /\ count' = count
      BY <2>0, <2>3, <3>1, Zenon DEF Push, Holders, Goto, TypeOK
    <3> QED BY <2>0, <3>2, HoldersGrow
  <2>4. ASSUME NEW t \in Tasks, Block(t) PROVE NoUnitLost'
    <3>1. Holders \subseteq Holders' /\ count' = count
      BY <2>0, <2>4, Zenon DEF Block, Holders, Queued, Goto, TypeOK
    <3> QED BY <2>0, <3>1, HoldersGrow
  <2>5. ASSUME NEW t \in Tasks, Return(t) PROVE NoUnitLost'
    <3>1. Holders \subseteq Holders' /\ count' = count
      BY <2>0, <2>5 DEF Return, Holders, Queued, Goto, TypeOK
    <3> QED BY <2>0, <3>1, HoldersGrow
  <2>6. ASSUME NEW t \in Tasks, Signal(t) PROVE NoUnitLost'
    <3>1. count' = count + 1 /\ \A u \in Tasks \ {t} : pc'[u] = pc[u]
      BY <2>0, <2>6 DEF Signal, Goto, TypeOK
    <3>2. \A u \in Tasks : Queued(u)' => Queued(u)
      <4>1. CASE head = NULL BY <2>6, <4>1 DEF Signal, Queued
      <4>2. CASE head # NULL
        <5>1. order' = Tail(order) /\ QueuePop BY <2>6, <4>2 DEF Signal
        <5>2. order # <<>> BY <4>2, <5>1, PopShape
        <5>3. \A i \in DOMAIN Tail(order) : i + 1 \in DOMAIN order /\ Tail(order)[i] = order[i + 1]
          BY <2>0, <5>2 DEF TypeOK
        <5> QED BY <5>1, <5>3 DEF Queued
      <4> QED BY <4>1, <4>2
    <3>3. Holders \ {t} \subseteq Holders' BY <3>1, <3>2 DEF Holders
    <3> QED BY <2>0, <3>1, <3>3, HolderLeaves
  <2>7. ASSUME NEW t \in Tasks, Wake(t) PROVE NoUnitLost'
    <3>1. Holders \subseteq Holders' /\ count' = count
      BY <2>0, <2>7 DEF Wake, Holders, Queued, Goto, TypeOK
    <3> QED BY <2>0, <3>1, HoldersGrow
  <2>8. ASSUME NEW c \in Cpus, Yield(c) PROVE NoUnitLost'
    <3>1. Holders \subseteq Holders' /\ count' = count
      BY <2>0, <2>8 DEF Yield, Holders, Queued, Goto, TypeOK
    <3> QED BY <2>0, <3>1, HoldersGrow
  <2>9. ASSUME NEW c \in Cpus, Tick(c) PROVE NoUnitLost'
    <3>1. Holders \subseteq Holders' /\ count' = count
      BY <2>0, <2>9 DEF Tick, Holders, Queued, TypeOK
    <3> QED BY <2>0, <3>1, HoldersGrow
  <2>10. CASE UNCHANGED vars
    <3>1. Holders \subseteq Holders' /\ count' = count
      BY <2>10 DEF vars, Holders, Queued
    <3> QED BY <2>0, <3>1, HoldersGrow
  <2> QED BY <2>1, <2>2, <2>3, <2>4, <2>5, <2>6, <2>7, <2>8, <2>9, <2>10 DEF Next
<1>3. UnitInv /\ [Next]_vars => UnitInv' BY <1>2, ListStep DEF UnitInv
<1>4. Init => UnitInv BY <1>1, ListInit DEF UnitInv
<1>5. UnitInv => NoUnitLost BY DEF UnitInv
<1> QED BY <1>3, <1>4, <1>5, PTL DEF Spec

=============================================================================
