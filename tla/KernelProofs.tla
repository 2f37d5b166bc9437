---------------------------- MODULE KernelProofs ----------------------------
(***************************************************************************)
(* Proofs about Kernel for every number of descriptors and priorities.     *)
(***************************************************************************)
EXTENDS Kernel, TLAPS

-----------------------------------------------------------------------------
(* Task lists without repetition.                                          *)

\* A linked list of tasks (task.c) that grows at its tail by a task not yet in
\* it has no repetition and gains that task.
LEMMA AppendTask ==
  ASSUME NEW l \in Seq(Slots), NEW s \in Slots, NoRepeat(l), ~In(s, l)
  PROVE  /\ Append(l, s) \in Seq(Slots)
         /\ NoRepeat(Append(l, s))
         /\ \A x \in Slots : In(x, Append(l, s)) <=> In(x, l) \/ x = s
<1> DEFINE a == Append(l, s)
<1>1. /\ a \in Seq(Slots)
      /\ Len(l) \in Nat
      /\ Len(a) = Len(l) + 1
      /\ \A i \in 1 .. Len(l) : a[i] = l[i]
      /\ a[Len(l) + 1] = s
  OBVIOUS
<1> HIDE DEF a
<1>2. NoRepeat(a)
  BY <1>1 DEF NoRepeat, In
<1>3. \A x \in Slots : In(x, a) <=> In(x, l) \/ x = s
  BY <1>1 DEF In
<1> QED BY <1>1, <1>2, <1>3 DEF a

\* A linked list of tasks that loses its head has no repetition and loses that
\* task only.
LEMMA TailTask ==
  ASSUME NEW l \in Seq(Slots), l # <<>>, NoRepeat(l)
  PROVE  /\ Head(l) \in Slots
         /\ In(Head(l), l)
         /\ Tail(l) \in Seq(Slots)
         /\ NoRepeat(Tail(l))
         /\ \A x \in Slots : In(x, Tail(l)) <=> In(x, l) /\ x # Head(l)
<1> DEFINE t == Tail(l)
<1>1. /\ Len(l) \in Nat \ {0}
      /\ Head(l) = l[1]
      /\ l[1] \in Slots
      /\ t \in Seq(Slots)
      /\ Len(t) = Len(l) - 1
      /\ \A i \in 1 .. Len(l) - 1 : t[i] = l[i + 1]
  OBVIOUS
<1> HIDE DEF t
<1>2. In(Head(l), l)
  BY <1>1 DEF In
<1>3. NoRepeat(t)
  BY <1>1 DEF NoRepeat
<1>4. ASSUME NEW x \in Slots PROVE In(x, t) <=> In(x, l) /\ x # Head(l)
  <2>1. ASSUME In(x, t) PROVE In(x, l) /\ x # Head(l)
    <3>1. PICK i \in 1 .. Len(t) : t[i] = x
      BY <2>1 DEF In
    <3>2. i + 1 \in 1 .. Len(l) /\ l[i + 1] = x
      BY <3>1, <1>1
    <3> QED BY <3>2, <1>1 DEF In, NoRepeat
  <2>2. ASSUME In(x, l), x # Head(l) PROVE In(x, t)
    <3>1. PICK i \in 1 .. Len(l) : l[i] = x
      BY <2>2 DEF In
    <3>2. i - 1 \in 1 .. Len(t) /\ t[i - 1] = x
      BY <3>1, <2>2, <1>1
    <3> QED BY <3>2 DEF In
  <2> QED BY <2>1, <2>2
<1> QED BY <1>1, <1>2, <1>3, <1>4 DEF t

\* moveCurrentTaskToEnd: a rotated list has no repetition and the same tasks.
LEMMA RotateTask ==
  ASSUME NEW l \in Seq(Slots), l # <<>>, NoRepeat(l)
  PROVE  /\ Append(Tail(l), Head(l)) \in Seq(Slots)
         /\ NoRepeat(Append(Tail(l), Head(l)))
         /\ \A x \in Slots : In(x, Append(Tail(l), Head(l))) <=> In(x, l)
<1>1. /\ Head(l) \in Slots /\ In(Head(l), l)
      /\ Tail(l) \in Seq(Slots) /\ NoRepeat(Tail(l))
      /\ \A x \in Slots : In(x, Tail(l)) <=> In(x, l) /\ x # Head(l)
  BY TailTask
<1>2. ~In(Head(l), Tail(l))
  BY <1>1
<1> QED BY <1>1, <1>2, AppendTask

\* A task is in no empty list.
LEMMA InNotEmpty ==
  ASSUME NEW l, NEW s, In(s, l)
  PROVE  l # <<>>
BY DEF In

\* The empty list, as readyQueueInitial and blockedListsInitial leave it, has no task.
LEMMA EmptyList ==
  /\ <<>> \in Seq(Slots)
  /\ NoRepeat(<<>>)
  /\ \A s : ~In(s, <<>>)
BY DEF In, NoRepeat

\* Adding TASK_MAX to a tid, as createTask does, keeps its slot.
LEMMA SlotPlus ==
  ASSUME NEW N \in Nat \ {0}, NEW a \in Int
  PROVE  (a + N) % N = a % N
<1> DEFINE q  == a \div N
           r  == a % N
           q2 == (a + N) \div N
           r2 == (a + N) % N
<1>1. q \in Int /\ r \in 0 .. N - 1 /\ a = N * q + r
  OBVIOUS
<1>2. q2 \in Int /\ r2 \in 0 .. N - 1 /\ a + N = N * q2 + r2
  OBVIOUS
<1> HIDE DEF q, r, q2, r2
<1>3. N * (q2 - q - 1) = r - r2
  BY <1>1, <1>2
<1>4. q2 - q - 1 = 0
  <2>1. CASE q2 - q - 1 >= 1
    <3>1. N * (q2 - q - 1) >= N
      BY <2>1, <1>1, <1>2
    <3> QED BY <3>1, <1>1, <1>2, <1>3
  <2>2. CASE q2 - q - 1 =< -1
    <3>1. N * (q2 - q - 1) =< -N
      BY <2>2, <1>1, <1>2
    <3> QED BY <3>1, <1>1, <1>2, <1>3
  <2> QED BY <2>1, <2>2, <1>1, <1>2
<1> QED BY <1>3, <1>4, <1>1, <1>2 DEF r, r2

\* A tid below TASK_MAX is its slot.
LEMMA SlotSmall ==
  ASSUME NEW N \in Nat \ {0}, NEW a \in 0 .. N - 1
  PROVE  a % N = a
<1>1. a % N \in 0 .. N - 1 /\ a = N * (a \div N) + (a % N) /\ (a \div N) \in Int
  OBVIOUS
<1> QED BY <1>1
-----------------------------------------------------------------------------
(* The inductive invariant.  The safety invariants of Kernel need each     *)
(* other: a handler pops curtask without a test because it is the head of  *)
(* its list, a waker links a task because its state says it is in no list, *)
(* and the tables are right because tid % TASK_MAX is the slot.            *)

KernelInv ==
  /\ TypeOK
  /\ ListsMatchStates
  /\ RunningIsHighest
  /\ TidNamesSlot
  /\ MsgBuffersOK
  /\ EventBuffersOK
  /\ NoLostRendezvous
  /\ UartInterruptsOK

\* The ready queue's part of ListsMatchStates for any lists, states and
\* priorities, to follow a handler that drops one task and inserts another.
ReadyOK(rl, st, pr) ==
  \A p \in Priorities :
    /\ NoRepeat(rl[p])
    /\ \A s \in Slots : In(s, rl[p]) <=> st[s] \in {"Ready", "Active"} /\ pr[s] = p

\* main() leaves the kernel in a state of the invariant.
LEMMA KernelInit == Init => KernelInv
<1> SUFFICES ASSUME Init PROVE KernelInv
  OBVIOUS
<1> USE KernelAssumption
<1>1. /\ 0 \in Slots /\ 0 \in Priorities
      /\ TASK_MAX \in Nat \ {0}
      /\ \A s \in Slots : s \in Int /\ 0 =< s /\ s < TASK_MAX
  BY DEF Slots, Priorities
<1>2. /\ <<0>> \in Seq(Slots) /\ NoRepeat(<<0>>)
      /\ \A s \in Slots : In(s, <<0>>) <=> s = 0
  <2> DEFINE l == <<0>>
  <2>1. l \in Seq(Slots) /\ Len(l) = 1 /\ l[1] = 0
    BY <1>1
  <2> HIDE DEF l
  <2> QED BY <2>1 DEF NoRepeat, In, l
<1>3. /\ free_list \in Seq(Slots) /\ NoRepeat(free_list)
      /\ \A s \in Slots : In(s, free_list) <=> s # 0
  <2>1. /\ free_list = [i \in 1 .. TASK_MAX - 1 |-> i]
        /\ TASK_MAX - 1 \in Nat
    BY <1>1 DEF Init
  <2>2. \A i \in 1 .. TASK_MAX - 1 : i \in Slots
    BY <1>1 DEF Slots
  <2>3. free_list \in Seq(Slots) /\ Len(free_list) = TASK_MAX - 1
    BY <2>1, <2>2
  <2>4. \A i \in 1 .. TASK_MAX - 1 : free_list[i] = i
    BY <2>1
  <2>5. NoRepeat(free_list)
    BY <2>3, <2>4 DEF NoRepeat
  <2>6. ASSUME NEW s \in Slots PROVE In(s, free_list) <=> s # 0
    BY <2>3, <2>4, <1>1 DEF In, Slots
  <2> QED BY <2>3, <2>5, <2>6
<1>4. TypeOK
  <2>1. tid \in [Slots -> Int] /\ state \in [Slots -> TaskState]
    BY <1>1 DEF Init, TaskState
  <2>2. priority \in [Slots -> Priorities] /\ sent_to \in [Slots -> Int]
    BY <1>1 DEF Init, NoTask
  <2>3. ready_list \in [Priorities -> Seq(Slots)]
    BY <1>2, EmptyList DEF Init
  <2>4. /\ receive_blocked_lists \in [Slots -> Seq(Slots)]
        /\ event_blocked_lists \in [Events -> Seq(Slots)]
    BY EmptyList DEF Init
  <2> QED BY <2>1, <2>2, <2>3, <2>4, <1>3 DEF Init, TypeOK
<1>5. ListsMatchStates
  <2>1. ReadyListsOK
    BY <1>1, <1>2, EmptyList DEF Init, ReadyListsOK
  <2>2. FreeListOK
    BY <1>3 DEF Init, FreeListOK
  <2>3. ReceiveListsOK
    BY EmptyList DEF Init, ReceiveListsOK
  <2>4. EventListsOK
    BY EmptyList DEF Init, EventListsOK
  <2> QED BY <2>1, <2>2, <2>3, <2>4 DEF ListsMatchStates
<1>6. RunningIsHighest
  BY <1>1 DEF Init, RunningIsHighest, NoTask
<1>7. TidNamesSlot
  <2>1. ASSUME NEW s \in Slots PROVE Slot(tid[s]) = s
    <3>1. s % TASK_MAX = s
      BY SlotSmall, <1>1
    <3>2. CASE s = 0
      BY <3>1, <3>2 DEF Init, Slot
    <3>3. CASE s # 0
      <4>1. tid[s] = s - TASK_MAX /\ s - TASK_MAX \in Int
        BY <3>3, <1>1 DEF Init
      <4>2. (s - TASK_MAX + TASK_MAX) % TASK_MAX = (s - TASK_MAX) % TASK_MAX
        BY <4>1, <1>1, SlotPlus
      <4>3. s - TASK_MAX + TASK_MAX = s
        BY <1>1
      <4> QED BY <3>1, <4>1, <4>2, <4>3 DEF Slot
    <3> QED BY <3>2, <3>3
  <2>2. ASSUME NEW s \in Slots
        PROVE  tid[s] \in -TASK_MAX .. INT_MAX /\ (state[s] # "Zombie" => tid[s] >= 0)
    BY <1>1 DEF Init
  <2> QED BY <2>1, <2>2 DEF TidNamesSlot
<1>8. MsgBuffersOK /\ EventBuffersOK /\ NoLostRendezvous
  BY EmptyList DEF Init, MsgBuffersOK, EventBuffersOK, NoLostRendezvous
<1>9. UartInterruptsOK
  BY DEF Init, UartInterruptsOK, Uarts, RxEvent, Events, EVENT_MAX,
         EVENT_COM1_TX, EVENT_COM1_RX, EVENT_COM2_RX
<1> QED BY <1>4, <1>5, <1>6, <1>7, <1>8, <1>9 DEF KernelInv
-----------------------------------------------------------------------------
(* What every handler may rely on, and what its list operations do.        *)

\* While a task runs, curtask is Active, heads its list, and indexes its own
\* entries of the tables.
LEMMA Running ==
  ASSUME KernelInv, mode = "user"
  PROVE  /\ curtask \in Slots
         /\ state[curtask] = "Active"
         /\ priority[curtask] \in Priorities
         /\ ready_list[priority[curtask]] \in Seq(Slots)
         /\ ready_list[priority[curtask]] # <<>>
         /\ curtask = Head(ready_list[priority[curtask]])
         /\ Slot(tid[curtask]) = curtask
<1>1. curtask \in Slots /\ priority[curtask] \in Priorities
  BY DEF KernelInv, TypeOK, RunningIsHighest
<1>2. Slot(tid[curtask]) = curtask
  BY <1>1 DEF KernelInv, TidNamesSlot
<1> QED BY <1>1, <1>2 DEF KernelInv, TypeOK, RunningIsHighest

\* blockCurrentTask and removeCurrentTask: curtask, no longer Ready or Active,
\* leaves the ready queue, and no other task does.
LEMMA DropCurtaskOK ==
  ASSUME KernelInv, mode = "user",
         NEW blocked \in TaskState \ {"Ready", "Active"}
  PROVE  LET st == [state EXCEPT ![curtask] = blocked] IN
         /\ DropCurtask \in [Priorities -> Seq(Slots)]
         /\ st \in [Slots -> TaskState]
         /\ ReadyOK(DropCurtask, st, priority)
<1> DEFINE st == [state EXCEPT ![curtask] = blocked]
           cp == priority[curtask]
<1>1. /\ curtask \in Slots /\ cp \in Priorities
      /\ ready_list[cp] \in Seq(Slots) /\ ready_list[cp] # <<>>
      /\ curtask = Head(ready_list[cp])
  BY Running
<1>2. /\ ready_list \in [Priorities -> Seq(Slots)]
      /\ state \in [Slots -> TaskState]
      /\ priority \in [Slots -> Priorities]
  BY DEF KernelInv, TypeOK
<1>3. ReadyListsOK
  BY DEF KernelInv, ListsMatchStates
<1>4. /\ Tail(ready_list[cp]) \in Seq(Slots)
      /\ NoRepeat(Tail(ready_list[cp]))
      /\ \A x \in Slots : In(x, Tail(ready_list[cp])) <=> In(x, ready_list[cp]) /\ x # curtask
  BY <1>1, <1>3, TailTask DEF ReadyListsOK
<1>5. DropCurtask \in [Priorities -> Seq(Slots)] /\ st \in [Slots -> TaskState]
  BY <1>1, <1>2, <1>4 DEF DropCurtask
<1>6. ASSUME NEW p \in Priorities
      PROVE  /\ NoRepeat(DropCurtask[p])
             /\ \A s \in Slots :
                  In(s, DropCurtask[p]) <=> st[s] \in {"Ready", "Active"} /\ priority[s] = p
  <2>1. CASE p = cp
    <3>1. DropCurtask[p] = Tail(ready_list[cp])
      BY <2>1, <1>2 DEF DropCurtask
    <3> QED BY <3>1, <2>1, <1>1, <1>2, <1>3, <1>4 DEF ReadyListsOK
  <2>2. CASE p # cp
    <3>1. DropCurtask[p] = ready_list[p]
      BY <2>2, <1>2 DEF DropCurtask
    <3> QED BY <3>1, <2>2, <1>1, <1>2, <1>3 DEF ReadyListsOK
  <2> QED BY <2>1, <2>2
<1> QED BY <1>5, <1>6 DEF ReadyOK

\* insertTask: a task that was in no ready list becomes Ready in the list of
\* its priority.
LEMMA InsertTaskOK ==
  ASSUME KernelInv,
         NEW rl \in [Priorities -> Seq(Slots)], NEW st \in [Slots -> TaskState],
         ReadyOK(rl, st, priority),
         NEW s \in Slots, st[s] \notin {"Ready", "Active"}
  PROVE  LET st2 == [st EXCEPT ![s] = "Ready"] IN
         /\ InsertTask(rl, s) \in [Priorities -> Seq(Slots)]
         /\ st2 \in [Slots -> TaskState]
         /\ ReadyOK(InsertTask(rl, s), st2, priority)
<1> DEFINE st2 == [st EXCEPT ![s] = "Ready"]
           sp  == priority[s]
<1>1. priority \in [Slots -> Priorities] /\ sp \in Priorities
  BY DEF KernelInv, TypeOK
<1>2. ~In(s, rl[sp]) /\ NoRepeat(rl[sp]) /\ rl[sp] \in Seq(Slots)
  BY <1>1 DEF ReadyOK
<1>3. /\ Append(rl[sp], s) \in Seq(Slots)
      /\ NoRepeat(Append(rl[sp], s))
      /\ \A x \in Slots : In(x, Append(rl[sp], s)) <=> In(x, rl[sp]) \/ x = s
  BY <1>2, AppendTask
<1>4. InsertTask(rl, s) \in [Priorities -> Seq(Slots)] /\ st2 \in [Slots -> TaskState]
  BY <1>1, <1>3 DEF InsertTask, TaskState
<1>5. ASSUME NEW p \in Priorities
      PROVE  /\ NoRepeat(InsertTask(rl, s)[p])
             /\ \A x \in Slots :
                  In(x, InsertTask(rl, s)[p]) <=> st2[x] \in {"Ready", "Active"} /\ priority[x] = p
  <2>1. CASE p = sp
    <3>1. InsertTask(rl, s)[p] = Append(rl[sp], s)
      BY <2>1, <1>1 DEF InsertTask
    <3> QED BY <3>1, <2>1, <1>1, <1>3 DEF ReadyOK
  <2>2. CASE p # sp
    <3>1. InsertTask(rl, s)[p] = rl[p]
      BY <2>2, <1>1 DEF InsertTask
    <3> QED BY <3>1, <2>2, <1>1 DEF ReadyOK
  <2> QED BY <2>1, <2>2
<1> QED BY <1>4, <1>5 DEF ReadyOK

\* scheduleNextTask's rotation keeps every task in its list.
LEMMA MoveCurrentTaskToEndOK ==
  ASSUME KernelInv, mode = "schedule"
  PROVE  LET rl == MoveCurrentTaskToEnd
             st == IF curtask = NoTask THEN state ELSE [state EXCEPT ![curtask] = "Ready"]
         IN /\ rl \in [Priorities -> Seq(Slots)]
            /\ st \in [Slots -> TaskState]
            /\ ReadyOK(rl, st, priority)
            /\ \A s \in Slots : /\ st[s] # "Active"
                                /\ st[s] \in {"Ready", "Active"} <=> state[s] \in {"Ready", "Active"}
                                /\ state[s] \notin {"Ready", "Active"} => st[s] = state[s]
<1> DEFINE rl == MoveCurrentTaskToEnd
           st == IF curtask = NoTask THEN state ELSE [state EXCEPT ![curtask] = "Ready"]
           cp == priority[curtask]
<1>1. /\ ready_list \in [Priorities -> Seq(Slots)]
      /\ state \in [Slots -> TaskState]
      /\ priority \in [Slots -> Priorities]
      /\ curtask \in Slots \cup {NoTask}
      /\ \A s \in Slots : state[s] = "Active" <=> s = curtask
  BY DEF KernelInv, TypeOK, RunningIsHighest
<1>2. ReadyOK(ready_list, state, priority)
  BY DEF KernelInv, ListsMatchStates, ReadyListsOK, ReadyOK
<1>3. CASE curtask = NoTask
  <2>1. rl = ready_list /\ st = state
    BY <1>3 DEF MoveCurrentTaskToEnd
  <2>2. \A s \in Slots : st[s] # "Active"
    BY <2>1, <1>3, <1>1 DEF NoTask, Slots
  <2> QED BY <2>1, <2>2, <1>1, <1>2
<1>4. CASE curtask # NoTask
  <2>1. /\ curtask \in Slots /\ state[curtask] = "Active" /\ cp \in Priorities
        /\ st = [state EXCEPT ![curtask] = "Ready"]
        /\ rl = [ready_list EXCEPT ![cp] = Append(Tail(@), Head(@))]
    BY <1>1, <1>4 DEF MoveCurrentTaskToEnd
  <2>2. In(curtask, ready_list[cp]) /\ NoRepeat(ready_list[cp]) /\ ready_list[cp] \in Seq(Slots)
    BY <2>1, <1>1, <1>2 DEF ReadyOK
  <2> DEFINE rot == Append(Tail(ready_list[cp]), Head(ready_list[cp]))
  <2>3. /\ rot \in Seq(Slots) /\ NoRepeat(rot)
        /\ \A x \in Slots : In(x, rot) <=> In(x, ready_list[cp])
    BY <2>2, InNotEmpty, RotateTask
  <2> HIDE DEF rot
  <2>4. rl \in [Priorities -> Seq(Slots)] /\ st \in [Slots -> TaskState]
    BY <2>1, <2>3, <1>1 DEF TaskState, rot
  <2>5. \A p \in Priorities : rl[p] = IF p = cp THEN rot ELSE ready_list[p]
    BY <2>1, <1>1 DEF rot
  <2>6. \A s \in Slots : /\ st[s] # "Active"
                         /\ st[s] \in {"Ready", "Active"} <=> state[s] \in {"Ready", "Active"}
                         /\ state[s] \notin {"Ready", "Active"} => st[s] = state[s]
    BY <2>1, <1>1
  <2> HIDE DEF rl, st
  <2>7. ReadyOK(rl, st, priority)
    BY <2>3, <2>5, <2>6, <1>2 DEF ReadyOK
  <2> QED BY <2>4, <2>6, <2>7 DEF rl, st
<1> QED BY <1>3, <1>4
-----------------------------------------------------------------------------
(* One lemma per kind of step: each preserves the invariant.               *)

\* Steps that change no task: calls that are refused or only report, Halt and
\* failing asserts, and the interrupts that wake nobody.
LEMMA QuietStep ==
  ASSUME KernelInv,
         UNCHANGED <<tasks, state, ready_list, ipc, events>>,
         tien' \in SUBSET Uarts, rien' \in SUBSET Uarts, uart1_waiting_cts' \in BOOLEAN,
         UartInterruptsOK',
         \/ mode' \in {"schedule", "timer"} /\ mode # "stopped" /\ curtask' = curtask
         \/ mode' = "stopped" /\ curtask' = NoTask
  PROVE  KernelInv'
<1> USE DEF tasks, ipc, events
<1>1. TypeOK'
  BY DEF KernelInv, TypeOK
<1>2. ListsMatchStates'
  BY DEF KernelInv, ListsMatchStates, ReadyListsOK, FreeListOK, ReceiveListsOK, EventListsOK
<1>3. RunningIsHighest'
  BY DEF KernelInv, RunningIsHighest
<1>4. TidNamesSlot'
  BY DEF KernelInv, TidNamesSlot
<1>5. MsgBuffersOK' /\ EventBuffersOK' /\ NoLostRendezvous'
  BY DEF KernelInv, MsgBuffersOK, EventBuffersOK, NoLostRendezvous
<1> QED BY <1>1, <1>2, <1>3, <1>4, <1>5 DEF KernelInv

\* A call that only returns, Pass or a refused one, changes no table.
LEMMA ReturnToLoopStep == KernelInv /\ ReturnToLoop => KernelInv'
<1> SUFFICES ASSUME KernelInv, ReturnToLoop PROVE KernelInv'
  OBVIOUS
<1>1. UartInterruptsOK'
  BY DEF KernelInv, ReturnToLoop, UartInterruptsOK, uart, events
<1> QED BY <1>1, QuietStep DEF ReturnToLoop, KernelInv, TypeOK, uart

\* Halt, or a kernel assert that fails, changes no table.
LEMMA StopSystemStep == KernelInv /\ StopSystem => KernelInv'
<1> SUFFICES ASSUME KernelInv, StopSystem PROVE KernelInv'
  OBVIOUS
<1>1. UartInterruptsOK'
  BY DEF KernelInv, StopSystem, UartInterruptsOK, uart, events
<1> QED BY <1>1, QuietStep DEF StopSystem, KernelInv, TypeOK, uart

\* The timer interrupt's entry, and its end once no task waits for the tick.
LEMMA TimerQuietStep == KernelInv /\ (TimerIrq \/ TimerDone) => KernelInv'
<1> SUFFICES ASSUME KernelInv, TimerIrq \/ TimerDone PROVE KernelInv'
  OBVIOUS
<1>1. UartInterruptsOK'
  BY DEF KernelInv, TimerIrq, TimerDone, UartInterruptsOK, uart, events
<1> QED BY <1>1, QuietStep DEF TimerIrq, TimerDone, KernelInv, TypeOK, uart

\* The UART interrupts that wake nobody: only interrupt enables and the CTS
\* flag change, and no waiter loses its interrupt (uartIrqHandler).
LEMMA UartQuietStep ==
  ASSUME KernelInv, NEW u \in Uarts, NEW cts \in BOOLEAN,
         ModemIrq(cts) \/ RxIrqNoWaiter(u) \/ TxIrqWaitingCts
  PROVE  KernelInv'
<1> USE DEF Uarts, RxEvent, TxEvent, EVENT_COM1_TX, EVENT_COM1_RX, EVENT_COM2_TX,
            EVENT_COM2_RX
<1>1. /\ tien \in SUBSET Uarts /\ rien \in SUBSET Uarts /\ uart1_waiting_cts \in BOOLEAN
      /\ UartInterruptsOK
  BY DEF KernelInv, TypeOK
<1>2. CASE ModemIrq(cts)
  <2>1. UartInterruptsOK'
    BY <1>1, <1>2 DEF ModemIrq, TienAfterCts, UartInterruptsOK, events
  <2>2. tien' \in SUBSET Uarts /\ uart1_waiting_cts' \in BOOLEAN /\ rien' = rien
    BY <1>1, <1>2 DEF ModemIrq, TienAfterCts
  <2> QED BY <2>1, <2>2, <1>1, <1>2, QuietStep DEF ModemIrq
<1>3. CASE RxIrqNoWaiter(u)
  <2>1. UartInterruptsOK'
    BY <1>1, <1>3 DEF RxIrqNoWaiter, UartInterruptsOK, events
  <2> QED BY <2>1, <1>1, <1>3, QuietStep DEF RxIrqNoWaiter
<1>4. CASE TxIrqWaitingCts
  <2>1. UartInterruptsOK'
    BY <1>1, <1>4 DEF TxIrqWaitingCts, UartInterruptsOK, events
  <2> QED BY <2>1, <1>1, <1>4, QuietStep DEF TxIrqWaitingCts
<1> QED BY <1>2, <1>3, <1>4

\* scheduleNextTask: the task it picks is Active, heads the highest list, and
\* the task that ran before it is Ready at the end of its own.
LEMMA ScheduleStep == KernelInv /\ ScheduleNextTask => KernelInv'
<1> SUFFICES ASSUME KernelInv, ScheduleNextTask PROVE KernelInv'
  OBVIOUS
<1> DEFINE rl == MoveCurrentTaskToEnd
           st == IF curtask = NoTask THEN state ELSE [state EXCEPT ![curtask] = "Ready"]
<1>1. /\ rl \in [Priorities -> Seq(Slots)]
      /\ st \in [Slots -> TaskState]
      /\ ReadyOK(rl, st, priority)
      /\ \A s \in Slots : /\ st[s] # "Active"
                          /\ st[s] \in {"Ready", "Active"} <=> state[s] \in {"Ready", "Active"}
                          /\ state[s] \notin {"Ready", "Active"} => st[s] = state[s]
  BY MoveCurrentTaskToEndOK DEF ScheduleNextTask
<1>2. /\ mode = "schedule" /\ ready_list' = rl
      /\ UNCHANGED <<tid, priority, free_list>>
      /\ UNCHANGED <<receive_blocked_lists, msg, sent_to, event_blocked_lists, event>>
      /\ UNCHANGED <<tien, rien, uart1_waiting_cts>>
      /\ \/ \E p \in Priorities :
              /\ IsHighest(rl, p)
              /\ curtask' = Head(rl[p])
              /\ state' = [st EXCEPT ![Head(rl[p])] = "Active"]
              /\ mode' = "user"
         \/ /\ \A p \in Priorities : rl[p] = <<>>
            /\ curtask' = NoTask /\ state' = st /\ mode' = "stopped"
  BY DEF ScheduleNextTask, tasks, ipc, events, uart
<1> HIDE DEF rl, st
\* The task chosen is Ready, and no task of a higher priority is.
<1>3. /\ curtask' \in Slots \cup {NoTask}
      /\ state' \in [Slots -> TaskState]
      /\ mode' \in {"user", "stopped"}
      /\ \A s \in Slots :
           /\ state'[s] \in {"Ready", "Active"} <=> state[s] \in {"Ready", "Active"}
           /\ state[s] \notin {"Ready", "Active"} => state'[s] = state[s]
      /\ RunningIsHighest'
  <2>1. CASE mode' = "stopped"
    <3>1. curtask' = NoTask /\ state' = st
      BY <1>2, <2>1
    <3>2. RunningIsHighest'
      BY <2>1 DEF RunningIsHighest
    <3> QED BY <3>1, <3>2, <2>1, <1>1
  <2>2. CASE mode' = "user"
    <3>1. PICK p \in Priorities :
            /\ IsHighest(rl, p)
            /\ curtask' = Head(rl[p])
            /\ state' = [st EXCEPT ![Head(rl[p])] = "Active"]
      BY <1>2, <2>2
    <3> DEFINE c == Head(rl[p])
    <3>2. /\ rl[p] # <<>> /\ c \in Slots /\ In(c, rl[p])
          /\ \A q \in Priorities : q < p => rl[q] = <<>>
      BY <3>1, <1>1, TailTask DEF IsHighest, ReadyOK
    <3>3. st[c] \in {"Ready", "Active"} /\ priority[c] = p
      BY <3>2, <1>1 DEF ReadyOK
    <3>4. \A s \in Slots : st[s] = "Ready" => priority[s] >= p
      <4>1. \A s \in Slots : priority[s] \in Priorities
        BY DEF KernelInv, TypeOK
      <4>2. ASSUME NEW s \in Slots, st[s] = "Ready" PROVE priority[s] >= p
        <5>1. In(s, rl[priority[s]])
          BY <4>1, <4>2, <1>1 DEF ReadyOK
        <5>2. rl[priority[s]] # <<>>
          BY <5>1, InNotEmpty
        <5>3. priority[s] \in Int /\ p \in Int
          BY <4>1, KernelAssumption DEF Priorities
        <5> QED BY <5>2, <5>3, <4>1, <3>2
      <4> QED BY <4>2
    <3> HIDE DEF c
    <3>5. curtask' = c /\ state' = [st EXCEPT ![c] = "Active"]
      BY <3>1 DEF c
    <3>6. c # NoTask
      BY <3>2, KernelAssumption DEF Slots, NoTask
    <3>7. RunningIsHighest'
      <4>1. ready_list'[priority'[curtask']] = rl[p]
        BY <1>2, <3>3, <3>5
      <4> QED BY <4>1, <3>2, <3>3, <3>4, <3>5, <3>6, <1>1, <1>2, <2>2 DEF RunningIsHighest, c
    <3> QED BY <3>2, <3>3, <3>5, <3>7, <2>2, <1>1 DEF TaskState
  <2> QED BY <2>1, <2>2, <1>2
<1>4. TypeOK'
  BY <1>1, <1>2, <1>3 DEF KernelInv, TypeOK
<1>5. ListsMatchStates'
  <2>1. ReadyListsOK'
    BY <1>1, <1>2, <1>3 DEF ReadyListsOK, ReadyOK
  <2>2. FreeListOK'
    BY <1>2, <1>3 DEF KernelInv, ListsMatchStates, FreeListOK
  <2>3. ReceiveListsOK'
    BY <1>2, <1>3 DEF KernelInv, ListsMatchStates, ReceiveListsOK
  <2>4. EventListsOK'
    BY <1>2, <1>3 DEF KernelInv, ListsMatchStates, EventListsOK
  <2> QED BY <2>1, <2>2, <2>3, <2>4 DEF ListsMatchStates
<1>6. TidNamesSlot'
  BY <1>2, <1>3 DEF KernelInv, TidNamesSlot
<1>7. MsgBuffersOK' /\ EventBuffersOK' /\ NoLostRendezvous'
  BY <1>2, <1>3 DEF KernelInv, TypeOK, MsgBuffersOK, EventBuffersOK, NoLostRendezvous
<1>8. UartInterruptsOK'
  BY <1>2 DEF KernelInv, UartInterruptsOK
<1> QED BY <1>3, <1>4, <1>5, <1>6, <1>7, <1>8 DEF KernelInv

\* Create: the head of the free list becomes a ready task whose tid names it.
LEMMA CreateStep ==
  ASSUME KernelInv, NEW p \in Priorities, SysCreate(p)
  PROVE  KernelInv'
<1> DEFINE s == Head(free_list)
<1>1. /\ mode = "user" /\ mode' = "schedule" /\ curtask' = curtask
      /\ free_list # <<>> /\ free_list' = Tail(free_list)
      /\ tid' = [tid EXCEPT ![s] = NextTid(s)]
      /\ priority' = [priority EXCEPT ![s] = p]
      /\ state' = [state EXCEPT ![s] = "Ready"]
      /\ ready_list' = [ready_list EXCEPT ![p] = Append(@, s)]
      /\ UNCHANGED <<receive_blocked_lists, msg, sent_to, event_blocked_lists, event>>
      /\ UNCHANGED <<tien, rien, uart1_waiting_cts>>
  BY DEF SysCreate, ipc, events, uart
<1>2. TypeOK /\ ReadyListsOK /\ FreeListOK /\ ReceiveListsOK /\ EventListsOK
  BY DEF KernelInv, ListsMatchStates
<1>3. /\ s \in Slots /\ In(s, free_list) /\ state[s] = "Zombie"
      /\ free_list' \in Seq(Slots) /\ NoRepeat(free_list')
      /\ \A x \in Slots : In(x, free_list') <=> In(x, free_list) /\ x # s
  BY <1>1, <1>2, TailTask DEF TypeOK, FreeListOK
<1>4. /\ ~In(s, ready_list[p])
      /\ Append(ready_list[p], s) \in Seq(Slots) /\ NoRepeat(Append(ready_list[p], s))
      /\ \A x \in Slots : In(x, Append(ready_list[p], s)) <=> In(x, ready_list[p]) \/ x = s
  <2>1. ~In(s, ready_list[p]) /\ NoRepeat(ready_list[p]) /\ ready_list[p] \in Seq(Slots)
    BY <1>2, <1>3 DEF ReadyListsOK, TypeOK
  <2> QED BY <2>1, <1>3, AppendTask
<1>5. /\ NextTid(s) \in Int /\ NextTid(s) \in 0 .. INT_MAX
      /\ NextTid(s) = tid[s] + TASK_MAX
      /\ Slot(NextTid(s)) = s
  <2>1. tid[s] \in -TASK_MAX .. INT_MAX /\ Slot(tid[s]) = s /\ ~(NextTid(s) < 0)
    BY <1>3 DEF KernelInv, TidNamesSlot, SysCreate, TidOverflows
  <2> tid[s] \in Int
    BY <2>1, KernelAssumption
  <2>2. NextTid(s) = tid[s] + TASK_MAX /\ NextTid(s) \in 0 .. INT_MAX
    BY <2>1, KernelAssumption DEF NextTid
  <2>3. (tid[s] + TASK_MAX) % TASK_MAX = tid[s] % TASK_MAX
    BY <2>1, SlotPlus, KernelAssumption
  <2> QED BY <2>1, <2>2, <2>3 DEF Slot
<1> HIDE DEF s
<1>6. TypeOK'
  BY <1>1, <1>2, <1>3, <1>4, <1>5 DEF TypeOK, TaskState
<1>7. ListsMatchStates'
  <2>1. ReadyListsOK'
    <3> SUFFICES ASSUME NEW q \in Priorities
                 PROVE  /\ NoRepeat(ready_list'[q])
                        /\ \A x \in Slots :
                             In(x, ready_list'[q]) <=>
                               state'[x] \in {"Ready", "Active"} /\ priority'[x] = q
      BY DEF ReadyListsOK
    <3>1. /\ \A x \in Slots : state'[x] = IF x = s THEN "Ready" ELSE state[x]
          /\ \A x \in Slots : priority'[x] = IF x = s THEN p ELSE priority[x]
          /\ ready_list'[q] = IF q = p THEN Append(ready_list[p], s) ELSE ready_list[q]
      BY <1>1, <1>2 DEF TypeOK
    <3> QED BY <3>1, <1>2, <1>3, <1>4 DEF ReadyListsOK
  <2>2. FreeListOK'
    BY <1>1, <1>2, <1>3 DEF FreeListOK, TypeOK
  <2>3. ReceiveListsOK'
    BY <1>1, <1>2, <1>3 DEF ReceiveListsOK, TypeOK
  <2>4. EventListsOK'
    BY <1>1, <1>2, <1>3 DEF EventListsOK, TypeOK
  <2> QED BY <2>1, <2>2, <2>3, <2>4 DEF ListsMatchStates
<1>8. RunningIsHighest'
  BY <1>1, <1>2, <1>3 DEF KernelInv, RunningIsHighest, TypeOK
<1>9. TidNamesSlot'
  <2> SUFFICES ASSUME NEW x \in Slots
               PROVE  /\ Slot(tid'[x]) = x
                      /\ tid'[x] \in -TASK_MAX .. INT_MAX
                      /\ state'[x] # "Zombie" => tid'[x] >= 0
    BY DEF TidNamesSlot
  <2>1. CASE x = s
    <3>1. tid'[x] = NextTid(s)
      BY <2>1, <1>1, <1>2, <1>3 DEF TypeOK
    <3>2. TASK_MAX \in Nat
      BY KernelAssumption
    <3> QED BY <3>1, <3>2, <2>1, <1>5
  <2>2. CASE x # s
    <3>1. tid'[x] = tid[x] /\ state'[x] = state[x]
      BY <2>2, <1>1, <1>2 DEF TypeOK
    <3> QED BY <3>1 DEF KernelInv, TidNamesSlot
  <2> QED BY <2>1, <2>2
<1> SUFFICES MsgBuffersOK' /\ NoLostRendezvous' /\ EventBuffersOK' /\ UartInterruptsOK'
  BY <1>6, <1>7, <1>8, <1>9 DEF KernelInv
<1>10. /\ \A x \in Slots : state'[x] = IF x = s THEN "Ready" ELSE state[x]
       /\ \A x \in Slots : tid'[x] = IF x = s THEN tid[s] + TASK_MAX ELSE tid[x]
       /\ msg \in SUBSET Slots /\ event \in SUBSET Slots
       /\ \A x \in Slots : tid[x] \in Int
       /\ TASK_MAX \in Nat
  BY <1>1, <1>2, <1>3, <1>5, KernelAssumption DEF TypeOK
<1>11. MsgBuffersOK'
  BY <1>1, <1>3, <1>10 DEF KernelInv, MsgBuffersOK
<1>12. NoLostRendezvous'
  BY <1>1, <1>3, <1>10 DEF KernelInv, NoLostRendezvous
<1>13. EventBuffersOK'
  <2>1. EventBuffersOK
    BY DEF KernelInv
  <2>3. ASSUME NEW x \in event PROVE state'[x] = "EventBlocked" \/ tid'[x] >= TASK_MAX
    <3>1. CASE x = s
      BY <3>1, <1>3, <1>10, <2>1 DEF EventBuffersOK
    <3>2. CASE x # s
      BY <3>2, <1>10, <2>1 DEF EventBuffersOK
    <3> QED BY <3>1, <3>2
  <2> QED BY <1>1, <2>1, <2>3 DEF EventBuffersOK
<1>14. UartInterruptsOK'
  BY <1>1 DEF KernelInv, UartInterruptsOK
<1> QED BY <1>11, <1>12, <1>13, <1>14

\* Exit: curtask leaves the ready queue for the free list.
LEMMA ExitStep == KernelInv /\ SysExit => KernelInv'
<1> SUFFICES ASSUME KernelInv, SysExit PROVE KernelInv'
  OBVIOUS
<1>1. /\ mode = "user" /\ mode' = "schedule" /\ curtask' = NoTask
      /\ ready_list' = DropCurtask
      /\ state' = [state EXCEPT ![curtask] = "Zombie"]
      /\ free_list' = Append(free_list, curtask)
      /\ UNCHANGED <<tid, priority, receive_blocked_lists, msg, sent_to>>
      /\ UNCHANGED <<event_blocked_lists, event, tien, rien, uart1_waiting_cts>>
  BY DEF SysExit, ipc, events, uart
<1>2. TypeOK /\ FreeListOK /\ ReceiveListsOK /\ EventListsOK
  BY DEF KernelInv, ListsMatchStates
<1>3. curtask \in Slots /\ state[curtask] = "Active"
  BY <1>1, Running
<1>4. /\ ready_list' \in [Priorities -> Seq(Slots)]
      /\ state' \in [Slots -> TaskState]
      /\ ReadyOK(ready_list', state', priority)
  <2>1. "Zombie" \in TaskState \ {"Ready", "Active"}
    BY DEF TaskState
  <2> QED BY <2>1, <1>1, DropCurtaskOK
<1>5. /\ free_list' \in Seq(Slots) /\ NoRepeat(free_list')
      /\ \A x \in Slots : In(x, free_list') <=> In(x, free_list) \/ x = curtask
  BY <1>1, <1>2, <1>3, AppendTask DEF TypeOK, FreeListOK
<1>6. TypeOK'
  BY <1>1, <1>2, <1>4, <1>5 DEF TypeOK
<1>7. ListsMatchStates'
  <2>1. ReadyListsOK'
    BY <1>1, <1>4 DEF ReadyListsOK, ReadyOK
  <2>2. FreeListOK'
    BY <1>1, <1>2, <1>3, <1>5 DEF FreeListOK, TypeOK
  <2>3. ReceiveListsOK' /\ EventListsOK'
    BY <1>1, <1>2, <1>3 DEF ReceiveListsOK, EventListsOK, TypeOK
  <2> QED BY <2>1, <2>2, <2>3 DEF ListsMatchStates
<1>8. RunningIsHighest'
  BY <1>1, <1>2, <1>3 DEF KernelInv, RunningIsHighest, TypeOK, NoTask, Slots
<1>9. TidNamesSlot'
  BY <1>1, <1>2, <1>3 DEF KernelInv, TidNamesSlot, TypeOK
<1>10. MsgBuffersOK' /\ NoLostRendezvous' /\ EventBuffersOK'
  BY <1>1, <1>2, <1>3 DEF KernelInv, MsgBuffersOK, NoLostRendezvous, EventBuffersOK, TypeOK
<1>11. UartInterruptsOK'
  BY <1>1 DEF KernelInv, UartInterruptsOK
<1> QED BY <1>6, <1>7, <1>8, <1>9, <1>10, <1>11 DEF KernelInv

\* A Send that finds its receiver waiting: one task leaves the ready queue,
\* another enters it.
LEMMA SendDeliveredStep ==
  ASSUME KernelInv, NEW t \in Int, SendDelivered(t)
  PROVE  KernelInv'
<1> DEFINE dst == Slot(t)
           st  == [state EXCEPT ![curtask] = "ReplyBlocked"]
<1>1. /\ mode = "user" /\ mode' = "schedule" /\ curtask' = NoTask
      /\ state[dst] = "SendBlocked"
      /\ ready_list' = InsertTask(DropCurtask, dst)
      /\ state' = [st EXCEPT ![dst] = "Ready"]
      /\ sent_to' = [sent_to EXCEPT ![curtask] = t]
      /\ UNCHANGED <<tid, priority, free_list, receive_blocked_lists, msg>>
      /\ UNCHANGED <<event_blocked_lists, event, tien, rien, uart1_waiting_cts>>
  BY DEF SendDelivered, ReceiverWaits, BlockCurtask, tasks, events, uart
<1>2. TypeOK /\ FreeListOK /\ ReceiveListsOK /\ EventListsOK
  BY DEF KernelInv, ListsMatchStates
<1>3. curtask \in Slots /\ state[curtask] = "Active"
  BY <1>1, Running
<1>4. dst \in Slots
  BY KernelAssumption DEF Slot, Slots
<1>5. /\ DropCurtask \in [Priorities -> Seq(Slots)]
      /\ st \in [Slots -> TaskState]
      /\ ReadyOK(DropCurtask, st, priority)
  <2>1. "ReplyBlocked" \in TaskState \ {"Ready", "Active"}
    BY DEF TaskState
  <2> QED BY <2>1, <1>1, DropCurtaskOK
<1> HIDE DEF dst
<1>6. st[dst] = "SendBlocked"
  BY <1>1, <1>2, <1>3, <1>4 DEF TypeOK
<1>7. /\ ready_list' \in [Priorities -> Seq(Slots)]
      /\ state' \in [Slots -> TaskState]
      /\ ReadyOK(ready_list', state', priority)
  <2> HIDE DEF st
  <2> QED BY <1>1, <1>4, <1>5, <1>6, InsertTaskOK
<1>8. /\ \A x \in Slots : state'[x] = IF x = dst THEN "Ready"
                                      ELSE IF x = curtask THEN "ReplyBlocked" ELSE state[x]
      /\ \A x \in Slots : x # curtask => sent_to'[x] = sent_to[x]
      /\ dst # curtask
  BY <1>1, <1>2, <1>3, <1>4 DEF TypeOK
<1> HIDE DEF st
<1>9. TypeOK'
  BY <1>1, <1>2, <1>3, <1>7 DEF TypeOK
<1>10. ListsMatchStates'
  <2>1. ReadyListsOK'
    BY <1>1, <1>7 DEF ReadyListsOK, ReadyOK
  <2>2. FreeListOK'
    BY <1>1, <1>2, <1>3, <1>8 DEF FreeListOK
  <2>3. ReceiveListsOK'
    BY <1>1, <1>2, <1>3, <1>8 DEF ReceiveListsOK
  <2>4. EventListsOK'
    BY <1>1, <1>2, <1>3, <1>8 DEF EventListsOK
  <2> QED BY <2>1, <2>2, <2>3, <2>4 DEF ListsMatchStates
<1>11. RunningIsHighest'
  BY <1>1, <1>3, <1>8 DEF KernelInv, RunningIsHighest, NoTask, Slots
<1>12. TidNamesSlot'
  BY <1>1, <1>3, <1>8 DEF KernelInv, TidNamesSlot
<1>13. msg \in SUBSET Slots /\ event \in SUBSET Slots
  BY <1>2 DEF TypeOK
<1>14. MsgBuffersOK'
  BY <1>1, <1>3, <1>8, <1>13 DEF KernelInv, MsgBuffersOK
<1>15. NoLostRendezvous'
  BY <1>1, <1>3, <1>8 DEF KernelInv, NoLostRendezvous
<1>16. EventBuffersOK'
  BY <1>1, <1>3, <1>8, <1>13 DEF KernelInv, EventBuffersOK
<1>17. UartInterruptsOK'
  BY <1>1 DEF KernelInv, UartInterruptsOK
<1> QED BY <1>9, <1>10, <1>11, <1>12, <1>14, <1>15, <1>16, <1>17 DEF KernelInv

\* A Send that does not: the sender moves from the ready queue to the list of
\* the slot it sent to.
LEMMA SendQueuedStep ==
  ASSUME KernelInv, NEW t \in Int, SendQueued(t)
  PROVE  KernelInv'
<1> DEFINE dst == Slot(t)
<1>1. /\ mode = "user" /\ mode' = "schedule" /\ curtask' = NoTask
      /\ state[dst] # "SendBlocked"
      /\ msg' = msg \cup {Slot(tid[curtask])}
      /\ ready_list' = DropCurtask
      /\ state' = [state EXCEPT ![curtask] = "ReceiveBlocked"]
      /\ receive_blocked_lists' = [receive_blocked_lists EXCEPT ![dst] = Append(@, curtask)]
      /\ sent_to' = [sent_to EXCEPT ![curtask] = t]
      /\ UNCHANGED <<tid, priority, free_list>>
      /\ UNCHANGED <<event_blocked_lists, event, tien, rien, uart1_waiting_cts>>
  BY DEF SendQueued, ReceiverWaits, BlockCurtask, tasks, events, uart
<1>2. TypeOK /\ FreeListOK /\ ReceiveListsOK /\ EventListsOK
  BY DEF KernelInv, ListsMatchStates
<1>3. curtask \in Slots /\ state[curtask] = "Active" /\ Slot(tid[curtask]) = curtask
  BY <1>1, Running
<1>4. dst \in Slots
  BY KernelAssumption DEF Slot, Slots
<1>5. /\ ready_list' \in [Priorities -> Seq(Slots)]
      /\ state' \in [Slots -> TaskState]
      /\ ReadyOK(ready_list', state', priority)
  <2>1. "ReceiveBlocked" \in TaskState \ {"Ready", "Active"}
    BY DEF TaskState
  <2> QED BY <2>1, <1>1, DropCurtaskOK
\* The sender is in no list yet, so the receiver's list gains it once.
<1> DEFINE l == receive_blocked_lists[dst]
<1>6. /\ Append(l, curtask) \in Seq(Slots) /\ NoRepeat(Append(l, curtask))
      /\ \A x \in Slots : In(x, Append(l, curtask)) <=> In(x, l) \/ x = curtask
  <2>1. l \in Seq(Slots) /\ NoRepeat(l) /\ ~In(curtask, l)
    BY <1>2, <1>3, <1>4 DEF TypeOK, ReceiveListsOK
  <2> QED BY <2>1, <1>3, AppendTask
<1>7. /\ \A x \in Slots : state'[x] = IF x = curtask THEN "ReceiveBlocked" ELSE state[x]
      /\ \A x \in Slots : sent_to'[x] = IF x = curtask THEN t ELSE sent_to[x]
      /\ \A r \in Slots : receive_blocked_lists'[r] =
           IF r = dst THEN Append(l, curtask) ELSE receive_blocked_lists[r]
  BY <1>1, <1>2, <1>3, <1>4 DEF TypeOK
<1>8. TypeOK'
  BY <1>1, <1>2, <1>3, <1>4, <1>5, <1>6 DEF TypeOK
<1> HIDE DEF l
<1>9. ListsMatchStates'
  <2>1. ReadyListsOK'
    BY <1>1, <1>5 DEF ReadyListsOK, ReadyOK
  <2>2. FreeListOK'
    BY <1>1, <1>2, <1>3, <1>7 DEF FreeListOK
  <2>3. ReceiveListsOK'
    <3> SUFFICES ASSUME NEW r \in Slots
                 PROVE  /\ NoRepeat(receive_blocked_lists'[r])
                        /\ \A x \in Slots :
                             In(x, receive_blocked_lists'[r]) <=>
                               state'[x] = "ReceiveBlocked" /\ Slot(sent_to'[x]) = r
      BY DEF ReceiveListsOK
    <3>1. CASE r = dst
      BY <3>1, <1>2, <1>3, <1>6, <1>7 DEF ReceiveListsOK, l
    <3>2. CASE r # dst
      BY <3>2, <1>2, <1>3, <1>7 DEF ReceiveListsOK
    <3> QED BY <3>1, <3>2
  <2>4. EventListsOK'
    BY <1>1, <1>2, <1>3, <1>7 DEF EventListsOK
  <2> QED BY <2>1, <2>2, <2>3, <2>4 DEF ListsMatchStates
<1>10. RunningIsHighest'
  BY <1>1, <1>3, <1>7 DEF KernelInv, RunningIsHighest, NoTask, Slots
<1>11. TidNamesSlot'
  BY <1>1, <1>3, <1>7 DEF KernelInv, TidNamesSlot
<1>12. MsgBuffersOK'
  BY <1>1, <1>2, <1>3, <1>7 DEF KernelInv, MsgBuffersOK, TypeOK
<1>13. NoLostRendezvous'
  BY <1>1, <1>3, <1>4, <1>7 DEF KernelInv, NoLostRendezvous
<1>14. EventBuffersOK'
  BY <1>1, <1>2, <1>3, <1>7 DEF KernelInv, EventBuffersOK, TypeOK
<1>15. UartInterruptsOK'
  BY <1>1 DEF KernelInv, UartInterruptsOK
<1> QED BY <1>8, <1>9, <1>10, <1>11, <1>12, <1>13, <1>14, <1>15 DEF KernelInv

\* A Receive with nobody queued: the receiver is in no list until a Send.
LEMMA ReceiveBlocksStep == KernelInv /\ ReceiveBlocks => KernelInv'
<1> SUFFICES ASSUME KernelInv, ReceiveBlocks PROVE KernelInv'
  OBVIOUS
<1>1. /\ mode = "user" /\ mode' = "schedule" /\ curtask' = NoTask
      /\ receive_blocked_lists[Slot(tid[curtask])] = <<>>
      /\ ready_list' = DropCurtask
      /\ state' = [state EXCEPT ![curtask] = "SendBlocked"]
      /\ UNCHANGED <<tid, priority, free_list, receive_blocked_lists, msg, sent_to>>
      /\ UNCHANGED <<event_blocked_lists, event, tien, rien, uart1_waiting_cts>>
  BY DEF ReceiveBlocks, BlockCurtask, tasks, ipc, events, uart
<1>2. TypeOK /\ FreeListOK /\ ReceiveListsOK /\ EventListsOK
  BY DEF KernelInv, ListsMatchStates
<1>3. curtask \in Slots /\ state[curtask] = "Active" /\ Slot(tid[curtask]) = curtask
  BY <1>1, Running
<1>4. /\ ready_list' \in [Priorities -> Seq(Slots)]
      /\ state' \in [Slots -> TaskState]
      /\ ReadyOK(ready_list', state', priority)
  <2>1. "SendBlocked" \in TaskState \ {"Ready", "Active"}
    BY DEF TaskState
  <2> QED BY <2>1, <1>1, DropCurtaskOK
<1>5. \A x \in Slots : state'[x] = IF x = curtask THEN "SendBlocked" ELSE state[x]
  BY <1>1, <1>2, <1>3 DEF TypeOK
<1>6. TypeOK'
  BY <1>1, <1>2, <1>4 DEF TypeOK
<1>7. ListsMatchStates'
  <2>1. ReadyListsOK'
    BY <1>1, <1>4 DEF ReadyListsOK, ReadyOK
  <2>2. FreeListOK'
    BY <1>1, <1>2, <1>3, <1>5 DEF FreeListOK
  <2>3. ReceiveListsOK'
    BY <1>1, <1>2, <1>3, <1>5 DEF ReceiveListsOK
  <2>4. EventListsOK'
    BY <1>1, <1>2, <1>3, <1>5 DEF EventListsOK
  <2> QED BY <2>1, <2>2, <2>3, <2>4 DEF ListsMatchStates
<1>8. RunningIsHighest'
  BY <1>1, <1>3, <1>5 DEF KernelInv, RunningIsHighest, NoTask, Slots
<1>9. TidNamesSlot'
  BY <1>1, <1>3, <1>5 DEF KernelInv, TidNamesSlot
<1>10. MsgBuffersOK'
  BY <1>1, <1>2, <1>3, <1>5 DEF KernelInv, MsgBuffersOK, TypeOK
<1>11. NoLostRendezvous'
  BY <1>1, <1>3, <1>5 DEF KernelInv, NoLostRendezvous
<1>12. EventBuffersOK'
  BY <1>1, <1>2, <1>3, <1>5 DEF KernelInv, EventBuffersOK, TypeOK
<1>13. UartInterruptsOK'
  BY <1>1 DEF KernelInv, UartInterruptsOK
<1> QED BY <1>6, <1>7, <1>8, <1>9, <1>10, <1>11, <1>12, <1>13 DEF KernelInv

\* A Receive with senders queued: the first is in no list until the Reply.
LEMMA ReceiveTakesStep == KernelInv /\ ReceiveTakes => KernelInv'
<1> SUFFICES ASSUME KernelInv, ReceiveTakes PROVE KernelInv'
  OBVIOUS
<1> DEFINE l      == receive_blocked_lists[curtask]
           sender == Head(l)
<1>1. mode = "user" /\ curtask \in Slots /\ state[curtask] = "Active" /\ Slot(tid[curtask]) = curtask
  BY Running DEF ReceiveTakes
<1>2. TypeOK /\ ReadyListsOK /\ FreeListOK /\ ReceiveListsOK /\ EventListsOK
  BY DEF KernelInv, ListsMatchStates
<1>3. l # <<>>
  BY <1>1 DEF ReceiveTakes
<1>4. /\ sender \in Slots /\ In(sender, l)
      /\ Tail(l) \in Seq(Slots) /\ NoRepeat(Tail(l))
      /\ \A x \in Slots : In(x, Tail(l)) <=> In(x, l) /\ x # sender
  BY <1>1, <1>2, <1>3, TailTask DEF TypeOK, ReceiveListsOK
<1>5. state[sender] = "ReceiveBlocked" /\ Slot(sent_to[sender]) = curtask /\ Slot(tid[sender]) = sender
  BY <1>1, <1>2, <1>4 DEF ReceiveListsOK, KernelInv, TidNamesSlot
<1>6. /\ mode' = "schedule" /\ curtask' = curtask
      /\ receive_blocked_lists' = [receive_blocked_lists EXCEPT ![curtask] = Tail(@)]
      /\ state' = [state EXCEPT ![sender] = "ReplyBlocked"]
      /\ UNCHANGED <<tid, priority, free_list, ready_list, msg, sent_to>>
      /\ UNCHANGED <<event_blocked_lists, event, tien, rien, uart1_waiting_cts>>
  BY <1>1, <1>5 DEF ReceiveTakes, tasks, events, uart
<1>7. /\ \A x \in Slots : state'[x] = IF x = sender THEN "ReplyBlocked" ELSE state[x]
      /\ \A r \in Slots : receive_blocked_lists'[r] =
           IF r = curtask THEN Tail(l) ELSE receive_blocked_lists[r]
  BY <1>1, <1>2, <1>4, <1>6 DEF TypeOK
<1>8. TypeOK'
  BY <1>1, <1>2, <1>4, <1>6 DEF TypeOK, TaskState
<1> HIDE DEF l, sender
<1>9. ListsMatchStates'
  <2>1. ReadyListsOK'
    BY <1>2, <1>4, <1>5, <1>6, <1>7 DEF ReadyListsOK
  <2>2. FreeListOK'
    BY <1>2, <1>4, <1>5, <1>6, <1>7 DEF FreeListOK
  <2>3. ReceiveListsOK'
    <3> SUFFICES ASSUME NEW r \in Slots
                 PROVE  /\ NoRepeat(receive_blocked_lists'[r])
                        /\ \A x \in Slots :
                             In(x, receive_blocked_lists'[r]) <=>
                               state'[x] = "ReceiveBlocked" /\ Slot(sent_to'[x]) = r
      BY DEF ReceiveListsOK
    <3>1. CASE r = curtask
      BY <3>1, <1>2, <1>4, <1>5, <1>6, <1>7 DEF ReceiveListsOK, l
    <3>2. CASE r # curtask
      BY <3>2, <1>2, <1>5, <1>6, <1>7 DEF ReceiveListsOK
    <3> QED BY <3>1, <3>2
  <2>4. EventListsOK'
    BY <1>1, <1>2, <1>4, <1>5, <1>6, <1>7 DEF EventListsOK
  <2> QED BY <2>1, <2>2, <2>3, <2>4 DEF ListsMatchStates
<1>10. RunningIsHighest'
  BY <1>1, <1>4, <1>5, <1>6, <1>7 DEF KernelInv, RunningIsHighest
<1>11. TidNamesSlot'
  BY <1>4, <1>5, <1>6, <1>7 DEF KernelInv, TidNamesSlot
<1>12. MsgBuffersOK'
  BY <1>2, <1>4, <1>5, <1>6, <1>7 DEF KernelInv, MsgBuffersOK, TypeOK
<1>13. NoLostRendezvous'
  BY <1>1, <1>4, <1>5, <1>6, <1>7 DEF KernelInv, NoLostRendezvous
<1>14. EventBuffersOK'
  BY <1>2, <1>4, <1>5, <1>6, <1>7 DEF KernelInv, EventBuffersOK, TypeOK
<1>15. UartInterruptsOK'
  BY <1>1, <1>6 DEF KernelInv, UartInterruptsOK
<1> QED BY <1>8, <1>9, <1>10, <1>11, <1>12, <1>13, <1>14, <1>15 DEF KernelInv

\* Reply: the sender that waited for it is Ready, and its buffer clear.
LEMMA ReplyStep ==
  ASSUME KernelInv, NEW t \in Int, SysReply(t)
  PROVE  KernelInv'
<1> DEFINE dst == Slot(t)
<1>1. /\ mode = "user" /\ mode' = "schedule" /\ curtask' = curtask
      /\ state[dst] = "ReplyBlocked"
      /\ msg' = msg \ {dst}
      /\ ready_list' = InsertTask(ready_list, dst)
      /\ state' = [state EXCEPT ![dst] = "Ready"]
      /\ sent_to' = [sent_to EXCEPT ![dst] = NoTask]
      /\ UNCHANGED <<tid, priority, free_list, receive_blocked_lists>>
      /\ UNCHANGED <<event_blocked_lists, event, tien, rien, uart1_waiting_cts>>
  BY DEF SysReply, AwaitsReply, ClearMsg, tasks, events, uart
<1>2. TypeOK /\ FreeListOK /\ ReceiveListsOK /\ EventListsOK
  BY DEF KernelInv, ListsMatchStates
<1>3. dst \in Slots /\ curtask \in Slots /\ state[curtask] = "Active"
  BY <1>1, Running, KernelAssumption DEF Slot, Slots
<1> HIDE DEF dst
<1>4. /\ ready_list' \in [Priorities -> Seq(Slots)]
      /\ state' \in [Slots -> TaskState]
      /\ ReadyOK(ready_list', state', priority)
  <2>1. ReadyOK(ready_list, state, priority)
    BY DEF KernelInv, ListsMatchStates, ReadyListsOK, ReadyOK
  <2>2. ready_list \in [Priorities -> Seq(Slots)] /\ state \in [Slots -> TaskState]
    BY <1>2 DEF TypeOK
  <2> QED BY <2>1, <2>2, <1>1, <1>3, InsertTaskOK
<1>5. /\ \A x \in Slots : state'[x] = IF x = dst THEN "Ready" ELSE state[x]
      /\ \A x \in Slots : x # dst => sent_to'[x] = sent_to[x]
  BY <1>1, <1>2, <1>3 DEF TypeOK
<1>6. TypeOK'
  BY <1>1, <1>2, <1>3, <1>4 DEF TypeOK, NoTask
<1>7. ListsMatchStates'
  <2>1. ReadyListsOK'
    BY <1>1, <1>4 DEF ReadyListsOK, ReadyOK
  <2>2. FreeListOK'
    BY <1>1, <1>2, <1>3, <1>5 DEF FreeListOK
  <2>3. ReceiveListsOK'
    BY <1>1, <1>2, <1>3, <1>5 DEF ReceiveListsOK
  <2>4. EventListsOK'
    BY <1>1, <1>2, <1>3, <1>5 DEF EventListsOK
  <2> QED BY <2>1, <2>2, <2>3, <2>4 DEF ListsMatchStates
<1>8. RunningIsHighest'
  BY <1>1, <1>3, <1>5 DEF KernelInv, RunningIsHighest
<1>9. TidNamesSlot'
  BY <1>1, <1>3, <1>5 DEF KernelInv, TidNamesSlot
<1>10. MsgBuffersOK'
  BY <1>1, <1>2, <1>3, <1>5 DEF KernelInv, MsgBuffersOK, TypeOK
<1>11. NoLostRendezvous'
  BY <1>1, <1>3, <1>5 DEF KernelInv, NoLostRendezvous
<1>12. EventBuffersOK'
  BY <1>1, <1>2, <1>3, <1>5 DEF KernelInv, EventBuffersOK, TypeOK
<1>13. UartInterruptsOK'
  BY <1>1 DEF KernelInv, UartInterruptsOK
<1> QED BY <1>6, <1>7, <1>8, <1>9, <1>10, <1>11, <1>12, <1>13 DEF KernelInv

\* AwaitEvent: the caller joins the event's list with its buffer set, and the
\* interrupt that reports the event is on or will be.
LEMMA AwaitEventStep ==
  ASSUME KernelInv, NEW e \in Awaited, NEW buf \in Buffers(e), SysAwaitEvent(e, buf)
  PROVE  KernelInv'
<1>1. /\ mode = "user" /\ mode' = "schedule" /\ curtask' = NoTask
      /\ event' = IF buf = "NULL" THEN event ELSE event \cup {Slot(tid[curtask])}
      /\ ready_list' = DropCurtask
      /\ state' = [state EXCEPT ![curtask] = "EventBlocked"]
      /\ event_blocked_lists' = [event_blocked_lists EXCEPT ![e] = Append(@, curtask)]
      /\ tien' = TienAwaited(e)
      /\ rien' = rien \cup { u \in Uarts : RxEvent(u) = e }
      /\ UNCHANGED <<tid, priority, free_list, receive_blocked_lists, msg, sent_to>>
      /\ UNCHANGED uart1_waiting_cts
  BY DEF SysAwaitEvent, BlockCurtask, tasks, ipc
<1>2. TypeOK /\ FreeListOK /\ ReceiveListsOK /\ EventListsOK
  BY DEF KernelInv, ListsMatchStates
<1>3. curtask \in Slots /\ state[curtask] = "Active" /\ Slot(tid[curtask]) = curtask
  BY <1>1, Running
<1>4. e \in Events
  BY KernelAssumption DEF Events
<1>5. /\ ready_list' \in [Priorities -> Seq(Slots)]
      /\ state' \in [Slots -> TaskState]
      /\ ReadyOK(ready_list', state', priority)
  <2>1. "EventBlocked" \in TaskState \ {"Ready", "Active"}
    BY DEF TaskState
  <2> QED BY <2>1, <1>1, DropCurtaskOK
<1> DEFINE l == event_blocked_lists[e]
<1>6. /\ Append(l, curtask) \in Seq(Slots) /\ NoRepeat(Append(l, curtask))
      /\ \A x \in Slots : In(x, Append(l, curtask)) <=> In(x, l) \/ x = curtask
  <2>1. l \in Seq(Slots) /\ NoRepeat(l) /\ ~In(curtask, l)
    BY <1>2, <1>3, <1>4 DEF TypeOK, EventListsOK
  <2> QED BY <2>1, <1>3, AppendTask
<1>7. /\ \A x \in Slots : state'[x] = IF x = curtask THEN "EventBlocked" ELSE state[x]
      /\ \A f \in Events : event_blocked_lists'[f] =
           IF f = e THEN Append(l, curtask) ELSE event_blocked_lists[f]
      /\ event \in SUBSET Slots /\ msg \in SUBSET Slots
      /\ event' = IF buf = "NULL" THEN event ELSE event \cup {curtask}
  BY <1>1, <1>2, <1>3, <1>4 DEF TypeOK
<1>8. TypeOK'
  BY <1>1, <1>2, <1>3, <1>4, <1>5, <1>6 DEF TypeOK, TienAwaited
<1>9. UartInterruptsOK'
  <2>1. UartInterruptsOK /\ \A u \in Uarts : RxEvent(u) \in Events /\ TxEvent(u) \in Events
    BY DEF KernelInv, Events, EVENT_MAX, Uarts, RxEvent, TxEvent, EVENT_COM1_TX,
           EVENT_COM1_RX, EVENT_COM2_TX, EVENT_COM2_RX
  <2>2. ASSUME event_blocked_lists'[EVENT_COM1_TX] # <<>>
        PROVE  1 \in tien' \/ uart1_waiting_cts'
    BY <2>1, <2>2, <1>1, <1>7 DEF UartInterruptsOK, Uarts, TxEvent, TienAwaited
  <2>3. ASSUME NEW u \in Uarts, event_blocked_lists'[RxEvent(u)] # <<>>
        PROVE  u \in rien'
    BY <2>1, <2>3, <1>1, <1>7 DEF UartInterruptsOK
  <2>4. ASSUME NEW u \in tien' PROVE event_blocked_lists'[TxEvent(u)] # <<>>
    <3>1. u \in Uarts /\ (u \in tien \/ TxEvent(u) = e)
      <4>1. tien' = tien \cup { v \in Uarts : TxEvent(v) = e /\ ~(v = 1 /\ uart1_waiting_cts) }
        BY <1>1 DEF TienAwaited
      <4>2. tien \in SUBSET Uarts
        BY <1>2 DEF TypeOK
      <4> QED BY <2>4, <4>1, <4>2
    <3>2. Append(l, curtask) # <<>>
      BY <1>3, <1>6, InNotEmpty
    <3>3. CASE TxEvent(u) = e
      BY <3>2, <3>3, <1>4, <1>7
    <3>4. CASE u \in tien /\ TxEvent(u) # e
      BY <3>1, <3>4, <2>1, <1>1, <1>7 DEF UartInterruptsOK
    <3> QED BY <3>1, <3>3, <3>4
  <2> QED BY <2>2, <2>3, <2>4 DEF UartInterruptsOK
<1> HIDE DEF l
<1>10. ListsMatchStates'
  <2>1. ReadyListsOK'
    BY <1>1, <1>5 DEF ReadyListsOK, ReadyOK
  <2>2. FreeListOK'
    BY <1>1, <1>2, <1>3, <1>7 DEF FreeListOK
  <2>3. ReceiveListsOK'
    BY <1>1, <1>2, <1>3, <1>7 DEF ReceiveListsOK
  <2>4. EventListsOK'
    <3>1. \A x \in Slots : state'[x] = "EventBlocked" =>
            \E f \in Events : In(x, event_blocked_lists'[f])
      BY <1>1, <1>2, <1>3, <1>4, <1>6, <1>7 DEF EventListsOK, l
    <3>2. ASSUME NEW f \in Events PROVE NoRepeat(event_blocked_lists'[f])
      BY <1>2, <1>6, <1>7 DEF EventListsOK
    <3>3. ASSUME NEW f \in Events, NEW x \in Slots
          PROVE  In(x, event_blocked_lists'[f]) <=>
                   In(x, event_blocked_lists[f]) \/ (x = curtask /\ f = e)
      BY <1>6, <1>7 DEF l
    <3>4. \A f \in Events, x \in Slots : In(x, event_blocked_lists[f]) =>
            state[x] = "EventBlocked" /\ \A g \in Events : In(x, event_blocked_lists[g]) => g = f
      BY <1>2 DEF EventListsOK
    <3>5. ASSUME NEW f \in Events, NEW x \in Slots, In(x, event_blocked_lists'[f])
          PROVE  /\ state'[x] = "EventBlocked"
                 /\ \A g \in Events : In(x, event_blocked_lists'[g]) => g = f
      BY <3>3, <3>4, <3>5, <1>3, <1>7
    <3> QED BY <3>1, <3>2, <3>5 DEF EventListsOK
  <2> QED BY <2>1, <2>2, <2>3, <2>4 DEF ListsMatchStates
<1>11. RunningIsHighest'
  BY <1>1, <1>3, <1>7 DEF KernelInv, RunningIsHighest, NoTask, Slots
<1>12. TidNamesSlot'
  BY <1>1, <1>3, <1>7 DEF KernelInv, TidNamesSlot
<1>13. MsgBuffersOK'
  BY <1>1, <1>3, <1>7 DEF KernelInv, MsgBuffersOK
<1>14. NoLostRendezvous'
  BY <1>1, <1>3, <1>7 DEF KernelInv, NoLostRendezvous
<1>15. EventBuffersOK'
  <2>1. EventBuffersOK
    BY DEF KernelInv
  <2>2. ASSUME NEW f \in Events \ {EVENT_TIME_ELAP}, NEW x \in Slots,
               In(x, event_blocked_lists'[f])
        PROVE  x \in event'
    BY <2>1, <2>2, <1>6, <1>7 DEF EventBuffersOK, Buffers, l
  <2>3. \A x \in event' : state'[x] = "EventBlocked" \/ tid'[x] >= TASK_MAX
    BY <2>1, <1>1, <1>3, <1>7 DEF EventBuffersOK
  <2> QED BY <2>2, <2>3 DEF EventBuffersOK
<1> QED BY <1>8, <1>9, <1>10, <1>11, <1>12, <1>13, <1>14, <1>15 DEF KernelInv

\* The first task of an event's list, and the list without it, in any handler
\* that pops it: the list loses that task only, and the task is in no other.
LEMMA PopFirstOK ==
  ASSUME KernelInv, NEW e \in Events, event_blocked_lists[e] # <<>>
  PROVE  LET h == Head(event_blocked_lists[e]) IN
         /\ h \in Slots /\ state[h] = "EventBlocked" /\ Slot(tid[h]) = h
         /\ PopFirst(e) \in [Events -> Seq(Slots)]
         /\ \A f \in Events : NoRepeat(PopFirst(e)[f])
         /\ \A f \in Events : event_blocked_lists[f] = <<>> => PopFirst(e)[f] = <<>>
         /\ \A f \in Events \ {e} : PopFirst(e)[f] = event_blocked_lists[f]
         /\ \A f \in Events, x \in Slots :
              In(x, PopFirst(e)[f]) <=> In(x, event_blocked_lists[f]) /\ x # h
<1> DEFINE l == event_blocked_lists[e]
           h == Head(l)
<1>1. /\ event_blocked_lists \in [Events -> Seq(Slots)]
      /\ EventListsOK
  BY DEF KernelInv, TypeOK, ListsMatchStates
<1>2. /\ h \in Slots /\ In(h, l)
      /\ Tail(l) \in Seq(Slots) /\ NoRepeat(Tail(l))
      /\ \A x \in Slots : In(x, Tail(l)) <=> In(x, l) /\ x # h
  BY <1>1, TailTask DEF EventListsOK
<1> HIDE DEF h
<1>3. /\ state[h] = "EventBlocked" /\ Slot(tid[h]) = h
      /\ \A f \in Events : In(h, event_blocked_lists[f]) => f = e
  BY <1>1, <1>2 DEF EventListsOK, KernelInv, TidNamesSlot
<1>4. \A f \in Events : PopFirst(e)[f] = IF f = e THEN Tail(l) ELSE event_blocked_lists[f]
  BY <1>1 DEF PopFirst
<1>5. PopFirst(e) \in [Events -> Seq(Slots)]
  BY <1>1, <1>2 DEF PopFirst
<1>6. \A f \in Events : NoRepeat(PopFirst(e)[f])
  BY <1>1, <1>2, <1>4 DEF EventListsOK
<1>7. /\ \A f \in Events : event_blocked_lists[f] = <<>> => PopFirst(e)[f] = <<>>
      /\ \A f \in Events \ {e} : PopFirst(e)[f] = event_blocked_lists[f]
  BY <1>4
<1>8. \A f \in Events, x \in Slots :
        In(x, PopFirst(e)[f]) <=> In(x, event_blocked_lists[f]) /\ x # h
  BY <1>2, <1>3, <1>4
<1> QED BY <1>2, <1>3, <1>5, <1>6, <1>7, <1>8 DEF h

\* An interrupt that wakes the first task of an event's list: the task leaves
\* the list and is Ready in the list of its priority.
LEMMA WakeFirstStep ==
  ASSUME KernelInv, NEW e \in Events, event_blocked_lists[e] # <<>>, WakeFirst(e),
         UNCHANGED <<tid, priority, free_list, curtask>>,
         UNCHANGED <<receive_blocked_lists, msg, sent_to>>,
         mode # "stopped", mode' \in {"schedule", "timer"},
         tien' \in SUBSET Uarts, rien' \in SUBSET Uarts, uart1_waiting_cts' \in BOOLEAN,
         UartInterruptsOK'
  PROVE  KernelInv'
<1> DEFINE h == Head(event_blocked_lists[e])
<1>1. /\ h \in Slots /\ state[h] = "EventBlocked" /\ Slot(tid[h]) = h
      /\ PopFirst(e) \in [Events -> Seq(Slots)]
      /\ \A f \in Events : NoRepeat(PopFirst(e)[f])
      /\ \A f \in Events, x \in Slots :
           In(x, PopFirst(e)[f]) <=> In(x, event_blocked_lists[f]) /\ x # h
  BY PopFirstOK
<1>2. /\ event_blocked_lists' = PopFirst(e)
      /\ event' = event \ {tid[h]}
      /\ ready_list' = InsertTask(ready_list, h)
      /\ state' = [state EXCEPT ![h] = "Ready"]
  BY <1>1 DEF WakeFirst, ClearEvent
<1> HIDE DEF h
<1>3. TypeOK /\ ReadyListsOK /\ FreeListOK /\ ReceiveListsOK /\ EventListsOK
  BY DEF KernelInv, ListsMatchStates
<1>4. /\ ready_list' \in [Priorities -> Seq(Slots)]
      /\ state' \in [Slots -> TaskState]
      /\ ReadyOK(ready_list', state', priority)
  <2>1. ReadyOK(ready_list, state, priority)
    BY <1>3 DEF ReadyListsOK, ReadyOK
  <2>2. ready_list \in [Priorities -> Seq(Slots)] /\ state \in [Slots -> TaskState]
    BY <1>3 DEF TypeOK
  <2> QED BY <2>1, <2>2, <1>1, <1>2, InsertTaskOK
<1>5. /\ \A x \in Slots : state'[x] = IF x = h THEN "Ready" ELSE state[x]
      /\ event \in SUBSET Slots /\ msg \in SUBSET Slots
  BY <1>1, <1>2, <1>3 DEF TypeOK
<1>6. TypeOK'
  BY <1>1, <1>2, <1>3, <1>4 DEF TypeOK
<1>7. ListsMatchStates'
  <2>1. ReadyListsOK'
    BY <1>4 DEF ReadyListsOK, ReadyOK
  <2>2. FreeListOK'
    BY <1>1, <1>3, <1>5 DEF FreeListOK
  <2>3. ReceiveListsOK'
    BY <1>1, <1>3, <1>5 DEF ReceiveListsOK
  <2>4. EventListsOK'
    BY <1>1, <1>2, <1>3, <1>5 DEF EventListsOK
  <2> QED BY <2>1, <2>2, <2>3, <2>4 DEF ListsMatchStates
<1>8. RunningIsHighest'
  BY <1>1, <1>5 DEF KernelInv, RunningIsHighest
<1>9. TidNamesSlot'
  BY <1>1, <1>5 DEF KernelInv, TidNamesSlot
<1>10. MsgBuffersOK' /\ NoLostRendezvous'
  BY <1>1, <1>5 DEF KernelInv, MsgBuffersOK, NoLostRendezvous
\* The buffer cleared is that of the task woken, or no task's at all.
<1>11. EventBuffersOK'
  <2>1. /\ EventBuffersOK
        /\ \A x \in Slots : Slot(tid[x]) = x /\ tid[x] \in Int
        /\ tid[h] >= 0
    BY <1>1, <1>3 DEF KernelInv, TidNamesSlot, TypeOK
  <2>2. tid[h] = h \/ tid[h] >= TASK_MAX
    <3>1. ASSUME tid[h] < TASK_MAX PROVE tid[h] = h
      <4>1. tid[h] \in 0 .. TASK_MAX - 1
        BY <2>1, <3>1, <1>1, KernelAssumption
      <4> QED BY <4>1, <2>1, <1>1, SlotSmall, KernelAssumption DEF Slot
    <3> QED BY <3>1, <2>1, <1>1, KernelAssumption
  <2>3. \A x \in Slots : x \in Int /\ x < TASK_MAX
    BY KernelAssumption DEF Slots
  <2>4. \A x \in Slots : x # h => (x \in event' <=> x \in event)
    BY <2>2, <2>3, <1>2, <2>1, <1>1, KernelAssumption
  <2>5. h \in event' => tid[h] >= TASK_MAX
    BY <2>2, <1>2
  <2>6. event' \subseteq event
    BY <1>2
  <2> QED BY <2>1, <2>4, <2>5, <2>6, <1>1, <1>2, <1>5 DEF EventBuffersOK
<1> QED BY <1>6, <1>7, <1>8, <1>9, <1>10, <1>11 DEF KernelInv

\* The interrupts that wake a task, and the interrupt enables they change.
LEMMA WakingIrqStep ==
  ASSUME KernelInv, NEW u \in Uarts, TimerLoop \/ RxIrq(u) \/ TxIrq(u)
  PROVE  KernelInv'
<1>1. /\ EVENT_TIME_ELAP \in Events /\ RxEvent(u) \in Events /\ TxEvent(u) \in Events
      /\ EVENT_COM1_TX \in Events
      /\ \A v \in Uarts : RxEvent(v) \in Events /\ TxEvent(v) \in Events
  BY DEF Events, EVENT_MAX, Uarts, RxEvent, TxEvent, EVENT_TIME_ELAP, EVENT_COM1_TX,
         EVENT_COM1_RX, EVENT_COM2_TX, EVENT_COM2_RX
<1>2. /\ tien \in SUBSET Uarts /\ rien \in SUBSET Uarts /\ uart1_waiting_cts \in BOOLEAN
      /\ UartInterruptsOK
  BY DEF KernelInv, TypeOK
\* A list that was empty stays so, and only the list of the event changes.
<1>3. ASSUME NEW e \in Events, event_blocked_lists[e] # <<>>, WakeFirst(e),
             rien' = rien, mode # "stopped",
             1 \in tien => 1 \in tien' \/ uart1_waiting_cts',
             uart1_waiting_cts => uart1_waiting_cts',
             \A v \in tien' : v \in tien /\ TxEvent(v) # e
      PROVE  UartInterruptsOK'
  <2>1. /\ \A f \in Events : event_blocked_lists[f] = <<>> => event_blocked_lists'[f] = <<>>
        /\ \A f \in Events \ {e} : event_blocked_lists'[f] = event_blocked_lists[f]
    BY <1>3, PopFirstOK DEF WakeFirst
  <2>2. \A v \in tien' : event_blocked_lists'[TxEvent(v)] # <<>>
    BY <2>1, <1>1, <1>2, <1>3 DEF UartInterruptsOK
  <2> QED BY <2>1, <2>2, <1>1, <1>2, <1>3 DEF UartInterruptsOK
<1>4. CASE TimerLoop
  <2>1. /\ WakeFirst(EVENT_TIME_ELAP) /\ event_blocked_lists[EVENT_TIME_ELAP] # <<>>
        /\ UNCHANGED <<tien, rien, uart1_waiting_cts>> /\ mode = "timer"
    BY <1>4 DEF TimerLoop, uart
  <2>2. \A v \in Uarts : TxEvent(v) # EVENT_TIME_ELAP
    BY DEF TxEvent, EVENT_TIME_ELAP, EVENT_COM1_TX, EVENT_COM2_TX
  <2>3. UartInterruptsOK'
    BY <2>1, <2>2, <1>1, <1>2, <1>3
  <2> QED BY <2>1, <2>3, <1>1, <1>2, <1>4, WakeFirstStep DEF TimerLoop, tasks, ipc
<1>5. CASE RxIrq(u)
  <2>1. /\ WakeFirst(RxEvent(u)) /\ event_blocked_lists[RxEvent(u)] # <<>>
        /\ UNCHANGED <<tien, rien, uart1_waiting_cts>> /\ mode = "user"
    BY <1>5 DEF RxIrq, uart
  <2>2. \A v \in Uarts : TxEvent(v) # RxEvent(u)
    BY DEF Uarts, TxEvent, RxEvent, EVENT_COM1_RX, EVENT_COM2_RX, EVENT_COM1_TX, EVENT_COM2_TX
  <2>3. UartInterruptsOK'
    BY <2>1, <2>2, <1>1, <1>2, <1>3
  <2> QED BY <2>1, <2>3, <1>1, <1>2, <1>5, WakeFirstStep DEF RxIrq, tasks, ipc
<1>6. CASE TxIrq(u)
  <2>1. /\ WakeFirst(TxEvent(u)) /\ event_blocked_lists[TxEvent(u)] # <<>>
        /\ tien' = tien \ {u} /\ uart1_waiting_cts' = (u = 1 \/ uart1_waiting_cts)
        /\ rien' = rien /\ mode = "user" /\ mode' = "schedule"
        /\ UNCHANGED <<tid, priority, free_list, curtask, receive_blocked_lists, msg, sent_to>>
    BY <1>6 DEF TxIrq, tasks, ipc
  <2>2. \A v \in Uarts : TxEvent(v) = TxEvent(u) => v = u
    BY DEF Uarts, TxEvent, EVENT_COM1_TX, EVENT_COM2_TX
  <2>3. UartInterruptsOK'
    <3>1. 1 \in tien => 1 \in tien' \/ uart1_waiting_cts'
      BY <2>1
    <3>2. \A v \in tien' : v \in tien /\ TxEvent(v) # TxEvent(u)
      BY <2>1, <2>2, <1>2
    <3>3. uart1_waiting_cts => uart1_waiting_cts'
      BY <2>1
    <3> QED BY <3>1, <3>2, <3>3, <2>1, <1>1, <1>3
  <2>4. tien' \in SUBSET Uarts /\ rien' \in SUBSET Uarts /\ uart1_waiting_cts' \in BOOLEAN
    BY <2>1, <1>2
  <2> QED BY <2>1, <2>3, <2>4, <1>1, WakeFirstStep
<1> QED BY <1>4, <1>5, <1>6

\* The UART handler's assert, which stops the system after the task has left
\* its event's list.
LEMMA UartAssertFailsStep ==
  ASSUME KernelInv, NEW u \in Uarts, UartAssertFails(u)
  PROVE  KernelInv'
<1>1. PICK e \in {RxEvent(u), TxEvent(u)} :
        event_blocked_lists[e] # <<>> /\ event_blocked_lists' = PopFirst(e)
  BY DEF UartAssertFails
<1>2. /\ e \in Events /\ EVENT_COM1_TX \in Events
      /\ \A v \in Uarts : RxEvent(v) \in Events
  BY DEF Events, EVENT_MAX, Uarts, RxEvent, TxEvent, EVENT_COM1_TX,
         EVENT_COM1_RX, EVENT_COM2_TX, EVENT_COM2_RX
<1> DEFINE h == Head(event_blocked_lists[e])
<1>3. /\ event_blocked_lists' \in [Events -> Seq(Slots)]
      /\ \A f \in Events : NoRepeat(event_blocked_lists'[f])
      /\ \A f \in Events : event_blocked_lists[f] = <<>> => event_blocked_lists'[f] = <<>>
      /\ \A f \in Events, x \in Slots :
           In(x, event_blocked_lists'[f]) <=> In(x, event_blocked_lists[f]) /\ x # h
  BY <1>1, <1>2, PopFirstOK
<1> HIDE DEF h
<1>4. /\ mode' = "stopped" /\ curtask' = NoTask
      /\ UNCHANGED <<tid, priority, free_list, state, ready_list>>
      /\ UNCHANGED <<receive_blocked_lists, msg, sent_to, event>>
      /\ UNCHANGED <<tien, rien, uart1_waiting_cts>>
  BY DEF UartAssertFails, tasks, ipc, uart
<1>5. TypeOK'
  BY <1>3, <1>4 DEF KernelInv, TypeOK
<1>6. ListsMatchStates'
  <2>1. ReadyListsOK' /\ FreeListOK' /\ ReceiveListsOK'
    BY <1>4 DEF KernelInv, ListsMatchStates, ReadyListsOK, FreeListOK, ReceiveListsOK
  <2>2. EventListsOK'
    BY <1>3, <1>4 DEF KernelInv, ListsMatchStates, EventListsOK
  <2> QED BY <2>1, <2>2 DEF ListsMatchStates
<1>7. RunningIsHighest' /\ TidNamesSlot'
  BY <1>4 DEF KernelInv, RunningIsHighest, TidNamesSlot
<1>8. MsgBuffersOK' /\ EventBuffersOK' /\ NoLostRendezvous'
  BY <1>3, <1>4 DEF KernelInv, MsgBuffersOK, EventBuffersOK, NoLostRendezvous
<1>9. UartInterruptsOK'
  BY <1>2, <1>3, <1>4 DEF KernelInv, UartInterruptsOK
<1> QED BY <1>5, <1>6, <1>7, <1>8, <1>9 DEF KernelInv

\* A stuttering step preserves the invariant.
LEMMA StutterStep == KernelInv /\ UNCHANGED vars => KernelInv'
<1> SUFFICES ASSUME KernelInv, UNCHANGED vars PROVE KernelInv'
  OBVIOUS
<1>1. /\ UNCHANGED <<tid, state, priority, ready_list, free_list>>
      /\ UNCHANGED <<receive_blocked_lists, event_blocked_lists, curtask, msg, event>>
      /\ UNCHANGED <<tien, rien, uart1_waiting_cts, mode, sent_to>>
  BY DEF vars, tasks, ipc, events, uart
<1>2. TypeOK' /\ RunningIsHighest' /\ TidNamesSlot'
  BY <1>1 DEF KernelInv, TypeOK, RunningIsHighest, TidNamesSlot
<1>3. ListsMatchStates'
  BY <1>1 DEF KernelInv, ListsMatchStates, ReadyListsOK, FreeListOK, ReceiveListsOK, EventListsOK
<1>4. MsgBuffersOK' /\ EventBuffersOK' /\ NoLostRendezvous' /\ UartInterruptsOK'
  BY <1>1 DEF KernelInv, MsgBuffersOK, EventBuffersOK, NoLostRendezvous, UartInterruptsOK
<1> QED BY <1>2, <1>3, <1>4 DEF KernelInv

\* Every step of the kernel preserves the invariant.
LEMMA KernelNext == KernelInv /\ [Next]_vars => KernelInv'
<1> SUFFICES ASSUME KernelInv, [Next]_vars PROVE KernelInv'
  OBVIOUS
<1>1. CASE UNCHANGED vars
  BY <1>1, StutterStep
<1>2. CASE ScheduleNextTask
  BY <1>2, ScheduleStep
<1>3. CASE Syscall
  <2>1. CASE Pass \/ \E t \in TidArgs : SendRejected(t) \/ ReplyRejected(t)
    <3>1. ReturnToLoop
      BY <2>1 DEF Pass, SendRejected, ReplyRejected
    <3> QED BY <3>1, ReturnToLoopStep
  <2>2. CASE \/ SysHalt \/ CreateOutOfDescriptors \/ CreateTidOverflows
            \/ AwaitEventAssertFails
    <3>1. StopSystem
      BY <2>2 DEF SysHalt, CreateOutOfDescriptors, CreateTidOverflows, AwaitEventAssertFails
    <3> QED BY <3>1, StopSystemStep
  <2>3. CASE SysExit
    BY <2>3, ExitStep
  <2>4. CASE \E p \in Priorities : SysCreate(p)
    BY <2>4, CreateStep
  <2>5. CASE \E t \in TidArgs : SendDelivered(t) \/ SendQueued(t) \/ SysReply(t)
    <3>1. PICK t \in Int : SendDelivered(t) \/ SendQueued(t) \/ SysReply(t)
      BY <2>5, KernelAssumption DEF TidArgs
    <3> QED BY <3>1, SendDeliveredStep, SendQueuedStep, ReplyStep
  <2>6. CASE ReceiveBlocks
    BY <2>6, ReceiveBlocksStep
  <2>7. CASE ReceiveTakes
    BY <2>7, ReceiveTakesStep
  <2>8. CASE \E e \in Awaited : \E buf \in Buffers(e) : SysAwaitEvent(e, buf)
    BY <2>8, AwaitEventStep
  <2> QED BY <1>3, <2>1, <2>2, <2>3, <2>4, <2>5, <2>6, <2>7, <2>8 DEF Syscall
<1>4. CASE Irq
  <2>1. Connected \subseteq Uarts /\ 1 \in Uarts
    BY KernelAssumption DEF Uarts
  <2>2. CASE TimerIrq \/ TimerDone
    BY <2>2, TimerQuietStep
  <2>3. CASE TimerLoop
    BY <2>1, <2>3, WakingIrqStep
  <2>4. CASE \E u \in Connected : CtsIrq(u)
    BY <2>1, <2>4, UartQuietStep DEF CtsIrq
  <2>5. CASE \E u \in Connected : RxIrqNoWaiter(u)
    BY <2>1, <2>5, UartQuietStep
  <2>6. CASE \E u \in Connected : RxIrq(u) \/ TxIrq(u)
    BY <2>1, <2>6, WakingIrqStep
  <2>7. CASE \E u \in Connected : UartAssertFails(u)
    BY <2>1, <2>7, UartAssertFailsStep
  <2> QED BY <1>4, <2>2, <2>3, <2>4, <2>5, <2>6, <2>7 DEF Irq
<1>5. CASE Stopped
  BY <1>5, StutterStep DEF Stopped
<1> QED BY <1>1, <1>2, <1>3, <1>4, <1>5 DEF Next
-----------------------------------------------------------------------------
(* The theorems.                                                           *)

\* The kernel keeps its inductive invariant, whatever its tasks call and in
\* whatever order interrupts come.
THEOREM KernelInvariant == Spec => []KernelInv
<1> QED BY KernelInit, KernelNext, PTL DEF Spec

\* Every table of the kernel keeps its type: curtask and every linked task are
\* descriptors of task_array, every index of a list is in range.
THEOREM TypeCorrect == Spec => []TypeOK
<1>1. KernelInv => TypeOK
  BY DEF KernelInv
<1> QED BY <1>1, KernelInvariant, PTL

\* No task is lost from the kernel's lists or linked into two of them
\* (insertTask, removeCurrentTask, blockCurrentTask and the blocked lists).
THEOREM ListsCorrect == Spec => []ListsMatchStates
<1>1. KernelInv => ListsMatchStates
  BY DEF KernelInv
<1> QED BY <1>1, KernelInvariant, PTL

\* A task that waits for an event is in that event's list and in no other
\* (sysAwaitEvent, timerIrqHandler, uartIrqHandler).
THEOREM EventListsCorrect == Spec => []EventListsOK
<1>1. KernelInv => EventListsOK
  BY DEF KernelInv, ListsMatchStates
<1> QED BY <1>1, KernelInvariant, PTL

\* Whenever a task runs it is the head of the list of the highest priority
\* with a ready task, and the only Active one (scheduleNextTask).
THEOREM SchedulingCorrect == Spec => []RunningIsHighest
<1>1. KernelInv => RunningIsHighest
  BY DEF KernelInv
<1> QED BY <1>1, KernelInvariant, PTL

\* tid % TASK_MAX finds a task's own descriptor, however often descriptors are
\* recycled: no task gets a tid that has overflowed, because the system stops
\* before (createTask).
THEOREM TidsCorrect == Spec => []TidNamesSlot
<1>1. KernelInv => TidNamesSlot
  BY DEF KernelInv
<1> QED BY <1>1, KernelInvariant, PTL

\* The asserts of sysSend and sysReceive on the message buffers never fail.
THEOREM MsgBuffersCorrect == Spec => []MsgBuffersOK
<1>1. KernelInv => MsgBuffersOK
  BY DEF KernelInv
<1> QED BY <1>1, KernelInvariant, PTL

\* A receiver never sleeps while a sender is queued behind it (sysSend,
\* sysReceive).
THEOREM RendezvousCorrect == Spec => []NoLostRendezvous
<1>1. KernelInv => NoLostRendezvous
  BY DEF KernelInv
<1> QED BY <1>1, KernelInvariant, PTL

\* A task that waits for a UART has its buffer set, and only a recycled
\* descriptor keeps one that nobody cleared (sysAwaitEvent, irq.c).
THEOREM EventBuffersCorrect == Spec => []EventBuffersOK
<1>1. KernelInv => EventBuffersOK
  BY DEF KernelInv
<1> QED BY <1>1, KernelInvariant, PTL

\* A step that turns off no interrupt of COM2 and gives nobody a wait for it.
LEMMA KeepsTx ==
  ASSUME 2 \in tien => 2 \in tien',
         event_blocked_lists[EVENT_COM2_TX] = <<>> => event_blocked_lists'[EVENT_COM2_TX] = <<>>
  PROVE  FirstKeepsTx
BY DEF FirstKeepsTx

\* AwaitEvent: whoever comes to wait for COM2_TX has the interrupt enabled.
LEMMA AwaitKeepsTx ==
  ASSUME KernelInv, NEW e \in Awaited, NEW buf \in Buffers(e), SysAwaitEvent(e, buf)
  PROVE  FirstKeepsTx
<1>1. /\ event_blocked_lists' = [event_blocked_lists EXCEPT ![e] = Append(@, curtask)]
      /\ tien' = TienAwaited(e)
      /\ event_blocked_lists \in [Events -> Seq(Slots)]
  BY DEF SysAwaitEvent, KernelInv, TypeOK
<1>2. CASE e = EVENT_COM2_TX
  <2>1. 2 \in Uarts /\ TxEvent(2) = e /\ 2 # 1
    BY <1>2 DEF Uarts, TxEvent
  <2>2. 2 \in tien'
    BY <1>1, <2>1 DEF TienAwaited
  <2> QED BY <2>2 DEF FirstKeepsTx
<1>3. CASE e # EVENT_COM2_TX
  <2>1. event_blocked_lists'[EVENT_COM2_TX] = event_blocked_lists[EVENT_COM2_TX]
    BY <1>1, <1>3
  <2>2. 2 \in tien => 2 \in tien'
    BY <1>1 DEF TienAwaited
  <2> QED BY <2>1, <2>2, KeepsTx
<1> QED BY <1>2, <1>3

\* The TX interrupt of COM2 is turned off only when the first waiter is woken.
LEMMA TxIrqKeepsTx ==
  ASSUME KernelInv, TxIrq(2)
  PROVE  FirstKeepsTx
<1> DEFINE before == event_blocked_lists[EVENT_COM2_TX]
<1>1. EVENT_COM2_TX \in Events /\ TxEvent(2) = EVENT_COM2_TX
  BY DEF Events, EVENT_MAX, TxEvent, EVENT_COM2_TX
<1>2. before # <<>> /\ event_blocked_lists' = PopFirst(EVENT_COM2_TX)
  BY <1>1 DEF TxIrq, WakeFirst
<1>3. before \in Seq(Slots) /\ NoRepeat(before) /\ event_blocked_lists \in [Events -> Seq(Slots)]
  BY <1>1 DEF KernelInv, TypeOK, ListsMatchStates, EventListsOK
<1>4. event_blocked_lists'[EVENT_COM2_TX] = Tail(before)
  BY <1>1, <1>2, <1>3 DEF PopFirst
<1>5. ASSUME Tail(before) # <<>> PROVE Head(Tail(before)) # Head(before)
  <2>1. /\ Head(before) \in Slots
        /\ Tail(before) \in Seq(Slots)
        /\ \A x \in Slots : In(x, Tail(before)) <=> In(x, before) /\ x # Head(before)
    BY <1>2, <1>3, TailTask
  <2>2. Head(Tail(before)) \in Slots /\ In(Head(Tail(before)), Tail(before))
    <3> DEFINE t == Tail(before)
    <3>1. t \in Seq(Slots) /\ t # <<>>
      BY <2>1, <1>5
    <3> HIDE DEF t
    <3>2. 1 \in 1 .. Len(t) /\ Head(t) = t[1] /\ t[1] \in Slots
      BY <3>1
    <3>3. Head(t) \in Slots /\ In(Head(t), t)
      BY <3>2 DEF In
    <3> QED BY <3>3 DEF t
  <2> QED BY <2>1, <2>2
<1> HIDE DEF before
<1>6. before = event_blocked_lists[EVENT_COM2_TX]
  BY DEF before
<1> QED BY <1>2, <1>4, <1>5, <1>6 DEF FirstKeepsTx

\* A wait for COM2_TX that began when nobody waited is never cut off.
LEMMA StepKeepsTx == KernelInv /\ [Next]_vars => FirstKeepsTx
<1> SUFFICES ASSUME KernelInv, [Next]_vars PROVE FirstKeepsTx
  OBVIOUS
<1>1. event_blocked_lists \in [Events -> Seq(Slots)] /\ EVENT_COM2_TX \in Events
      /\ Connected \subseteq Uarts
  BY KernelAssumption DEF KernelInv, TypeOK, Events, EVENT_MAX, EVENT_COM2_TX, Uarts
<1>2. CASE UNCHANGED <<event_blocked_lists, tien>>
  BY <1>2, KeepsTx
<1>3. CASE \E e \in Awaited : \E buf \in Buffers(e) : SysAwaitEvent(e, buf)
  BY <1>3, AwaitKeepsTx
<1>4. ASSUME NEW e \in Events, event_blocked_lists[e] # <<>>,
             event_blocked_lists' = PopFirst(e), 2 \in tien => 2 \in tien'
      PROVE  FirstKeepsTx
  BY <1>1, <1>4, PopFirstOK, KeepsTx
<1>5. CASE TimerLoop \/ \E u \in Connected : RxIrq(u) \/ TxIrq(u)
  <2>1. CASE TimerLoop
    <3>1. EVENT_TIME_ELAP \in Events
      BY DEF Events, EVENT_MAX, EVENT_TIME_ELAP
    <3> QED BY <2>1, <3>1, <1>4 DEF TimerLoop, WakeFirst, uart
  <2>2. ASSUME NEW u \in Connected, RxIrq(u) PROVE FirstKeepsTx
    <3>1. RxEvent(u) \in Events
      BY DEF Events, EVENT_MAX, RxEvent, EVENT_COM1_RX, EVENT_COM2_RX
    <3> QED BY <2>2, <3>1, <1>4 DEF RxIrq, WakeFirst, uart
  <2>3. ASSUME NEW u \in Connected, TxIrq(u) PROVE FirstKeepsTx
    <3>1. CASE u = 2
      BY <2>3, <3>1, TxIrqKeepsTx
    <3>2. CASE u = 1
      <4>1. TxEvent(u) \in Events
        BY DEF Events, EVENT_MAX, TxEvent, EVENT_COM1_TX, EVENT_COM2_TX
      <4> QED BY <2>3, <3>2, <4>1, <1>4 DEF TxIrq, WakeFirst
    <3> QED BY <3>1, <3>2, <1>1 DEF Uarts
  <2> QED BY <1>5, <2>1, <2>2, <2>3
<1>6. CASE \E u \in Connected : UartAssertFails(u)
  <2>1. PICK u \in Connected : UartAssertFails(u)
    BY <1>6
  <2>2. PICK e \in {RxEvent(u), TxEvent(u)} :
          event_blocked_lists[e] # <<>> /\ event_blocked_lists' = PopFirst(e) /\ tien' = tien
    BY <2>1 DEF UartAssertFails, uart
  <2>3. e \in Events
    BY DEF Events, EVENT_MAX, RxEvent, TxEvent, EVENT_COM1_TX, EVENT_COM1_RX,
           EVENT_COM2_TX, EVENT_COM2_RX
  <2> QED BY <2>2, <2>3, <1>4
<1>7. CASE \E u \in Connected : CtsIrq(u) \/ RxIrqNoWaiter(u)
  <2>1. event_blocked_lists' = event_blocked_lists /\ (2 \in tien => 2 \in tien')
    BY <1>7 DEF CtsIrq, TxIrqWaitingCts, ModemIrq, TienAfterCts, RxIrqNoWaiter, events
  <2> QED BY <2>1, KeepsTx
<1>8. CASE TimerIrq \/ TimerDone \/ ScheduleNextTask \/ Stopped \/ UNCHANGED vars
  <2>1. UNCHANGED <<event_blocked_lists, tien>>
    BY <1>8 DEF TimerIrq, TimerDone, ScheduleNextTask, Stopped, vars, events, uart
  <2> QED BY <2>1, <1>2
<1>9. CASE Syscall
  <2>1. \/ \E e \in Awaited : \E buf \in Buffers(e) : SysAwaitEvent(e, buf)
        \/ UNCHANGED <<event_blocked_lists, tien>>
    BY <1>9 DEF Syscall, Pass, ReturnToLoop, SysHalt, StopSystem, CreateOutOfDescriptors,
                CreateTidOverflows, AwaitEventAssertFails, SysExit, SysCreate, SendRejected,
                SendDelivered, SendQueued, ReplyRejected, SysReply, ReceiveBlocks,
                ReceiveTakes, events, uart
  <2> QED BY <2>1, <1>2, <1>3
<1> QED BY <1>5, <1>6, <1>7, <1>8, <1>9 DEF Next, Irq

\* While a task waits for a UART the interrupt that wakes it is enabled, or CTS is
\* awaited and will enable it, and no TX interrupt is enabled that nobody waits for;
\* for COM2_TX, from the first task's AwaitEvent until it is woken (sysAwaitEvent,
\* uartIrqHandler).
THEOREM UartInterruptsCorrect == Spec => UartInterruptsKept
<1>1. KernelInv /\ [Next]_vars => [UartInterruptsOK' /\ FirstKeepsTx]_vars
  BY KernelNext, StepKeepsTx DEF KernelInv
<1> QED BY <1>1, KernelInvariant, PTL DEF Spec, UartInterruptsKept
-----------------------------------------------------------------------------
(* The task life cycle: an action property, from the same invariant.       *)

\* A step that changes the state of one task x, from the state an edge leaves
\* to the one it enters, and no tid.
OneMoves(x, to) ==
  /\ <<state[x], to>> \in LifeCycleEdges
  /\ state' = [state EXCEPT ![x] = to]
  /\ tid' = tid

\* What TaskLifeCycle says of one step.
LifeCycleOK ==
  \A s \in Slots :
    /\ state'[s] # state[s] => <<state[s], state'[s]>> \in LifeCycleEdges
    /\ tid'[s] # tid[s] => state[s] = "Zombie" /\ state'[s] = "Ready"

\* Such a step follows the life cycle.
LEMMA OneMovesOK ==
  ASSUME KernelInv, NEW x \in Slots, NEW to, OneMoves(x, to)
  PROVE  LifeCycleOK
<1>1. \A s \in Slots : state'[s] = IF s = x THEN to ELSE state[s]
  BY DEF OneMoves, KernelInv, TypeOK
<1> QED BY <1>1 DEF OneMoves, LifeCycleOK

\* Scheduling only moves tasks between Ready and Active.
LEMMA ScheduleLifeCycle == KernelInv /\ ScheduleNextTask => LifeCycleOK
<1> SUFFICES ASSUME KernelInv, ScheduleNextTask PROVE LifeCycleOK
  OBVIOUS
<1> DEFINE st == IF curtask = NoTask THEN state ELSE [state EXCEPT ![curtask] = "Ready"]
<1>1. /\ MoveCurrentTaskToEnd \in [Priorities -> Seq(Slots)]
      /\ st \in [Slots -> TaskState]
      /\ ReadyOK(MoveCurrentTaskToEnd, st, priority)
      /\ \A s \in Slots : /\ st[s] # "Active"
                          /\ st[s] \in {"Ready", "Active"} <=> state[s] \in {"Ready", "Active"}
                          /\ state[s] \notin {"Ready", "Active"} => st[s] = state[s]
  BY MoveCurrentTaskToEndOK DEF ScheduleNextTask
<1> HIDE DEF st
<1>2. \A p \in Priorities : IsHighest(MoveCurrentTaskToEnd, p) =>
        /\ Head(MoveCurrentTaskToEnd[p]) \in Slots
        /\ st[Head(MoveCurrentTaskToEnd[p])] = "Ready"
  <2> SUFFICES ASSUME NEW p \in Priorities, IsHighest(MoveCurrentTaskToEnd, p)
               PROVE  /\ Head(MoveCurrentTaskToEnd[p]) \in Slots
                      /\ st[Head(MoveCurrentTaskToEnd[p])] = "Ready"
    OBVIOUS
  <2> DEFINE l == MoveCurrentTaskToEnd[p]
  <2>1. l \in Seq(Slots) /\ l # <<>> /\ NoRepeat(l)
    BY <1>1 DEF IsHighest, ReadyOK
  <2>2. Head(l) \in Slots /\ In(Head(l), l)
    BY <2>1, TailTask
  <2> QED BY <2>2, <1>1 DEF ReadyOK
<1>3. /\ tid' = tid
      /\ \/ \E c \in Slots : st[c] = "Ready" /\ state' = [st EXCEPT ![c] = "Active"]
         \/ state' = st
  BY <1>2 DEF ScheduleNextTask, tasks, st
<1>4. \A s \in Slots : state'[s] # state[s] =>
        <<state[s], state'[s]>> \in {<<"Ready", "Active">>, <<"Active", "Ready">>}
  BY <1>1, <1>3
<1> QED BY <1>3, <1>4 DEF LifeCycleOK, LifeCycleEdges

\* A syscall changes the state of the caller, and of a task it wakes, along
\* the life cycle.
LEMMA SyscallLifeCycle == KernelInv /\ Syscall => LifeCycleOK
<1> SUFFICES ASSUME KernelInv, Syscall PROVE LifeCycleOK
  OBVIOUS
<1>1. /\ state \in [Slots -> TaskState] /\ tid \in [Slots -> Int]
      /\ ReceiveListsOK /\ FreeListOK /\ TypeOK
  BY DEF KernelInv, TypeOK, ListsMatchStates
<1>2. mode = "user" => curtask \in Slots /\ state[curtask] = "Active" /\ Slot(tid[curtask]) = curtask
  BY Running
<1>3. CASE \/ Pass \/ SysHalt \/ CreateOutOfDescriptors \/ CreateTidOverflows
           \/ AwaitEventAssertFails
           \/ \E t \in TidArgs : SendRejected(t) \/ ReplyRejected(t)
  <2>1. UNCHANGED <<tid, state>>
    BY <1>3 DEF Pass, SysHalt, CreateOutOfDescriptors, CreateTidOverflows,
                AwaitEventAssertFails, SendRejected,
                ReplyRejected, ReturnToLoop, StopSystem, tasks
  <2> QED BY <2>1 DEF LifeCycleOK
<1>4. CASE SysExit
  <2>1. OneMoves(curtask, "Zombie")
    BY <1>2, <1>4 DEF SysExit, OneMoves, LifeCycleEdges
  <2> QED BY <2>1, <1>2, <1>4, OneMovesOK DEF SysExit
<1>5. CASE \E p \in Priorities : SysCreate(p)
  <2> DEFINE x == Head(free_list)
  <2>1. /\ free_list # <<>>
        /\ state' = [state EXCEPT ![x] = "Ready"]
        /\ tid' = [tid EXCEPT ![x] = NextTid(x)]
    BY <1>5 DEF SysCreate
  <2>2. x \in Slots /\ state[x] = "Zombie"
    BY <1>1, <2>1, TailTask DEF TypeOK, FreeListOK
  <2> HIDE DEF x
  <2>3. \A s \in Slots : /\ state'[s] = IF s = x THEN "Ready" ELSE state[s]
                         /\ s # x => tid'[s] = tid[s]
    BY <1>1, <2>1
  <2> QED BY <2>2, <2>3 DEF LifeCycleOK, LifeCycleEdges
<1>6. CASE \E t \in TidArgs : SendDelivered(t)
  <2>1. PICK t \in TidArgs : SendDelivered(t)
    BY <1>6
  <2>2. Slot(t) \in Slots /\ curtask \in Slots /\ state[curtask] = "Active"
    BY <2>1, <1>2, KernelAssumption DEF SendDelivered, Slot, Slots, TidArgs
  <2>3. /\ state[Slot(t)] = "SendBlocked" /\ tid' = tid
        /\ state' = [[state EXCEPT ![curtask] = "ReplyBlocked"] EXCEPT ![Slot(t)] = "Ready"]
    BY <2>1 DEF SendDelivered, ReceiverWaits, BlockCurtask, tasks
  <2>4. \A s \in Slots : state'[s] = IF s = Slot(t) THEN "Ready"
                                     ELSE IF s = curtask THEN "ReplyBlocked" ELSE state[s]
    BY <1>1, <2>2, <2>3
  <2> QED BY <2>2, <2>3, <2>4 DEF LifeCycleOK, LifeCycleEdges
<1>7. CASE \E t \in TidArgs : SendQueued(t)
  <2>1. mode = "user" /\ OneMoves(curtask, "ReceiveBlocked")
    BY <1>2, <1>7 DEF SendQueued, BlockCurtask, OneMoves, LifeCycleEdges, tasks
  <2> QED BY <2>1, <1>2, OneMovesOK
<1>8. CASE \E t \in TidArgs : SysReply(t)
  <2>1. PICK t \in TidArgs : SysReply(t)
    BY <1>8
  <2>2. OneMoves(Slot(t), "Ready")
    BY <2>1 DEF SysReply, AwaitsReply, OneMoves, LifeCycleEdges, tasks
  <2>3. Slot(t) \in Slots
    BY KernelAssumption DEF Slot, Slots, TidArgs
  <2> QED BY <2>2, <2>3, OneMovesOK
<1>9. CASE ReceiveBlocks
  <2>1. mode = "user" /\ OneMoves(curtask, "SendBlocked")
    BY <1>2, <1>9 DEF ReceiveBlocks, BlockCurtask, OneMoves, LifeCycleEdges, tasks
  <2> QED BY <2>1, <1>2, OneMovesOK
<1>10. CASE ReceiveTakes
  <2> DEFINE x == Head(receive_blocked_lists[curtask])
  <2>1. mode = "user" /\ receive_blocked_lists[curtask] # <<>>
    BY <1>2, <1>10 DEF ReceiveTakes
  <2>2. x \in Slots /\ state[x] = "ReceiveBlocked"
    BY <1>1, <1>2, <2>1, TailTask DEF TypeOK, ReceiveListsOK
  <2>3. Slot(tid[x]) = x
    BY <2>2 DEF KernelInv, TidNamesSlot
  <2>4. OneMoves(x, "ReplyBlocked")
    BY <1>2, <1>10, <2>2, <2>3 DEF ReceiveTakes, OneMoves, LifeCycleEdges, tasks
  <2> QED BY <2>2, <2>4, OneMovesOK
<1>11. CASE \E e \in Awaited : \E buf \in Buffers(e) : SysAwaitEvent(e, buf)
  <2>1. mode = "user" /\ OneMoves(curtask, "EventBlocked")
    BY <1>2, <1>11 DEF SysAwaitEvent, BlockCurtask, OneMoves, LifeCycleEdges, tasks
  <2> QED BY <2>1, <1>2, OneMovesOK
<1> QED BY <1>3, <1>4, <1>5, <1>6, <1>7, <1>8, <1>9, <1>10, <1>11 DEF Syscall

\* An interrupt only changes the state of a task that it wakes.
LEMMA IrqLifeCycle == KernelInv /\ Irq => LifeCycleOK
<1> SUFFICES ASSUME KernelInv, Irq PROVE LifeCycleOK
  OBVIOUS
<1>1. ASSUME NEW e \in Events, event_blocked_lists[e] # <<>>, WakeFirst(e), tid' = tid
      PROVE  LifeCycleOK
  <2> DEFINE h == Head(event_blocked_lists[e])
  <2>1. h \in Slots /\ state[h] = "EventBlocked" /\ Slot(tid[h]) = h
    BY <1>1, PopFirstOK
  <2>2. OneMoves(h, "Ready")
    BY <1>1, <2>1 DEF WakeFirst, OneMoves, LifeCycleEdges
  <2> QED BY <2>1, <2>2, OneMovesOK
<1>2. CASE UNCHANGED <<tid, state>>
  BY <1>2 DEF LifeCycleOK
<1>3. CASE TimerLoop \/ \E u \in Connected : RxIrq(u) \/ TxIrq(u)
  <2>1. /\ EVENT_TIME_ELAP \in Events
        /\ \A u \in Connected : RxEvent(u) \in Events /\ TxEvent(u) \in Events
    BY DEF Events, EVENT_MAX, RxEvent, TxEvent, EVENT_TIME_ELAP, EVENT_COM1_TX,
           EVENT_COM1_RX, EVENT_COM2_TX, EVENT_COM2_RX
  <2>2. PICK e \in Events : event_blocked_lists[e] # <<>> /\ WakeFirst(e)
    BY <1>3, <2>1 DEF TimerLoop, RxIrq, TxIrq
  <2>3. tid' = tid
    BY <1>3 DEF TimerLoop, RxIrq, TxIrq, tasks
  <2> QED BY <2>2, <2>3, <1>1
<1>4. \/ TimerLoop \/ \E u \in Connected : RxIrq(u) \/ TxIrq(u)
      \/ UNCHANGED <<tid, state>>
  BY DEF Irq, CtsIrq, TimerIrq, TimerDone, TxIrqWaitingCts, ModemIrq, RxIrqNoWaiter,
         UartAssertFails, tasks
<1> QED BY <1>2, <1>3, <1>4

\* Tasks change state only along the edges of the life cycle, and a descriptor
\* gets a new tid only when createTask takes it from the free list.
THEOREM LifeCycle == Spec => TaskLifeCycle
<1>1. KernelInv /\ [Next]_vars => [LifeCycleOK]_vars
  <2> SUFFICES ASSUME KernelInv, [Next]_vars PROVE [LifeCycleOK]_vars
    OBVIOUS
  <2>1. CASE ScheduleNextTask
    BY <2>1, ScheduleLifeCycle
  <2>2. CASE Syscall
    BY <2>2, SyscallLifeCycle
  <2>3. CASE Irq
    BY <2>3, IrqLifeCycle
  <2>4. CASE Stopped \/ UNCHANGED vars
    BY <2>4 DEF Stopped
  <2> QED BY <2>1, <2>2, <2>3, <2>4 DEF Next
<1> QED BY <1>1, KernelInvariant, PTL DEF Spec, TaskLifeCycle, LifeCycleOK
-----------------------------------------------------------------------------
(* The refinement of Rendezvous.                                           *)

\* The tasks that the abstraction knows to be waiting, and to be unanswered.
RdvWaiting(st)    == { s \in Slots : st[s] = "SendBlocked" }
RdvUnanswered(st) == { s \in Slots : st[s] = "ReplyBlocked" }

\* The running task is in none of the three.
LEMMA CurtaskGoesOn ==
  ASSUME KernelInv, mode = "user"
  PROVE  curtask \in Slots /\ state[curtask] = "Active" /\ Rdv!GoesOn(curtask)
<1>1. curtask \in Slots /\ state[curtask] = "Active"
  BY Running
<1>2. \A r \in Slots : ~In(curtask, receive_blocked_lists[r])
  BY <1>1 DEF KernelInv, ListsMatchStates, ReceiveListsOK
<1> QED BY <1>1, <1>2 DEF Rdv!GoesOn, In

\* A step in which no task starts or stops waiting for a message or an answer,
\* and no list of senders changes, is a stutter of the abstraction.
LEMMA RdvStutters ==
  ASSUME receive_blocked_lists' = receive_blocked_lists,
         \A s \in Slots : /\ state'[s] = "SendBlocked" <=> state[s] = "SendBlocked"
                          /\ state'[s] = "ReplyBlocked" <=> state[s] = "ReplyBlocked"
  PROVE  UNCHANGED Rdv!vars
<1>1. RdvWaiting(state)' = RdvWaiting(state) /\ RdvUnanswered(state)' = RdvUnanswered(state)
  BY DEF RdvWaiting, RdvUnanswered
<1> QED BY <1>1 DEF Rdv!vars, RdvWaiting, RdvUnanswered

\* A step that moves one task x between states that are neither.
LEMMA OneMovesStutters ==
  ASSUME KernelInv, NEW x \in Slots, NEW to,
         state' = [state EXCEPT ![x] = to],
         {state[x], to} \cap {"SendBlocked", "ReplyBlocked"} = {},
         receive_blocked_lists' = receive_blocked_lists
  PROVE  UNCHANGED Rdv!vars
<1>1. \A s \in Slots : state'[s] = IF s = x THEN to ELSE state[s]
  BY DEF KernelInv, TypeOK
<1> QED BY <1>1, RdvStutters

\* Scheduling, and the interrupts, are stutters.
LEMMA ScheduleRdv == KernelInv /\ ScheduleNextTask => UNCHANGED Rdv!vars
<1> SUFFICES ASSUME KernelInv, ScheduleNextTask PROVE UNCHANGED Rdv!vars
  OBVIOUS
<1> DEFINE st == IF curtask = NoTask THEN state ELSE [state EXCEPT ![curtask] = "Ready"]
<1>1. /\ mode = "schedule" /\ receive_blocked_lists' = receive_blocked_lists
      /\ TypeOK /\ LifeCycleOK
  BY ScheduleLifeCycle DEF ScheduleNextTask, ipc, KernelInv
<1>2. \A s \in Slots : state'[s] # state[s] =>
        {state[s], state'[s]} \cap {"SendBlocked", "ReplyBlocked"} = {}
  <2> SUFFICES ASSUME NEW s \in Slots, state'[s] # state[s]
               PROVE  {state[s], state'[s]} \cap {"SendBlocked", "ReplyBlocked"} = {}
    OBVIOUS
  <2>1. st \in [Slots -> TaskState] /\ st[s] \in {state[s], "Ready"}
    BY <1>1 DEF TypeOK, TaskState
  <2> HIDE DEF st
  <2>2. state'[s] \in {st[s], "Active"}
    BY <2>1 DEF ScheduleNextTask, st
  <2>3. state'[s] \in {state[s], "Ready", "Active"}
    BY <2>1, <2>2
  <2>4. <<state[s], state'[s]>> \in LifeCycleEdges
    BY <1>1 DEF LifeCycleOK
  <2> QED BY <2>3, <2>4 DEF LifeCycleEdges
<1> QED BY <1>1, <1>2, RdvStutters

LEMMA IrqRdv == KernelInv /\ Irq => UNCHANGED Rdv!vars
<1> SUFFICES ASSUME KernelInv, Irq PROVE UNCHANGED Rdv!vars
  OBVIOUS
<1>1. ASSUME NEW e \in Events, event_blocked_lists[e] # <<>>, WakeFirst(e),
             receive_blocked_lists' = receive_blocked_lists
      PROVE  UNCHANGED Rdv!vars
  <2> DEFINE h == Head(event_blocked_lists[e])
  <2>1. h \in Slots /\ state[h] = "EventBlocked" /\ Slot(tid[h]) = h
    BY <1>1, PopFirstOK
  <2>2. state' = [state EXCEPT ![h] = "Ready"]
    BY <1>1, <2>1 DEF WakeFirst
  <2> QED BY <1>1, <2>1, <2>2, OneMovesStutters
<1>2. CASE UNCHANGED <<receive_blocked_lists, state>>
  BY <1>2, RdvStutters
<1>3. CASE TimerLoop \/ \E u \in Connected : RxIrq(u) \/ TxIrq(u)
  <2>1. /\ EVENT_TIME_ELAP \in Events
        /\ \A u \in Connected : RxEvent(u) \in Events /\ TxEvent(u) \in Events
    BY DEF Events, EVENT_MAX, RxEvent, TxEvent, EVENT_TIME_ELAP, EVENT_COM1_TX,
           EVENT_COM1_RX, EVENT_COM2_TX, EVENT_COM2_RX
  <2>2. PICK e \in Events : event_blocked_lists[e] # <<>> /\ WakeFirst(e)
    BY <1>3, <2>1 DEF TimerLoop, RxIrq, TxIrq
  <2>3. receive_blocked_lists' = receive_blocked_lists
    BY <1>3 DEF TimerLoop, RxIrq, TxIrq, ipc
  <2> QED BY <2>2, <2>3, <1>1
<1>4. \/ TimerLoop \/ \E u \in Connected : RxIrq(u) \/ TxIrq(u)
      \/ UNCHANGED <<receive_blocked_lists, state>>
  BY DEF Irq, CtsIrq, TimerIrq, TimerDone, TxIrqWaitingCts, ModemIrq, RxIrqNoWaiter,
         UartAssertFails, ipc
<1> QED BY <1>2, <1>3, <1>4

\* sysSend, both ways.
LEMMA SendRdv ==
  ASSUME KernelInv, NEW t \in Int, SendDelivered(t) \/ SendQueued(t)
  PROVE  Rdv!Next
<1> DEFINE dst == Slot(t)
<1>1. mode = "user" /\ dst \in Slots
  BY KernelAssumption DEF SendDelivered, SendQueued, Slot, Slots
<1>2. curtask \in Slots /\ state[curtask] = "Active" /\ Rdv!GoesOn(curtask) /\ TypeOK
  BY <1>1, CurtaskGoesOn DEF KernelInv
<1>3. CASE SendDelivered(t)
  <2>1. /\ state[dst] = "SendBlocked" /\ receive_blocked_lists' = receive_blocked_lists
        /\ \A s \in Slots : state'[s] = IF s = dst THEN "Ready"
                                         ELSE IF s = curtask THEN "ReplyBlocked" ELSE state[s]
    BY <1>1, <1>2, <1>3 DEF SendDelivered, ReceiverWaits, BlockCurtask, TypeOK
  <2>2. /\ RdvWaiting(state)' = RdvWaiting(state) \ {dst}
        /\ RdvUnanswered(state)' = RdvUnanswered(state) \cup {curtask}
        /\ dst \in RdvWaiting(state)
    BY <1>1, <1>2, <2>1 DEF RdvWaiting, RdvUnanswered
  <2>3. Rdv!SendToWaiting(curtask, dst)
    BY <1>2, <2>1, <2>2 DEF Rdv!SendToWaiting, RdvWaiting, RdvUnanswered
  <2> QED BY <1>1, <1>2, <2>3 DEF Rdv!Next
<1>4. CASE SendQueued(t)
  <2>1. /\ state[dst] # "SendBlocked"
        /\ receive_blocked_lists' = [receive_blocked_lists EXCEPT ![dst] = Append(@, curtask)]
        /\ \A s \in Slots : state'[s] = IF s = curtask THEN "ReceiveBlocked" ELSE state[s]
    BY <1>1, <1>2, <1>4 DEF SendQueued, ReceiverWaits, BlockCurtask, TypeOK
  <2>2. /\ RdvWaiting(state)' = RdvWaiting(state)
        /\ RdvUnanswered(state)' = RdvUnanswered(state)
        /\ dst \notin RdvWaiting(state)
    BY <1>1, <1>2, <2>1 DEF RdvWaiting, RdvUnanswered
  <2>3. Rdv!SendToBusy(curtask, dst)
    BY <1>2, <2>1, <2>2 DEF Rdv!SendToBusy, RdvWaiting, RdvUnanswered
  <2> QED BY <1>1, <1>2, <2>3 DEF Rdv!Next
<1> QED BY <1>3, <1>4

\* sysReceive, both ways.
LEMMA ReceiveRdv == KernelInv /\ (ReceiveBlocks \/ ReceiveTakes) => Rdv!Next
<1> SUFFICES ASSUME KernelInv, ReceiveBlocks \/ ReceiveTakes PROVE Rdv!Next
  OBVIOUS
<1>1. mode = "user" /\ TypeOK /\ ReceiveListsOK
  BY DEF ReceiveBlocks, ReceiveTakes, KernelInv, ListsMatchStates
<1>2. /\ curtask \in Slots /\ state[curtask] = "Active" /\ Rdv!GoesOn(curtask)
      /\ Slot(tid[curtask]) = curtask
  BY <1>1, CurtaskGoesOn, Running
<1>3. CASE ReceiveBlocks
  <2>1. /\ receive_blocked_lists[curtask] = <<>>
        /\ receive_blocked_lists' = receive_blocked_lists
        /\ \A s \in Slots : state'[s] = IF s = curtask THEN "SendBlocked" ELSE state[s]
    BY <1>1, <1>2, <1>3 DEF ReceiveBlocks, BlockCurtask, TypeOK, ipc
  <2>2. /\ RdvWaiting(state)' = RdvWaiting(state) \cup {curtask}
        /\ RdvUnanswered(state)' = RdvUnanswered(state)
    BY <1>2, <2>1 DEF RdvWaiting, RdvUnanswered
  <2>3. \E r \in Slots : Rdv!WaitForMessage(r)
    BY <1>2, <2>1, <2>2 DEF Rdv!WaitForMessage, RdvWaiting, RdvUnanswered
  <2> QED BY <2>3 DEF Rdv!Next
<1>4. CASE ReceiveTakes
  <2> DEFINE l      == receive_blocked_lists[curtask]
             sender == Head(l)
  <2>1. l # <<>> /\ l \in Seq(Slots) /\ NoRepeat(l)
    BY <1>1, <1>2, <1>4 DEF ReceiveTakes, TypeOK, ReceiveListsOK
  <2>2. sender \in Slots /\ In(sender, l)
    BY <2>1, TailTask
  <2>3. state[sender] = "ReceiveBlocked" /\ Slot(tid[sender]) = sender
    BY <1>1, <1>2, <2>2 DEF ReceiveListsOK, KernelInv, TidNamesSlot
  <2>4. /\ receive_blocked_lists' = [receive_blocked_lists EXCEPT ![curtask] = Tail(@)]
        /\ \A s \in Slots : state'[s] = IF s = sender THEN "ReplyBlocked" ELSE state[s]
    BY <1>1, <1>2, <1>4, <2>2, <2>3 DEF ReceiveTakes, TypeOK
  <2>5. /\ RdvWaiting(state)' = RdvWaiting(state)
        /\ RdvUnanswered(state)' = RdvUnanswered(state) \cup {sender}
    BY <2>2, <2>3, <2>4 DEF RdvWaiting, RdvUnanswered
  <2>6. \E r \in Slots : Rdv!Receive(r)
    BY <1>2, <2>1, <2>4, <2>5 DEF Rdv!Receive, RdvWaiting, RdvUnanswered
  <2> QED BY <2>6 DEF Rdv!Next
<1> QED BY <1>3, <1>4

\* sysReply.
LEMMA ReplyRdv ==
  ASSUME KernelInv, NEW t \in Int, SysReply(t)
  PROVE  Rdv!Next
<1> DEFINE dst == Slot(t)
<1>1. mode = "user" /\ dst \in Slots /\ TypeOK
  BY KernelAssumption DEF SysReply, Slot, Slots, KernelInv
<1>2. curtask \in Slots /\ Rdv!GoesOn(curtask)
  BY <1>1, CurtaskGoesOn
<1>3. /\ state[dst] = "ReplyBlocked" /\ receive_blocked_lists' = receive_blocked_lists
      /\ \A s \in Slots : state'[s] = IF s = dst THEN "Ready" ELSE state[s]
  BY <1>1 DEF SysReply, AwaitsReply, TypeOK
<1>4. /\ RdvWaiting(state)' = RdvWaiting(state)
      /\ RdvUnanswered(state)' = RdvUnanswered(state) \ {dst}
      /\ dst \in RdvUnanswered(state)
  BY <1>1, <1>3 DEF RdvWaiting, RdvUnanswered
<1>5. \E s, r \in Slots : Rdv!Reply(s, r)
  BY <1>1, <1>2, <1>3, <1>4 DEF Rdv!Reply, RdvWaiting, RdvUnanswered
<1> QED BY <1>5 DEF Rdv!Next

\* The other calls are stutters.
LEMMA SyscallRdv == KernelInv /\ Syscall => [Rdv!Next]_(Rdv!vars)
<1> SUFFICES ASSUME KernelInv, Syscall PROVE [Rdv!Next]_(Rdv!vars)
  OBVIOUS
<1>1. CASE \E t \in TidArgs : SendDelivered(t) \/ SendQueued(t) \/ SysReply(t)
  BY <1>1, SendRdv, ReplyRdv, KernelAssumption DEF TidArgs
<1>2. CASE ReceiveBlocks \/ ReceiveTakes
  BY <1>2, ReceiveRdv
<1>3. CASE UNCHANGED <<receive_blocked_lists, state>>
  BY <1>3, RdvStutters
<1>4. CASE \E p \in Priorities : SysCreate(p)
  <2> DEFINE s == Head(free_list)
  <2>1. PICK p \in Priorities : SysCreate(p)
    BY <1>4
  <2>2. s \in Slots /\ In(s, free_list)
    BY <2>1, TailTask DEF SysCreate, KernelInv, TypeOK, ListsMatchStates, FreeListOK
  <2>3. state[s] = "Zombie"
    BY <2>2 DEF KernelInv, ListsMatchStates, FreeListOK
  <2>4. /\ state' = [state EXCEPT ![s] = "Ready"]
        /\ receive_blocked_lists' = receive_blocked_lists
    BY <2>1 DEF SysCreate, ipc
  <2> QED BY <2>2, <2>3, <2>4, OneMovesStutters
<1>5. CASE SysExit \/ \E e \in Awaited : \E buf \in Buffers(e) : SysAwaitEvent(e, buf)
  <2>1. mode = "user" /\ receive_blocked_lists' = receive_blocked_lists
    BY <1>5 DEF SysExit, SysAwaitEvent, ipc
  <2>2. curtask \in Slots /\ state[curtask] = "Active"
    BY <2>1, Running
  <2>3. PICK to \in {"Zombie", "EventBlocked"} : state' = [state EXCEPT ![curtask] = to]
    BY <1>5 DEF SysExit, SysAwaitEvent, BlockCurtask
  <2> QED BY <2>1, <2>2, <2>3, OneMovesStutters
<1>6. \/ \E t \in TidArgs : SendDelivered(t) \/ SendQueued(t) \/ SysReply(t)
      \/ ReceiveBlocks \/ ReceiveTakes
      \/ UNCHANGED <<receive_blocked_lists, state>>
      \/ \E p \in Priorities : SysCreate(p)
      \/ SysExit \/ \E e \in Awaited : \E buf \in Buffers(e) : SysAwaitEvent(e, buf)
  BY DEF Syscall, Pass, ReturnToLoop, SysHalt, StopSystem, CreateOutOfDescriptors, CreateTidOverflows,
         SendRejected, ReplyRejected, AwaitEventAssertFails, ipc
<1> QED BY <1>1, <1>2, <1>3, <1>4, <1>5, <1>6

\* sysSend, sysReceive and sysReply implement the rendezvous: each message is
\* received once, in the order of the Sends to that task, its sender goes on
\* only when it is answered, and no receiver sleeps while a sender is queued.
THEOREM RendezvousRefined == Spec => RendezvousKept
<1>1. Init => Rdv!Init
  <2> SUFFICES ASSUME Init PROVE Rdv!Init
    OBVIOUS
  <2>1. RdvWaiting(state) = {} /\ RdvUnanswered(state) = {}
    BY DEF Init, RdvWaiting, RdvUnanswered
  <2> QED BY <2>1 DEF Init, Rdv!Init, RdvWaiting, RdvUnanswered
<1>2. KernelInv /\ [Next]_vars => [Rdv!Next]_(Rdv!vars)
  <2> SUFFICES ASSUME KernelInv, [Next]_vars PROVE [Rdv!Next]_(Rdv!vars)
    OBVIOUS
  <2>1. CASE ScheduleNextTask
    BY <2>1, ScheduleRdv
  <2>2. CASE Syscall
    BY <2>2, SyscallRdv
  <2>3. CASE Irq
    BY <2>3, IrqRdv
  <2>4. CASE Stopped \/ UNCHANGED vars
    <3>1. UNCHANGED <<receive_blocked_lists, state>>
      BY <2>4 DEF Stopped, vars, ipc
    <3> QED BY <3>1, RdvStutters
  <2> QED BY <2>1, <2>2, <2>3, <2>4 DEF Next
<1> QED BY <1>1, <1>2, KernelInvariant, PTL DEF Spec, RendezvousKept, Rdv!Spec
=============================================================================
