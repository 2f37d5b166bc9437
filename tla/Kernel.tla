------------------------------- MODULE Kernel -------------------------------
(***************************************************************************)
(* The ARM micro kernel: task table, ready queue, message passing and      *)
(* event waiting, as seen by the main loop of main.c.  The loop schedules  *)
(* a task, lets it run until it traps (a syscall or an interrupt), runs    *)
(* the handler with interrupts off, and schedules again.  "mode" is the    *)
(* place of that loop.  User programs are arbitrary: the running task may  *)
(* make any syscall with any argument of the instance.                     *)
(*                                                                         *)
(* A task is its slot, the index in task_array.  A list of tasks is the    *)
(* sequence of the slots linked into it.  A kernel buffer pointer is only  *)
(* NULL or not NULL.                                                       *)
(***************************************************************************)
EXTENDS Integers, Sequences

CONSTANTS
  TASK_MAX,           \* number of task descriptors
  TASK_PRIORITY_MAX,  \* number of priorities, 0 is served first
  Awaited,            \* bound: the events that programs wait for
  Connected,          \* bound: the UARTs that raise interrupts
  INT_MAX             \* the largest value of a tid, an int of the code

EVENT_TIME_ELAP == 0
EVENT_COM1_TX   == 1
EVENT_COM1_RX   == 2
EVENT_COM2_TX   == 3
EVENT_COM2_RX   == 4
EVENT_MAX       == 5

ASSUME KernelAssumption ==
  /\ TASK_MAX \in Nat \ {0}
  /\ TASK_PRIORITY_MAX \in Nat \ {0}
  /\ Awaited \subseteq 0 .. EVENT_MAX - 1
  /\ Connected \subseteq {1, 2}
  /\ INT_MAX \in Nat
  /\ TASK_MAX =< INT_MAX + 1

Slots      == 0 .. TASK_MAX - 1
Priorities == 0 .. TASK_PRIORITY_MAX - 1
Events     == 0 .. EVENT_MAX - 1
Uarts      == {1, 2}
NoTask     == -1

TaskState == {"Active", "Ready", "Zombie", "SendBlocked", "ReceiveBlocked",
              "ReplyBlocked", "EventBlocked"}

\* Every table of the kernel is indexed with tid % TASK_MAX.
Slot(t) == t % TASK_MAX

TxEvent(u) == IF u = 1 THEN EVENT_COM1_TX ELSE EVENT_COM2_TX
RxEvent(u) == IF u = 1 THEN EVENT_COM1_RX ELSE EVENT_COM2_RX

VARIABLES
  tid,                    \* slot -> the tid of its task; negative: never used
  state,                  \* slot -> TaskState
  priority,               \* slot -> priority
  ready_list,             \* priority -> its TaskList
  free_list,              \* the free descriptors
  receive_blocked_lists,  \* slot -> the tasks blocked sending to it
  event_blocked_lists,    \* event -> the tasks blocked on it
  curtask,                \* the slot that runs or made the syscall, or NoTask
  msg,                    \* the slots whose MsgBuffer.msg is not NULL
  event,                  \* the slots whose MsgBuffer.event is not NULL
  tien, rien,             \* the UARTs whose TX / RX interrupt is enabled
  uart1_waiting_cts,
  mode,                   \* "schedule", "user", "timer" or "stopped"
  sent_to                 \* history: slot -> the tid its pending Send named

tasks  == <<tid, priority, free_list>>
ipc    == <<receive_blocked_lists, msg, sent_to>>
uart   == <<tien, rien, uart1_waiting_cts>>
events == <<event_blocked_lists, event>>
vars   == <<tasks, state, ready_list, curtask, ipc, events, uart, mode>>

-----------------------------------------------------------------------------
(* The ready queue (task.c).  The heap of priorities is abstracted to the  *)
(* set of priorities whose list is not empty.                              *)

\* (Mutant: any priority with a task is taken.)
IsBusy(rl, p)    == rl[p] # <<>>
IsHighest(rl, p) == rl[p] # <<>> /\ \A q \in Priorities : q < p => rl[q] = <<>>

\* insertTask: append to the list of the task's priority.
\* (Mutant: the tid is linked in place of the slot.)
InsertTid(rl, s)  == [rl EXCEPT ![priority[s]] = Append(@, tid[s])]
InsertTask(rl, s) == [rl EXCEPT ![priority[s]] = Append(@, s)]

\* removeCurrentTask, blockCurrentTask: curtask is the head of its list.
\* (Mutant: the list is always emptied, as if curtask were its last task.)
DropList    == [ready_list EXCEPT ![priority[curtask]] = <<>>]
DropCurtask == [ready_list EXCEPT ![priority[curtask]] = Tail(@)]

\* moveCurrentTaskToEnd: rotate the list of curtask; nothing after a block.
\* (Mutant: curtask stays at the head.)
LeaveCurrentTask == ready_list
MoveCurrentTaskToEnd ==
  IF curtask = NoTask
  THEN ready_list
  ELSE [ready_list EXCEPT ![priority[curtask]] = Append(Tail(@), Head(@))]

-----------------------------------------------------------------------------
(* main() up to its loop: the tables, the UARTs (RX interrupts on, TX      *)
(* interrupts off), and the first task, with the highest priority.         *)

Init ==
  /\ tid = [s \in Slots |-> IF s = 0 THEN 0 ELSE s - TASK_MAX]
  /\ state = [s \in Slots |-> IF s = 0 THEN "Ready" ELSE "Zombie"]
  /\ priority = [s \in Slots |-> 0]
  /\ ready_list = [p \in Priorities |-> IF p = 0 THEN <<0>> ELSE <<>>]
  /\ free_list = [i \in 1 .. TASK_MAX - 1 |-> i]
  /\ receive_blocked_lists = [s \in Slots |-> <<>>]
  /\ event_blocked_lists = [e \in Events |-> <<>>]
  /\ curtask = NoTask
  /\ msg = {} /\ event = {}
  /\ tien = {} /\ rien = Uarts /\ uart1_waiting_cts = FALSE
  /\ mode = "schedule"
  /\ sent_to = [s \in Slots |-> NoTask]

(* The main loop: scheduleNextTask, then kernelExit; it ends when no task  *)
(* is ready.                                                               *)
ScheduleNextTask ==
  LET rl == MoveCurrentTaskToEnd
      st == IF curtask = NoTask THEN state ELSE [state EXCEPT ![curtask] = "Ready"]
  IN /\ mode = "schedule"
     /\ ready_list' = rl
     /\ \/ \E p \in Priorities :
             /\ IsHighest(rl, p)
             /\ curtask' = Head(rl[p])
             /\ state' = [st EXCEPT ![Head(rl[p])] = "Active"]
             /\ mode' = "user"
        \/ /\ \A p \in Priorities : rl[p] = <<>>
           /\ curtask' = NoTask
           /\ state' = st
           /\ mode' = "stopped"
     /\ UNCHANGED <<tasks, ipc, events, uart>>

\* The system has stopped: nothing runs any more.
Stopped == mode = "stopped" /\ UNCHANGED vars

-----------------------------------------------------------------------------
(* Syscalls (syscall.c).  Each ends with mode' = "schedule".               *)

\* Back to the main loop with no table changed: Pass, MyTid, MyParentTid, an
\* unknown call number, and every call that is refused with an error code.
ReturnToLoop ==
  /\ mode = "user"
  /\ mode' = "schedule"
  /\ UNCHANGED <<tasks, state, ready_list, curtask, ipc, events, uart>>

\* A kernel assert that fails, or Halt: curtask and head become NULL.
StopSystem ==
  /\ mode' = "stopped"
  /\ curtask' = NoTask
  /\ UNCHANGED <<tasks, state, ready_list, ipc, events, uart>>

Pass == ReturnToLoop

SysHalt == mode = "user" /\ StopSystem

\* createTask: a descriptor's next tid.  A sum greater than INT_MAX wraps round:
\* the Makefiles do not optimise, so the assert tests the value that was stored.
NextTid(s) ==
  LET sum == tid[s] + TASK_MAX
  IN  IF sum > INT_MAX THEN sum - 2 * (INT_MAX + 1) ELSE sum

\* The assert "Tid overflowed!".  (Mutant: compiled with NDEBUG, debug.h:36.)
NeverOverflows(s) == FALSE
TidOverflows(s)   == NextTid(s) < 0

\* Create: the head of the free list becomes a ready task.
SysCreate(p) ==
  LET s == Head(free_list)
  IN /\ mode = "user"
     /\ free_list # <<>>
     /\ ~TidOverflows(s)
     /\ tid' = [tid EXCEPT ![s] = NextTid(s)]
     /\ priority' = [priority EXCEPT ![s] = p]
     /\ free_list' = Tail(free_list)
     /\ state' = [state EXCEPT ![s] = "Ready"]
     /\ ready_list' = [ready_list EXCEPT ![p] = Append(@, s)]
     /\ mode' = "schedule"
     /\ UNCHANGED <<curtask, ipc, events, uart>>

\* createTask asserts that a descriptor is left.
CreateOutOfDescriptors == mode = "user" /\ free_list = <<>> /\ StopSystem

\* And that the tid has not overflowed.  (The fields of the descriptor that it
\* has written by then are left out: nothing reads them any more.)
CreateTidOverflows ==
  mode = "user" /\ free_list # <<>> /\ TidOverflows(Head(free_list)) /\ StopSystem

SysExit ==
  /\ mode = "user"
  /\ ready_list' = DropCurtask
  /\ state' = [state EXCEPT ![curtask] = "Zombie"]
  /\ free_list' = Append(free_list, curtask)
  /\ curtask' = NoTask
  /\ mode' = "schedule"
  /\ UNCHANGED <<tid, priority, ipc, events, uart>>

\* blockCurrentTask: curtask leaves the ready queue in state `blocked'.
BlockCurtask(blocked) == [state EXCEPT ![curtask] = blocked]

\* Send to a negative tid (-1), or to a tid its slot does not hold (-2).
IsTask(t) == t >= 0 /\ tid[Slot(t)] = t

\* Whether the receiver is already waiting in Receive.
\* (Mutant: the wrong blocked state is tested.)
ReceiverAwaitsReply(dst) == state[dst] = "ReplyBlocked"
ReceiverWaits(dst)       == state[dst] = "SendBlocked"

SendRejected(t) == ~IsTask(t) /\ ReturnToLoop

\* Send to a task that waits in Receive: the message is copied at once, the
\* sender waits for the reply and the receiver is ready again.
SendDelivered(t) ==
  LET dst == Slot(t)
  IN /\ mode = "user"
     /\ IsTask(t)
     /\ ReceiverWaits(dst)
     /\ ready_list' = InsertTask(DropCurtask, dst)
     /\ state' = [BlockCurtask("ReplyBlocked") EXCEPT ![dst] = "Ready"]
     /\ curtask' = NoTask
     /\ sent_to' = [sent_to EXCEPT ![curtask] = t]
     /\ mode' = "schedule"
     /\ UNCHANGED <<tasks, receive_blocked_lists, msg, events, uart>>

\* Send to any other task: the sender queues up behind the receiver's slot.
SendQueued(t) ==
  LET dst == Slot(t)
  IN /\ mode = "user"
     /\ IsTask(t)
     /\ ~ReceiverWaits(dst)
     /\ msg' = msg \cup {Slot(tid[curtask])}
     /\ ready_list' = DropCurtask
     /\ state' = BlockCurtask("ReceiveBlocked")
     /\ receive_blocked_lists' = [receive_blocked_lists EXCEPT ![dst] = Append(@, curtask)]
     /\ curtask' = NoTask
     /\ sent_to' = [sent_to EXCEPT ![curtask] = t]
     /\ mode' = "schedule"
     /\ UNCHANGED <<tasks, events, uart>>

\* Receive with nobody queued: the receiver blocks until a Send.
ReceiveBlocks ==
  /\ mode = "user"
  /\ receive_blocked_lists[Slot(tid[curtask])] = <<>>
  /\ ready_list' = DropCurtask
  /\ state' = BlockCurtask("SendBlocked")
  /\ curtask' = NoTask
  /\ mode' = "schedule"
  /\ UNCHANGED <<tasks, ipc, events, uart>>

\* Receive with senders queued: the first one is dequeued and waits for its
\* reply; the receiver goes on running.
ReceiveTakes ==
  LET me     == Slot(tid[curtask])
      sender == Slot(tid[Head(receive_blocked_lists[me])])
  IN /\ mode = "user"
     /\ receive_blocked_lists[me] # <<>>
     /\ receive_blocked_lists' = [receive_blocked_lists EXCEPT ![me] = Tail(@)]
     /\ state' = [state EXCEPT ![sender] = "ReplyBlocked"]
     /\ mode' = "schedule"
     /\ UNCHANGED <<tasks, ready_list, curtask, msg, sent_to, events, uart>>

\* Only a task that waits for a reply can be replied to.  (Mutant: any live
\* task can.)
IsAlive(dst)     == state[dst] # "Zombie"
AwaitsReply(dst) == state[dst] = "ReplyBlocked"

\* sysReply clears the sender's msg.  (Mutant: it is left set.)
KeepMsg(dst)  == msg
ClearMsg(dst) == msg \ {dst}

\* Reply with an error: -1, -2, or -3 when the task waits for no reply.
ReplyRejected(t) ==
  /\ IsTask(t) => ~AwaitsReply(Slot(t))
  /\ ReturnToLoop

\* Reply: any task may answer a task that waits for a reply.
SysReply(t) ==
  LET dst == Slot(t)
  IN /\ mode = "user"
     /\ IsTask(t)
     /\ AwaitsReply(dst)
     /\ msg' = ClearMsg(dst)
     /\ ready_list' = InsertTask(ready_list, dst)
     /\ state' = [state EXCEPT ![dst] = "Ready"]
     /\ sent_to' = [sent_to EXCEPT ![dst] = NoTask]
     /\ mode' = "schedule"
     /\ UNCHANGED <<tasks, curtask, receive_blocked_lists, events, uart>>

\* The buffers that callers give: a character for the UARTs, whose handler
\* copies it; NULL will do for the timer (clockserver.c:43).
Buffers(e) == IF e = EVENT_TIME_ELAP THEN {"NULL", "buffer"} ELSE {"buffer"}

\* The TX interrupts that are enabled once a task waits for event e.
\* (Mutant: the case of COM2_TX is missing.)
TienAwaitedCom1(e) ==
  IF e = EVENT_COM1_TX /\ ~uart1_waiting_cts THEN tien \cup {1} ELSE tien

TienAwaited(e) ==
  tien \cup { u \in Uarts : TxEvent(u) = e /\ ~(u = 1 /\ uart1_waiting_cts) }

\* AwaitEvent: the caller blocks on the event, and the interrupt that reports
\* it is enabled, except COM1's TX interrupt while UART 1 waits for CTS.
SysAwaitEvent(e, buf) ==
  LET me == Slot(tid[curtask])
  IN /\ mode = "user"
     /\ me \notin event
     /\ event' = IF buf = "NULL" THEN event ELSE event \cup {me}
     /\ ready_list' = DropCurtask
     /\ state' = BlockCurtask("EventBlocked")
     /\ event_blocked_lists' = [event_blocked_lists EXCEPT ![e] = Append(@, curtask)]
     /\ curtask' = NoTask
     /\ tien' = TienAwaited(e)
     /\ rien' = rien \cup { u \in Uarts : RxEvent(u) = e }
     /\ mode' = "schedule"
     /\ UNCHANGED <<tasks, ipc, uart1_waiting_cts>>

\* AwaitEvent asserts that the caller's event buffer is free.
AwaitEventAssertFails ==
  mode = "user" /\ Slot(tid[curtask]) \in event /\ StopSystem

-----------------------------------------------------------------------------
(* Interrupts (irq.c): the running task is preempted, stays curtask, and   *)
(* goes to the end of its list in the next scheduling.                     *)

\* The event buffer of tid t is cleared at msg_array[tid], not at its slot.  For
\* a recycled descriptor, tid >= TASK_MAX, that is out of the array's bounds
\* (assumption: and out of every table modelled here).
\* (Mutant: no buffer is cleared.)
KeepEvent(t)  == event
ClearEvent(t) == event \ {t}

\* dequeueBlockedList.  (Mutant: the task stays in the list.)
PopNothing(e) == event_blocked_lists
PopFirst(e)   == [event_blocked_lists EXCEPT ![e] = Tail(@)]

\* Waking the first task t of event e.
WakeFirst(e) ==
  LET t == tid[Head(event_blocked_lists[e])]
  IN /\ event_blocked_lists' = PopFirst(e)
     /\ event' = ClearEvent(t)
     /\ ready_list' = InsertTask(ready_list, Slot(t))
     /\ state' = [state EXCEPT ![Slot(t)] = "Ready"]

\* The timer interrupt wakes every task that waits for a tick, in a loop.
TimerIrq ==
  /\ mode = "user"
  /\ mode' = "timer"
  /\ UNCHANGED <<tasks, state, ready_list, curtask, ipc, events, uart>>

TimerLoop ==
  /\ mode = "timer"
  /\ event_blocked_lists[EVENT_TIME_ELAP] # <<>>
  /\ WakeFirst(EVENT_TIME_ELAP)
  /\ UNCHANGED <<tasks, curtask, ipc, uart, mode>>

\* (Mutant: the loop may end before the list is empty.)
TimerDoneEarly ==
  /\ mode = "timer"
  /\ mode' = "schedule"
  /\ UNCHANGED <<tasks, state, ready_list, curtask, ipc, events, uart>>

TimerDone ==
  /\ mode = "timer"
  /\ event_blocked_lists[EVENT_TIME_ELAP] = <<>>
  /\ mode' = "schedule"
  /\ UNCHANGED <<tasks, state, ready_list, curtask, ipc, events, uart>>

\* UART 1's modem status interrupt: with CTS asserted the UART may transmit.
TienAfterCts(cts) ==
  IF cts /\ event_blocked_lists[EVENT_COM1_TX] # <<>> THEN tien \cup {1} ELSE tien

ModemIrq(cts) ==
  /\ mode = "user"
  /\ uart1_waiting_cts' = (uart1_waiting_cts /\ ~cts)
  /\ tien' = TienAfterCts(cts)
  /\ mode' = "schedule"
  /\ UNCHANGED <<tasks, state, ready_list, curtask, ipc, events, rien>>

\* A character arrived and nobody waits for it: RX interrupts go off.
RxIrqNoWaiter(u) ==
  /\ mode = "user"
  /\ u \in rien
  /\ event_blocked_lists[RxEvent(u)] = <<>>
  /\ rien' = rien \ {u}
  /\ mode' = "schedule"
  /\ UNCHANGED <<tasks, state, ready_list, curtask, ipc, events, tien, uart1_waiting_cts>>

RxIrq(u) ==
  /\ mode = "user"
  /\ u \in rien
  /\ event_blocked_lists[RxEvent(u)] # <<>>
  /\ WakeFirst(RxEvent(u))
  /\ mode' = "schedule"
  /\ UNCHANGED <<tasks, curtask, ipc, uart>>

\* The TX interrupt while UART 1 waits for CTS is turned off.
TxIrqWaitingCts ==
  /\ mode = "user"
  /\ 1 \in tien
  /\ uart1_waiting_cts
  /\ tien' = tien \ {1}
  /\ mode' = "schedule"
  /\ UNCHANGED <<tasks, state, ready_list, curtask, ipc, events, rien, uart1_waiting_cts>>

MayTransmit(u) == u \in tien /\ ~(u = 1 /\ uart1_waiting_cts)

\* One character goes out: UART 1 waits for CTS, the TX interrupt goes off.
\* (The handler's branch for a TX interrupt that nobody waits for is dead code:
\* UartInterruptsOK.)
TxIrq(u) ==
  /\ mode = "user"
  /\ MayTransmit(u)
  /\ event_blocked_lists[TxEvent(u)] # <<>>
  /\ WakeFirst(TxEvent(u))
  /\ tien' = tien \ {u}
  /\ uart1_waiting_cts' = (u = 1 \/ uart1_waiting_cts)
  /\ mode' = "schedule"
  /\ UNCHANGED <<tasks, curtask, ipc, rien>>

\* The UART handler asserts msg_array[tid].eventlen = 1: for a recycled
\* descriptor it reads past the array, and may find anything.
UartAssertFails(u) ==
  /\ mode = "user"
  /\ \E e \in {RxEvent(u), TxEvent(u)} :
       /\ IF e = RxEvent(u) THEN u \in rien ELSE MayTransmit(u)
       /\ event_blocked_lists[e] # <<>>
       /\ tid[Head(event_blocked_lists[e])] >= TASK_MAX
       /\ event_blocked_lists' = PopFirst(e)
  /\ mode' = "stopped"
  /\ curtask' = NoTask
  /\ UNCHANGED <<tasks, state, ready_list, ipc, event, uart>>

-----------------------------------------------------------------------------
TidArgs == -1 .. INT_MAX

Syscall ==
  \/ Pass \/ SysHalt \/ SysExit
  \/ \E p \in Priorities : SysCreate(p)
  \/ CreateOutOfDescriptors \/ CreateTidOverflows
  \/ \E t \in TidArgs : \/ SendRejected(t) \/ SendDelivered(t) \/ SendQueued(t)
                        \/ ReplyRejected(t) \/ SysReply(t)
  \/ ReceiveBlocks \/ ReceiveTakes
  \/ \E e \in Awaited : \E buf \in Buffers(e) : SysAwaitEvent(e, buf)
  \/ AwaitEventAssertFails

\* Only UART 1 has modem status lines.
CtsIrq(u) ==
  /\ u = 1
  /\ TxIrqWaitingCts \/ \E cts \in BOOLEAN : ModemIrq(cts)

Irq ==
  \/ TimerIrq \/ TimerLoop \/ TimerDone
  \/ \E u \in Connected : \/ CtsIrq(u) \/ RxIrqNoWaiter(u)
                          \/ RxIrq(u) \/ TxIrq(u) \/ UartAssertFails(u)

Next == ScheduleNextTask \/ Syscall \/ Irq \/ Stopped

Spec == Init /\ [][Next]_vars

(* The kernel runs with interrupts off and the CPU never stops, so its own *)
(* steps are weakly fair.  Timer1 is periodic and its interrupt stays      *)
(* pending until it is served, before any other (irq.c's if chain), as     *)
(* soon as a task resumes: strong fairness.                                *)
Fairness ==
  /\ WF_vars(ScheduleNextTask)
  /\ WF_vars(TimerLoop \/ TimerDone)
  /\ SF_vars(TimerIrq)

FairSpec == Spec /\ Fairness
-----------------------------------------------------------------------------
(* Properties.                                                             *)

\* The type of every variable.
TypeOK ==
  /\ tid \in [Slots -> Int]
  /\ state \in [Slots -> TaskState]
  /\ priority \in [Slots -> Priorities]
  /\ ready_list \in [Priorities -> Seq(Slots)]
  /\ free_list \in Seq(Slots)
  /\ receive_blocked_lists \in [Slots -> Seq(Slots)]
  /\ event_blocked_lists \in [Events -> Seq(Slots)]
  /\ curtask \in Slots \cup {NoTask}
  /\ msg \in SUBSET Slots
  /\ event \in SUBSET Slots
  /\ tien \in SUBSET Uarts
  /\ rien \in SUBSET Uarts
  /\ uart1_waiting_cts \in BOOLEAN
  /\ mode \in {"schedule", "user", "timer", "stopped"}
  /\ sent_to \in [Slots -> Int]

In(s, list)    == \E i \in 1 .. Len(list) : list[i] = s
NoRepeat(list) == \A i, j \in 1 .. Len(list) : list[i] = list[j] => i = j

\* A task is linked into the ready list of its priority exactly while it is
\* Ready or Active, and once only (insertTask, blockCurrentTask,
\* removeCurrentTask, moveCurrentTaskToEnd and every waker together).
ReadyListsOK ==
  \A p \in Priorities :
    /\ NoRepeat(ready_list[p])
    /\ \A s \in Slots :
         In(s, ready_list[p]) <=> state[s] \in {"Ready", "Active"} /\ priority[s] = p

\* The free list links exactly the Zombie descriptors, each once.
FreeListOK ==
  /\ NoRepeat(free_list)
  /\ \A s \in Slots : In(s, free_list) <=> state[s] = "Zombie"

\* A task is in the receive blocked list of the slot its Send named exactly
\* while it is ReceiveBlocked, once, and in no other.
ReceiveListsOK ==
  \A r \in Slots :
    /\ NoRepeat(receive_blocked_lists[r])
    /\ \A s \in Slots :
         In(s, receive_blocked_lists[r]) <=>
           state[s] = "ReceiveBlocked" /\ Slot(sent_to[s]) = r

\* A task is in the list of one event, once, exactly while it is EventBlocked
\* (but for the task that a failing assert of the UART handler dropped).
EventListsOK ==
  /\ \A e \in Events :
       /\ NoRepeat(event_blocked_lists[e])
       /\ \A s \in Slots :
            In(s, event_blocked_lists[e]) =>
              /\ state[s] = "EventBlocked"
              /\ \A f \in Events : In(s, event_blocked_lists[f]) => f = e
  /\ mode # "stopped" =>
       \A s \in Slots :
         state[s] = "EventBlocked" => \E e \in Events : In(s, event_blocked_lists[e])

\* Together: no task is lost from the kernel's lists or linked into two of
\* them, which the single `next' field of a descriptor could not represent.
ListsMatchStates == ReadyListsOK /\ FreeListOK /\ ReceiveListsOK /\ EventListsOK

\* The task that runs is the only Active one, no ready task has a higher
\* priority, and it is the head of its list, as removeCurrentTask and
\* blockCurrentTask assert before they pop it.
RunningIsHighest ==
  /\ mode = "user" =>
       /\ curtask # NoTask
       /\ ready_list[priority[curtask]] # <<>>
       /\ curtask = Head(ready_list[priority[curtask]])
       /\ \A s \in Slots : state[s] = "Ready" => priority[s] >= priority[curtask]
  /\ mode # "stopped" => \A s \in Slots : state[s] = "Active" <=> s = curtask

\* A descriptor's tid names its own slot, and is negative only before the first
\* use: tid % TASK_MAX, with which every table is indexed, finds it.  The tids
\* of a descriptor that is used again and again overflow in the end, and then
\* createTask's assert stops the system before the tid gets to any task.
TidNamesSlot ==
  \A s \in Slots :
    /\ Slot(tid[s]) = s
    /\ tid[s] \in -TASK_MAX .. INT_MAX
    /\ state[s] # "Zombie" => tid[s] >= 0

\* The message buffer of a task is set while its message waits in the kernel
\* for a receiver, and clear whenever it can make a call: what sysSend's and
\* sysReceive's asserts on msg_array rely on.
MsgBuffersOK ==
  /\ \A s \in Slots : state[s] = "ReceiveBlocked" => s \in msg
  /\ \A s \in msg : state[s] \in {"ReceiveBlocked", "ReplyBlocked"}

\* A task that waits for a UART has the buffer that the handler copies to or
\* from, and a task whose tid was never recycled has none left over once woken.
EventBuffersOK ==
  /\ \A e \in Events \ {EVENT_TIME_ELAP} : \A s \in Slots :
       In(s, event_blocked_lists[e]) => s \in event
  /\ \A s \in event : state[s] = "EventBlocked" \/ tid[s] >= TASK_MAX

\* No rendezvous is lost: a receiver never sleeps in Receive while a sender
\* is queued behind it (sysSend and sysReceive test the other side's state).
NoLostRendezvous ==
  \A r \in Slots : state[r] = "SendBlocked" => receive_blocked_lists[r] = <<>>

\* While a task waits for COM1 to transmit, or for a character of either UART,
\* the interrupt that reports it is enabled, or the CTS interrupt will enable it;
\* and no TX interrupt is enabled that nobody waits for.
UartInterruptsOK ==
  /\ event_blocked_lists[EVENT_COM1_TX] # <<>> => 1 \in tien \/ uart1_waiting_cts
  /\ \A u \in Uarts : event_blocked_lists[RxEvent(u)] # <<>> => u \in rien
  /\ mode # "stopped" => \A u \in tien : event_blocked_lists[TxEvent(u)] # <<>>

\* A task that comes first to wait for COM2 to transmit has the interrupt enabled
\* and keeps it until it is woken.
FirstKeepsTx ==
  LET before == event_blocked_lists[EVENT_COM2_TX]
      after  == event_blocked_lists'[EVENT_COM2_TX]
  IN  /\ after # <<>>
      /\ before = <<>> \/ (2 \in tien /\ Head(after) = Head(before))
      => 2 \in tien'

\* No interrupt is lost.  Not promised is that of a task which had to queue up
\* behind another one for COM2_TX: the handler turns the interrupt off after
\* one character (irq.c:156), whoever still waits.
UartInterruptsKept == [][UartInterruptsOK' /\ FirstKeepsTx]_vars

\* The kernel implements the rendezvous of Rendezvous: sysSend, sysReceive and
\* sysReply keep its promises whatever else the tasks and the interrupts do.
Rdv == INSTANCE Rendezvous
         WITH Tasks <- Slots, inbox <- receive_blocked_lists,
              waiting <- { s \in Slots : state[s] = "SendBlocked" },
              unanswered <- { s \in Slots : state[s] = "ReplyBlocked" }

RendezvousKept == Rdv!Spec

\* A task changes state only along the edges of the kernel's task life cycle;
\* in particular nothing but its own death ends a sender's wait for a reply
\* before it was received, and a new tid appears only with a new task.
LifeCycleEdges ==
  {<<"Ready", "Active">>, <<"Active", "Ready">>, <<"Active", "Zombie">>,
   <<"Active", "SendBlocked">>, <<"SendBlocked", "Ready">>,
   <<"Active", "ReceiveBlocked">>, <<"ReceiveBlocked", "ReplyBlocked">>,
   <<"Active", "ReplyBlocked">>, <<"ReplyBlocked", "Ready">>,
   <<"Active", "EventBlocked">>, <<"EventBlocked", "Ready">>,
   <<"Zombie", "Ready">>}

TaskLifeCycle ==
  [][\A s \in Slots :
       /\ state'[s] # state[s] => <<state[s], state'[s]>> \in LifeCycleEdges
       /\ tid'[s] # tid[s] => state[s] = "Zombie" /\ state'[s] = "Ready"]_vars

\* What the code says and the kernel does not guarantee.

\* syscall.c:194 asserts that the event buffer of a task that calls AwaitEvent
\* is free.
EventBufferFree == mode = "user" => curtask \notin event

\* A ready task of the highest priority is run after a bounded number of
\* rounds, whatever the others do (round robin of moveCurrentTaskToEnd).
RoundRobin ==
  \A s \in Slots :
    state[s] = "Ready" /\ priority[s] = 0 ~> state[s] = "Active" \/ mode = "stopped"

\* Every task that waits for a tick is woken by one.
TickWakes ==
  \A s \in Slots :
    In(s, event_blocked_lists[EVENT_TIME_ELAP]) ~> state[s] = "Ready" \/ mode = "stopped"
=============================================================================
