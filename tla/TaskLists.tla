------------------------------ MODULE TaskLists ------------------------------
(***************************************************************************)
(* The lists of task.c as they are in memory: each descriptor has one next *)
(* field for all of them, each list a head and a tail, and the priorities  *)
(* that have a task are in a heap.  LinkedSpec lets the handlers of Kernel *)
(* run the operations of task.c on that memory, which knows nothing of     *)
(* Kernel's sequences.                                                     *)
(***************************************************************************)
EXTENDS Kernel, Heap

VARIABLE linked     \* [next, head, tail, heap, first]; first is ready_queue.head

linked_vars == <<vars, linked>>

\* The lists, by name.
FreeList       == <<"free", 0>>
ReadyList(p)   == <<"ready", p>>
ReceiveList(s) == <<"receive", s>>
EventList(e)   == <<"event", e>>

Lists ==
  {FreeList} \cup {ReadyList(p) : p \in Priorities}
    \cup {ReceiveList(s) : s \in Slots} \cup {EventList(e) : e \in Events}

-----------------------------------------------------------------------------
\* enqueueBlockedList, and the end of insertTask and removeCurrentTask.
\* (Mutant: the task keeps the next task it had.)
EnqueueKeepNext(m, l, s) ==
  IF m.head[l] = NoTask THEN [m EXCEPT !.head[l] = s, !.tail[l] = s]
  ELSE [m EXCEPT !.next[m.tail[l]] = s, !.tail[l] = s]

Enqueue(m, l, s) ==
  IF m.head[l] = NoTask
  THEN [m EXCEPT !.next[s] = NoTask, !.head[l] = s, !.tail[l] = s]
  ELSE [m EXCEPT !.next[s] = NoTask, !.next[m.tail[l]] = s, !.tail[l] = s]

\* The head of the list at the root of the heap becomes the next task to run.
UpdateHead(m) ==
  [m EXCEPT !.first = IF HeapSize(m.heap) = 0 THEN NoTask
                      ELSE m.head[ReadyList(At(m.heap, 0))]]

insertTask(m, s, p) ==
  LET heap == IF m.head[ReadyList(p)] = NoTask THEN minHeapInsert(m.heap, p) ELSE m.heap
  IN UpdateHead([Enqueue(m, ReadyList(p), s) EXCEPT !.heap = heap])

createTask(m) ==
  LET s == m.head[FreeList]
  IN [m EXCEPT !.head[FreeList] = m.next[s], !.next[s] = NoTask]

\* curtask leaves its ready list, of which it is the head; the last task of a
\* list takes the root off the heap.
LeaveReadyList(m) ==
  LET l == ReadyList(priority[curtask])
  IN IF m.next[curtask] = NoTask
     THEN [m EXCEPT !.head[l] = NoTask, !.tail[l] = NoTask, !.heap = minHeapPop(@)]
     ELSE [m EXCEPT !.head[l] = m.next[@]]

blockCurrentTask(m)  == UpdateHead(LeaveReadyList(m))
removeCurrentTask(m) == Enqueue(blockCurrentTask(m), FreeList, curtask)

\* The list of curtask is rotated, unless its head is its tail.
moveCurrentTaskToEnd(m) ==
  LET l == ReadyList(priority[curtask])
  IN UpdateHead(IF m.head[l] = m.tail[l] THEN m
                ELSE [m EXCEPT !.head[l] = m.next[@],
                               !.next[m.tail[l]] = curtask, !.next[curtask] = NoTask,
                               !.tail[l] = curtask])

\* The first task leaves a list.  Its next field is left as it is.
dequeueBlockedList(m, l) ==
  LET second == m.next[m.head[l]]
  IN [m EXCEPT !.head[l] = second, !.tail[l] = IF second = NoTask THEN NoTask ELSE @]

-----------------------------------------------------------------------------
(* Handlers, as Kernel has them, and the operations that they call.        *)

Boot ==
  [next  |-> [s \in Slots |-> IF s = TASK_MAX - 1 THEN NoTask ELSE s + 1],
   head  |-> [l \in Lists |-> IF l = FreeList THEN 0 ELSE NoTask],
   tail  |-> [l \in Lists |-> IF l = FreeList THEN TASK_MAX - 1 ELSE NoTask],
   heap  |-> [heapInitial EXCEPT !.key = [p \in Priorities |-> p]],
   first |-> NoTask]

LinkedInit == Init /\ linked = insertTask(createTask(Boot), 0, 0)

\* kernelExit resumes first, the curtask of Kernel.
Schedules ==
  /\ ScheduleNextTask
  /\ linked' = IF curtask = NoTask THEN linked ELSE moveCurrentTaskToEnd(linked)

Creates == \E p \in Priorities :
  /\ SysCreate(p)
  /\ linked' = insertTask(createTask(linked), linked.head[FreeList], p)

Exits == SysExit /\ linked' = removeCurrentTask(linked)

Sends == \E t \in TidArgs :
  \/ /\ SendDelivered(t)
     /\ linked' = insertTask(blockCurrentTask(linked), Slot(t), priority[Slot(t)])
  \/ /\ SendQueued(t)
     /\ linked' = Enqueue(blockCurrentTask(linked), ReceiveList(Slot(t)), curtask)

Receives ==
  \/ ReceiveBlocks /\ linked' = blockCurrentTask(linked)
  \/ ReceiveTakes /\ linked' = dequeueBlockedList(linked, ReceiveList(curtask))

Replies == \E t \in TidArgs :
  SysReply(t) /\ linked' = insertTask(linked, Slot(t), priority[Slot(t)])

Awaits == \E e \in Awaited : \E buf \in Buffers(e) :
  /\ SysAwaitEvent(e, buf)
  /\ linked' = Enqueue(blockCurrentTask(linked), EventList(e), curtask)

\* The first task that waits for event e is woken.
Wake(e) ==
  LET s == linked.head[EventList(e)]
  IN linked' = insertTask(dequeueBlockedList(linked, EventList(e)), s, priority[s])

Interrupts ==
  \/ TimerLoop /\ Wake(EVENT_TIME_ELAP)
  \/ \E u \in Connected :
       \/ RxIrq(u) /\ Wake(RxEvent(u))
       \/ TxIrq(u) /\ Wake(TxEvent(u))

\* The steps that move no task, and those that end the system.
Stays(step) == step /\ UNCHANGED linked

Others ==
  \/ Stays(Pass \/ SysHalt \/ AwaitEventAssertFails)
  \/ Stays(CreateOutOfDescriptors \/ CreateTidOverflows)
  \/ \E t \in TidArgs : Stays(SendRejected(t) \/ ReplyRejected(t))
  \/ Stays(TimerIrq \/ TimerDone \/ Stopped)
  \/ \E u \in Connected :
       Stays(CtsIrq(u)) \/ Stays(RxIrqNoWaiter(u)) \/ Stays(UartAssertFails(u))

LinkedNext ==
  \/ Schedules \/ Creates \/ Exits \/ Sends \/ Receives \/ Replies \/ Awaits
  \/ Interrupts \/ Others

LinkedSpec == LinkedInit /\ [][LinkedNext]_linked_vars

-----------------------------------------------------------------------------
(* Properties                                                              *)

\* The sequence of Kernel that a list stands for.
Contents(l) ==
  CASE l = FreeList   -> free_list
    [] l[1] = "ready"   -> ready_list[l[2]]
    [] l[1] = "receive" -> receive_blocked_lists[l[2]]
    [] l[1] = "event"   -> event_blocked_lists[l[2]]

\* The pointers of a list link its tasks in order, and no more.
Links(l) ==
  LET list == Contents(l)
      n    == Len(list)
  IN IF list = <<>> THEN linked.head[l] = NoTask
     ELSE /\ linked.head[l] = list[1]
          /\ linked.tail[l] = list[n]
          /\ \A i \in 1 .. n - 1 : linked.next[list[i]] = list[i + 1]
          /\ linked.next[list[n]] = NoTask

\* The heap has the priorities with a task, once each.
HeapOfPriorities ==
  LET data == linked.heap.data
  IN /\ NoRepeat(data)
     /\ \A p \in Priorities : In(p, data) <=> ready_list[p] # <<>>

\* The one next field of each task, the heads and tails of all the lists and
\* the heap of priorities always stand for the lists that Kernel is about, in
\* whatever order calls and interrupts move tasks between them; and
\* ready_queue.head is the task that runs, as removeCurrentTask and
\* blockCurrentTask assert (task.c:93, 227).
ListsAreLinked ==
  mode # "stopped" =>
    /\ \A l \in Lists : Links(l)
    /\ HeapOfPriorities
    /\ mode = "user" => linked.first = curtask
=============================================================================
