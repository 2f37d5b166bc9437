-------------------------- MODULE ClockServerProofs --------------------------
(***************************************************************************)
(* Proofs about ClockServer for any number of clients, any size of the     *)
(* unsigned ints and any bounds.                                           *)
(***************************************************************************)
EXTENDS ClockServer, TLAPS

Tasks == Clients \cup {Notifier}

-----------------------------------------------------------------------------
(* The server's queue of senders.                                          *)

\* A Send (sysSend) adds its caller at the end of the server's queue.
LEMMA Enqueue ==
  ASSUME NEW q \in Seq(Tasks), NEW t \in Tasks
  PROVE  /\ Append(q, t) \in Seq(Tasks)
         /\ Len(q) \in Nat
         /\ Len(Append(q, t)) = Len(q) + 1
         /\ Append(q, t)[Len(q) + 1] = t
         /\ \A i \in 1 .. Len(q) : Append(q, t)[i] = q[i]
OBVIOUS

\* A Receive (sysReceive) takes the first sender off the queue.
LEMMA Dequeue ==
  ASSUME NEW q \in Seq(Tasks), q # <<>>
  PROVE  /\ Tail(q) \in Seq(Tasks)
         /\ Len(q) \in Nat \ {0}
         /\ Len(Tail(q)) = Len(q) - 1
         /\ q[1] = Head(q)
         /\ \A i \in 1 .. Len(q) - 1 : Tail(q)[i] = q[i + 1]
OBVIOUS

\* Unsigned arithmetic (clockserver.c:113, 128) stays in range.
LEMMA PlusUnsigned ==
  ASSUME NEW u \in Unsigned, NEW v \in Unsigned
  PROVE  Plus(u, v) \in Unsigned
<1>1. UINT \in Nat \ {0} /\ u \in Nat /\ v \in Nat
  BY ClockServerAssumption DEF Unsigned
<1>2. (u + v) % UINT \in 0 .. UINT - 1
  BY <1>1
<1> QED BY <1>2 DEF Plus, Unsigned

\* Unsigned arithmetic below the wrap is addition.
LEMMA PlusSmall ==
  ASSUME NEW u \in Nat, NEW v \in Nat, u + v < UINT
  PROVE  (u + v) % UINT = u + v
<1>1. UINT \in Nat \ {0}
  BY ClockServerAssumption
<1>2. ASSUME NEW a \in Nat, NEW n \in Nat \ {0}, a < n
      PROVE  a % n = a
  <2>1. a % n \in 0 .. n - 1 /\ a = n * (a \div n) + (a % n) /\ (a \div n) \in Int
    BY <1>2
  <2> QED BY <2>1, <1>2
<1> QED BY <1>1, <1>2

-----------------------------------------------------------------------------
(* Every call is answered once.  Nothing is assumed of the constants.      *)

QueueOK == TypeOK /\ AnsweredOnce

\* The server starts with no task in its queue or its heap.
LEMMA QueueInit == Init => QueueOK
<1> SUFFICES ASSUME Init PROVE QueueOK
  OBVIOUS
<1>1. 0 \in Unsigned /\ 0 \in 0 .. MaxDelay
  BY ClockServerAssumption DEF Unsigned
<1>2. TypeOK
  <2>1. query \in [Clients -> Queries]
    BY <1>1 DEF Init, Queries
  <2> QED BY <1>1, <2>1 DEF Init, TypeOK
<1>3. AnsweredOnce
  BY ClockServerAssumption DEF Init, AnsweredOnce, InQueue
<1> QED BY <1>2, <1>3 DEF QueueOK

\* A Send of a task that is in no queue and has no node.
LEMMA SendStep ==
  ASSUME QueueOK, NEW t \in Tasks, queue' = Append(queue, t), UNCHANGED delayed,
         ~ InQueue(t), t \notin DOMAIN delayed
  PROVE  /\ queue' \in Seq(Tasks)
         /\ \A i, j \in 1 .. Len(queue') : queue'[i] = queue'[j] => i = j
         /\ \A x \in Tasks : InQueue(x)' <=> InQueue(x) \/ x = t
         /\ \A c \in DOMAIN delayed' : ~ InQueue(c)'
<1>1. queue \in Seq(Tasks) /\ DOMAIN delayed \subseteq Clients
  BY DEF QueueOK, TypeOK, Tasks
<1>2. /\ queue' \in Seq(Tasks)
      /\ Len(queue) \in Nat
      /\ Len(queue') = Len(queue) + 1
      /\ queue'[Len(queue) + 1] = t
      /\ \A i \in 1 .. Len(queue) : queue'[i] = queue[i]
  BY <1>1, Enqueue
<1>3. \A x \in Tasks : InQueue(x)' <=> InQueue(x) \/ x = t
  BY <1>2 DEF InQueue
<1>4. \A i, j \in 1 .. Len(queue') : queue'[i] = queue'[j] => i = j
  BY <1>2 DEF QueueOK, AnsweredOnce, InQueue
<1>5. \A c \in DOMAIN delayed' : ~ InQueue(c)'
  BY <1>1, <1>3 DEF QueueOK, AnsweredOnce, Tasks
<1> QED BY <1>2, <1>3, <1>4, <1>5

\* A Receive takes its sender, and nobody else, off the queue.
LEMMA ReceiveStep ==
  ASSUME QueueOK, NEW t \in Tasks, Receives(t)
  PROVE  /\ InQueue(t)
         /\ queue' \in Seq(Tasks)
         /\ \A i, j \in 1 .. Len(queue') : queue'[i] = queue'[j] => i = j
         /\ \A x \in Tasks : InQueue(x)' <=> InQueue(x) /\ x # t
<1>1. queue \in Seq(Tasks) /\ queue # <<>> /\ Head(queue) = t /\ queue' = Tail(queue)
  BY DEF QueueOK, TypeOK, Tasks, Receives
<1>2. /\ queue' \in Seq(Tasks)
      /\ Len(queue) \in Nat \ {0}
      /\ Len(queue') = Len(queue) - 1
      /\ queue[1] = t
      /\ \A i \in 1 .. Len(queue) - 1 : queue'[i] = queue[i + 1]
  BY <1>1, Dequeue
<1>3. \A i, j \in 1 .. Len(queue) : queue[i] = queue[j] => i = j
  BY DEF QueueOK, AnsweredOnce
<1>4. \A i, j \in 1 .. Len(queue') : queue'[i] = queue'[j] => i = j
  BY <1>2, <1>3
<1>5. ASSUME NEW x \in Tasks PROVE InQueue(x)' <=> InQueue(x) /\ x # t
  <2>1. ASSUME InQueue(x)' PROVE InQueue(x) /\ x # t
    <3>1. PICK i \in 1 .. Len(queue') : queue'[i] = x
      BY <2>1 DEF InQueue
    <3>2. i + 1 \in 1 .. Len(queue) /\ queue[i + 1] = x /\ 1 \in 1 .. Len(queue)
      BY <3>1, <1>2
    <3>3. i + 1 # 1
      BY <3>1
    <3> QED BY <3>2, <3>3, <1>2, <1>3 DEF InQueue
  <2>2. ASSUME InQueue(x), x # t PROVE InQueue(x)'
    <3>1. PICK i \in 1 .. Len(queue) : queue[i] = x
      BY <2>2 DEF InQueue
    <3>2. i - 1 \in 1 .. Len(queue') /\ queue'[i - 1] = x
      BY <3>1, <2>2, <1>2
    <3> QED BY <3>2 DEF InQueue
  <2> QED BY <2>1, <2>2
<1>6. InQueue(t)
  <2>1. 1 \in 1 .. Len(queue) /\ queue[1] = t
    BY <1>2
  <2> QED BY <2>1 DEF InQueue
<1> QED BY <1>2, <1>4, <1>5, <1>6

\* Each step of the tasks and of the server keeps the queue right.
LEMMA QueueNext == QueueOK /\ [Next]_vars => QueueOK'
<1> SUFFICES ASSUME QueueOK, [Next]_vars PROVE QueueOK'
  OBVIOUS
<1> USE DEF QueueOK
<1>0. /\ UINT \in Nat \ {0} /\ Notifier \notin Clients
      /\ Notifier \in Tasks /\ Clients \subseteq Tasks
      /\ Tasks = Clients \cup {Notifier}
      /\ \A u, v \in Unsigned : Plus(u, v) \in Unsigned
      /\ 0 .. MaxDelay \subseteq Unsigned
  BY ClockServerAssumption, PlusUnsigned DEF Tasks, Unsigned
<1>1. CASE Tick
  <2>1. ticks' \in Unsigned
    BY <1>1, <1>0 DEF Tick, TypeOK, Unsigned
  <2>2. TypeOK'
    BY <1>1, <2>1 DEF Tick, TypeOK, server
  <2>3. AnsweredOnce'
    BY <1>1 DEF Tick, AnsweredOnce, InQueue, server
  <2> QED BY <2>2, <2>3
<1>2. CASE NotifierSends
  <2>1. ~ InQueue(Notifier) /\ Notifier \notin DOMAIN delayed
    BY <1>2, <1>0 DEF NotifierSends, AnsweredOnce, TypeOK
  <2>2. queue' = Append(queue, Notifier) /\ UNCHANGED delayed
    BY <1>2 DEF NotifierSends, server
  <2>3. /\ queue' \in Seq(Tasks)
        /\ \A i, j \in 1 .. Len(queue') : queue'[i] = queue'[j] => i = j
        /\ \A x \in Tasks : InQueue(x)' <=> InQueue(x) \/ x = Notifier
        /\ \A c \in DOMAIN delayed' : ~ InQueue(c)'
    BY <2>1, <2>2, <1>0, SendStep
  <2>4. TypeOK'
    BY <1>2, <2>3, <1>0 DEF NotifierSends, TypeOK, server, history
  <2>5. AnsweredOnce'
    <3>1. \A c \in Clients : InQueue(c)' <=> InQueue(c)
      BY <2>3, <1>0
    <3> QED BY <1>2, <2>3, <3>1, <1>0 DEF NotifierSends, AnsweredOnce, server
  <2> QED BY <2>4, <2>5
<1>3. CASE NotifierAwaits
  <2>1. TypeOK'
    BY <1>3 DEF NotifierAwaits, TypeOK, server, history
  <2>2. AnsweredOnce'
    BY <1>3 DEF NotifierAwaits, AnsweredOnce, InQueue, server
  <2> QED BY <2>1, <2>2
<1>4. ASSUME NEW c \in Clients, NEW q \in Queries, Call(c, q)
      PROVE  QueueOK'
  <2>1. ~ InQueue(c) /\ c \notin DOMAIN delayed
    BY <1>4 DEF Call, AnsweredOnce
  <2>2. queue' = Append(queue, c) /\ UNCHANGED delayed
    BY <1>4 DEF Call, server
  <2>3. /\ queue' \in Seq(Tasks)
        /\ \A i, j \in 1 .. Len(queue') : queue'[i] = queue'[j] => i = j
        /\ \A x \in Tasks : InQueue(x)' <=> InQueue(x) \/ x = c
        /\ \A d \in DOMAIN delayed' : ~ InQueue(d)'
    BY <2>1, <2>2, <1>0, SendStep
  <2>4. TypeOK'
    <3>1. query' \in [Clients -> Queries] /\ sent_at' \in [Clients -> Unsigned]
      BY <1>4 DEF Call, TypeOK
    <3> QED BY <1>4, <2>3, <3>1, <1>0 DEF Call, TypeOK, server
  <2>5. AnsweredOnce'
    <3>1. \A d \in Clients : d \in blocked' <=> InQueue(d)' \/ d \in DOMAIN delayed'
      BY <1>4, <2>3, <1>0 DEF Call, AnsweredOnce, server
    <3>2. InQueue(Notifier)' <=> notifier' = "sent"
      BY <1>4, <2>3, <1>0 DEF Call, AnsweredOnce
    <3> QED BY <2>3, <3>1, <3>2 DEF AnsweredOnce
  <2> QED BY <2>4, <2>5
<1>5. CASE ServeNotifier
  <2>1. /\ InQueue(Notifier)
        /\ queue' \in Seq(Tasks)
        /\ \A i, j \in 1 .. Len(queue') : queue'[i] = queue'[j] => i = j
        /\ \A x \in Tasks : InQueue(x)' <=> InQueue(x) /\ x # Notifier
    BY <1>5, <1>0, ReceiveStep DEF ServeNotifier
  <2> DEFINE P == Popped(Plus(time, 1))
  <2>2. /\ DOMAIN delayed' = DOMAIN delayed \ P
        /\ \A c \in DOMAIN delayed' : delayed'[c] = delayed[c]
        /\ delayed' = [c \in DOMAIN delayed \ P |-> delayed[c]]
        /\ blocked' = blocked \ P
        /\ notifier' = "replied" /\ time' = Plus(time, 1)
        /\ UNCHANGED <<query, ticks, sent_at>>
    BY <1>5 DEF ServeNotifier, Remaining, Reply, history
  <2>3. P \subseteq DOMAIN delayed
    BY DEF Popped
  <2> HIDE DEF P
  <2>4. TypeOK'
    <3>1. time' \in Unsigned
      <4>1. time \in Unsigned /\ UINT \in Nat \ {0} /\ time \in Nat
        BY <1>0 DEF TypeOK, Unsigned
      <4>2. (time + 1) % UINT \in 0 .. UINT - 1
        BY <4>1
      <4> QED BY <4>2, <2>2 DEF Plus, Unsigned
    <3>2. delayed' \in [DOMAIN delayed' -> Unsigned]
      BY <2>2 DEF TypeOK
    <3> QED BY <2>1, <2>2, <3>1, <3>2, <1>0 DEF TypeOK
  <2>5. AnsweredOnce'
    <3>1. \A c \in Clients : InQueue(c)' <=> InQueue(c)
      BY <2>1, <1>0
    <3>2. \A c \in Clients : c \in blocked' <=> InQueue(c)' \/ c \in DOMAIN delayed'
      BY <2>2, <2>3, <3>1 DEF AnsweredOnce
    <3>3. \A c \in DOMAIN delayed' : ~ InQueue(c)'
      BY <2>2, <3>1 DEF AnsweredOnce, TypeOK
    <3>4. ~ InQueue(Notifier)'
      BY <2>1, <1>0
    <3> QED BY <2>1, <2>2, <3>2, <3>3, <3>4 DEF AnsweredOnce
  <2> QED BY <2>4, <2>5
<1>6. ASSUME NEW c \in Clients, Receives(c), c \in blocked, UNCHANGED <<query, notifier, history, time>>,
             \/ Reply({c}) /\ UNCHANGED delayed
             \/ (\E k \in Unsigned : Insert(c, k)) /\ UNCHANGED blocked
      PROVE  QueueOK'
  <2>1. /\ InQueue(c)
        /\ queue' \in Seq(Tasks)
        /\ \A i, j \in 1 .. Len(queue') : queue'[i] = queue'[j] => i = j
        /\ \A x \in Tasks : InQueue(x)' <=> InQueue(x) /\ x # c
    BY <1>6, <1>0, ReceiveStep
  <2>2. c \notin DOMAIN delayed
    BY <2>1 DEF AnsweredOnce
  <2>3. /\ DOMAIN delayed' \subseteq Clients
        /\ delayed' \in [DOMAIN delayed' -> Unsigned]
        /\ blocked' \subseteq Clients
    BY <1>6 DEF Reply, Insert, TypeOK
  <2>4. TypeOK'
    BY <1>6, <2>1, <2>3, <1>0 DEF TypeOK, history
  <2>5. AnsweredOnce'
    <3>1. \A d \in Clients : d # c => (d \in blocked' <=> d \in blocked)
                                  /\ (d \in DOMAIN delayed' <=> d \in DOMAIN delayed)
                                  /\ (InQueue(d)' <=> InQueue(d))
      BY <1>6, <2>1, <1>0 DEF Reply, Insert
    <3>2. (c \in blocked' <=> c \in DOMAIN delayed') /\ ~ InQueue(c)'
      BY <1>6, <2>1, <2>2, <1>0 DEF Reply, Insert
    <3>3. InQueue(Notifier)' <=> notifier' = "sent"
      BY <1>6, <2>1, <1>0 DEF AnsweredOnce
    <3>4. \A d \in Clients : d \in blocked' <=> InQueue(d)' \/ d \in DOMAIN delayed'
      BY <3>1, <3>2 DEF AnsweredOnce
    <3>5. \A d \in DOMAIN delayed' : ~ InQueue(d)'
      BY <3>1, <3>2, <2>3 DEF AnsweredOnce
    <3> QED BY <2>1, <3>3, <3>4, <3>5 DEF AnsweredOnce
  <2> QED BY <2>4, <2>5
<1>7. ASSUME NEW c \in Clients, Receives(c) PROVE c \in blocked
  BY <1>7, <1>0, ReceiveStep DEF AnsweredOnce
<1>8. ASSUME NEW c \in Clients, ServeTime(c) PROVE QueueOK'
  BY <1>8, <1>6, <1>7 DEF ServeTime, server
<1>9. ASSUME NEW c \in Clients, ServeDelay(c) PROVE QueueOK'
  <2>1. query[c].ticks \in Unsigned /\ time \in Unsigned
    BY <1>0 DEF TypeOK, Queries
  <2> QED BY <1>9, <2>1, <1>0, <1>6, <1>7 DEF ServeDelay
<1>10. ASSUME NEW c \in Clients, ServeDelayUntil(c) PROVE QueueOK'
  <2>1. query[c].ticks \in Unsigned
    BY <1>0 DEF TypeOK, Queries
  <2> QED BY <1>10, <2>1, <1>6, <1>7 DEF ServeDelayUntil
<1>11. CASE UNCHANGED vars
  <2>1. TypeOK'
    BY <1>11 DEF TypeOK, vars, server, history
  <2>2. AnsweredOnce'
    BY <1>11 DEF AnsweredOnce, InQueue, vars, server, history
  <2> QED BY <2>1, <2>2
<1>12. ASSUME NEW c \in Clients, NEW n \in 0 .. MaxDelay,
              Time(c) \/ Delay(c, n) \/ DelayUntil(c, n)
       PROVE  QueueOK'
  <2>1. /\ [type |-> "delay", ticks |-> n] \in Queries
        /\ [type |-> "until", ticks |-> n] \in Queries
        /\ [type |-> "time", ticks |-> 0] \in Queries
    BY ClockServerAssumption DEF Queries
  <2> QED BY <1>12, <2>1, <1>4 DEF Time, Delay, DelayUntil
<1>13. 0 \in 0 .. MaxDelay
  BY ClockServerAssumption
<1> QED BY <1>1, <1>2, <1>3, <1>5, <1>8, <1>9, <1>10, <1>11, <1>12, <1>13
        DEF Next, Serve, Stopped

\* Every variable keeps its type, whatever the size of an unsigned int.
THEOREM ClockTypeCorrect == Spec => []TypeOK
<1>1. QueueOK => TypeOK
  BY DEF QueueOK
<1> QED BY <1>1, QueueInit, QueueNext, PTL DEF Spec

\* Every call of Time, Delay and DelayUntil has one message in the queue or one
\* node in the heap until it is answered, also when times wrap around.
THEOREM ClockAnsweredOnce == Spec => []AnsweredOnce
<1>1. QueueOK => AnsweredOnce
  BY DEF QueueOK
<1> QED BY <1>1, QueueInit, QueueNext, PTL DEF Spec

-----------------------------------------------------------------------------
(* No call returns early, as long as no time reaches 2^31.                 *)

NoWrap == 2 * (MaxTicks + MaxDelay) < UINT

\* The ticks that the notifier has seen and the server has not.
InFlight == IF notifier \in {"woken", "sent"} THEN 1 ELSE 0

\* The server's time runs behind the timer.
TimeBehind == time + InFlight <= ticks /\ ticks <= MaxTicks

\* The notifier's message is, or will be, behind the i-th of the queue.
NotifierBehind(i) ==
  \/ notifier = "woken"
  \/ \E j \in 1 .. Len(queue) : i < j /\ queue[j] = Notifier

\* A tick that the server will count after it has received a query came after
\* the query was sent.
QueuedOK ==
  \A i \in 1 .. Len(queue) : queue[i] # Notifier =>
    /\ sent_at[queue[i]] <= ticks
    /\ NotifierBehind(i) => sent_at[queue[i]] < ticks

\* The ticks since a Delay and those that the server has still to count for it
\* make up the delay and the tick in flight.
DelayedOK ==
  \A c \in DOMAIN delayed :
    /\ query[c].type \in {"delay", "until"}
    /\ query[c].type = "delay" =>
         (ticks - sent_at[c]) + (delayed[c] - time) >= query[c].ticks + InFlight
    /\ query[c].type = "until" => delayed[c] = query[c].ticks

ClockOK  == TimeBehind /\ QueuedOK /\ NoneOverdue /\ DelayedOK
ClockInv == QueueOK /\ ClockOK

\* The clocks start at zero and nobody waits.
LEMMA ClockInit == Init => ClockInv
<1> SUFFICES ASSUME Init PROVE ClockInv
  OBVIOUS
<1>1. QueueOK
  BY QueueInit
<1> QED BY <1>1, ClockServerAssumption
        DEF Init, ClockInv, ClockOK, TimeBehind, InFlight, QueuedOK, NoneOverdue, DelayedOK

\* The types that the arithmetic below needs.
LEMMA ClockTypes ==
  ASSUME TypeOK
  PROVE  /\ time \in Nat /\ ticks \in Nat
         /\ MaxTicks \in Nat /\ MaxDelay \in Nat /\ UINT \in Nat \ {0}
         /\ DOMAIN delayed \subseteq Clients
         /\ \A c \in DOMAIN delayed :
              /\ delayed[c] \in Nat /\ sent_at[c] \in Nat
              /\ query[c].ticks \in Nat /\ query[c].ticks <= MaxDelay
         /\ \A c \in Clients : sent_at[c] \in Nat /\ query[c].ticks \in 0 .. MaxDelay
                              /\ query[c].ticks \in Nat
                              /\ query[c].type \in {"time", "delay", "until"}
         /\ queue \in Seq(Tasks) /\ Len(queue) \in Nat
         /\ \A i \in 1 .. Len(queue) : queue[i] # Notifier => queue[i] \in Clients
<1>1. UINT \in Nat \ {0} /\ MaxTicks \in Nat /\ MaxDelay \in Nat
  BY ClockServerAssumption
<1>2. time \in Nat /\ ticks \in Nat /\ DOMAIN delayed \subseteq Clients
  BY <1>1 DEF TypeOK, Unsigned
<1>3. \A c \in Clients : sent_at[c] \in Nat /\ query[c].ticks \in 0 .. MaxDelay
                       /\ query[c].ticks \in Nat
                       /\ query[c].type \in {"time", "delay", "until"}
  BY <1>1 DEF TypeOK, Unsigned, Queries
<1>4. \A c \in DOMAIN delayed : delayed[c] \in Nat
  BY <1>1 DEF TypeOK, Unsigned
<1>5. queue \in Seq(Tasks) /\ Len(queue) \in Nat
  BY DEF TypeOK, Tasks
<1>6. \A i \in 1 .. Len(queue) : queue[i] # Notifier => queue[i] \in Clients
  BY <1>5 DEF Tasks
<1> QED BY <1>1, <1>2, <1>3, <1>4, <1>5, <1>6

\* minHeapPop in the order of the keys (clockserver.c:115-118): as long as the
\* keys are ints, the tasks popped at time t are those whose key is not past t.
LEMMA PoppedSmall ==
  ASSUME TypeOK, NEW t \in Nat, \A c \in DOMAIN delayed : 2 * delayed[c] < UINT
  PROVE  Popped(t) = {c \in DOMAIN delayed : delayed[c] <= t}
<1>1. \A c \in DOMAIN delayed : delayed[c] \in Nat /\ Signed(delayed[c]) = delayed[c]
  BY ClockTypes DEF Signed
<1>2. \A c \in DOMAIN delayed : c \in Ahead(c)
  BY <1>1 DEF Ahead
<1>3. ASSUME NEW c \in DOMAIN delayed, delayed[c] <= t, NEW d \in Ahead(c)
      PROVE  t >= delayed[d]
  BY <1>1, <1>3 DEF Ahead
<1>4. ASSUME NEW c \in DOMAIN delayed
      PROVE  (\A d \in Ahead(c) : t >= delayed[d]) <=> delayed[c] <= t
  BY <1>1, <1>2, <1>3
<1> QED BY <1>4 DEF Popped

\* The timer interrupt: everyone's time waited grows by the tick.
LEMMA TickClock ==
  ASSUME NoWrap, ClockInv, Tick
  PROVE  ClockOK'
<1>1. TypeOK
  BY DEF ClockInv, QueueOK
<1>2. ticks' = ticks + 1 /\ ticks + 1 <= MaxTicks
  <2>1. ticks < MaxTicks
    BY <1>1, ClockTypes DEF Tick, ClockInv, ClockOK, TimeBehind
  <2>2. ticks + 1 < UINT
    BY <1>1, <2>1, ClockTypes DEF NoWrap
  <2> QED BY <1>1, <2>1, <2>2, ClockTypes, PlusSmall DEF Tick
<1>3. /\ UNCHANGED <<time, delayed, queue, query, sent_at>>
      /\ InFlight' \in {InFlight, InFlight + 1} /\ InFlight \in {0, 1}
  BY DEF Tick, server, InFlight
<1>4. TimeBehind'
  BY <1>1, <1>2, <1>3, ClockTypes DEF ClockInv, ClockOK, TimeBehind
<1>5. QueuedOK'
  BY <1>1, <1>2, <1>3, ClockTypes DEF ClockInv, ClockOK, QueuedOK
<1>6. NoneOverdue'
  BY <1>3 DEF ClockInv, ClockOK, NoneOverdue
<1>7. DelayedOK'
  <2>1. ASSUME NEW c \in DOMAIN delayed, query[c].type = "delay"
        PROVE  (ticks' - sent_at[c]) + (delayed[c] - time) >= query[c].ticks + InFlight'
    <3>1. /\ ticks \in Nat /\ sent_at[c] \in Nat /\ delayed[c] \in Nat
          /\ time \in Nat /\ query[c].ticks \in Nat
      BY <1>1, ClockTypes
    <3>2. (ticks - sent_at[c]) + (delayed[c] - time) >= query[c].ticks + InFlight
      BY <2>1 DEF ClockInv, ClockOK, DelayedOK
    <3> QED BY <1>2, <1>3, <3>1, <3>2
  <2> QED BY <1>3, <2>1 DEF ClockInv, ClockOK, DelayedOK
<1> QED BY <1>4, <1>5, <1>6, <1>7 DEF ClockOK

\* The notifier's message goes to the end of the queue.
LEMMA NotifierSendsClock ==
  ASSUME NoWrap, ClockInv, NotifierSends
  PROVE  ClockOK'
<1>1. TypeOK
  BY DEF ClockInv, QueueOK
<1>2. UNCHANGED <<time, delayed, ticks, query, sent_at>> /\ InFlight' = InFlight
  BY DEF NotifierSends, server, history, InFlight
<1>3. TimeBehind' /\ NoneOverdue' /\ DelayedOK'
  BY <1>2 DEF ClockInv, ClockOK, TimeBehind, NoneOverdue, DelayedOK
<1>4. QueuedOK'
  <2>1. /\ Len(queue) \in Nat
        /\ Len(queue') = Len(queue) + 1
        /\ queue'[Len(queue) + 1] = Notifier
        /\ \A i \in 1 .. Len(queue) : queue'[i] = queue[i]
    BY <1>1, ClockTypes, Enqueue DEF NotifierSends, Tasks
  <2>2. \A i \in 1 .. Len(queue) : NotifierBehind(i)
    BY DEF NotifierSends, NotifierBehind
  <2> QED BY <1>2, <2>1, <2>2 DEF ClockInv, ClockOK, QueuedOK
<1> QED BY <1>3, <1>4 DEF ClockOK

\* The notifier back in AwaitEvent: no tick is in flight, as before.
LEMMA NotifierAwaitsClock ==
  ASSUME NoWrap, ClockInv, NotifierAwaits
  PROVE  ClockOK'
<1>1. UNCHANGED <<time, delayed, queue, ticks, query, sent_at>> /\ InFlight' = InFlight
  BY DEF NotifierAwaits, server, history, InFlight
<1>2. TimeBehind' /\ NoneOverdue' /\ DelayedOK'
  BY <1>1 DEF ClockInv, ClockOK, TimeBehind, NoneOverdue, DelayedOK
<1>3. \A i \in 1 .. Len(queue) : NotifierBehind(i)' => NotifierBehind(i)
  BY <1>1 DEF NotifierAwaits, NotifierBehind
<1>4. QueuedOK'
  BY <1>1, <1>3 DEF ClockInv, ClockOK, QueuedOK
<1> QED BY <1>2, <1>4 DEF ClockOK

\* Send: the notifier does not run, so its message, if there is one, is ahead.
LEMMA CallClock ==
  ASSUME NoWrap, ClockInv, NEW c \in Clients, NEW q \in Queries, Call(c, q)
  PROVE  ClockOK'
<1>1. TypeOK /\ AnsweredOnce
  BY DEF ClockInv, QueueOK
<1>2. /\ UNCHANGED <<time, delayed, ticks>> /\ InFlight' = InFlight
      /\ notifier' = notifier /\ notifier # "woken"
      /\ c \notin blocked
      /\ sent_at' = [sent_at EXCEPT ![c] = ticks]
      /\ query' = [query EXCEPT ![c] = q]
  BY DEF Call, server, NotifierRuns, InFlight
<1>3. /\ sent_at'[c] = ticks
      /\ \A d \in Clients : d # c => sent_at'[d] = sent_at[d] /\ query'[d] = query[d]
  BY <1>1, <1>2 DEF TypeOK
<1>4. \A d \in DOMAIN delayed : d \in Clients /\ d # c
  BY <1>1, <1>2, ClockTypes DEF AnsweredOnce
<1>5. TimeBehind' /\ NoneOverdue' /\ DelayedOK'
  BY <1>2, <1>3, <1>4 DEF ClockInv, ClockOK, TimeBehind, NoneOverdue, DelayedOK
<1>6. QueuedOK'
  <2>1. /\ Len(queue) \in Nat
        /\ Len(queue') = Len(queue) + 1
        /\ queue'[Len(queue) + 1] = c
        /\ \A i \in 1 .. Len(queue) : queue'[i] = queue[i]
    BY <1>1, ClockTypes, Enqueue DEF Call, Tasks
  <2>2. c # Notifier
    BY ClockServerAssumption
  <2>3. \A i \in 1 .. Len(queue) : queue[i] # c
    BY <1>1, <1>2 DEF AnsweredOnce, InQueue
  <2>4. ASSUME NEW i \in 1 .. Len(queue'), NotifierBehind(i)'
        PROVE  i \in 1 .. Len(queue) /\ NotifierBehind(i)
    <3>1. PICK j \in 1 .. Len(queue') : i < j /\ queue'[j] = Notifier
      BY <2>4, <1>2 DEF NotifierBehind
    <3>2. j \in 1 .. Len(queue)
      BY <3>1, <2>1, <2>2
    <3> QED BY <3>1, <3>2, <2>1 DEF NotifierBehind
  <2>5. ASSUME NEW i \in 1 .. Len(queue'), queue'[i] # Notifier
        PROVE  /\ sent_at'[queue'[i]] <= ticks'
               /\ NotifierBehind(i)' => sent_at'[queue'[i]] < ticks'
    <3>1. CASE i = Len(queue) + 1
      BY <3>1, <2>1, <2>4, <1>1, <1>2, <1>3, ClockTypes
    <3>2. CASE i \in 1 .. Len(queue)
      BY <3>2, <2>1, <2>3, <2>4, <2>5, <1>1, <1>2, <1>3, ClockTypes
         DEF ClockInv, ClockOK, QueuedOK
    <3> QED BY <3>1, <3>2, <2>1
  <2> QED BY <2>5 DEF QueuedOK
<1> QED BY <1>5, <1>6 DEF ClockOK

\* A Receive leaves the rest of the queue as it was.
LEMMA ReceiveClock ==
  ASSUME ClockInv, NEW t \in Tasks, Receives(t), notifier' # "woken",
         UNCHANGED <<sent_at, ticks>>
  PROVE  QueuedOK'
<1>1. /\ Len(queue) \in Nat \ {0}
      /\ Len(queue') = Len(queue) - 1
      /\ \A i \in 1 .. Len(queue) - 1 : queue'[i] = queue[i + 1]
  BY ClockTypes, Dequeue DEF Receives, ClockInv, QueueOK
<1>2. ASSUME NEW i \in 1 .. Len(queue'), NotifierBehind(i)'
      PROVE  NotifierBehind(i + 1)
  <2>1. PICK j \in 1 .. Len(queue') : i < j /\ queue'[j] = Notifier
    BY <1>2 DEF NotifierBehind
  <2>2. j + 1 \in 1 .. Len(queue) /\ i + 1 < j + 1 /\ queue[j + 1] = Notifier
    BY <2>1, <1>1
  <2> QED BY <2>2 DEF NotifierBehind
<1>3. \A i \in 1 .. Len(queue') : i + 1 \in 1 .. Len(queue) /\ queue'[i] = queue[i + 1]
  BY <1>1
<1> QED BY <1>2, <1>3 DEF ClockInv, ClockOK, QueuedOK

\* The server counts the tick in flight and answers whose time has come.
LEMMA ServeNotifierClock ==
  ASSUME NoWrap, ClockInv, ServeNotifier
  PROVE  /\ ClockOK'
         /\ \A c \in blocked \ blocked' :
              /\ query[c].type = "delay" => ticks - sent_at[c] >= query[c].ticks
              /\ query[c].type = "until" => ticks >= query[c].ticks
<1>1. QueueOK /\ TypeOK /\ AnsweredOnce
  BY DEF ClockInv, QueueOK
<1>2. notifier = "sent" /\ InFlight = 1
  BY <1>1, ReceiveStep DEF ServeNotifier, AnsweredOnce, Tasks, InFlight
<1>3. time + 1 <= ticks /\ ticks <= MaxTicks
  BY <1>2 DEF ClockInv, ClockOK, TimeBehind
<1>4. Plus(time, 1) = time + 1
  BY <1>1, <1>3, ClockTypes, PlusSmall DEF Plus, NoWrap
<1>5. \A c \in DOMAIN delayed :
        /\ delayed[c] - time \in 0 .. query[c].ticks
        /\ query[c].type = "until" => delayed[c] > time
  BY DEF ClockInv, ClockOK, NoneOverdue
<1>0. /\ time \in Nat /\ ticks \in Nat
      /\ MaxTicks \in Nat /\ MaxDelay \in Nat /\ UINT \in Nat
      /\ \A c \in DOMAIN delayed :
           /\ delayed[c] \in Nat /\ sent_at[c] \in Nat
           /\ query[c].ticks \in Nat /\ query[c].ticks <= MaxDelay
  BY <1>1, ClockTypes
<1>6. ASSUME NEW c \in DOMAIN delayed PROVE 2 * delayed[c] < UINT
  <2>1. delayed[c] <= time + query[c].ticks
    <3>1. delayed[c] - time \in 0 .. query[c].ticks
      BY <1>5
    <3>2. delayed[c] \in Nat /\ query[c].ticks \in Nat
      BY <1>0
    <3> QED BY <1>0, <3>1, <3>2
  <2>2. delayed[c] <= MaxTicks + MaxDelay
    BY <1>0, <1>3, <2>1
  <2> QED BY <1>0, <2>2 DEF NoWrap
<1>7. Popped(time + 1) = {c \in DOMAIN delayed : delayed[c] <= time + 1}
  BY <1>1, <1>6, ClockTypes, PoppedSmall
<1>8. /\ time' = time + 1 /\ InFlight' = 0 /\ notifier' = "replied"
      /\ UNCHANGED <<query, ticks, sent_at>>
      /\ DOMAIN delayed' \subseteq DOMAIN delayed
      /\ \A c \in DOMAIN delayed' : delayed'[c] = delayed[c] /\ delayed[c] > time + 1
      /\ \A c \in blocked \ blocked' : c \in DOMAIN delayed /\ delayed[c] <= time + 1
  BY <1>1, <1>4, <1>7, ClockTypes
     DEF ServeNotifier, Remaining, Reply, InFlight, history
<1>9. TimeBehind'
  BY <1>1, <1>3, <1>8, ClockTypes DEF TimeBehind
<1>10. QueuedOK'
  BY <1>8, ReceiveClock DEF ServeNotifier, Tasks
<1>11. NoneOverdue'
  <2>1. ASSUME NEW c \in DOMAIN delayed, delayed[c] > time + 1
        PROVE  delayed[c] - (time + 1) \in 0 .. query[c].ticks
    <3>1. delayed[c] - time \in 0 .. query[c].ticks
      BY <1>5
    <3>2. delayed[c] \in Nat /\ query[c].ticks \in Nat
      BY <1>0
    <3> QED BY <1>0, <2>1, <3>1, <3>2
  <2> QED BY <1>8, <2>1 DEF NoneOverdue
<1>12. \A c \in DOMAIN delayed :
         /\ query[c].type \in {"delay", "until"}
         /\ query[c].type = "delay" =>
              (ticks - sent_at[c]) + (delayed[c] - time) >= query[c].ticks + 1
         /\ query[c].type = "until" => delayed[c] = query[c].ticks
  BY <1>2 DEF ClockInv, ClockOK, DelayedOK
<1>13. DelayedOK'
  <2>1. ASSUME NEW c \in DOMAIN delayed, query[c].type = "delay"
        PROVE  (ticks - sent_at[c]) + (delayed[c] - (time + 1)) >= query[c].ticks + 0
    <3>1. (ticks - sent_at[c]) + (delayed[c] - time) >= query[c].ticks + 1
      BY <1>12, <2>1
    <3> QED BY <1>0, <3>1
  <2> QED BY <1>8, <1>12, <2>1 DEF DelayedOK
<1>14. ASSUME NEW c \in blocked \ blocked'
       PROVE  /\ query[c].type = "delay" => ticks - sent_at[c] >= query[c].ticks
              /\ query[c].type = "until" => ticks >= query[c].ticks
  <2>1. c \in DOMAIN delayed /\ delayed[c] <= time + 1
    BY <1>8
  <2>2. query[c].type = "delay" =>
          (ticks - sent_at[c]) + (delayed[c] - time) >= query[c].ticks + 1
    BY <1>12, <2>1
  <2>3. query[c].type = "until" => delayed[c] = query[c].ticks
    BY <1>12, <2>1
  <2> QED BY <1>0, <1>3, <2>1, <2>2, <2>3
<1> QED BY <1>9, <1>10, <1>11, <1>13, <1>14 DEF ClockOK

\* The server receives a query: a tick that it has not counted is behind it in
\* the queue, so it came after the query was sent.
LEMMA ReceivedInTime ==
  ASSUME ClockInv, NEW c \in Clients, Receives(c)
  PROVE  ticks - sent_at[c] >= InFlight /\ notifier # "woken"
<1>1. QueueOK /\ TypeOK /\ AnsweredOnce
  BY DEF ClockInv, QueueOK
<1>2. /\ Len(queue) \in Nat \ {0} /\ queue[1] = c /\ 1 \in 1 .. Len(queue)
      /\ notifier \in {"await", "sent"}
  BY <1>1, ClockTypes, Dequeue DEF Receives, NotifierRuns, TypeOK
<1>3. c # Notifier
  BY ClockServerAssumption
<1>4. sent_at[c] <= ticks /\ (NotifierBehind(1) => sent_at[c] < ticks)
  BY <1>2, <1>3 DEF ClockInv, ClockOK, QueuedOK
<1>5. ASSUME notifier = "sent" PROVE NotifierBehind(1)
  <2>1. PICK j \in 1 .. Len(queue) : queue[j] = Notifier
    BY <1>1, <1>5 DEF AnsweredOnce, InQueue
  <2>2. 1 < j
    BY <2>1, <1>2, <1>3
  <2> QED BY <2>1, <2>2 DEF NotifierBehind
<1> QED BY <1>1, <1>2, <1>4, <1>5, ClockTypes DEF InFlight

\* The server's turn for a client that it answers.
LEMMA AnswerClock ==
  ASSUME ClockInv, NEW c \in Clients, Receives(c),
         UNCHANGED <<time, delayed, query, notifier, history>>
  PROVE  ClockOK'
<1>1. UNCHANGED <<ticks, sent_at>> /\ InFlight' = InFlight /\ notifier' # "woken"
  BY ReceivedInTime DEF history, InFlight
<1>2. QueuedOK'
  BY <1>1, ReceiveClock DEF Tasks
<1>3. TimeBehind' /\ NoneOverdue' /\ DelayedOK'
  BY <1>1 DEF ClockInv, ClockOK, TimeBehind, NoneOverdue, DelayedOK
<1> QED BY <1>2, <1>3 DEF ClockOK

\* The server's turn for a client that it makes wait until the time "key".
LEMMA InsertClock ==
  ASSUME ClockInv, NEW c \in Clients, Receives(c), NEW key \in Nat, Insert(c, key),
         UNCHANGED <<time, query, notifier, history>>,
         \/ query[c].type = "delay" /\ key = query[c].ticks + time
         \/ query[c].type = "until" /\ key = query[c].ticks /\ key > time
  PROVE  ClockOK'
<1>1. TypeOK
  BY DEF ClockInv, QueueOK
<1>2. UNCHANGED <<ticks, sent_at, time, query>> /\ InFlight' = InFlight
      /\ notifier' # "woken" /\ InFlight \in {0, 1}
  BY ReceivedInTime DEF history, InFlight
<1>3. ticks - sent_at[c] >= InFlight
  BY ReceivedInTime
<1>4. /\ DOMAIN delayed' = DOMAIN delayed \cup {c}
      /\ delayed'[c] = key
      /\ \A d \in DOMAIN delayed : d # c => delayed'[d] = delayed[d]
  BY DEF Insert
<1>5. QueuedOK'
  BY <1>2, ReceiveClock DEF Tasks
<1>6. TimeBehind'
  BY <1>2 DEF ClockInv, ClockOK, TimeBehind
<1>7. NoneOverdue'
  <2>1. time \in Nat /\ query[c].ticks \in Nat
    BY <1>1, ClockTypes
  <2>2. key - time \in 0 .. query[c].ticks /\ (query[c].type = "until" => key > time)
    BY <2>1
  <2> QED BY <1>2, <1>4, <2>2 DEF ClockInv, ClockOK, NoneOverdue
<1>8. DelayedOK'
  <2>1. query[c].type = "delay" =>
          (ticks - sent_at[c]) + (key - time) >= query[c].ticks + InFlight
    <3>1. /\ ticks \in Nat /\ time \in Nat
          /\ sent_at[c] \in Nat /\ query[c].ticks \in Nat
      BY <1>1, ClockTypes
    <3> QED BY <1>2, <1>3, <3>1
  <2> QED BY <1>2, <1>4, <2>1 DEF ClockInv, ClockOK, DelayedOK
<1> QED BY <1>5, <1>6, <1>7, <1>8 DEF ClockOK

\* Every step keeps the clocks right and answers nobody early.
LEMMA ClockNext ==
  ASSUME NoWrap, ClockInv, [Next]_vars
  PROVE  /\ ClockOK'
         /\ \A c \in blocked \ blocked' :
              /\ query[c].type = "delay" => ticks - sent_at[c] >= query[c].ticks
              /\ query[c].type = "until" => ticks >= query[c].ticks
<1> DEFINE InTime == \A c \in blocked \ blocked' :
              /\ query[c].type = "delay" => ticks - sent_at[c] >= query[c].ticks
              /\ query[c].type = "until" => ticks >= query[c].ticks
<1>0. TypeOK /\ MaxTicks \in Nat /\ 0 \in 0 .. MaxDelay /\ time <= ticks
  BY ClockServerAssumption, ClockTypes
     DEF ClockInv, QueueOK, ClockOK, TimeBehind, InFlight
<1>1. CASE Tick
  BY <1>1, TickClock DEF Tick
<1>2. CASE NotifierSends
  BY <1>2, NotifierSendsClock DEF NotifierSends
<1>3. CASE NotifierAwaits
  BY <1>3, NotifierAwaitsClock DEF NotifierAwaits
<1>4. ASSUME NEW c \in Clients, NEW n \in 0 .. MaxDelay,
             Time(c) \/ Delay(c, n) \/ DelayUntil(c, n)
      PROVE  ClockOK' /\ InTime
  <2>1. /\ [type |-> "delay", ticks |-> n] \in Queries
        /\ [type |-> "until", ticks |-> n] \in Queries
        /\ [type |-> "time", ticks |-> 0] \in Queries
    BY <1>0 DEF Queries
  <2>2. PICK q \in Queries : Call(c, q)
    BY <1>4, <2>1 DEF Time, Delay, DelayUntil
  <2> QED BY <2>2, CallClock DEF Call
<1>5. CASE ServeNotifier
  BY <1>5, ServeNotifierClock
<1>6. ASSUME NEW c \in Clients, ServeTime(c) PROVE ClockOK' /\ InTime
  <2>1. ClockOK'
    BY <1>6, AnswerClock DEF ServeTime, server
  <2>2. InTime
    BY <1>6 DEF ServeTime, Reply
  <2> QED BY <2>1, <2>2
<1>7. ASSUME NEW c \in Clients, ServeDelay(c) PROVE ClockOK' /\ InTime
  <2>1. query[c].ticks \in Nat /\ time \in Nat
        /\ query[c].ticks + time < UINT
    BY <1>0, ClockTypes DEF ClockInv, ClockOK, TimeBehind, NoWrap
  <2>2. Plus(query[c].ticks, time) = query[c].ticks + time
    BY <2>1, PlusSmall DEF Plus
  <2>3. ClockOK'
    BY <1>7, <2>1, <2>2, InsertClock DEF ServeDelay
  <2> QED BY <1>7, <2>3 DEF ServeDelay
<1>8. ASSUME NEW c \in Clients, ServeDelayUntil(c) PROVE ClockOK' /\ InTime
  <2>1. query[c].ticks \in Nat /\ time \in Nat /\ ticks \in Nat
    BY <1>0, ClockTypes
  <2>2. CASE Expired(c) /\ Reply({c}) /\ UNCHANGED delayed
    <3>1. ClockOK'
      BY <1>8, <2>2, AnswerClock DEF ServeDelayUntil
    <3>2. InTime
      BY <1>8, <2>1, <2>2, <1>0 DEF ServeDelayUntil, Reply, Expired
    <3> QED BY <3>1, <3>2
  <2>3. CASE ~ Expired(c) /\ Insert(c, query[c].ticks) /\ UNCHANGED blocked
    <3>1. query[c].ticks > time
      BY <2>1, <2>3 DEF Expired
    <3>2. ClockOK'
      BY <1>8, <2>1, <2>3, <3>1, InsertClock DEF ServeDelayUntil
    <3> QED BY <2>3, <3>2
  <2> QED BY <1>8, <2>2, <2>3 DEF ServeDelayUntil
<1>9. CASE UNCHANGED vars
  <2>1. \A i \in 1 .. Len(queue) : NotifierBehind(i)' <=> NotifierBehind(i)
    BY <1>9 DEF vars, NotifierBehind
  <2>2. QueuedOK'
    BY <1>9, <2>1 DEF vars, history, ClockInv, ClockOK, QueuedOK
  <2>3. TimeBehind' /\ NoneOverdue' /\ DelayedOK'
    BY <1>9 DEF vars, server, history, ClockInv, ClockOK, TimeBehind, NoneOverdue,
                DelayedOK, InFlight
  <2> QED BY <1>9, <2>2, <2>3 DEF vars, ClockOK
<1> QED BY <1>0, <1>1, <1>2, <1>3, <1>4, <1>5, <1>6, <1>7, <1>8, <1>9
        DEF Next, Serve, Stopped

\* The invariant that the theorems about time rest on.
LEMMA ClockInvariant == ASSUME NoWrap PROVE Spec => []ClockInv
<1>1. Init => ClockInv
  BY ClockInit
<1>2. ClockInv /\ [Next]_vars => ClockInv'
  BY ClockNext, QueueNext DEF ClockInv
<1> QED BY <1>1, <1>2, PTL DEF Spec

\* No task whose deadline has passed stays in the heap after the server's turn,
\* and none waits for longer than it asked.
THEOREM ClockNoneOverdue == ASSUME NoWrap PROVE Spec => []NoneOverdue
<1>1. ClockInv => NoneOverdue
  BY DEF ClockInv, ClockOK
<1> QED BY <1>1, ClockInvariant, PTL

\* Delay and DelayUntil never return early, for any number of clients.
THEOREM ClockNeverEarly == ASSUME NoWrap PROVE Spec => NeverEarly
<1> DEFINE InTime == \A c \in blocked \ blocked' :
              /\ query[c].type = "delay" => ticks - sent_at[c] >= query[c].ticks
              /\ query[c].type = "until" => ticks >= query[c].ticks
<1>1. ClockInv /\ [Next]_vars => [InTime]_vars
  BY ClockNext
<1> QED BY <1>1, ClockInvariant, PTL DEF Spec, NeverEarly
=============================================================================
