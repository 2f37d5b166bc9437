----------------------------- MODULE ClockServer -----------------------------
(***************************************************************************)
(* The clock server, its notifier and the tasks that call Time, Delay and  *)
(* DelayUntil.  They meet through the kernel only: a Send puts its caller  *)
(* at the end of the server's queue and blocks it until a Reply.  The      *)
(* server's steps between two Receives touch nothing of the others but by  *)
(* Reply, so one turn of its loop is one action.                           *)
(*                                                                         *)
(* The timer interrupt finds the notifier in AwaitEvent, or is lost.       *)
(***************************************************************************)
EXTENDS Integers, Sequences

CONSTANTS
  Clients,    \* the tasks that call the server
  Notifier,   \* the server's notifier task
  UINT,       \* the number of unsigned ints, 2^32 in the code
  MaxTicks,   \* bound: the timer stops there; from UINT on it never stops
  MaxDelay    \* bound: the largest number of ticks asked for, an int

ASSUME ClockServerAssumption ==
  /\ Notifier \notin Clients
  /\ UINT \in Nat \ {0}
  /\ MaxTicks \in Nat
  /\ MaxDelay \in Nat /\ 2 * MaxDelay < UINT

Unsigned == 0 .. UINT - 1

Queries == [type : {"time", "delay", "until"}, ticks : 0 .. MaxDelay]

VARIABLES
  time,      \* the server's clock
  delayed,   \* the tasks with a node in minheap -> the node's key
  queue,     \* the tasks whose message the server has not received, in order
  query,     \* client -> the message of its last call
  blocked,   \* the clients in Send, queued or not replied to
  notifier,  \* "await", "woken" (about to Send), "sent", "replied"
  ticks,     \* history: the timer interrupts so far
  sent_at    \* history: client -> ticks at its last call

server  == <<time, delayed>>
history == <<ticks, sent_at>>
vars    == <<server, queue, query, blocked, notifier, history>>

\* An unsigned int read as an int: the keys of heap nodes are ints.
Signed(u) == IF 2 * u < UINT THEN u ELSE u - UINT

-----------------------------------------------------------------------------
(* clockserver() up to its loop, the notifier in its first AwaitEvent. *)

Init ==
  /\ time = 0
  /\ delayed = [c \in {} |-> 0]
  /\ queue = <<>>
  /\ query = [c \in Clients |-> [type |-> "time", ticks |-> 0]]
  /\ blocked = {}
  /\ notifier = "await"
  /\ ticks = 0
  /\ sent_at = [c \in Clients |-> 0]

(* The notifier has priority 1: all who call the server, and the server,   *)
(* have lower ones and do not run while it does.                           *)
\* (Mutant: it takes its turn like the others.)
NotifierNotAhead == FALSE
NotifierRuns     == notifier \in {"woken", "replied"}

\* The timer interrupt, at any time.
Tick ==
  /\ ticks # MaxTicks
  /\ ticks' = (ticks + 1) % UINT
  /\ notifier' = IF notifier = "await" THEN "woken" ELSE notifier
  /\ UNCHANGED <<server, queue, query, blocked, sent_at>>

NotifierSends ==
  /\ notifier = "woken"
  /\ notifier' = "sent"
  /\ queue' = Append(queue, Notifier)
  /\ UNCHANGED <<server, query, blocked, history>>

NotifierAwaits ==
  /\ notifier = "replied"
  /\ notifier' = "await"
  /\ UNCHANGED <<server, queue, query, blocked, history>>

\* Time, Delay, DelayUntil: a client sends its query.
Call(c, q) ==
  /\ ~ NotifierRuns
  /\ c \notin blocked
  /\ blocked' = blocked \cup {c}
  /\ query' = [query EXCEPT ![c] = q]
  /\ queue' = Append(queue, c)
  /\ sent_at' = [sent_at EXCEPT ![c] = ticks]
  /\ UNCHANGED <<server, notifier, ticks>>

Time(c)          == Call(c, [type |-> "time", ticks |-> 0])
Delay(c, n)      == Call(c, [type |-> "delay", ticks |-> n])
DelayUntil(c, n) == Call(c, [type |-> "until", ticks |-> n])

-----------------------------------------------------------------------------
(* The server's loop. *)

Receives(c) ==
  /\ ~ NotifierRuns
  /\ queue # <<>>
  /\ Head(queue) = c
  /\ queue' = Tail(queue)

\* Reply to the tasks of C.
Reply(C) == blocked' = blocked \ C

\* minHeapInsert of the node of c.
Insert(c, key) == delayed' = [d \in DOMAIN delayed \cup {c} |->
                                IF d = c THEN key ELSE delayed[d]]

\* The delayed tasks popped at time t: the loop stops at the first node, in the
\* order of the heap, whose key is past t; the comparison is unsigned.
\* (Mutant: the tasks whose key is t stay.)
Ahead(c) == {d \in DOMAIN delayed : Signed(delayed[d]) <= Signed(delayed[c])}
PoppedAfter(t) == {c \in DOMAIN delayed : \A d \in Ahead(c) : t > delayed[d]}
Popped(t)      == {c \in DOMAIN delayed : \A d \in Ahead(c) : t >= delayed[d]}

\* The nodes left. (Mutant: the popped ones stay.)
AllNodes(t)  == delayed
Remaining(t) == [c \in DOMAIN delayed \ Popped(t) |-> delayed[c]]

\* Unsigned arithmetic.
Plus(u, v) == (u + v) % UINT

ServeNotifier ==
  LET t == Plus(time, 1)
  IN /\ Receives(Notifier)
     /\ notifier' = "replied"
     /\ time' = t
     /\ delayed' = Remaining(t)
     /\ Reply(Popped(t))
     /\ UNCHANGED <<query, history>>

ServeTime(c) ==
  /\ Receives(c)
  /\ query[c].type = "time"
  /\ Reply({c})
  /\ UNCHANGED <<server, query, notifier, history>>

ServeDelay(c) ==
  /\ Receives(c)
  /\ query[c].type = "delay"
  /\ Insert(c, Plus(query[c].ticks, time))
  /\ UNCHANGED <<time, query, blocked, notifier, history>>

\* (Mutant: the test of an expired time is dropped.)
NoneExpired(c) == FALSE
Expired(c)     == query[c].ticks <= time

ServeDelayUntil(c) ==
  /\ Receives(c)
  /\ query[c].type = "until"
  /\ \/ /\ Expired(c)
        /\ Reply({c})
        /\ UNCHANGED delayed
     \/ /\ ~ Expired(c)
        /\ Insert(c, query[c].ticks)
        /\ UNCHANGED blocked
  /\ UNCHANGED <<time, query, notifier, history>>

Serve ==
  \/ ServeNotifier
  \/ \E c \in Clients : ServeTime(c) \/ ServeDelay(c) \/ ServeDelayUntil(c)

\* The timer has stopped and every call is answered or waits for it.
Stopped ==
  /\ ticks = MaxTicks /\ blocked = Clients
  /\ queue = <<>> /\ notifier = "await"
  /\ UNCHANGED vars

Next ==
  \/ Tick \/ NotifierSends \/ NotifierAwaits
  \/ \E c \in Clients :
       Time(c) \/ \E n \in 0 .. MaxDelay : Delay(c, n) \/ DelayUntil(c, n)
  \/ Serve
  \/ Stopped

Spec == Init /\ [][Next]_vars

(* The timer is periodic; the notifier and the server run when they are    *)
(* ready, as the tasks above them do not run forever.                      *)
FairSpec ==
  /\ Spec
  /\ WF_vars(Tick)
  /\ WF_vars(NotifierSends)
  /\ WF_vars(NotifierAwaits)
  /\ WF_vars(Serve)

-----------------------------------------------------------------------------
(* Properties. *)

\* Every variable has its type.
TypeOK ==
  /\ time \in Unsigned
  /\ DOMAIN delayed \subseteq Clients
  /\ delayed \in [DOMAIN delayed -> Unsigned]
  /\ queue \in Seq(Clients \cup {Notifier})
  /\ query \in [Clients -> Queries]
  /\ blocked \subseteq Clients
  /\ notifier \in {"await", "woken", "sent", "replied"}
  /\ ticks \in Unsigned
  /\ sent_at \in [Clients -> Unsigned]

\* The message of t is in the server's queue.
InQueue(t) == \E i \in 1 .. Len(queue) : queue[i] = t

\* Each task in Send is in the server's queue once or has one node in the heap,
\* never both, and nobody else is in either: each call is answered once, and a
\* node of the heap is not inserted again (clockserver.c:127-139).
AnsweredOnce ==
  /\ \A i, j \in 1 .. Len(queue) : queue[i] = queue[j] => i = j
  /\ \A c \in Clients : c \in blocked <=> InQueue(c) \/ c \in DOMAIN delayed
  /\ \A c \in DOMAIN delayed : ~ InQueue(c)
  /\ InQueue(Notifier) <=> notifier = "sent"

\* The server's turn leaves no task in the heap that it should have answered: a
\* deadline is not past, and not further away than its caller asked for.
NoneOverdue ==
  \A c \in DOMAIN delayed :
    /\ delayed[c] - time \in 0 .. query[c].ticks
    /\ query[c].type = "until" => delayed[c] > time

\* No call returns early: Delay(n) returns after n interrupts of the timer, all
\* later than the call, although the server adds n to its own time when it
\* receives the query; DelayUntil(n) after the n-th interrupt since boot.
NeverEarly ==
  [][\A c \in blocked \ blocked' :
       /\ query[c].type = "delay" => ticks - sent_at[c] >= query[c].ticks
       /\ query[c].type = "until" => ticks >= query[c].ticks]_vars

\* Every call returns, also those whose deadline wraps around (from FairSpec).
CallsReturn == \A c \in Clients : c \in blocked ~> c \notin blocked
=============================================================================
