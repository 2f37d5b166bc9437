------------------------------ MODULE Rendezvous ------------------------------
(***************************************************************************)
(* What Send, Receive and Reply promise, whatever the scheduler and the    *)
(* interrupts do between them: a message is delivered to one Receive, the  *)
(* messages for a task in the order they were sent, its sender goes on     *)
(* only when it is answered, and a task that is waiting for a message gets *)
(* the first one sent.                                                     *)
(***************************************************************************)
EXTENDS Naturals, Sequences

CONSTANT Tasks

VARIABLES
  inbox,      \* task -> the senders of messages it has not received yet
  waiting,    \* the tasks that wait for a message
  unanswered  \* the senders whose message was received, and not answered

vars == <<inbox, waiting, unanswered>>

\* A task that is in none of the three goes on.
GoesOn(t) ==
  /\ t \notin waiting \cup unanswered
  /\ \A r \in Tasks : \A i \in 1 .. Len(inbox[r]) : inbox[r][i] # t

\* The receiver waits: the message is delivered at once.
SendToWaiting(s, r) ==
  /\ GoesOn(s) /\ r \in waiting
  /\ waiting' = waiting \ {r}
  /\ unanswered' = unanswered \cup {s}
  /\ inbox' = inbox

SendToBusy(s, r) ==
  /\ GoesOn(s) /\ r \notin waiting
  /\ inbox' = [inbox EXCEPT ![r] = Append(@, s)]
  /\ UNCHANGED <<waiting, unanswered>>

Receive(r) ==
  /\ GoesOn(r) /\ inbox[r] # <<>>
  /\ inbox' = [inbox EXCEPT ![r] = Tail(@)]
  /\ unanswered' = unanswered \cup {Head(inbox[r])}
  /\ waiting' = waiting

WaitForMessage(r) ==
  /\ GoesOn(r) /\ inbox[r] = <<>>
  /\ waiting' = waiting \cup {r}
  /\ UNCHANGED <<inbox, unanswered>>

\* Any task that goes on may answer.
Reply(s, by) ==
  /\ s \in unanswered /\ GoesOn(by)
  /\ unanswered' = unanswered \ {s}
  /\ UNCHANGED <<inbox, waiting>>

Init ==
  /\ inbox = [t \in Tasks |-> <<>>]
  /\ waiting = {} /\ unanswered = {}

Next ==
  \/ \E s, r \in Tasks : SendToWaiting(s, r) \/ SendToBusy(s, r) \/ Reply(s, r)
  \/ \E r \in Tasks : Receive(r) \/ WaitForMessage(r)

Spec == Init /\ [][Next]_vars
=============================================================================
