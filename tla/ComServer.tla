------------------------------ MODULE ComServer ------------------------------
(***************************************************************************)
(* The server of one UART, its two notifiers, the tasks that call Getc,    *)
(* Putc and Puts, and the UART's side of the line.  They meet through the  *)
(* kernel: a Send puts its caller at the end of the server's queue and     *)
(* blocks it until a Reply.  The server's steps between two Receives touch *)
(* nothing of the others but by Reply, so one turn of its loop is one      *)
(* action.  An escape sequence that the server sends is one character.     *)
(***************************************************************************)
EXTENDS Integers, Sequences, FiniteSets, SequencesExt

CONSTANTS
  channel_id,          \* COM1 is 1, COM2 is 2 and echoes what it receives
  Clients,             \* the tasks that call the server
  SendNotifier, ReceiveNotifier,
  Chars, BACKSPACE,    \* the characters, and '\b'
  CLEAR_EOL, SAVE_CURSOR,  \* the escape sequences \e[K and \e[s
  COM_BUFFER_SIZE,     \* the size of send_array and receive_buffer
  GETTER_BUFFER_SIZE,  \* the size of getter_buffer
  Received,            \* bound: the characters that may arrive
  Strings              \* bound: the strings that Putc and Puts send

COM1 == 1
COM2 == 2
NoChar == "no char"

ASSUME ComServerAssumption ==
  /\ channel_id \in {COM1, COM2}
  /\ IsFiniteSet(Clients) /\ Cardinality(Clients) <= GETTER_BUFFER_SIZE
  /\ {SendNotifier, ReceiveNotifier} \cap Clients = {}
  /\ SendNotifier # ReceiveNotifier
  /\ NoChar \notin Chars /\ Received \subseteq Chars
  /\ COM_BUFFER_SIZE \in Nat \ {0}
  /\ GETTER_BUFFER_SIZE \in Nat \ {0}
  /\ Strings \subseteq Seq(Chars) \ {<<>>}

Output  == Chars \cup {CLEAR_EOL, SAVE_CURSOR}
Senders == Clients \cup {SendNotifier, ReceiveNotifier}

VARIABLES
  send_array,               \* characters accepted for the line
  receive_buffer,           \* characters received and not yet asked for
  getter_buffer,            \* tasks in Getc with no character yet
  send_notifier_is_waiting,
  queue,                    \* the messages not yet received, in order
  blocked,                  \* the clients in Send, not replied to
  send_buffer,              \* what the send notifier still has to transmit
  send_notifier,            \* "send", "sent" or "transmit"
  ch,                       \* the character of the receive notifier
  receive_notifier,         \* "await", "send" or "sent"
  uart_data,                \* the UART's received character, or NoChar
  mode,                     \* "running", or "stopped" after a failed assert or
                            \* after a write past the end of send_array
  event                     \* history: what the last step put in and took out

buffers == <<send_array, receive_buffer, getter_buffer, send_notifier_is_waiting>>
sending == <<send_buffer, send_notifier>>
uart    == <<ch, receive_notifier, uart_data>>
vars    == <<buffers, queue, blocked, sending, uart, mode, event>>

\* The characters put on and sent over the line, those that arrived and those
\* that Getc returned, the tasks that called Getc and those it returned to.
NoEvent == [put |-> <<>>, transmitted |-> <<>>, arrived |-> <<>>, got |-> <<>>,
            asked |-> <<>>, answered |-> <<>>]

Message(from, str) == [from |-> from, str |-> str]

Init ==
  /\ send_array = <<>> /\ receive_buffer = <<>> /\ getter_buffer = <<>>
  /\ send_notifier_is_waiting = FALSE
  /\ queue = <<>> /\ blocked = {}
  /\ send_buffer = <<>> /\ send_notifier = "send"
  /\ ch = NoChar /\ receive_notifier = "await" /\ uart_data = NoChar
  /\ mode = "running"
  /\ event = NoEvent

-----------------------------------------------------------------------------
(* The tasks that call the server: a message with a string to put, or with *)
(* none to get a character.                                                *)

Call(c, str) ==
  /\ mode = "running"
  /\ c \notin blocked
  /\ blocked' = blocked \cup {c}
  /\ queue' = Append(queue, Message(c, str))
  /\ UNCHANGED <<buffers, sending, uart, mode>>

Getc(c) == Call(c, <<>>) /\ event' = [NoEvent EXCEPT !.asked = <<c>>]

\* Putc is Puts of one character.
Puts(c, str) == Call(c, str) /\ event' = [NoEvent EXCEPT !.put = str]

-----------------------------------------------------------------------------
(* comSendNotifier: ask the server for characters, then AwaitEvent for     *)
(* each of them; the interrupt handler transmits it.                       *)

SendNotifierSends ==
  /\ mode = "running"
  /\ send_notifier = "send"
  /\ send_notifier' = "sent"
  /\ queue' = Append(queue, Message(SendNotifier, <<>>))
  /\ event' = NoEvent
  /\ UNCHANGED <<buffers, blocked, send_buffer, uart, mode>>

Transmit ==
  /\ mode = "running"
  /\ send_notifier = "transmit"
  /\ send_buffer' = Tail(send_buffer)
  /\ send_notifier' = IF Tail(send_buffer) = <<>> THEN "send" ELSE "transmit"
  /\ event' = [NoEvent EXCEPT !.transmitted = <<Head(send_buffer)>>]
  /\ UNCHANGED <<buffers, queue, blocked, uart, mode>>

-----------------------------------------------------------------------------
(* comReceiveNotifier and the UART, which holds one character until the    *)
(* notifier awaits it; a character that finds it full is lost, without a   *)
(* step.                                                                   *)

\* What the echo of a received character puts on the line.
Echo(x) ==
  IF channel_id # COM2 THEN <<>>
  ELSE IF x = BACKSPACE THEN <<x, CLEAR_EOL, SAVE_CURSOR>>
  ELSE <<x, SAVE_CURSOR>>

Arrive(x) ==
  /\ mode = "running"
  /\ uart_data = NoChar
  /\ uart_data' = x
  /\ event' = [NoEvent EXCEPT !.arrived = <<x>>]
  /\ UNCHANGED <<buffers, queue, blocked, sending, ch, receive_notifier, mode>>

\* The interrupt handler, or AwaitEvent that turns the interrupt on.
RxInterrupt ==
  /\ mode = "running"
  /\ receive_notifier = "await" /\ uart_data # NoChar
  /\ ch' = uart_data
  /\ uart_data' = NoChar
  /\ receive_notifier' = "send"
  /\ event' = NoEvent
  /\ UNCHANGED <<buffers, queue, blocked, sending, mode>>

ReceiveNotifierSends ==
  /\ mode = "running"
  /\ receive_notifier = "send"
  /\ receive_notifier' = "sent"
  /\ queue' = Append(queue, Message(ReceiveNotifier, <<ch>>))
  /\ ch' = NoChar
  /\ event' = [NoEvent EXCEPT !.put = Echo(ch)]
  /\ UNCHANGED <<buffers, blocked, sending, uart_data, mode>>

-----------------------------------------------------------------------------
(* The server's loop: receive and process a message, then serve the send   *)
(* notifier and one getter.                                                *)

IsNext(m) == mode = "running" /\ queue # <<>> /\ Head(queue) = m

Receives(m) == IsNext(m) /\ queue' = Tail(queue)

\* The end of the loop, with the buffers as the message left them: sa and rb
\* the characters, gb the getters, w the waiting flag, and "freed" the clients
\* replied to.
\* (Mutant: send_size is not reset.)
StillThere(sa) == sa
AfterReply(sa) == <<>>

ServeSendNotifier(sa, w) ==
  IF w /\ sa # <<>>
  THEN /\ send_notifier_is_waiting' = FALSE
       /\ send_array' = AfterReply(sa)
       /\ send_buffer' = sa
       /\ send_notifier' = "transmit"
  ELSE /\ send_notifier_is_waiting' = w
       /\ send_array' = sa
       /\ UNCHANGED sending

\* (Mutant: the getter is served only by a character, not when it asks.)
CanServeNew(rb, gb) == gb # <<>> /\ Len(rb) > Len(receive_buffer)
CanServe(rb, gb)    == gb # <<>> /\ rb # <<>>

ServeGetter(rb, gb, freed) ==
  IF CanServe(rb, gb)
  THEN /\ receive_buffer' = Tail(rb)
       /\ getter_buffer' = Tail(gb)
       /\ blocked' = blocked \ (freed \cup {Head(gb)})
       /\ event' = [NoEvent EXCEPT !.got = <<Head(rb)>>, !.answered = <<Head(gb)>>]
  ELSE /\ receive_buffer' = rb
       /\ getter_buffer' = gb
       /\ blocked' = blocked \ freed
       /\ event' = NoEvent

Finish(sa, w, rb, gb, freed) ==
  /\ ServeSendNotifier(sa, w)
  /\ ServeGetter(rb, gb, freed)
  /\ UNCHANGED <<ch, uart_data, mode>>

Fits(sa) == Len(sa) <= COM_BUFFER_SIZE

ReceiveSendNotifier ==
  /\ Receives(Message(SendNotifier, <<>>))
  /\ Finish(send_array, TRUE, receive_buffer, getter_buffer, {})
  /\ UNCHANGED receive_notifier

\* (Mutant: the characters are kept in the reverse order.)
PushCharFirst(rb, x) == <<x>> \o rb
PushChar(rb, x)      == Append(rb, x)

ReceiveReceiveNotifier(x) ==
  LET sa == send_array \o Echo(x)
  IN /\ Receives(Message(ReceiveNotifier, <<x>>))
     /\ Len(receive_buffer) < COM_BUFFER_SIZE
     /\ Fits(sa)
     /\ receive_notifier' = "await"
     /\ Finish(sa, send_notifier_is_waiting, PushChar(receive_buffer, x),
               getter_buffer, {})

\* (Mutant: the last one to ask is served first.)
AddGetterFirst(gb, c) == <<c>> \o gb
AddGetter(gb, c)      == Append(gb, c)

ReceiveGetc(c) ==
  /\ Receives(Message(c, <<>>))
  /\ Finish(send_array, send_notifier_is_waiting, receive_buffer,
            AddGetter(getter_buffer, c), {})
  /\ UNCHANGED receive_notifier

\* (Mutant: the reply is forgotten.)
NoReply(c)   == {}
PutsReply(c) == {c}

ReceivePuts(c, str) ==
  LET sa == send_array \o str
  IN /\ Receives(Message(c, str))
     /\ Fits(sa)
     /\ Finish(sa, send_notifier_is_waiting, receive_buffer, getter_buffer,
               PutsReply(c))
     /\ UNCHANGED receive_notifier

(* The limits: bufferPushChar asserts that the buffer has room, and the    *)
(* system halts; nothing tests send_array, and the memory after it is      *)
(* overwritten.  Nothing is said of the system afterwards.                 *)
BuffersExceeded ==
  /\ \/ \E x \in Chars :
          /\ IsNext(Message(ReceiveNotifier, <<x>>))
          /\ \/ Len(receive_buffer) = COM_BUFFER_SIZE
             \/ ~ Fits(send_array \o Echo(x))
     \/ \E c \in Clients, str \in Strings :
          IsNext(Message(c, str)) /\ ~ Fits(send_array \o str)
  /\ mode' = "stopped"
  /\ event' = NoEvent
  /\ UNCHANGED <<buffers, queue, blocked, sending, uart>>

Server ==
  \/ ReceiveSendNotifier
  \/ \E x \in Chars : ReceiveReceiveNotifier(x)
  \/ \E c \in Clients :
       ReceiveGetc(c) \/ \E str \in Strings : ReceivePuts(c, str)
  \/ BuffersExceeded

Stopped == mode = "stopped" /\ UNCHANGED vars

Next ==
  \/ \E c \in Clients :
       \/ Getc(c)
       \/ \E str \in Strings : Puts(c, str)
  \/ SendNotifierSends \/ Transmit
  \/ \E x \in Received : Arrive(x)
  \/ RxInterrupt \/ ReceiveNotifierSends
  \/ Server
  \/ Stopped

Spec == Init /\ [][Next]_vars

(* The notifiers and the server run when they are ready, and the line      *)
(* takes every character in the end.                                       *)
FairSpec ==
  /\ Spec
  /\ WF_vars(SendNotifierSends)
  /\ WF_vars(Transmit)
  /\ WF_vars(RxInterrupt)
  /\ WF_vars(ReceiveNotifierSends)
  /\ WF_vars(Server)

-----------------------------------------------------------------------------
(* Properties. *)

\* Every variable has its type, and the buffers their sizes.
TypeOK ==
  /\ send_array \in Seq(Output) /\ Len(send_array) <= COM_BUFFER_SIZE
  /\ receive_buffer \in Seq(Chars) /\ Len(receive_buffer) <= COM_BUFFER_SIZE
  /\ getter_buffer \in Seq(Clients) /\ Len(getter_buffer) <= GETTER_BUFFER_SIZE
  /\ send_notifier_is_waiting \in BOOLEAN
  /\ queue \in Seq([from : Senders, str : Seq(Chars)])
  /\ blocked \subseteq Clients
  /\ send_buffer \in Seq(Output)
  /\ send_notifier \in {"send", "sent", "transmit"}
  /\ ch \in Chars \cup {NoChar}
  /\ receive_notifier \in {"await", "send", "sent"}
  /\ uart_data \in Chars \cup {NoChar}
  /\ mode \in {"running", "stopped"}

\* The server never goes back to Receive with two sides waiting for each other:
\* a character and a task in Getc, or characters to send and the idle notifier.
\* It serves one getter a turn, which is enough only if neither kept waiting
\* before (comserver.c:193-201).
NobodyWaitsInVain ==
  /\ getter_buffer = <<>> \/ receive_buffer = <<>>
  /\ ~ send_notifier_is_waiting \/ send_array = <<>>

\* The tasks of the messages in the queue, and all that wait for a reply.
Callers(q) == [i \in DOMAIN q |-> q[i].from]
Waiting    == getter_buffer \o Callers(queue)

\* A task in Send is in the server's queue once or among its getters once, and
\* nobody else is: no call is lost or answered twice, and getter_buffer, which
\* asserts that it has room, never holds more than the clients.
AnsweredOnce ==
  /\ \A i, j \in DOMAIN Waiting : Waiting[i] = Waiting[j] => i = j
  /\ blocked = ToSet(Waiting) \ {SendNotifier, ReceiveNotifier}
  /\ SendNotifier \in ToSet(Waiting) <=>
       send_notifier = "sent" /\ ~ send_notifier_is_waiting
  /\ ReceiveNotifier \in ToSet(Waiting) <=> receive_notifier = "sent"

\* What a message in the queue will put on the line, the character that it
\* brings from the keyboard, and the task that asks for one.
Pending(m) == IF m.from = ReceiveNotifier THEN Echo(m.str[1]) ELSE m.str
Typed(m)   == IF m.from = ReceiveNotifier THEN m.str ELSE <<>>
Asking(m)  == IF m.from \in Clients /\ m.str = <<>> THEN <<m.from>> ELSE <<>>

\* A place for one character.
Held(x) == IF x = NoChar THEN <<>> ELSE <<x>>

\* The characters put and not yet transmitted, those arrived and not yet
\* returned, and the tasks in Getc.
OnTheLine ==
  send_buffer \o send_array \o FlattenSeq([i \in DOMAIN queue |-> Pending(queue[i])])
FromKeyboard ==
  receive_buffer \o FlattenSeq([i \in DOMAIN queue |-> Typed(queue[i])]) \o
  Held(ch) \o Held(uart_data)
InGetc ==
  getter_buffer \o FlattenSeq([i \in DOMAIN queue |-> Asking(queue[i])])

Line == INSTANCE Fifo WITH
  items <- OnTheLine, in <- event.put, out <- event.transmitted
Keyboard == INSTANCE Fifo WITH
  items <- FromKeyboard, in <- event.arrived, out <- event.got
Getters == INSTANCE Fifo WITH
  items <- InGetc, in <- event.asked, out <- event.answered

\* The line transmits what was put, in the order of the Sends of clients and of
\* the echo: no character is lost, doubled or moved, and no string is cut.
OutputInOrder == Line!Spec

\* The calls of Getc return the characters received, in their order.
InputInOrder == Keyboard!Spec

\* The calls of Getc are answered in the order they were made.
GettersInOrder == Getters!Spec

\* Every string accepted leaves the server, and every call of Puts returns, as
\* long as the buffers suffice (from FairSpec).
OutputDrains ==
  /\ send_array # <<>> ~> send_array = <<>> \/ mode = "stopped"
  /\ \A c \in Clients :
       (\E i \in DOMAIN queue : queue[i].from = c)
         ~> (\A i \in DOMAIN queue : queue[i].from # c) \/ mode = "stopped"
=============================================================================
