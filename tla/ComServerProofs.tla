--------------------------- MODULE ComServerProofs ---------------------------
(***************************************************************************)
(* The COM server answers every call once, in order, and the line and the  *)
(* keyboard behave as queues, for any tasks, characters and buffer sizes.  *)
(***************************************************************************)
EXTENDS ComServer, SequenceLemmas, FiniteSetTheorems

-----------------------------------------------------------------------------
(* The inductive invariant: besides the two properties, the types, the     *)
(* form of the messages, and how the notifiers' variables go together.     *)

Messages ==
  {Message(SendNotifier, <<>>)} \cup
  {Message(ReceiveNotifier, <<x>>) : x \in Chars} \cup
  {Message(c, <<>>) : c \in Clients} \cup
  {Message(c, str) : c \in Clients, str \in Strings}

Typing ==
  /\ send_array \in Seq(Output) /\ Len(send_array) <= COM_BUFFER_SIZE
  /\ receive_buffer \in Seq(Chars) /\ Len(receive_buffer) <= COM_BUFFER_SIZE
  /\ getter_buffer \in Seq(Clients)
  /\ send_notifier_is_waiting \in BOOLEAN
  /\ queue \in Seq(Messages)
  /\ blocked \subseteq Clients
  /\ send_buffer \in Seq(Output)
  /\ send_notifier \in {"send", "sent", "transmit"}
  /\ ch \in Chars \cup {NoChar}
  /\ receive_notifier \in {"await", "send", "sent"}
  /\ uart_data \in Chars \cup {NoChar}
  /\ mode \in {"running", "stopped"}

Notifiers ==
  /\ send_notifier = "transmit" <=> send_buffer # <<>>
  /\ send_notifier_is_waiting => send_notifier = "sent"
  /\ receive_notifier = "send" <=> ch # NoChar

IInv == Typing /\ Notifiers /\ NobodyWaitsInVain /\ AnsweredOnce

-----------------------------------------------------------------------------
(* The messages. *)

\* A message is its sender and its string.
LEMMA MessageFields ==
  ASSUME NEW c, NEW str
  PROVE  Message(c, str).from = c /\ Message(c, str).str = str
BY DEF Message

\* The messages that are sent.
LEMMA MessageSent ==
  /\ Message(SendNotifier, <<>>) \in Messages
  /\ \A x \in Chars : Message(ReceiveNotifier, <<x>>) \in Messages
  /\ \A c \in Clients : Message(c, <<>>) \in Messages
  /\ \A c \in Clients, str \in Strings : Message(c, str) \in Messages
<1>1. Message(SendNotifier, <<>>) \in Messages
  BY DEF Messages
<1>2. ASSUME NEW x \in Chars PROVE Message(ReceiveNotifier, <<x>>) \in Messages
  BY DEF Messages
<1>3. ASSUME NEW c \in Clients PROVE Message(c, <<>>) \in Messages
  BY DEF Messages
<1>4. ASSUME NEW c \in Clients, NEW str \in Strings PROVE Message(c, str) \in Messages
  BY DEF Messages
<1> QED BY <1>1, <1>2, <1>3, <1>4

\* What a message may say of its sender.
LEMMA MessageForms ==
  ASSUME NEW m \in Messages
  PROVE  /\ m.from \in Senders /\ m.str \in Seq(Chars)
         /\ m.from = SendNotifier => m.str = <<>>
         /\ m.from = ReceiveNotifier => \E x \in Chars : m.str = <<x>>
         /\ m.from \in Clients => m.str = <<>> \/ m.str \in Strings
<1>1. /\ SendNotifier \notin Clients /\ ReceiveNotifier \notin Clients
      /\ SendNotifier # ReceiveNotifier
      /\ \A str \in Strings : str \in Seq(Chars)
  BY ComServerAssumption
<1>2. CASE m = Message(SendNotifier, <<>>)
  <2>1. m.from = SendNotifier /\ m.str = <<>>
    BY <1>2, MessageFields
  <2> QED BY <1>1, <2>1 DEF Senders
<1>3. CASE m \in {Message(ReceiveNotifier, <<x>>) : x \in Chars}
  <2>1. PICK x \in Chars : m = Message(ReceiveNotifier, <<x>>)
    BY <1>3
  <2>2. m.from = ReceiveNotifier /\ m.str = <<x>>
    BY <2>1, MessageFields
  <2>3. <<x>> \in Seq(Chars)
    OBVIOUS
  <2> QED BY <1>1, <2>2, <2>3 DEF Senders
<1>4. CASE m \in {Message(c, <<>>) : c \in Clients}
  <2>1. PICK c \in Clients : m = Message(c, <<>>)
    BY <1>4
  <2>2. m.from = c /\ m.str = <<>>
    BY <2>1, MessageFields
  <2> QED BY <1>1, <2>2 DEF Senders
<1>5. CASE m \in {Message(c, str) : c \in Clients, str \in Strings}
  <2>1. PICK c \in Clients, str \in Strings : m = Message(c, str)
    BY <1>5
  <2>2. m.from = c /\ m.str = str
    BY <2>1, MessageFields
  <2> QED BY <1>1, <2>2 DEF Senders
<1> QED BY <1>2, <1>3, <1>4, <1>5 DEF Messages

\* The senders of a queue's messages, when it grows and when it shrinks.
LEMMA CallersFacts ==
  ASSUME NEW q \in Seq(Messages)
  PROVE  /\ Callers(q) \in Seq(Senders)
         /\ \A m \in Messages : Callers(Append(q, m)) = Append(Callers(q), m.from)
         /\ q # <<>> => /\ Callers(q) = Join(<<Head(q).from>>, Callers(Tail(q)))
                        /\ Callers(Tail(q)) \in Seq(Senders)
<1> DEFINE p == [m \in Messages |-> m.from]
<1>1. \A r \in Seq(Messages) : Callers(r) = Mapped(p, r)
  BY DEF Callers, Mapped
<1>2. Maps(p, Messages, Senders)
  BY MessageForms DEF Maps
<1>3. \A m \in Messages : p[m] = m.from
  OBVIOUS
<1> HIDE DEF p
<1>4. \A r \in Seq(Messages) :
        /\ Mapped(p, r) \in Seq(Senders)
        /\ \A m \in Messages : Mapped(p, Append(r, m)) = Append(Mapped(p, r), p[m])
        /\ r # << >> => /\ Mapped(p, r) # << >>
                        /\ Head(Mapped(p, r)) = p[Head(r)]
                        /\ Tail(Mapped(p, r)) = Mapped(p, Tail(r))
  BY <1>2, MappedFacts
<1>5. Callers(q) \in Seq(Senders)
  BY <1>1, <1>4
<1>6. ASSUME NEW m \in Messages
      PROVE  Callers(Append(q, m)) = Append(Callers(q), m.from)
  <2>1. Append(q, m) \in Seq(Messages)
    OBVIOUS
  <2>2. Mapped(p, Append(q, m)) = Append(Mapped(p, q), p[m])
    BY <1>4
  <2> QED BY <1>1, <1>3, <2>1, <2>2
<1>7. ASSUME q # <<>>
      PROVE  /\ Callers(q) = Join(<<Head(q).from>>, Callers(Tail(q)))
             /\ Callers(Tail(q)) \in Seq(Senders)
  <2>1. Head(q) \in Messages /\ Tail(q) \in Seq(Messages)
    BY <1>7
  <2>2. Callers(q) # <<>> /\ Head(Callers(q)) = Head(q).from
        /\ Tail(Callers(q)) = Callers(Tail(q))
    BY <1>1, <1>3, <1>4, <1>7, <2>1
  <2>3. Callers(q) = Join(<<Head(Callers(q))>>, Tail(Callers(q)))
    BY <1>5, <2>2, JoinParts
  <2> QED BY <1>1, <1>4, <2>1, <2>2, <2>3
<1> QED BY <1>5, <1>6, <1>7

-----------------------------------------------------------------------------
(* Who waits. *)

\* The tasks that wait: in getter_buffer, then in the server's queue.
LEMMA WaitingIs ==
  ASSUME Typing
  PROVE  /\ Waiting = Join(getter_buffer, Callers(queue))
         /\ getter_buffer \in Seq(Senders) /\ Callers(queue) \in Seq(Senders)
         /\ Waiting \in Seq(Senders)
<1>1. Waiting = Join(getter_buffer, Callers(queue))
  BY DEF Waiting, Join
<1>2. getter_buffer \in Seq(Senders) /\ Callers(queue) \in Seq(Senders)
  <2>1. \A r \in Seq(Clients) : r \in Seq(Senders)
    BY DEF Senders
  <2> QED BY <2>1, CallersFacts DEF Typing
<1> QED BY <1>1, <1>2, JoinFacts

\* A message sent makes one more task wait.
LEMMA Enqueue ==
  ASSUME Typing, Once(Waiting), NEW m \in Messages, m.from \notin ToSet(Waiting),
         getter_buffer' = getter_buffer, queue' = Append(queue, m)
  PROVE  /\ Once(Waiting')
         /\ ToSet(Waiting') = ToSet(Waiting) \cup {m.from}
<1> DEFINE g == getter_buffer
           C == Callers(queue)
           x == m.from
<1>1. /\ Waiting = Join(g, C) /\ g \in Seq(Senders) /\ C \in Seq(Senders)
      /\ Waiting \in Seq(Senders) /\ x \in Senders
  BY WaitingIs, MessageForms
<1>2. Waiting' = Join(g, Append(C, x))
  BY CallersFacts DEF Waiting, Join, Typing
<1> HIDE DEF g, C, x
<1>3. Append(C, x) = Join(C, <<x>>) /\ Append(Waiting, x) = Join(Waiting, <<x>>)
      /\ <<x>> \in Seq(Senders)
  BY <1>1, JoinAppend
<1> DEFINE u == <<x>>
<1>4. u \in Seq(Senders) /\ u = <<x>>
  BY <1>3
<1> HIDE DEF u
<1>8. \A a, b, c \in Seq(Senders) : Join(Join(a, b), c) = Join(a, Join(b, c))
  BY JoinFacts
<1>5. Join(g, Join(C, u)) = Join(Join(g, C), u)
  <2>1. g \in Seq(Senders) /\ C \in Seq(Senders) /\ u \in Seq(Senders)
    BY <1>1, <1>4
  <2> QED BY <1>8, <2>1, Zenon
<1>6. Waiting' = Append(Waiting, x)
  BY <1>1, <1>2, <1>3, <1>4, <1>5
<1>7. Once(Append(Waiting, x)) /\ ToSet(Append(Waiting, x)) = ToSet(Waiting) \cup {x}
  <2>1. x \notin ToSet(Waiting)
    BY DEF x
  <2> QED BY <1>1, <2>1, OnceAppend
<1> QED BY <1>6, <1>7 DEF x

\* The first message, when it is received: its sender waits no more, or among
\* the getters.
LEMMA Dequeue ==
  ASSUME Typing, Once(Waiting), queue # <<>>
  PROVE  LET x == Head(queue).from
             C == Callers(Tail(queue))
         IN  /\ x \in ToSet(Waiting)
             /\ Once(Join(getter_buffer, C))
             /\ ToSet(Join(getter_buffer, C)) = ToSet(Waiting) \ {x}
             /\ x \in Clients => Join(Append(getter_buffer, x), C) = Waiting
<1> DEFINE g == getter_buffer
           x == Head(queue).from
           u == <<x>>
           C == Callers(Tail(queue))
<1>1. Head(queue) \in Messages
  BY DEF Typing
<1>2. /\ Waiting = Join(g, Callers(queue)) /\ g \in Seq(Senders)
      /\ Callers(queue) = Join(u, C) /\ C \in Seq(Senders) /\ x \in Senders
  BY <1>1, WaitingIs, CallersFacts, MessageForms DEF Typing
<1>3. u \in Seq(Senders) /\ Append(g, x) = Join(g, u)
  BY <1>2, JoinAppend
<1>4. Once(Join(g, Join(<<x>>, C)))
  BY <1>2
<1> HIDE DEF g, x, C
<1>5. /\ Once(Join(g, C))
      /\ ToSet(Join(g, C)) = ToSet(Join(g, Join(<<x>>, C))) \ {x}
      /\ x \in ToSet(Join(g, Join(<<x>>, C)))
  BY <1>2, <1>4, OnceRemove
<1>6. Waiting = Join(g, Join(u, C))
  BY <1>2
<1>7. /\ x \in ToSet(Waiting) /\ ToSet(Join(g, C)) = ToSet(Waiting) \ {x}
  BY <1>5, <1>6
<1> HIDE DEF u
<1>8. Join(Append(g, x), C) = Waiting
  BY <1>2, <1>3, <1>6, JoinFacts
<1> QED BY <1>5, <1>7, <1>8 DEF g, x, C

\* At the end of a turn one getter may be served: the first.
Served(rb, gb) == IF CanServe(rb, gb) THEN {Head(gb)} ELSE {}

\* Serving the first getter takes it, and nobody else, out of those who wait
\* (comserver.c:153-157).
LEMMA ServeWaiting ==
  ASSUME NEW rb, NEW gb \in Seq(Clients), NEW freed, queue' \in Seq(Messages),
         Once(Join(gb, Callers(queue'))), ServeGetter(rb, gb, freed)
  PROVE  /\ Once(Waiting')
         /\ Served(rb, gb) \subseteq Clients
         /\ ToSet(Waiting') = ToSet(Join(gb, Callers(queue'))) \ Served(rb, gb)
         /\ blocked' = blocked \ (freed \cup Served(rb, gb))
<1> DEFINE C == Callers(queue')
           w == Join(gb, C)
<1>1. Waiting' = Join(getter_buffer', C)
  BY DEF Waiting, Join
<1>2. C \in Seq(Senders) /\ gb \in Seq(Senders)
  <2>1. \A r \in Seq(Clients) : r \in Seq(Senders)
    BY DEF Senders
  <2> QED BY <2>1, CallersFacts
<1>3. w \in Seq(Senders) /\ Once(w)
  BY <1>2, JoinFacts
<1>4. CASE CanServe(rb, gb)
  <2>1. /\ getter_buffer' = Tail(gb) /\ gb # <<>>
        /\ blocked' = blocked \ (freed \cup {Head(gb)})
    BY <1>4 DEF ServeGetter, CanServe
  <2>2. Served(rb, gb) = {Head(gb)} /\ Head(gb) \in Clients
    BY <1>4, <2>1 DEF Served
  <2> HIDE DEF C
  <2>3. w # <<>> /\ Head(w) = Head(gb) /\ Tail(w) = Join(Tail(gb), C)
    BY <1>2, <2>1, JoinHead
  <2>4. Waiting' = Tail(w)
    BY <1>1, <2>1, <2>3
  <2> HIDE DEF w
  <2>5. Once(Tail(w)) /\ ToSet(Tail(w)) = ToSet(w) \ {Head(w)}
    BY <1>3, <2>3, OnceTail
  <2> QED BY <2>1, <2>2, <2>3, <2>4, <2>5 DEF w, C
<1>5. CASE ~ CanServe(rb, gb)
  <2>1. getter_buffer' = gb /\ blocked' = blocked \ (freed \cup {})
    BY <1>5 DEF ServeGetter
  <2>2. Waiting' = w /\ Served(rb, gb) = {}
    BY <1>1, <1>5, <2>1 DEF Served
  <2>3. ToSet(Waiting') = ToSet(w) \ {}
    BY <2>2
  <2> QED BY <1>3, <2>1, <2>2, <2>3
<1> QED BY <1>4, <1>5

-----------------------------------------------------------------------------
(* One turn of the server, whichever the message: what it has accepted     *)
(* (sa, rb, gb) before it serves the two sides, and whom it replied to.    *)

Turn(sa, w, rb, gb, freed) ==
  /\ queue # <<>> /\ queue' = Tail(queue)
  /\ Finish(sa, w, rb, gb, freed)
  /\ \/ /\ Head(queue).from = SendNotifier /\ Head(queue).str = <<>>
        /\ sa = send_array /\ w = TRUE
        /\ rb = receive_buffer /\ gb = getter_buffer /\ freed = {}
        /\ receive_notifier' = receive_notifier
     \/ /\ Head(queue).from = ReceiveNotifier
        /\ \E x \in Chars :
             /\ Head(queue).str = <<x>>
             /\ sa = send_array \o Echo(x) /\ Fits(sa)
             /\ Len(receive_buffer) < COM_BUFFER_SIZE
             /\ rb = Append(receive_buffer, x)
        /\ w = send_notifier_is_waiting
        /\ gb = getter_buffer /\ freed = {}
        /\ receive_notifier' = "await"
     \/ /\ Head(queue).from \in Clients /\ Head(queue).str = <<>>
        /\ sa = send_array /\ w = send_notifier_is_waiting
        /\ rb = receive_buffer /\ gb = Append(getter_buffer, Head(queue).from)
        /\ freed = {} /\ receive_notifier' = receive_notifier
     \/ /\ Head(queue).from \in Clients /\ Head(queue).str \in Strings
        /\ sa = send_array \o Head(queue).str /\ Fits(sa)
        /\ w = send_notifier_is_waiting
        /\ rb = receive_buffer /\ gb = getter_buffer
        /\ freed = {Head(queue).from} /\ receive_notifier' = receive_notifier

\* Every step of the server is such a turn, or stops the system.
LEMMA ServerTurns ==
  ASSUME Server
  PROVE  BuffersExceeded \/ \E sa, w, rb, gb, freed : Turn(sa, w, rb, gb, freed)
<1>1. CASE ReceiveSendNotifier
  <2>1. Turn(send_array, TRUE, receive_buffer, getter_buffer, {})
    BY <1>1, MessageFields DEF ReceiveSendNotifier, Receives, IsNext, Turn
  <2> QED BY <2>1
<1>2. ASSUME NEW x \in Chars, ReceiveReceiveNotifier(x)
      PROVE  \E sa, w, rb, gb, freed : Turn(sa, w, rb, gb, freed)
  <2>1. Turn(send_array \o Echo(x), send_notifier_is_waiting,
             Append(receive_buffer, x), getter_buffer, {})
    BY <1>2, MessageFields
    DEF ReceiveReceiveNotifier, Receives, IsNext, PushChar, Turn
  <2> QED BY <2>1
<1>3. ASSUME NEW c \in Clients, ReceiveGetc(c)
      PROVE  \E sa, w, rb, gb, freed : Turn(sa, w, rb, gb, freed)
  <2>1. Turn(send_array, send_notifier_is_waiting, receive_buffer,
             Append(getter_buffer, c), {})
    BY <1>3, MessageFields DEF ReceiveGetc, Receives, IsNext, AddGetter, Turn
  <2> QED BY <2>1
<1>4. ASSUME NEW c \in Clients, NEW str \in Strings, ReceivePuts(c, str)
      PROVE  \E sa, w, rb, gb, freed : Turn(sa, w, rb, gb, freed)
  <2>1. Turn(send_array \o str, send_notifier_is_waiting, receive_buffer,
             getter_buffer, {c})
    BY <1>4, MessageFields DEF ReceivePuts, Receives, IsNext, PutsReply, Turn
  <2> QED BY <2>1
<1> QED BY <1>1, <1>2, <1>3, <1>4 DEF Server

\* What an echo puts on the line.
LEMMA EchoType ==
  ASSUME NEW x \in Chars
  PROVE  Echo(x) \in Seq(Output)
<1>1. x \in Output /\ CLEAR_EOL \in Output /\ SAVE_CURSOR \in Output
  BY DEF Output
<1>2. \A a, b, c \in Output :
        <<a, b, c>> \in Seq(Output) /\ <<a, b>> \in Seq(Output)
  OBVIOUS
<1>3. <<>> \in Seq(Output)
  OBVIOUS
<1>4. <<x, CLEAR_EOL, SAVE_CURSOR>> \in Seq(Output) /\ <<x, SAVE_CURSOR>> \in Seq(Output)
  BY <1>1, <1>2
<1> QED BY <1>3, <1>4, Zenon DEF Echo

\* What it leaves in the buffers has the types.
LEMMA TurnTypes ==
  ASSUME Typing, NEW sa, NEW w, NEW rb, NEW gb, NEW freed, Turn(sa, w, rb, gb, freed)
  PROVE  /\ sa \in Seq(Output) /\ Len(sa) <= COM_BUFFER_SIZE
         /\ w \in BOOLEAN
         /\ rb \in Seq(Chars) /\ Len(rb) <= COM_BUFFER_SIZE
         /\ gb \in Seq(Clients)
         /\ Head(queue) \in Messages /\ queue' \in Seq(Messages)
         /\ \A x \in Chars : Echo(x) \in Seq(Output)
<1>1. \A x \in Chars : Echo(x) \in Seq(Output)
  BY EchoType
<1>2. \A str \in Strings : str \in Seq(Output)
  <2>1. \A r \in Seq(Chars) : r \in Seq(Output)
    BY DEF Output
  <2> QED BY <2>1, ComServerAssumption
<1>3. Head(queue) \in Messages /\ queue' \in Seq(Messages)
  BY DEF Turn, Typing
<1>4. sa \in Seq(Output) /\ Len(sa) <= COM_BUFFER_SIZE
  <2>1. \/ sa = send_array
        \/ Fits(sa) /\ \E x \in Chars : sa = send_array \o Echo(x)
        \/ Fits(sa) /\ Head(queue).str \in Strings /\ sa = send_array \o Head(queue).str
    BY DEF Turn
  <2>2. \A a, b \in Seq(Output) : a \o b \in Seq(Output)
    OBVIOUS
  <2>3. send_array \in Seq(Output) /\ Len(send_array) <= COM_BUFFER_SIZE
    BY DEF Typing
  <2>4. sa \in Seq(Output)
    BY <1>1, <1>2, <2>1, <2>2, <2>3
  <2> QED BY <2>1, <2>3, <2>4 DEF Fits
<1>5. rb \in Seq(Chars) /\ Len(rb) <= COM_BUFFER_SIZE
  <2>1. \/ rb = receive_buffer
        \/ /\ Len(receive_buffer) < COM_BUFFER_SIZE
           /\ \E x \in Chars : rb = Append(receive_buffer, x)
    BY DEF Turn
  <2>2. /\ receive_buffer \in Seq(Chars) /\ Len(receive_buffer) <= COM_BUFFER_SIZE
        /\ COM_BUFFER_SIZE \in Nat
    BY ComServerAssumption DEF Typing
  <2> QED BY <2>1, <2>2
<1>6. gb \in Seq(Clients) /\ w \in BOOLEAN
  <2>1. \/ gb = getter_buffer
        \/ Head(queue).from \in Clients /\ gb = Append(getter_buffer, Head(queue).from)
    BY DEF Turn
  <2>2. getter_buffer \in Seq(Clients)
    BY DEF Typing
  <2>3. gb \in Seq(Clients)
    BY <2>1, <2>2
  <2>4. w = TRUE \/ w = send_notifier_is_waiting
    BY DEF Turn
  <2> QED BY <2>3, <2>4 DEF Typing
<1> QED BY <1>1, <1>3, <1>4, <1>5, <1>6

\* The notifier whose message is received has sent it and waits for the reply.
LEMMA NotifierSent ==
  ASSUME IInv, queue # <<>>
  PROVE  /\ Head(queue).from = SendNotifier =>
              send_notifier = "sent" /\ ~ send_notifier_is_waiting
         /\ Head(queue).from = ReceiveNotifier => receive_notifier = "sent"
<1>1. Head(queue).from \in ToSet(Waiting)
  <2>1. Once(Waiting)
    BY DEF IInv, AnsweredOnce, Once
  <2> QED BY <2>1, Dequeue DEF IInv
<1> QED BY <1>1 DEF IInv, AnsweredOnce

-----------------------------------------------------------------------------
(* The types. *)

\* The types hold before the first message.
LEMMA InitTyping == Init => Typing /\ Notifiers
<1> SUFFICES ASSUME Init PROVE Typing /\ Notifiers
  OBVIOUS
<1>1. Len(<<>>) <= COM_BUFFER_SIZE /\ \A S : <<>> \in Seq(S)
  BY ComServerAssumption
<1>2. Typing
  BY <1>1 DEF Init, Typing
<1>3. Notifiers
  BY DEF Init, Notifiers
<1> QED BY <1>2, <1>3

\* The server replies to the send notifier only when that task is in Send.
LEMMA TurnWaits ==
  ASSUME IInv, NEW sa, NEW w, NEW rb, NEW gb, NEW freed, Turn(sa, w, rb, gb, freed)
  PROVE  w => send_notifier = "sent"
<1>1. \/ w = TRUE /\ Head(queue).from = SendNotifier
      \/ w = send_notifier_is_waiting
  BY DEF Turn
<1> QED BY <1>1, NotifierSent DEF IInv, Notifiers, Turn

\* A turn of the server keeps the types and the notifiers' places.
LEMMA TurnTyping ==
  ASSUME IInv, NEW sa, NEW w, NEW rb, NEW gb, NEW freed, Turn(sa, w, rb, gb, freed)
  PROVE  Typing' /\ Notifiers'
<1>1. /\ sa \in Seq(Output) /\ Len(sa) <= COM_BUFFER_SIZE
      /\ w \in BOOLEAN
      /\ rb \in Seq(Chars) /\ Len(rb) <= COM_BUFFER_SIZE
      /\ gb \in Seq(Clients) /\ queue' \in Seq(Messages)
  BY TurnTypes DEF IInv
<1>2. w => send_notifier = "sent"
  BY TurnWaits
<1>6. \/ receive_notifier' = receive_notifier
      \/ receive_notifier = "sent" /\ receive_notifier' = "await"
  <2>1. \/ receive_notifier' = receive_notifier
        \/ Head(queue).from = ReceiveNotifier /\ receive_notifier' = "await"
    BY DEF Turn
  <2>2. Head(queue).from = ReceiveNotifier => receive_notifier = "sent"
    BY NotifierSent DEF Turn
  <2> QED BY <2>1, <2>2
<1>3. /\ send_array' \in Seq(Output) /\ Len(send_array') <= COM_BUFFER_SIZE
      /\ send_notifier_is_waiting' \in BOOLEAN
      /\ send_buffer' \in Seq(Output)
      /\ send_notifier' \in {"send", "sent", "transmit"}
      /\ send_notifier' = "transmit" <=> send_buffer' # <<>>
      /\ send_notifier_is_waiting' => send_notifier' = "sent"
  <2>1. \/ /\ sa # <<>> /\ send_notifier_is_waiting' = FALSE
           /\ send_array' = <<>> /\ send_buffer' = sa
           /\ send_notifier' = "transmit"
        \/ /\ send_notifier_is_waiting' = w /\ send_array' = sa
           /\ send_buffer' = send_buffer /\ send_notifier' = send_notifier
    BY DEF Turn, Finish, ServeSendNotifier, AfterReply, sending
  <2>2. /\ send_buffer \in Seq(Output)
        /\ send_notifier \in {"send", "sent", "transmit"}
        /\ send_notifier = "transmit" <=> send_buffer # <<>>
    BY DEF IInv, Typing, Notifiers
  <2>3. Len(<<>>) <= COM_BUFFER_SIZE
    BY ComServerAssumption
  <2>4. CASE send_array' = <<>> /\ send_buffer' = sa /\ sa # <<>>
             /\ send_notifier_is_waiting' = FALSE /\ send_notifier' = "transmit"
    <3>1. /\ send_notifier_is_waiting' \in BOOLEAN
          /\ send_notifier_is_waiting' => send_notifier' = "sent"
          /\ send_notifier' = "transmit" <=> send_buffer' # <<>>
      BY <2>4
    <3>2. /\ send_array' \in Seq(Output) /\ Len(send_array') <= COM_BUFFER_SIZE
          /\ send_buffer' \in Seq(Output)
      BY <1>1, <2>3, <2>4
    <3> QED BY <2>4, <3>1, <3>2
  <2>5. CASE /\ send_notifier_is_waiting' = w /\ send_array' = sa
             /\ send_buffer' = send_buffer /\ send_notifier' = send_notifier
    BY <1>1, <1>2, <2>2, <2>5
  <2> QED BY <2>1, <2>4, <2>5
<1>4. /\ receive_buffer' \in Seq(Chars) /\ Len(receive_buffer') <= COM_BUFFER_SIZE
      /\ getter_buffer' \in Seq(Clients)
      /\ blocked' \subseteq Clients
  <2>1. /\ \/ receive_buffer' = rb /\ getter_buffer' = gb
           \/ /\ rb # <<>> /\ gb # <<>>
              /\ receive_buffer' = Tail(rb) /\ getter_buffer' = Tail(gb)
        /\ blocked' \subseteq blocked
    BY DEF Turn, Finish, ServeGetter, CanServe
  <2>2. rb # <<>> => Tail(rb) \in Seq(Chars) /\ Len(Tail(rb)) <= COM_BUFFER_SIZE
    BY <1>1, ComServerAssumption
  <2>3. gb # <<>> => Tail(gb) \in Seq(Clients)
    BY <1>1
  <2> QED BY <1>1, <2>1, <2>2, <2>3 DEF IInv, Typing
<1>5. ch' = ch /\ uart_data' = uart_data /\ mode' = mode
  BY DEF Turn, Finish
<1> QED BY <1>1, <1>3, <1>4, <1>5, <1>6 DEF Typing, Notifiers, IInv

\* The types are kept by every step.
LEMMA NextTyping ==
  ASSUME IInv, [Next]_vars
  PROVE  Typing' /\ Notifiers'
<1> USE DEF IInv
<1>1. ASSUME NEW c \in Clients, NEW str, Call(c, str), str = <<>> \/ str \in Strings
      PROVE  Typing' /\ Notifiers'
  <2>1. Message(c, str) \in Messages
    BY <1>1, MessageSent
  <2> QED BY <1>1, <2>1 DEF Call, Typing, Notifiers, buffers, sending, uart
<1>2. CASE SendNotifierSends
  BY <1>2, MessageSent DEF SendNotifierSends, Typing, Notifiers, buffers, uart
<1>3. CASE Transmit
  BY <1>3 DEF Transmit, Typing, Notifiers, buffers, uart
<1>4. ASSUME NEW x \in Received, Arrive(x) PROVE Typing' /\ Notifiers'
  BY <1>4, ComServerAssumption DEF Arrive, Typing, Notifiers, buffers, sending
<1>5. CASE RxInterrupt
  BY <1>5 DEF RxInterrupt, Typing, Notifiers, buffers, sending
<1>6. CASE ReceiveNotifierSends
  <2>1. Message(ReceiveNotifier, <<ch>>) \in Messages
    BY <1>6, MessageSent DEF ReceiveNotifierSends, Typing, Notifiers
  <2> QED BY <1>6, <2>1 DEF ReceiveNotifierSends, Typing, Notifiers, buffers, sending
<1>7. CASE BuffersExceeded
  BY <1>7 DEF BuffersExceeded, Typing, Notifiers, buffers, sending, uart
<1>8. CASE Server
  BY <1>7, <1>8, ServerTurns, TurnTyping
<1>9. CASE UNCHANGED vars
  BY <1>9 DEF Typing, Notifiers, vars, buffers, sending, uart
<1> QED BY <1>1, <1>2, <1>3, <1>4, <1>5, <1>6, <1>8, <1>9
        DEF Next, Getc, Puts, Stopped

-----------------------------------------------------------------------------
(* Nobody waits in vain. *)

\* No step leaves a character and a getter that could have met.
LEMMA NextServed ==
  ASSUME IInv, [Next]_vars
  PROVE  NobodyWaitsInVain'
<1>1. CASE UNCHANGED buffers
  BY <1>1 DEF buffers, IInv, NobodyWaitsInVain
<1>2. ASSUME NEW sa, NEW w, NEW rb, NEW gb, NEW freed, Turn(sa, w, rb, gb, freed)
      PROVE  NobodyWaitsInVain'
  <2>1. ~ send_notifier_is_waiting' \/ send_array' = <<>>
    BY <1>2 DEF Turn, Finish, ServeSendNotifier, AfterReply
  <2>2. /\ receive_buffer \in Seq(Chars) /\ getter_buffer \in Seq(Clients)
        /\ getter_buffer = <<>> \/ receive_buffer = <<>>
    BY DEF IInv, Typing, NobodyWaitsInVain
  <2>3. \/ rb = receive_buffer /\ gb = getter_buffer
        \/ gb = getter_buffer /\ \E x \in Chars : rb = Append(receive_buffer, x)
        \/ rb = receive_buffer /\ \E c \in Clients : gb = Append(getter_buffer, c)
    BY <1>2 DEF Turn
  <2>4. \/ gb = <<>> \/ rb = <<>>
        \/ gb # <<>> /\ rb # <<>> /\ (Tail(gb) = <<>> \/ Tail(rb) = <<>>)
    BY <2>2, <2>3
  <2>5. getter_buffer' = <<>> \/ receive_buffer' = <<>>
    BY <1>2, <2>4 DEF Turn, Finish, ServeGetter, CanServe
  <2> QED BY <2>1, <2>5 DEF NobodyWaitsInVain
<1>3. CASE Server
  BY <1>1, <1>2, <1>3, ServerTurns DEF BuffersExceeded
<1> QED BY <1>1, <1>3
        DEF Next, Getc, Puts, Call, SendNotifierSends, Transmit, Arrive, RxInterrupt,
            ReceiveNotifierSends, Stopped, vars

-----------------------------------------------------------------------------
(* Every call is answered once. *)

\* A turn of the server answers those it frees and keeps the others once each.
LEMMA TurnAnswered ==
  ASSUME IInv, NEW sa, NEW w, NEW rb, NEW gb, NEW freed, Turn(sa, w, rb, gb, freed)
  PROVE  AnsweredOnce'
<1> DEFINE x == Head(queue).from
           C == Callers(queue')
           V == ToSet(Join(gb, C))
<1>1. /\ Once(Waiting) /\ queue # <<>> /\ queue' = Tail(queue)
      /\ gb \in Seq(Clients) /\ queue' \in Seq(Messages)
      /\ ServeSendNotifier(sa, w) /\ ServeGetter(rb, gb, freed)
      /\ x \in Senders
  BY TurnTypes, MessageForms DEF IInv, AnsweredOnce, Once, Turn, Finish
<1>2. /\ x \in ToSet(Waiting)
      /\ Once(Join(getter_buffer, C))
      /\ ToSet(Join(getter_buffer, C)) = ToSet(Waiting) \ {x}
      /\ x \in Clients => Join(Append(getter_buffer, x), C) = Waiting
  BY <1>1, Dequeue DEF IInv
<1>3. /\ Once(Join(gb, C))
      /\ \/ gb = getter_buffer /\ V = ToSet(Waiting) \ {x}
         \/ x \in Clients /\ gb = Append(getter_buffer, x) /\ V = ToSet(Waiting)
  BY <1>1, <1>2 DEF Turn
<1> DEFINE served == Served(rb, gb)
<1>4. /\ Once(Waiting') /\ served \subseteq Clients
      /\ ToSet(Waiting') = V \ served
      /\ blocked' = blocked \ (freed \cup served)
  BY <1>1, <1>3, ServeWaiting
<1>6. /\ SendNotifier \notin Clients /\ ReceiveNotifier \notin Clients
      /\ SendNotifier # ReceiveNotifier
  BY ComServerAssumption
<1>7. /\ blocked = ToSet(Waiting) \ {SendNotifier, ReceiveNotifier}
      /\ SendNotifier \in ToSet(Waiting) <=>
           send_notifier = "sent" /\ ~ send_notifier_is_waiting
      /\ ReceiveNotifier \in ToSet(Waiting) <=> receive_notifier = "sent"
  BY DEF IInv, AnsweredOnce
<1> HIDE DEF V, C, x, served
<1>8. \/ x = SendNotifier /\ V = ToSet(Waiting) \ {x} /\ freed = {} /\ w = TRUE
         /\ receive_notifier' = receive_notifier
      \/ x = ReceiveNotifier /\ V = ToSet(Waiting) \ {x} /\ freed = {}
         /\ w = send_notifier_is_waiting /\ receive_notifier' = "await"
      \/ x \in Clients /\ V = ToSet(Waiting) /\ freed = {}
         /\ w = send_notifier_is_waiting /\ receive_notifier' = receive_notifier
      \/ x \in Clients /\ V = ToSet(Waiting) \ {x} /\ freed = {x}
         /\ w = send_notifier_is_waiting /\ receive_notifier' = receive_notifier
  BY <1>2, <1>3, <1>6 DEF Turn, V, C, x
<1>9. blocked' = ToSet(Waiting') \ {SendNotifier, ReceiveNotifier}
  BY <1>4, <1>6, <1>7, <1>8
<1>10. ReceiveNotifier \in ToSet(Waiting') <=> receive_notifier' = "sent"
  BY <1>2, <1>4, <1>6, <1>7, <1>8
<1>11. SendNotifier \in ToSet(Waiting') <=>
         send_notifier' = "sent" /\ ~ send_notifier_is_waiting'
  <2>1. w => send_notifier = "sent"
    BY <1>2, <1>7, <1>8 DEF IInv, Notifiers
  <2>2. SendNotifier \in ToSet(Waiting') <=> send_notifier = "sent" /\ ~ w
    BY <1>2, <1>4, <1>6, <1>7, <1>8, <2>1
  <2>3. \/ w /\ ~ send_notifier_is_waiting' /\ send_notifier' = "transmit"
        \/ send_notifier_is_waiting' = w /\ send_notifier' = send_notifier
    BY <1>1 DEF ServeSendNotifier, sending
  <2> QED BY <2>1, <2>2, <2>3
<1> QED BY <1>4, <1>9, <1>10, <1>11 DEF AnsweredOnce, Once

\* Nobody waits before the first message.
LEMMA InitAnswered == Init => AnsweredOnce
<1> SUFFICES ASSUME Init PROVE AnsweredOnce
  OBVIOUS
<1>1. Callers(queue) = <<>>
  BY DEF Init, Callers
<1>2. Waiting = <<>>
  BY <1>1 DEF Init, Waiting
<1>3. ToSet(Waiting) = {} /\ DOMAIN Waiting = {}
  BY <1>2 DEF ToSet
<1> QED BY <1>3 DEF AnsweredOnce, Init

\* Who is not blocked is not waiting, and a notifier that sends is not either.
LEMMA NextAnswered ==
  ASSUME IInv, [Next]_vars
  PROVE  AnsweredOnce'
<1>1. /\ blocked = ToSet(Waiting) \ {SendNotifier, ReceiveNotifier}
      /\ SendNotifier \in ToSet(Waiting) <=>
           send_notifier = "sent" /\ ~ send_notifier_is_waiting
      /\ ReceiveNotifier \in ToSet(Waiting) <=> receive_notifier = "sent"
      /\ Once(Waiting) /\ Typing /\ Notifiers
      /\ SendNotifier \notin Clients /\ ReceiveNotifier \notin Clients
      /\ SendNotifier # ReceiveNotifier
  BY ComServerAssumption DEF IInv, AnsweredOnce, Once
<1>2. ASSUME UNCHANGED <<getter_buffer, queue, blocked, send_notifier_is_waiting>>,
             send_notifier' = "sent" <=> send_notifier = "sent",
             receive_notifier' = "sent" <=> receive_notifier = "sent"
      PROVE  AnsweredOnce'
  <2>1. Waiting' = Waiting
    BY <1>2 DEF Waiting
  <2> QED BY <1>1, <1>2, <2>1 DEF AnsweredOnce, Once
<1>3. ASSUME NEW c \in Clients, NEW str, Call(c, str), str = <<>> \/ str \in Strings
      PROVE  AnsweredOnce'
  <2>1. Message(c, str) \in Messages /\ Message(c, str).from = c
    BY <1>3, MessageSent, MessageFields
  <2>2. /\ c \notin ToSet(Waiting) /\ blocked' = blocked \cup {c}
        /\ getter_buffer' = getter_buffer /\ queue' = Append(queue, Message(c, str))
        /\ UNCHANGED <<send_notifier_is_waiting, send_notifier, receive_notifier>>
    BY <1>1, <1>3 DEF Call, buffers, sending, uart
  <2>3. Once(Waiting') /\ ToSet(Waiting') = ToSet(Waiting) \cup {c}
    BY <1>1, <2>1, <2>2, Enqueue
  <2> QED BY <1>1, <2>2, <2>3 DEF AnsweredOnce, Once
<1>4. CASE SendNotifierSends
  <2>1. /\ Message(SendNotifier, <<>>) \in Messages
        /\ Message(SendNotifier, <<>>).from = SendNotifier
    BY MessageSent, MessageFields
  <2>2. /\ send_notifier = "send" /\ send_notifier' = "sent"
        /\ getter_buffer' = getter_buffer
        /\ queue' = Append(queue, Message(SendNotifier, <<>>))
        /\ UNCHANGED <<blocked, send_notifier_is_waiting, receive_notifier>>
    BY <1>4 DEF SendNotifierSends, buffers, uart
  <2>3. ~ send_notifier_is_waiting /\ SendNotifier \notin ToSet(Waiting)
    BY <1>1, <2>2 DEF Notifiers
  <2>4. Once(Waiting') /\ ToSet(Waiting') = ToSet(Waiting) \cup {SendNotifier}
    BY <1>1, <2>1, <2>2, <2>3, Enqueue
  <2> QED BY <1>1, <2>2, <2>3, <2>4 DEF AnsweredOnce, Once
<1>5. CASE ReceiveNotifierSends
  <2>1. /\ Message(ReceiveNotifier, <<ch>>) \in Messages
        /\ Message(ReceiveNotifier, <<ch>>).from = ReceiveNotifier
    BY <1>1, <1>5, MessageSent, MessageFields DEF ReceiveNotifierSends, Typing, Notifiers
  <2>2. /\ receive_notifier = "send" /\ receive_notifier' = "sent"
        /\ getter_buffer' = getter_buffer
        /\ queue' = Append(queue, Message(ReceiveNotifier, <<ch>>))
        /\ UNCHANGED <<blocked, send_notifier_is_waiting, send_notifier>>
    BY <1>5 DEF ReceiveNotifierSends, buffers, sending
  <2>3. Once(Waiting') /\ ToSet(Waiting') = ToSet(Waiting) \cup {ReceiveNotifier}
    BY <1>1, <2>1, <2>2, Enqueue
  <2> QED BY <1>1, <2>2, <2>3 DEF AnsweredOnce, Once
<1>6. CASE Transmit
  BY <1>2, <1>6 DEF Transmit, buffers, uart
<1>7. ASSUME NEW x \in Received, Arrive(x) PROVE AnsweredOnce'
  BY <1>2, <1>7 DEF Arrive, buffers, sending
<1>8. CASE RxInterrupt
  BY <1>2, <1>8 DEF RxInterrupt, buffers, sending
<1>9. CASE BuffersExceeded
  BY <1>2, <1>9 DEF BuffersExceeded, buffers, sending, uart
<1>10. CASE Server
  BY <1>9, <1>10, ServerTurns, TurnAnswered
<1>11. CASE UNCHANGED vars
  BY <1>2, <1>11 DEF vars, buffers, sending, uart
<1> QED BY <1>3, <1>4, <1>5, <1>6, <1>7, <1>8, <1>10, <1>11
        DEF Next, Getc, Puts, Stopped

-----------------------------------------------------------------------------
(* The invariants of the specification. *)

\* The inductive invariant holds in every state.
LEMMA Invariance == Spec => []IInv
<1>1. Init => IInv
  BY InitTyping, InitAnswered DEF IInv, Init, NobodyWaitsInVain
<1>2. IInv /\ [Next]_vars => IInv'
  BY NextTyping, NextServed, NextAnswered DEF IInv
<1> QED BY <1>1, <1>2, PTL DEF Spec

\* The server never goes back to Receive with a character for a task in Getc,
\* or with characters for an idle send notifier.
THEOREM ComNobodyWaitsInVain == Spec => []NobodyWaitsInVain
<1>1. IInv => NobodyWaitsInVain
  BY DEF IInv
<1> QED BY <1>1, Invariance, PTL

\* A task in Send is in the server's queue once or among its getters once.
THEOREM ComAnsweredOnce == Spec => []AnsweredOnce
<1>1. IInv => AnsweredOnce
  BY DEF IInv
<1> QED BY <1>1, Invariance, PTL

\* Each client is among the getters at most once, and the size of getter_buffer
\* is at least their number.
LEMMA GettersFit ==
  ASSUME IInv
  PROVE  Len(getter_buffer) <= GETTER_BUFFER_SIZE
<1> DEFINE g == getter_buffer
<1>1. g \in Seq(Clients) /\ Len(g) \in Nat /\ DOMAIN g = 1 .. Len(g)
  BY DEF IInv, Typing
<1>2. \A i, j \in 1 .. Len(g) : g[i] = g[j] => i = j
  <2>1. /\ Waiting = Join(g, Callers(queue)) /\ Callers(queue) \in Seq(Senders)
        /\ Once(Waiting)
    BY WaitingIs DEF IInv, AnsweredOnce, Once
  <2>2. \A i \in 1 .. Len(g) : i \in DOMAIN Waiting /\ Waiting[i] = g[i]
    BY <1>1, <2>1 DEF Join
  <2> QED BY <2>1, <2>2 DEF Once
<1>3. g \in Injection(1 .. Len(g), Clients)
  BY <1>1, <1>2 DEF Injection, IsInjective
<1>4. IsFiniteSet(Clients) /\ Cardinality(Clients) <= GETTER_BUFFER_SIZE
      /\ GETTER_BUFFER_SIZE \in Nat
  BY ComServerAssumption
<1> HIDE DEF g
<1>5. Cardinality(1 .. Len(g)) <= Cardinality(Clients)
  BY <1>3, <1>4, FS_Injection
<1>6. Cardinality(1 .. Len(g)) = Len(g)
  BY <1>1, FS_Interval
<1>7. Cardinality(Clients) \in Nat
  BY <1>4, FS_CardinalityType
<1> QED BY <1>1, <1>4, <1>5, <1>6, <1>7 DEF g

\* Every variable has its type and the buffers their sizes: getter_buffer never
\* holds more than the clients, and the assertion of its push cannot fail.
THEOREM ComTypeOK == Spec => []TypeOK
<1>1. IInv => TypeOK
  <2> SUFFICES ASSUME IInv PROVE TypeOK
    OBVIOUS
  <2>1. Messages \subseteq [from : Senders, str : Seq(Chars)]
    <3> SUFFICES ASSUME NEW m \in Messages
                 PROVE  m \in [from : Senders, str : Seq(Chars)]
      OBVIOUS
    <3>1. m = [from |-> m.from, str |-> m.str]
      BY DEF Messages, Message
    <3> QED BY <3>1, MessageForms
  <2>2. queue \in Seq([from : Senders, str : Seq(Chars)])
    <3> DEFINE B == [from : Senders, str : Seq(Chars)]
    <3>1. Messages \subseteq B
      BY <2>1
    <3> HIDE DEF B
    <3>2. \A q \in Seq(Messages) : q \in Seq(B)
      BY <3>1
    <3> QED BY <3>2 DEF IInv, Typing, B
  <2> QED BY <2>2, GettersFit DEF IInv, Typing, TypeOK
<1> QED BY <1>1, Invariance, PTL

-----------------------------------------------------------------------------
(* What the messages in the queue hold, for each of the three abstract     *)
(* queues.                                                                 *)

PendingOf == [m \in Messages |-> Pending(m)]
TypedOf   == [m \in Messages |-> Typed(m)]
AskingOf  == [m \in Messages |-> Asking(m)]

\* What the messages carry, as functions on messages.
LEMMA MessagesHold ==
  /\ Maps(PendingOf, Messages, Seq(Output))
  /\ Maps(TypedOf, Messages, Seq(Chars))
  /\ Maps(AskingOf, Messages, Seq(Clients))
<1>1. ASSUME NEW m \in Messages PROVE Pending(m) \in Seq(Output)
  <2>1. \A r \in Seq(Chars) : r \in Seq(Output)
    BY DEF Output
  <2>2. CASE m.from = ReceiveNotifier
    <3>1. PICK x \in Chars : m.str = <<x>>
      BY <2>2, MessageForms
    <3>2. Pending(m) = Echo(x)
      BY <2>2, <3>1 DEF Pending
    <3> QED BY <3>2, EchoType
  <2>3. CASE m.from # ReceiveNotifier
    <3>1. Pending(m) = m.str
      BY <2>3 DEF Pending
    <3> QED BY <2>1, <3>1, MessageForms
  <2> QED BY <2>2, <2>3
<1>2. ASSUME NEW m \in Messages PROVE Typed(m) \in Seq(Chars)
  BY MessageForms DEF Typed
<1>3. ASSUME NEW m \in Messages PROVE Asking(m) \in Seq(Clients)
  BY DEF Asking
<1> QED BY <1>1, <1>2, <1>3 DEF Maps, PendingOf, TypedOf, AskingOf

\* The contents of a queue, as the abstract queues list them.
LEMMA ContentsAre ==
  ASSUME NEW q \in Seq(Messages)
  PROVE  /\ FlattenSeq([i \in DOMAIN q |-> Pending(q[i])]) = Gather(PendingOf, q)
         /\ FlattenSeq([i \in DOMAIN q |-> Typed(q[i])]) = Gather(TypedOf, q)
         /\ FlattenSeq([i \in DOMAIN q |-> Asking(q[i])]) = Gather(AskingOf, q)
<1>1. \A i \in DOMAIN q : q[i] \in Messages
  OBVIOUS
<1>2. [i \in DOMAIN q |-> Pending(q[i])] = Mapped(PendingOf, q)
  BY <1>1 DEF Mapped, PendingOf
<1>3. [i \in DOMAIN q |-> Typed(q[i])] = Mapped(TypedOf, q)
  BY <1>1 DEF Mapped, TypedOf
<1>4. [i \in DOMAIN q |-> Asking(q[i])] = Mapped(AskingOf, q)
  BY <1>1 DEF Mapped, AskingOf
<1> QED BY <1>2, <1>3, <1>4 DEF Gather

-----------------------------------------------------------------------------
(* The queue of the tasks in Getc.                                         *)

\* A step of an abstract queue: Put, Take or Idle.
Steps(items, after, in, out) ==
  \/ in # <<>> /\ out = <<>> /\ after = Join(items, in)
  \/ items # <<>> /\ in = <<>> /\ out = <<Head(items)>> /\ after = Tail(items)
  \/ in = <<>> /\ out = <<>> /\ after = items

\* A step without event puts nothing in and takes nothing out.
LEMMA NoEventFields ==
  /\ NoEvent.put = <<>> /\ NoEvent.transmitted = <<>>
  /\ NoEvent.arrived = <<>> /\ NoEvent.got = <<>>
  /\ NoEvent.asked = <<>> /\ NoEvent.answered = <<>>
BY DEF NoEvent

\* The callers of Getc: those in getter_buffer, then those in the queue.
LEMMA InGetcIs ==
  /\ Typing => InGetc = Join(getter_buffer, Gather(AskingOf, queue))
  /\ Typing' => InGetc' = Join(getter_buffer', Gather(AskingOf, queue'))
<1>1. ASSUME Typing PROVE InGetc = Join(getter_buffer, Gather(AskingOf, queue))
  BY <1>1, ContentsAre DEF Typing, InGetc, Join
<1>2. ASSUME Typing' PROVE InGetc' = Join(getter_buffer', Gather(AskingOf, queue'))
  BY <1>2, ContentsAre DEF Typing, InGetc, Join
<1> QED BY <1>1, <1>2

\* Every step keeps the callers of Getc in order, or is a step of the queue.
LEMMA NextGetters ==
  ASSUME IInv, Typing', [Next]_vars
  PROVE  \/ UNCHANGED <<InGetc, event.asked, event.answered>>
         \/ Steps(InGetc, InGetc', event'.asked, event'.answered)
<1> DEFINE g == getter_buffer
           G == Gather(AskingOf, queue)
           H == Gather(AskingOf, queue')
<1>1. /\ InGetc = Join(g, G) /\ InGetc' = Join(g', H)
      /\ g \in Seq(Clients) /\ queue \in Seq(Messages) /\ queue' \in Seq(Messages)
      /\ InGetc \in Seq(Clients) /\ H \in Seq(Clients)
      /\ Maps(AskingOf, Messages, Seq(Clients))
  <2>1. /\ g \in Seq(Clients) /\ queue \in Seq(Messages) /\ queue' \in Seq(Messages)
        /\ Maps(AskingOf, Messages, Seq(Clients))
    BY MessagesHold DEF IInv, Typing
  <2>2. InGetc = Join(g, G) /\ InGetc' = Join(g', H)
    BY InGetcIs DEF IInv
  <2>3. G \in Seq(Clients) /\ H \in Seq(Clients)
    BY <2>1, GatherFacts
  <2>4. Join(g, G) \in Seq(Clients)
    BY <2>1, <2>3, JoinFacts
  <2> QED BY <2>1, <2>2, <2>3, <2>4
<1>2. ASSUME NEW m \in Messages, queue' = Append(queue, m), g' = g
      PROVE  InGetc' = Join(InGetc, Asking(m))
  <2>1. Join(g, Gather(AskingOf, Append(queue, m))) = Join(Join(g, G), AskingOf[m])
    BY <1>1, GatherBehind
  <2> QED BY <1>1, <1>2, <2>1 DEF AskingOf
<1>3. Join(InGetc, <<>>) = InGetc
  BY <1>1, JoinFacts
<1>4. ASSUME NEW c \in Clients, Getc(c)
      PROVE  Steps(InGetc, InGetc', event'.asked, event'.answered)
  <2>1. /\ queue' = Append(queue, Message(c, <<>>)) /\ g' = g
        /\ event'.asked = <<c>> /\ event'.answered = <<>>
    BY <1>4, NoEventFields DEF Getc, Call, buffers, NoEvent
  <2>2. Asking(Message(c, <<>>)) = <<c>> /\ Message(c, <<>>) \in Messages
    BY MessageFields, MessageSent DEF Asking
  <2> QED BY <1>2, <2>1, <2>2 DEF Steps
<1>5. ASSUME NEW m \in Messages, queue' = Append(queue, m), g' = g, Asking(m) = <<>>,
             event'.asked = <<>>, event'.answered = <<>>
      PROVE  Steps(InGetc, InGetc', event'.asked, event'.answered)
  BY <1>2, <1>3, <1>5 DEF Steps
<1>6. ASSUME NEW c \in Clients, NEW str \in Strings, Puts(c, str)
      PROVE  Steps(InGetc, InGetc', event'.asked, event'.answered)
  <2>1. /\ queue' = Append(queue, Message(c, str)) /\ g' = g
        /\ event'.asked = <<>> /\ event'.answered = <<>>
    BY <1>6, NoEventFields DEF Puts, Call, buffers, NoEvent
  <2>2. Asking(Message(c, str)) = <<>> /\ Message(c, str) \in Messages
    BY MessageFields, MessageSent, ComServerAssumption DEF Asking
  <2> QED BY <1>5, <2>1, <2>2
<1>7. CASE SendNotifierSends
  <2>1. /\ queue' = Append(queue, Message(SendNotifier, <<>>)) /\ g' = g
        /\ event'.asked = <<>> /\ event'.answered = <<>>
    BY <1>7, NoEventFields DEF SendNotifierSends, buffers
  <2>2. /\ Asking(Message(SendNotifier, <<>>)) = <<>>
        /\ Message(SendNotifier, <<>>) \in Messages
    BY MessageFields, MessageSent, ComServerAssumption DEF Asking
  <2> QED BY <1>5, <2>1, <2>2
<1>8. CASE ReceiveNotifierSends
  <2>1. /\ queue' = Append(queue, Message(ReceiveNotifier, <<ch>>)) /\ g' = g
        /\ event'.asked = <<>> /\ event'.answered = <<>>
    BY <1>8, NoEventFields DEF ReceiveNotifierSends, buffers, NoEvent
  <2>2. /\ Asking(Message(ReceiveNotifier, <<ch>>)) = <<>>
        /\ Message(ReceiveNotifier, <<ch>>) \in Messages
    BY <1>8, MessageFields, MessageSent, ComServerAssumption
    DEF Asking, ReceiveNotifierSends, IInv, Typing, Notifiers
  <2> QED BY <1>5, <2>1, <2>2
<1>9. ASSUME queue' = queue, g' = g, event'.asked = <<>>, event'.answered = <<>>
      PROVE  Steps(InGetc, InGetc', event'.asked, event'.answered)
  BY <1>1, <1>9 DEF Steps
<1>10. CASE Transmit
  BY <1>9, <1>10, NoEventFields DEF Transmit, buffers, NoEvent
<1>11. ASSUME NEW x \in Received, Arrive(x)
       PROVE  Steps(InGetc, InGetc', event'.asked, event'.answered)
  BY <1>9, <1>11, NoEventFields DEF Arrive, buffers, NoEvent
<1>12. CASE RxInterrupt
  BY <1>9, <1>12, NoEventFields DEF RxInterrupt, buffers
<1>13. CASE BuffersExceeded
  BY <1>9, <1>13, NoEventFields DEF BuffersExceeded, buffers
<1>14. ASSUME NEW sa, NEW w, NEW rb, NEW gb, NEW freed, Turn(sa, w, rb, gb, freed)
       PROVE  Steps(InGetc, InGetc', event'.asked, event'.answered)
  <2>1. /\ Head(queue) \in Messages /\ gb \in Seq(Clients)
        /\ queue # <<>> /\ queue' = Tail(queue) /\ ServeGetter(rb, gb, freed)
    BY <1>14, TurnTypes DEF Turn, Finish, IInv
  <2>2. Join(g, Asking(Head(queue))) = gb
    <3>1. \A c \in Clients : Append(g, c) = Join(g, <<c>>)
      BY <1>1, JoinAppend
    <3>2. Join(g, <<>>) = g
      BY <1>1, JoinFacts
    <3>3. \A str \in Strings : str # <<>>
      BY ComServerAssumption
    <3>4. SendNotifier \notin Clients /\ ReceiveNotifier \notin Clients
      BY ComServerAssumption
    <3> HIDE DEF g
    <3>5. \/ Asking(Head(queue)) = <<>> /\ gb = g
          \/ \E c \in Clients : Asking(Head(queue)) = <<c>> /\ gb = Append(g, c)
      BY <1>14, <3>3, <3>4 DEF Turn, Asking, g
    <3> QED BY <3>1, <3>2, <3>5
  <2>3. InGetc = Join(gb, H)
    <3>1. Join(g, G) = Join(Join(g, AskingOf[Head(queue)]), Gather(AskingOf, Tail(queue)))
      BY <1>1, <2>1, GatherBehind
    <3> QED BY <1>1, <2>1, <2>2, <3>1 DEF AskingOf
  <2> HIDE DEF g, G, H
  <2>4. CASE CanServe(rb, gb)
    <3>1. /\ gb # <<>> /\ g' = Tail(gb)
          /\ event'.asked = <<>> /\ event'.answered = <<Head(gb)>>
      BY <2>1, <2>4, NoEventFields DEF ServeGetter, CanServe, NoEvent, g
    <3>3. /\ Join(gb, H) # <<>> /\ Head(Join(gb, H)) = Head(gb)
          /\ Tail(Join(gb, H)) = Join(Tail(gb), H)
      BY <1>1, <2>1, <3>1, JoinHead
    <3>2. InGetc # <<>> /\ Head(InGetc) = Head(gb) /\ Tail(InGetc) = Join(Tail(gb), H)
      BY <2>3, <3>3
    <3> QED BY <1>1, <3>1, <3>2 DEF Steps
  <2>5. CASE ~ CanServe(rb, gb)
    <3>1. g' = gb /\ event'.asked = <<>> /\ event'.answered = <<>>
      BY <2>1, <2>5, NoEventFields DEF ServeGetter, g
    <3> QED BY <1>1, <2>3, <3>1 DEF Steps
  <2> QED BY <2>4, <2>5
<1>15. CASE Server
  BY <1>13, <1>14, <1>15, ServerTurns
<1>16. CASE UNCHANGED vars
  BY <1>1, <1>16 DEF vars, buffers
<1> QED BY <1>4, <1>6, <1>7, <1>8, <1>10, <1>11, <1>12, <1>15, <1>16 DEF Next, Stopped

\* The calls of Getc are answered in the order they were made.
THEOREM GettersRefineFifo == Spec => GettersInOrder
<1>1. Init => Getters!Init
  <2> SUFFICES ASSUME Init PROVE InGetc = <<>>
    BY DEF Getters!Init
  <2>1. Gather(AskingOf, <<>>) = <<>>
    BY MessagesHold, GatherFacts
  <2>2. Join(<<>>, <<>>) = <<>>
    BY DEF Join
  <2> QED BY <2>1, <2>2, InGetcIs, InitTyping DEF Init
<1>2. IInv /\ IInv' /\ [Next]_vars
        => [Getters!Next]_<<InGetc, event.asked, event.answered>>
  <2> SUFFICES ASSUME IInv, IInv', [Next]_vars
               PROVE  [Getters!Next]_<<InGetc, event.asked, event.answered>>
    OBVIOUS
  <2>1. \/ UNCHANGED <<InGetc, event.asked, event.answered>>
        \/ Steps(InGetc, InGetc', event'.asked, event'.answered)
    BY NextGetters DEF IInv
  <2> QED BY <2>1
          DEF Steps, Join, Getters!Next, Getters!Put, Getters!Take, Getters!Idle
<1> QED BY <1>1, <1>2, Invariance, PTL DEF Spec, GettersInOrder, Getters!Spec

-----------------------------------------------------------------------------
(* The characters on their way to the line.                                *)

\* The characters on their way to the line: the notifier's, the array's, the
\* queue's.
LEMMA OnTheLineIs ==
  /\ Typing => OnTheLine = Join(Join(send_buffer, send_array), Gather(PendingOf, queue))
  /\ Typing' =>
       OnTheLine' = Join(Join(send_buffer', send_array'), Gather(PendingOf, queue'))
<1>1. ASSUME Typing
      PROVE  OnTheLine = Join(Join(send_buffer, send_array), Gather(PendingOf, queue))
  BY <1>1, ContentsAre DEF Typing, OnTheLine, Join
<1>2. ASSUME Typing'
      PROVE  OnTheLine' = Join(Join(send_buffer', send_array'), Gather(PendingOf, queue'))
  BY <1>2, ContentsAre DEF Typing, OnTheLine, Join
<1> QED BY <1>1, <1>2

\* Every step keeps the characters for the line in order, or is a step of the
\* queue.
LEMMA NextLine ==
  ASSUME IInv, Typing', [Next]_vars
  PROVE  \/ UNCHANGED <<OnTheLine, event.put, event.transmitted>>
         \/ Steps(OnTheLine, OnTheLine', event'.put, event'.transmitted)
<1> DEFINE f == Join(send_buffer, send_array)
           G == Gather(PendingOf, queue)
           H == Gather(PendingOf, queue')
<1>1. /\ OnTheLine = Join(f, G) /\ OnTheLine' = Join(Join(send_buffer', send_array'), H)
      /\ send_buffer \in Seq(Output) /\ send_array \in Seq(Output)
      /\ f \in Seq(Output) /\ queue \in Seq(Messages) /\ queue' \in Seq(Messages)
      /\ OnTheLine \in Seq(Output) /\ G \in Seq(Output) /\ H \in Seq(Output)
      /\ Maps(PendingOf, Messages, Seq(Output))
  <2>1. /\ send_buffer \in Seq(Output) /\ send_array \in Seq(Output)
        /\ queue \in Seq(Messages) /\ queue' \in Seq(Messages)
        /\ Maps(PendingOf, Messages, Seq(Output))
    BY MessagesHold DEF IInv, Typing
  <2>2. OnTheLine = Join(f, G) /\ OnTheLine' = Join(Join(send_buffer', send_array'), H)
    BY OnTheLineIs DEF IInv
  <2>3. G \in Seq(Output) /\ H \in Seq(Output)
    BY <2>1, GatherFacts
  <2>4. f \in Seq(Output)
    BY <2>1, JoinFacts
  <2>5. Join(f, G) \in Seq(Output)
    BY <2>3, <2>4, JoinFacts
  <2> QED BY <2>1, <2>2, <2>3, <2>4, <2>5
<1>2. ASSUME NEW m \in Messages, queue' = Append(queue, m),
             send_buffer' = send_buffer, send_array' = send_array
      PROVE  OnTheLine' = Join(OnTheLine, Pending(m))
  <2>1. Join(f, Gather(PendingOf, Append(queue, m))) = Join(Join(f, G), PendingOf[m])
    BY <1>1, GatherBehind
  <2> QED BY <1>1, <1>2, <2>1 DEF PendingOf
<1>3. Join(OnTheLine, <<>>) = OnTheLine
  BY <1>1, JoinFacts
<1>4. ASSUME NEW m \in Messages, queue' = Append(queue, m),
             send_buffer' = send_buffer, send_array' = send_array,
             event'.put = Pending(m), event'.transmitted = <<>>
      PROVE  Steps(OnTheLine, OnTheLine', event'.put, event'.transmitted)
  BY <1>2, <1>3, <1>4 DEF Steps
<1>5. ASSUME NEW c \in Clients, Getc(c)
      PROVE  Steps(OnTheLine, OnTheLine', event'.put, event'.transmitted)
  <2>1. /\ queue' = Append(queue, Message(c, <<>>))
        /\ send_buffer' = send_buffer /\ send_array' = send_array
        /\ event'.put = <<>> /\ event'.transmitted = <<>>
    BY <1>5, NoEventFields DEF Getc, Call, buffers, sending, NoEvent
  <2>2. Pending(Message(c, <<>>)) = <<>> /\ Message(c, <<>>) \in Messages
    BY MessageFields, MessageSent, ComServerAssumption DEF Pending
  <2> QED BY <1>4, <2>1, <2>2
<1>6. ASSUME NEW c \in Clients, NEW str \in Strings, Puts(c, str)
      PROVE  Steps(OnTheLine, OnTheLine', event'.put, event'.transmitted)
  <2>1. /\ queue' = Append(queue, Message(c, str))
        /\ send_buffer' = send_buffer /\ send_array' = send_array
        /\ event'.put = str /\ event'.transmitted = <<>>
    BY <1>6, NoEventFields DEF Puts, Call, buffers, sending, NoEvent
  <2>2. Pending(Message(c, str)) = str /\ Message(c, str) \in Messages
    BY MessageFields, MessageSent, ComServerAssumption DEF Pending
  <2> QED BY <1>4, <2>1, <2>2
<1>7. CASE SendNotifierSends
  <2>1. /\ queue' = Append(queue, Message(SendNotifier, <<>>))
        /\ send_buffer' = send_buffer /\ send_array' = send_array
        /\ event'.put = <<>> /\ event'.transmitted = <<>>
    BY <1>7, NoEventFields DEF SendNotifierSends, buffers
  <2>2. /\ Pending(Message(SendNotifier, <<>>)) = <<>>
        /\ Message(SendNotifier, <<>>) \in Messages
    BY MessageFields, MessageSent, ComServerAssumption DEF Pending
  <2> QED BY <1>4, <2>1, <2>2
<1>8. CASE ReceiveNotifierSends
  <2>1. /\ queue' = Append(queue, Message(ReceiveNotifier, <<ch>>))
        /\ send_buffer' = send_buffer /\ send_array' = send_array
        /\ event'.put = Echo(ch) /\ event'.transmitted = <<>>
    BY <1>8, NoEventFields DEF ReceiveNotifierSends, buffers, sending, NoEvent
  <2>2. Message(ReceiveNotifier, <<ch>>) \in Messages
    BY <1>8, MessageSent DEF ReceiveNotifierSends, IInv, Typing, Notifiers
  <2>3. Pending(Message(ReceiveNotifier, <<ch>>)) = Echo(ch)
    BY MessageFields DEF Pending
  <2> QED BY <1>4, <2>1, <2>2, <2>3
<1>9. ASSUME queue' = queue, send_buffer' = send_buffer, send_array' = send_array,
             event'.put = <<>>, event'.transmitted = <<>>
      PROVE  Steps(OnTheLine, OnTheLine', event'.put, event'.transmitted)
  BY <1>1, <1>9 DEF Steps
<1>10. CASE Transmit
  <2>1. /\ send_buffer # <<>> /\ send_buffer' = Tail(send_buffer)
        /\ send_array' = send_array /\ H = G
        /\ event'.put = <<>> /\ event'.transmitted = <<Head(send_buffer)>>
    BY <1>10, NoEventFields DEF Transmit, buffers, NoEvent, IInv, Notifiers
  <2>2. f # <<>> /\ Head(f) = Head(send_buffer)
        /\ Tail(f) = Join(Tail(send_buffer), send_array)
    BY <1>1, <2>1, JoinHead
  <2> HIDE DEF f, G, H
  <2>3. /\ Join(f, G) # <<>> /\ Head(Join(f, G)) = Head(f)
        /\ Tail(Join(f, G)) = Join(Tail(f), G)
    BY <1>1, <2>2, JoinHead
  <2> QED BY <1>1, <2>1, <2>2, <2>3 DEF Steps
<1>11. ASSUME NEW x \in Received, Arrive(x)
       PROVE  Steps(OnTheLine, OnTheLine', event'.put, event'.transmitted)
  BY <1>9, <1>11, NoEventFields DEF Arrive, buffers, sending, NoEvent
<1>12. CASE RxInterrupt
  BY <1>9, <1>12, NoEventFields DEF RxInterrupt, buffers, sending
<1>13. CASE BuffersExceeded
  BY <1>9, <1>13, NoEventFields DEF BuffersExceeded, buffers, sending
<1>14. ASSUME NEW sa, NEW w, NEW rb, NEW gb, NEW freed, Turn(sa, w, rb, gb, freed)
       PROVE  Steps(OnTheLine, OnTheLine', event'.put, event'.transmitted)
  <2>1. /\ Head(queue) \in Messages /\ sa \in Seq(Output)
        /\ queue # <<>> /\ queue' = Tail(queue)
        /\ ServeSendNotifier(sa, w) /\ ServeGetter(rb, gb, freed)
    BY <1>14, TurnTypes DEF Turn, Finish, IInv
  <2>2. Join(send_array, Pending(Head(queue))) = sa
    <3>1. Join(send_array, <<>>) = send_array
      BY <1>1, JoinFacts
    <3>2. SendNotifier # ReceiveNotifier /\ ReceiveNotifier \notin Clients
      BY ComServerAssumption
    <3>3. \/ sa = send_array /\ Pending(Head(queue)) = <<>>
          \/ sa = Join(send_array, Pending(Head(queue)))
      BY <1>14, <3>2 DEF Turn, Pending, Join
    <3> QED BY <3>1, <3>3
  <2>3. Pending(Head(queue)) \in Seq(Output) /\ PendingOf[Head(queue)] = Pending(Head(queue))
    BY <1>1, <2>1 DEF Maps, PendingOf
  <2>4. Join(f, Pending(Head(queue))) = Join(send_buffer, sa)
    <3>1. \A a, b, c \in Seq(Output) : Join(Join(a, b), c) = Join(a, Join(b, c))
      BY JoinFacts
    <3> QED BY <1>1, <2>2, <2>3, <3>1
  <2>5. OnTheLine = Join(Join(send_buffer, sa), H)
    <3>1. Join(f, G) = Join(Join(f, PendingOf[Head(queue)]), Gather(PendingOf, Tail(queue)))
      BY <1>1, <2>1, GatherBehind
    <3> QED BY <1>1, <2>1, <2>3, <2>4, <3>1
  <2>6. Join(send_buffer', send_array') = Join(send_buffer, sa)
    <3>1. w => send_buffer = <<>>
      BY <1>14, TurnWaits DEF IInv, Notifiers
    <3>2. Join(sa, <<>>) = sa /\ Join(<<>>, sa) = sa
      BY <2>1, JoinFacts
    <3> QED BY <2>1, <3>1, <3>2 DEF ServeSendNotifier, AfterReply, sending
  <2>7. event'.put = <<>> /\ event'.transmitted = <<>>
    BY <2>1, NoEventFields DEF ServeGetter, NoEvent
  <2> QED BY <1>1, <2>5, <2>6, <2>7 DEF Steps
<1>15. CASE Server
  BY <1>13, <1>14, <1>15, ServerTurns
<1>16. CASE UNCHANGED vars
  BY <1>1, <1>16 DEF vars, buffers, sending
<1> QED BY <1>5, <1>6, <1>7, <1>8, <1>10, <1>11, <1>12, <1>15, <1>16 DEF Next, Stopped

\* The line transmits what was put, in the order of the Sends.
THEOREM LineRefinesFifo == Spec => OutputInOrder
<1>1. Init => Line!Init
  <2> SUFFICES ASSUME Init PROVE OnTheLine = <<>>
    BY DEF Line!Init
  <2>1. Gather(PendingOf, <<>>) = <<>>
    BY MessagesHold, GatherFacts
  <2>2. Join(Join(<<>>, <<>>), <<>>) = <<>>
    BY DEF Join
  <2> QED BY <2>1, <2>2, OnTheLineIs, InitTyping DEF Init
<1>2. IInv /\ IInv' /\ [Next]_vars
        => [Line!Next]_<<OnTheLine, event.put, event.transmitted>>
  <2> SUFFICES ASSUME IInv, IInv', [Next]_vars
               PROVE  [Line!Next]_<<OnTheLine, event.put, event.transmitted>>
    OBVIOUS
  <2>1. \/ UNCHANGED <<OnTheLine, event.put, event.transmitted>>
        \/ Steps(OnTheLine, OnTheLine', event'.put, event'.transmitted)
    BY NextLine DEF IInv
  <2> QED BY <2>1 DEF Steps, Join, Line!Next, Line!Put, Line!Take, Line!Idle
<1> QED BY <1>1, <1>2, Invariance, PTL DEF Spec, OutputInOrder, Line!Spec

-----------------------------------------------------------------------------
(* The characters on their way from the keyboard.                          *)

\* The characters on their way from the keyboard: buffer, queue, notifier, UART.
LEMMA FromKeyboardIs ==
  /\ Typing => FromKeyboard = Join(Join(Join(receive_buffer, Gather(TypedOf, queue)),
                                        Held(ch)), Held(uart_data))
  /\ Typing' => FromKeyboard' = Join(Join(Join(receive_buffer', Gather(TypedOf, queue')),
                                          Held(ch')), Held(uart_data'))
<1>1. ASSUME Typing
      PROVE  FromKeyboard = Join(Join(Join(receive_buffer, Gather(TypedOf, queue)),
                                      Held(ch)), Held(uart_data))
  BY <1>1, ContentsAre DEF Typing, FromKeyboard, Join
<1>2. ASSUME Typing'
      PROVE  FromKeyboard' = Join(Join(Join(receive_buffer', Gather(TypedOf, queue')),
                                       Held(ch')), Held(uart_data'))
  BY <1>2, ContentsAre DEF Typing, FromKeyboard, Join, Held
<1> QED BY <1>1, <1>2

\* A place for one character is a sequence of at most one.
LEMMA HeldFacts ==
  /\ Held(NoChar) = <<>>
  /\ \A x \in Chars : Held(x) = <<x>>
  /\ \A x \in Chars \cup {NoChar} : Held(x) \in Seq(Chars)
<1>1. NoChar \notin Chars
  BY ComServerAssumption
<1>2. \A x \in Chars : <<x>> \in Seq(Chars)
  OBVIOUS
<1>3. <<>> \in Seq(Chars)
  OBVIOUS
<1> QED BY <1>1, <1>2, <1>3 DEF Held

\* Every step keeps the characters from the keyboard in order, or is a step of
\* the queue.
LEMMA NextKeyboard ==
  ASSUME IInv, IInv', [Next]_vars
  PROVE  \/ UNCHANGED <<FromKeyboard, event.arrived, event.got>>
         \/ Steps(FromKeyboard, FromKeyboard', event'.arrived, event'.got)
<1> DEFINE G == Gather(TypedOf, queue)
           H == Gather(TypedOf, queue')
           B == Join(receive_buffer, G)
           D == Join(receive_buffer', H)
<1>1. /\ FromKeyboard = Join(Join(B, Held(ch)), Held(uart_data))
      /\ FromKeyboard' = Join(Join(D, Held(ch')), Held(uart_data'))
      /\ receive_buffer \in Seq(Chars) /\ receive_buffer' \in Seq(Chars)
      /\ queue \in Seq(Messages) /\ queue' \in Seq(Messages)
      /\ ch \in Chars \cup {NoChar} /\ uart_data \in Chars \cup {NoChar}
      /\ B \in Seq(Chars) /\ D \in Seq(Chars) /\ H \in Seq(Chars)
      /\ Maps(TypedOf, Messages, Seq(Chars))
  <2>1. /\ receive_buffer \in Seq(Chars) /\ receive_buffer' \in Seq(Chars)
        /\ queue \in Seq(Messages) /\ queue' \in Seq(Messages)
        /\ ch \in Chars \cup {NoChar} /\ uart_data \in Chars \cup {NoChar}
        /\ Maps(TypedOf, Messages, Seq(Chars))
    BY MessagesHold DEF IInv, Typing
  <2>2. /\ FromKeyboard = Join(Join(B, Held(ch)), Held(uart_data))
        /\ FromKeyboard' = Join(Join(D, Held(ch')), Held(uart_data'))
    BY FromKeyboardIs DEF IInv
  <2>3. G \in Seq(Chars) /\ H \in Seq(Chars)
    BY <2>1, GatherFacts
  <2>4. B \in Seq(Chars) /\ D \in Seq(Chars)
    BY <2>1, <2>3, JoinFacts
  <2> QED BY <2>1, <2>2, <2>3, <2>4
<1>2. \A a \in Seq(Chars) : Join(a, <<>>) = a
  BY JoinFacts
<1>3. ASSUME NEW m \in Messages, queue' = Append(queue, m),
             receive_buffer' = receive_buffer
      PROVE  D = Join(B, Typed(m))
  <2>1. Join(receive_buffer, Gather(TypedOf, Append(queue, m))) = Join(B, TypedOf[m])
    BY <1>1, GatherBehind
  <2> QED BY <1>1, <1>3, <2>1 DEF TypedOf
<1>4. ASSUME D = B, ch' = ch, uart_data' = uart_data,
             event'.arrived = <<>>, event'.got = <<>>
      PROVE  Steps(FromKeyboard, FromKeyboard', event'.arrived, event'.got)
  BY <1>1, <1>4 DEF Steps
<1>5. ASSUME NEW m \in Messages, queue' = Append(queue, m), Typed(m) = <<>>,
             receive_buffer' = receive_buffer, ch' = ch, uart_data' = uart_data,
             event'.arrived = <<>>, event'.got = <<>>
      PROVE  Steps(FromKeyboard, FromKeyboard', event'.arrived, event'.got)
  <2>1. D = Join(B, <<>>)
    BY <1>3, <1>5
  <2> QED BY <1>1, <1>2, <1>4, <1>5, <2>1
<1>6. ASSUME NEW c \in Clients, NEW str, str = <<>> \/ str \in Strings, Call(c, str),
             event'.arrived = <<>>, event'.got = <<>>
      PROVE  Steps(FromKeyboard, FromKeyboard', event'.arrived, event'.got)
  <2>1. Typed(Message(c, str)) = <<>> /\ Message(c, str) \in Messages
    BY <1>6, MessageFields, MessageSent, ComServerAssumption DEF Typed
  <2> QED BY <1>5, <1>6, <2>1 DEF Call, buffers, uart
<1>7. ASSUME NEW c \in Clients,
             Getc(c) \/ \E str \in Strings : Puts(c, str)
      PROVE  Steps(FromKeyboard, FromKeyboard', event'.arrived, event'.got)
  BY <1>6, <1>7, NoEventFields DEF Getc, Puts, NoEvent
<1>8. CASE SendNotifierSends
  <2>1. /\ Typed(Message(SendNotifier, <<>>)) = <<>>
        /\ Message(SendNotifier, <<>>) \in Messages
    BY MessageFields, MessageSent, ComServerAssumption DEF Typed
  <2> QED BY <1>5, <1>8, <2>1, NoEventFields DEF SendNotifierSends, buffers, uart
<1>9. CASE ReceiveNotifierSends
  <2>1. /\ queue' = Append(queue, Message(ReceiveNotifier, <<ch>>))
        /\ receive_buffer' = receive_buffer /\ ch' = NoChar /\ uart_data' = uart_data
        /\ event'.arrived = <<>> /\ event'.got = <<>>
    BY <1>9, NoEventFields DEF ReceiveNotifierSends, buffers, NoEvent
  <2>2. ch \in Chars /\ Message(ReceiveNotifier, <<ch>>) \in Messages
    BY <1>9, MessageSent DEF ReceiveNotifierSends, IInv, Typing, Notifiers
  <2>3. Typed(Message(ReceiveNotifier, <<ch>>)) = Held(ch)
    BY <2>2, MessageFields, HeldFacts DEF Typed
  <2>4. D = Join(B, Held(ch))
    BY <1>3, <2>1, <2>2, <2>3
  <2>5. Join(D, Held(ch')) = D
    BY <1>1, <1>2, <2>1, HeldFacts
  <2> QED BY <1>1, <2>1, <2>4, <2>5 DEF Steps
<1>10. ASSUME receive_buffer' = receive_buffer, queue' = queue
       PROVE  D = B
  BY <1>10
<1>11. CASE Transmit
  BY <1>4, <1>10, <1>11, NoEventFields DEF Transmit, buffers, uart, NoEvent
<1>12. ASSUME NEW x \in Received, Arrive(x)
       PROVE  Steps(FromKeyboard, FromKeyboard', event'.arrived, event'.got)
  <2>1. /\ D = B /\ ch' = ch /\ uart_data = NoChar /\ uart_data' = x /\ x \in Chars
        /\ event'.arrived = <<x>> /\ event'.got = <<>>
    BY <1>10, <1>12, NoEventFields, ComServerAssumption DEF Arrive, buffers, NoEvent
  <2>2. Held(uart_data) = <<>> /\ Held(uart_data') = <<x>>
    BY <2>1, HeldFacts
  <2>3. Join(B, Held(ch)) \in Seq(Chars)
    BY <1>1, HeldFacts, JoinFacts
  <2>4. FromKeyboard = Join(B, Held(ch))
    BY <1>1, <1>2, <2>2, <2>3
  <2> QED BY <1>1, <2>1, <2>2, <2>4 DEF Steps
<1>13. CASE RxInterrupt
  <2>1. /\ D = B /\ ch = NoChar /\ ch' = uart_data /\ uart_data' = NoChar
        /\ event'.arrived = <<>> /\ event'.got = <<>>
    BY <1>10, <1>13, NoEventFields DEF RxInterrupt, buffers, IInv, Notifiers
  <2>2. Held(ch) = <<>> /\ Held(uart_data') = <<>> /\ Held(ch') = Held(uart_data)
    BY <2>1, HeldFacts
  <2>3. Join(B, Held(uart_data)) \in Seq(Chars)
    BY <1>1, HeldFacts, JoinFacts
  <2>4. FromKeyboard = Join(B, Held(uart_data)) /\ FromKeyboard' = Join(B, Held(uart_data))
    BY <1>1, <1>2, <2>1, <2>2, <2>3
  <2> QED BY <2>1, <2>4 DEF Steps
<1>14. CASE BuffersExceeded
  BY <1>4, <1>10, <1>14, NoEventFields DEF BuffersExceeded, buffers, uart
<1>15. ASSUME NEW sa, NEW w, NEW rb, NEW gb, NEW freed, Turn(sa, w, rb, gb, freed)
       PROVE  Steps(FromKeyboard, FromKeyboard', event'.arrived, event'.got)
  <2>1. /\ Head(queue) \in Messages /\ rb \in Seq(Chars)
        /\ queue # <<>> /\ queue' = Tail(queue) /\ ServeGetter(rb, gb, freed)
        /\ ch' = ch /\ uart_data' = uart_data
    BY <1>15, TurnTypes DEF Turn, Finish, IInv
  <2>2. Join(receive_buffer, Typed(Head(queue))) = rb
    <3>1. \A x \in Chars : Append(receive_buffer, x) = Join(receive_buffer, <<x>>)
      BY <1>1, JoinAppend
    <3>2. Join(receive_buffer, <<>>) = receive_buffer
      BY <1>1, <1>2
    <3>3. SendNotifier # ReceiveNotifier /\ ReceiveNotifier \notin Clients
      BY ComServerAssumption
    <3>4. \/ Typed(Head(queue)) = <<>> /\ rb = receive_buffer
          \/ \E x \in Chars : /\ Typed(Head(queue)) = <<x>>
                              /\ rb = Append(receive_buffer, x)
      BY <1>15, <3>3 DEF Turn, Typed
    <3> QED BY <3>1, <3>2, <3>4
  <2>3. B = Join(rb, H)
    <3>1. Join(receive_buffer, G)
            = Join(Join(receive_buffer, TypedOf[Head(queue)]), Gather(TypedOf, Tail(queue)))
      BY <1>1, <2>1, GatherBehind
    <3> QED BY <1>1, <2>1, <2>2, <3>1 DEF TypedOf
  <2>4. CASE CanServe(rb, gb)
    <3>1. /\ rb # <<>> /\ receive_buffer' = Tail(rb)
          /\ event'.arrived = <<>> /\ event'.got = <<Head(rb)>>
      BY <2>1, <2>4, NoEventFields DEF ServeGetter, CanServe, NoEvent
    <3> HIDE DEF G, H
    <3>2. B # <<>> /\ Head(B) = Head(rb) /\ Tail(B) = Join(Tail(rb), H)
      <4>1. /\ Join(rb, H) # <<>> /\ Head(Join(rb, H)) = Head(rb)
            /\ Tail(Join(rb, H)) = Join(Tail(rb), H)
        BY <1>1, <2>1, <3>1, JoinHead
      <4> QED BY <2>3, <4>1
    <3>3. Tail(B) = D
      BY <3>1, <3>2
    <3>4. Held(ch) \in Seq(Chars) /\ Held(uart_data) \in Seq(Chars)
      BY <1>1, HeldFacts
    <3> DEFINE h == Held(ch)
               d == Held(uart_data)
               E == Join(B, h)
    <3>5. /\ B \in Seq(Chars) /\ h \in Seq(Chars) /\ d \in Seq(Chars)
          /\ E = Join(B, h) /\ E \in Seq(Chars)
      BY <1>1, <3>4, JoinFacts
    <3>6. FromKeyboard = Join(E, d) /\ FromKeyboard' = Join(Join(D, h), d)
      BY <1>1, <2>1
    <3> HIDE DEF B, D, h, d, E
    <3>7. E # <<>> /\ Head(E) = Head(B) /\ Tail(E) = Join(Tail(B), h)
      BY <3>2, <3>5, JoinHead
    <3>8. /\ Join(E, d) # <<>> /\ Head(Join(E, d)) = Head(E)
          /\ Tail(Join(E, d)) = Join(Tail(E), d)
      BY <3>5, <3>7, JoinHead
    <3> QED BY <3>1, <3>2, <3>3, <3>6, <3>7, <3>8 DEF Steps
  <2>5. CASE ~ CanServe(rb, gb)
    <3>1. receive_buffer' = rb /\ event'.arrived = <<>> /\ event'.got = <<>>
      BY <2>1, <2>5, NoEventFields DEF ServeGetter
    <3> QED BY <1>4, <2>1, <2>3, <3>1
  <2> QED BY <2>4, <2>5
<1>16. CASE Server
  BY <1>14, <1>15, <1>16, ServerTurns
<1>17. CASE UNCHANGED vars
  BY <1>1, <1>17 DEF vars, buffers, uart
<1> QED BY <1>7, <1>8, <1>9, <1>11, <1>12, <1>13, <1>16, <1>17 DEF Next, Stopped

\* The calls of Getc return the characters received, in their order.
THEOREM KeyboardRefinesFifo == Spec => InputInOrder
<1>1. Init => Keyboard!Init
  <2> SUFFICES ASSUME Init PROVE FromKeyboard = <<>>
    BY DEF Keyboard!Init
  <2>1. Gather(TypedOf, <<>>) = <<>>
    BY MessagesHold, GatherFacts
  <2>2. Join(Join(Join(<<>>, <<>>), <<>>), <<>>) = <<>>
    BY DEF Join
  <2> QED BY <2>1, <2>2, FromKeyboardIs, InitTyping, HeldFacts DEF Init
<1>2. IInv /\ IInv' /\ [Next]_vars
        => [Keyboard!Next]_<<FromKeyboard, event.arrived, event.got>>
  <2> SUFFICES ASSUME IInv, IInv', [Next]_vars
               PROVE  [Keyboard!Next]_<<FromKeyboard, event.arrived, event.got>>
    OBVIOUS
  <2>1. \/ UNCHANGED <<FromKeyboard, event.arrived, event.got>>
        \/ Steps(FromKeyboard, FromKeyboard', event'.arrived, event'.got)
    BY NextKeyboard
  <2> QED BY <2>1
          DEF Steps, Join, Keyboard!Next, Keyboard!Put, Keyboard!Take, Keyboard!Idle
<1> QED BY <1>1, <1>2, Invariance, PTL DEF Spec, InputInOrder, Keyboard!Spec
=============================================================================
