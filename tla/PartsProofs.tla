---------------------------- MODULE PartsProofs ----------------------------
(***************************************************************************)
(* Proofs about the parts, for any values of their constants: the buffer   *)
(* of CircularBuffer implements Fifo, the table of NameServer implements   *)
(* Registry, the sensors of TrainSensor that the center hears of have been *)
(* passed, and the linked lists of Satellites hold the trains' hierarchy:  *)
(* the memory of the lists stands for a sequence for each orbit, and       *)
(* listPush, listAppend and listRemove do to the sequences what their      *)
(* names say.                                                              *)
(***************************************************************************)
EXTENDS Parts, SequenceLemmas, FiniteSetTheorems, TLAPS

-----------------------------------------------------------------------------
(* The circular buffer, of any size, and whatever it holds.                *)

\* The index behind the last one is the first one.
LEMMA WrappedIs ==
    ASSUME Buffer!BufferAssumption, NEW i \in Buffer!Indices, NEW k \in 0 .. buffer_size
    PROVE  Buffer!Wrapped(i + k) = IF i + k < buffer_size THEN i + k ELSE i + k - buffer_size
BY IndexWraps DEF Buffer!BufferAssumption, Buffer!Indices, Buffer!Wrapped

\* The indices and the count agree: back is current_size behind front.
BufferInv ==
    /\ buffer \in [Buffer!Indices -> Values]
    /\ front \in Buffer!Indices /\ back \in Buffer!Indices
    /\ current_size \in 0 .. buffer_size
    /\ back = Buffer!Wrapped(front + current_size)

\* The place of the i-th item from the front.
BufferAt(i) == Buffer!Wrapped(front + i - 1)

\* The places of the items differ from each other, and from back unless the
\* buffer is full.
LEMMA PlacesIn ==
    ASSUME Buffer!BufferAssumption, BufferInv, NEW i \in 1 .. buffer_size
    PROVE  /\ BufferAt(i) \in Buffer!Indices
           /\ i <= current_size /\ Buffer!HasPlace => BufferAt(i) # back
           /\ BufferAt(i) = Buffer!Wrapped(front + (i - 1))
<1>1. /\ buffer_size \in Nat \ {0} /\ front \in Buffer!Indices /\ front \in Nat /\ current_size \in Nat
      /\ i - 1 \in 0 .. buffer_size /\ current_size \in 0 .. buffer_size
      /\ Buffer!Indices = 0 .. buffer_size - 1 /\ front + i - 1 = front + (i - 1)
      /\ back = Buffer!Wrapped(front + current_size)
  BY DEF BufferInv, Buffer!BufferAssumption, Buffer!Indices
<1>2. Buffer!Wrapped(front + (i - 1)) =
         IF front + (i - 1) < buffer_size THEN front + (i - 1)
         ELSE front + (i - 1) - buffer_size
  BY <1>1, WrappedIs
<1>3. Buffer!Wrapped(front + current_size) =
         IF front + current_size < buffer_size THEN front + current_size
         ELSE front + current_size - buffer_size
  BY <1>1, WrappedIs
<1>4. BufferAt(i) = Buffer!Wrapped(front + (i - 1))
  BY <1>1 DEF BufferAt
<1> QED BY <1>1, <1>2, <1>3, <1>4 DEF Buffer!HasPlace

\* Each item is in its place.
PlaceByPlace ==
    /\ Buffer!Contents \in Seq(Values) /\ Len(Buffer!Contents) = current_size
    /\ \A i \in 1 .. current_size : Buffer!Contents[i] = buffer[Buffer!Wrapped(front + i - 1)]

\* What the buffer holds, place by place.
LEMMA ContentsIs ==
    ASSUME Buffer!BufferAssumption, BufferInv
    PROVE  /\ Buffer!Contents \in Seq(Values) /\ Len(Buffer!Contents) = current_size
           /\ \A i \in 1 .. current_size : Buffer!Contents[i] = buffer[BufferAt(i)]
<1>1. /\ current_size \in Nat /\ 1 .. current_size \subseteq 1 .. buffer_size
      /\ buffer \in [Buffer!Indices -> Values]
  BY DEF BufferInv, Buffer!BufferAssumption
<1>2. \A i \in 1 .. current_size : buffer[BufferAt(i)] \in Values
  BY <1>1, PlacesIn
<1>3. Buffer!Contents = [i \in 1 .. current_size |-> buffer[BufferAt(i)]]
  BY DEF Buffer!Contents, BufferAt
<1> QED BY <1>1, <1>2, <1>3

\* The array, the indices and the count as a step leaves them.
LEMMA BufferInvKept ==
    ASSUME Buffer!BufferAssumption
    PROVE  /\ Buffer!Init => BufferInv
           /\ BufferInv /\ [Buffer!Next]_(Buffer!vars) => BufferInv'
<1>1. /\ buffer_size \in Nat \ {0} /\ Buffer!Indices = 0 .. buffer_size - 1
      /\ 0 \in Buffer!Indices /\ 0 \in 0 .. buffer_size /\ 1 \in 0 .. buffer_size
  BY DEF Buffer!BufferAssumption, Buffer!Indices
<1>2. Buffer!Wrapped(0 + 0) = 0
  BY <1>1, WrappedIs
<1>3. Buffer!Init => BufferInv
  BY <1>1, <1>2 DEF Buffer!Init, Buffer!bufferInitial, BufferInv
<1>4. ASSUME BufferInv, [Buffer!Next]_(Buffer!vars) PROVE BufferInv'
  <2>1. /\ buffer \in [Buffer!Indices -> Values] /\ front \in Buffer!Indices /\ back \in Buffer!Indices
        /\ current_size \in 0 .. buffer_size
        /\ back = Buffer!Wrapped(front + current_size)
    BY <1>4 DEF BufferInv
  <2>2. /\ Buffer!Wrapped(back + 1) = IF back + 1 < buffer_size THEN back + 1 ELSE back + 1 - buffer_size
        /\ Buffer!Wrapped(front + 1) =
             IF front + 1 < buffer_size THEN front + 1 ELSE front + 1 - buffer_size
        /\ Buffer!Wrapped(front + current_size) =
             IF front + current_size < buffer_size THEN front + current_size
             ELSE front + current_size - buffer_size
    BY <1>1, <2>1, WrappedIs
  <2>3. CASE UNCHANGED Buffer!vars
    BY <2>1, <2>3 DEF Buffer!vars, BufferInv
  <2>4. CASE Buffer!bufferPop
    <3>1. /\ current_size > 0 /\ current_size' = current_size - 1
          /\ buffer' = buffer /\ back' = back /\ front' = Buffer!Wrapped(front + 1)
      BY <2>4 DEF Buffer!bufferPop
    <3>2. front' \in Buffer!Indices /\ current_size' \in 0 .. buffer_size
      BY <1>1, <2>1, <2>2, <3>1
    <3>3. Buffer!Wrapped(front' + current_size') =
             IF front' + current_size' < buffer_size THEN front' + current_size'
             ELSE front' + current_size' - buffer_size
      BY <3>2, WrappedIs
    <3>4. back' = Buffer!Wrapped(front' + current_size')
      <4>1. CASE front + 1 < buffer_size
        <5>1. front' = front + 1 /\ front' + current_size' = front + current_size
          BY <1>1, <2>1, <2>2, <3>1, <4>1
        <5> QED BY <2>1, <3>1, <5>1
      <4>2. CASE ~(front + 1 < buffer_size)
        <5>1. front' = 0 /\ front + 1 = buffer_size
          BY <1>1, <2>1, <2>2, <3>1, <4>2
        <5>2. front' + current_size' = current_size - 1 /\ current_size - 1 < buffer_size
          BY <1>1, <2>1, <3>1, <5>1
        <5>3. Buffer!Wrapped(front' + current_size') = current_size - 1
          BY <3>3, <5>2
        <5>4. back = current_size - 1
          BY <1>1, <2>1, <2>2, <3>1, <5>1
        <5> QED BY <3>1, <5>3, <5>4
      <4> QED BY <4>1, <4>2
    <3> QED BY <2>1, <3>1, <3>2, <3>4 DEF BufferInv
  <2>5. ASSUME NEW value \in Values, Buffer!bufferPush(value)
        PROVE  BufferInv'
    <3>1. /\ current_size < buffer_size /\ current_size' = current_size + 1
          /\ buffer' = [buffer EXCEPT ![back] = value] /\ front' = front
          /\ back' = Buffer!Wrapped(back + 1)
      BY <2>5 DEF Buffer!bufferPush, Buffer!HasPlace
    <3>2. back' \in Buffer!Indices /\ current_size' \in 0 .. buffer_size
      BY <1>1, <2>1, <2>2, <3>1
    <3>3. Buffer!Wrapped(front + current_size') =
             IF front + current_size' < buffer_size THEN front + current_size'
             ELSE front + current_size' - buffer_size
      BY <2>1, <3>2, WrappedIs
    <3>4. back' = Buffer!Wrapped(front' + current_size')
      BY <1>1, <2>1, <2>2, <3>1, <3>2, <3>3
    <3>5. buffer' \in [Buffer!Indices -> Values]
      BY <2>1, <3>1
    <3> QED BY <2>1, <3>1, <3>2, <3>4, <3>5 DEF BufferInv
  <2> QED BY <1>4, <2>3, <2>4, <2>5 DEF Buffer!Next
<1> QED BY <1>3, <1>4

\* A push adds its value behind what the buffer holds.
LEMMA PushPuts ==
    ASSUME Buffer!BufferAssumption, BufferInv, BufferInv', NEW value \in Values, Buffer!bufferPush(value), PlaceByPlace'
    PROVE  Buffer!Contents' = Append(Buffer!Contents, value)
<1>1. /\ current_size < buffer_size /\ current_size' = current_size + 1
      /\ buffer' = [buffer EXCEPT ![back] = value] /\ front' = front
  BY DEF Buffer!bufferPush, Buffer!HasPlace
<1> USE DEF PlaceByPlace
<1>2. /\ buffer_size \in Nat \ {0} /\ current_size \in Nat /\ back \in Buffer!Indices
      /\ front \in Nat /\ buffer \in [Buffer!Indices -> Values] /\ back = Buffer!Wrapped(front + current_size)
  BY DEF BufferInv, Buffer!BufferAssumption, Buffer!Indices
<1>3. /\ Buffer!Contents \in Seq(Values) /\ Len(Buffer!Contents) = current_size
      /\ \A i \in 1 .. current_size : Buffer!Contents[i] = buffer[BufferAt(i)]
  BY ContentsIs
<1>4. ASSUME NEW i \in 1 .. current_size
      PROVE  Buffer!Contents'[i] = Buffer!Contents[i]
  <2>1. BufferAt(i) \in Buffer!Indices /\ BufferAt(i) # back
    BY <1>1, <1>2, PlacesIn DEF Buffer!HasPlace
  <2>2. i \in 1 .. current_size' /\ BufferAt(i) = Buffer!Wrapped(front' + i - 1)
    BY <1>1, <1>2 DEF BufferAt
  <2>3. Buffer!Contents'[i] = buffer'[BufferAt(i)]
    BY <2>2
  <2> QED BY <1>1, <1>2, <1>3, <2>1, <2>3
<1>5. Buffer!Contents'[current_size + 1] = value
  <2>1. current_size + 1 \in 1 .. current_size' /\ front' + (current_size + 1) - 1 = front + current_size
    BY <1>1, <1>2
  <2> QED BY <1>1, <1>2, <2>1
<1>6. ASSUME NEW s \in Seq(Values), NEW t \in Seq(Values),
             Len(t) = Len(s) + 1, \A i \in 1 .. Len(s) : t[i] = s[i],
             t[Len(s) + 1] = value
      PROVE  t = Append(s, value)
  <2>1. Append(s, value) \in Seq(Values) /\ Len(Append(s, value)) = Len(s) + 1
    OBVIOUS
  <2>2. \A i \in 1 .. Len(t) : t[i] = Append(s, value)[i]
    BY <1>6
  <2> QED BY <1>6, <2>1, <2>2
<1> QED BY <1>1, <1>3, <1>4, <1>5, <1>6

\* A pop takes the first of what the buffer holds.
LEMMA PopTakes ==
    ASSUME Buffer!BufferAssumption, BufferInv, BufferInv', Buffer!bufferPop, PlaceByPlace'
    PROVE  Buffer!Contents # << >> /\ Buffer!Contents' = Tail(Buffer!Contents) /\ popped' = <<Head(Buffer!Contents)>>
<1>1. /\ current_size > 0 /\ current_size' = current_size - 1
      /\ buffer' = buffer /\ front' = Buffer!Wrapped(front + 1) /\ popped' = <<buffer[front]>>
  BY DEF Buffer!bufferPop
<1> USE DEF PlaceByPlace
<1>2. /\ buffer_size \in Nat \ {0} /\ current_size \in 0 .. buffer_size
      /\ front \in Buffer!Indices /\ Buffer!Indices = 0 .. buffer_size - 1 /\ 1 \in 0 .. buffer_size
  BY DEF BufferInv, Buffer!BufferAssumption, Buffer!Indices
<1>3. /\ Buffer!Contents \in Seq(Values) /\ Len(Buffer!Contents) = current_size
      /\ \A i \in 1 .. current_size : Buffer!Contents[i] = buffer[BufferAt(i)]
  BY ContentsIs
<1>4. Head(Buffer!Contents) = buffer[front] /\ Buffer!Contents # << >>
  <2>1. 1 \in 1 .. current_size /\ front + 1 - 1 = front + 0 /\ 0 \in 0 .. buffer_size
    BY <1>1, <1>2
  <2>2. Buffer!Wrapped(front + 0) = front
    BY <1>2, <2>1, WrappedIs
  <2>3. Buffer!Contents[1] = buffer[front]
    BY <1>3, <2>1, <2>2 DEF BufferAt
  <2> QED BY <1>1, <1>2, <1>3, <2>3
<1>5. ASSUME NEW i \in 1 .. current_size - 1
      PROVE  Buffer!Contents'[i] = Buffer!Contents[i + 1]
  <2>1. /\ i \in 1 .. current_size' /\ i + 1 \in 1 .. current_size
        /\ i - 1 \in 0 .. buffer_size /\ i \in 0 .. buffer_size
        /\ front + (i + 1) - 1 = front + i
    BY <1>1, <1>2
  <2>2. Buffer!Wrapped(front + 1) = IF front + 1 < buffer_size THEN front + 1
                             ELSE front + 1 - buffer_size
    BY <1>2, WrappedIs
  <2>3. front' \in Buffer!Indices /\ front' + i - 1 = front' + (i - 1)
    BY <1>1, <1>2, <2>1, <2>2
  <2>4. Buffer!Wrapped(front' + (i - 1)) = IF front' + (i - 1) < buffer_size THEN front' + (i - 1)
                                    ELSE front' + (i - 1) - buffer_size
    BY <2>1, <2>3, WrappedIs
  <2>5. Buffer!Wrapped(front + i) = IF front + i < buffer_size THEN front + i
                             ELSE front + i - buffer_size
    BY <1>2, <2>1, WrappedIs
  <2>6. Buffer!Wrapped(front' + i - 1) = Buffer!Wrapped(front + i)
    <3>1. CASE front + 1 < buffer_size
      BY <1>1, <1>2, <2>1, <2>2, <3>1
    <3>2. CASE ~(front + 1 < buffer_size)
      <4>1. front' = 0 /\ front + 1 = buffer_size
        BY <1>1, <1>2, <2>2, <3>2
      <4>2. Buffer!Wrapped(front' + (i - 1)) = i - 1
        BY <1>2, <2>1, <2>4, <4>1
      <4>3. Buffer!Wrapped(front + i) = i - 1
        BY <1>2, <2>1, <2>5, <4>1
      <4> QED BY <2>3, <4>2, <4>3
    <3> QED BY <3>1, <3>2
  <2>7. Buffer!Contents[i + 1] = buffer[Buffer!Wrapped(front + i)]
    BY <1>3, <2>1 DEF BufferAt
  <2> QED BY <1>1, <2>1, <2>6, <2>7
<1>6. ASSUME NEW s \in Seq(Values), NEW t \in Seq(Values), s # << >>,
             Len(t) = Len(s) - 1, \A i \in 1 .. Len(s) - 1 : t[i] = s[i + 1]
      PROVE  t = Tail(s)
  <2>1. Tail(s) \in Seq(Values) /\ Len(Tail(s)) = Len(s) - 1
    BY <1>6
  <2>2. \A i \in 1 .. Len(t) : t[i] = Tail(s)[i]
    BY <1>6
  <2> QED BY <1>6, <2>1, <2>2
<1> QED BY <1>1, <1>3, <1>4, <1>5, <1>6

\* Each push is a Put and each pop a Take.
LEMMA BufferSteps == ASSUME Buffer!BufferAssumption PROVE Buffer!Spec => Buffer!BufferIsFifo
<1>1. ASSUME Buffer!Init PROVE Buffer!Queue!Init
  <2>1. BufferInv
    BY <1>1, BufferInvKept
  <2>2. Buffer!Contents \in Seq(Values) /\ Len(Buffer!Contents) = 0
    BY <1>1, <2>1, ContentsIs DEF Buffer!Init, Buffer!bufferInitial
  <2> QED BY <2>2 DEF Buffer!Queue!Init
<1>2. BufferInv' => PlaceByPlace'
  <2>1. BufferInv => PlaceByPlace
    BY ContentsIs DEF BufferAt, PlaceByPlace
  <2> QED BY <2>1, PTL
<1>3. ASSUME BufferInv, BufferInv', [Buffer!Next]_(Buffer!vars)
      PROVE  [Buffer!Queue!Next]_<<Buffer!Contents, pushed, popped>>
  <2>1. CASE UNCHANGED Buffer!vars
    BY <2>1 DEF Buffer!vars, Buffer!Contents
  <2>2. CASE Buffer!bufferPop
    <3>1. Buffer!Contents # << >> /\ Buffer!Contents' = Tail(Buffer!Contents) /\ popped' = <<Head(Buffer!Contents)>>
      BY <1>2, <1>3, <2>2, PopTakes
    <3>2. pushed' = << >>
      BY <2>2 DEF Buffer!bufferPop
    <3> QED BY <3>1, <3>2 DEF Buffer!Queue!Next, Buffer!Queue!Take
  <2>3. ASSUME NEW value \in Values, Buffer!bufferPush(value)
        PROVE  Buffer!Queue!Next
    <3>1. Buffer!Contents' = Append(Buffer!Contents, value)
      BY <1>2, <1>3, <2>3, PushPuts
    <3>2. pushed' = <<value>> /\ popped' = << >>
      BY <2>3 DEF Buffer!bufferPush
    <3>3. Buffer!Contents \in Seq(Values)
      BY <1>3, ContentsIs
    <3>4. Buffer!Contents' = Buffer!Contents \o pushed' /\ pushed' # << >>
      BY <2>3, <3>1, <3>2, <3>3
    <3> QED BY <3>2, <3>4 DEF Buffer!Queue!Next, Buffer!Queue!Put
  <2> QED BY <1>3, <2>1, <2>2, <2>3 DEF Buffer!Next
<1>4. Buffer!Spec => []BufferInv
  BY BufferInvKept, PTL DEF Buffer!Spec
<1> QED BY <1>1, <1>3, <1>4, PTL DEF Buffer!Spec, Buffer!BufferIsFifo

-----------------------------------------------------------------------------
(* The name server, with any callers and names and a table of any size.    *)

Named(i) == table[i].name # NoName

\* What a caller sends.
Query == [tid : Callers, type : {"R", "W"}, name : Names]

\* What the table and the queries look like.
TableTypes ==
    /\ table \in [Server!Entries -> [name : Names \union {NoName}, tid : Callers \union {0}]]
    /\ ns_counter \in Server!Entries
    /\ queries \in Seq(Query)

\* The entries are used from the first one on, until all of them are.
FilledInOrder ==
    \/ \A i \in Server!Entries : Named(i)
    \/ \A i \in Server!Entries : Named(i) <=> i < ns_counter

\* A name has one entry.
NamedOnce == \A i, j \in Server!Entries : Named(i) /\ table[i].name = table[j].name => i = j

TableInv == TableTypes /\ FilledInOrder /\ NamedOnce

\* The entry behind the last one is the first one.
LEMMA Wraps ==
    ASSUME Server!NameServerAssumption, NEW i \in Server!Entries, NEW k \in 0 .. NS_REG_MAX
    PROVE  (i + k) % NS_REG_MAX = IF i + k < NS_REG_MAX THEN i + k ELSE i + k - NS_REG_MAX
BY IndexWraps DEF Server!NameServerAssumption, Server!Entries

\* What findTidFor returns.
LEMMA FindIs ==
    ASSUME Server!NameServerAssumption, NEW name
    PROVE  \/ Server!findTidFor(name) = -1 /\ \A i \in Server!Entries : table[i].name # name
           \/ Server!findTidFor(name) \in Server!Entries /\ table[Server!findTidFor(name)].name = name
<1> SUFFICES ASSUME NEW i \in Server!Entries, table[i].name = name
             PROVE  Server!findTidFor(name) \in Server!Entries /\ table[Server!findTidFor(name)].name = name
  BY DEF Server!findTidFor
<1> DEFINE S == {k \in Server!Entries : table[k].name = name}
<1>1. S \subseteq Nat /\ S # {} /\ S \subseteq Server!Entries
  BY DEF Server!Entries, Server!NameServerAssumption
<1>2. PICK k \in S : \A j \in S : k <= j
  <2> HIDE DEF S
  <2> QED BY <1>1, LeastElement
<1>3. \A j \in 0 .. k - 1 : table[j].name # name
  <2> SUFFICES ASSUME NEW j \in 0 .. k - 1, table[j].name = name PROVE FALSE
    OBVIOUS
  <2>1. j \in S
    BY <1>1, <1>2 DEF Server!Entries, Server!NameServerAssumption
  <2> QED BY <1>1, <1>2, <2>1
<1>4. \E e \in Server!Entries : table[e].name = name /\ \A j \in 0 .. e - 1 : table[j].name # name
  BY <1>2, <1>3
<1>5. Server!findTidFor(name) =
        CHOOSE e \in Server!Entries : table[e].name = name /\ \A j \in 0 .. e - 1 : table[j].name # name
  BY DEF Server!findTidFor
<1> QED BY <1>4, <1>5

\* The used entries stand one behind the other, the oldest first.
LEMMA PlaceIs ==
    ASSUME Server!NameServerAssumption, TableInv
    PROVE  /\ Server!Count \in 0 .. NS_REG_MAX /\ (Server!Count = NS_REG_MAX <=> Server!IsFull)
           /\ \A i \in 1 .. Server!Count : Server!Place(i) \in Server!Entries /\ Named(Server!Place(i))
           /\ \A e \in Server!Entries : Named(e) => \E i \in 1 .. Server!Count : Server!Place(i) = e
           /\ Len(Server!Known) = Server!Count
           /\ \A i \in 1 .. Server!Count : Server!Known[i] = table[Server!Place(i)]
<1>1. /\ NS_REG_MAX \in Nat \ {0} /\ ns_counter \in Server!Entries /\ Server!Entries = 0 .. NS_REG_MAX - 1
      /\ ns_counter \in Nat
  BY DEF TableInv, TableTypes, Server!NameServerAssumption, Server!Entries
<1>2. Server!Count \in 0 .. NS_REG_MAX /\ (Server!Count = NS_REG_MAX <=> Server!IsFull)
  BY <1>1 DEF Server!Count
<1>3. Len(Server!Known) = Server!Count /\ \A i \in 1 .. Server!Count : Server!Known[i] = table[Server!Place(i)]
  BY <1>2 DEF Server!Known
<1>4. CASE Server!IsFull
  <2>1. \A e \in Server!Entries : Named(e)
    BY <1>1, <1>4 DEF TableInv, FilledInOrder, Server!IsFull, Named
  <2>2. Server!Count = NS_REG_MAX
    BY <1>4 DEF Server!Count
  <2>3. ASSUME NEW i \in 1 .. Server!Count
        PROVE  Server!Place(i) = IF ns_counter + (i - 1) < NS_REG_MAX THEN ns_counter + (i - 1)
                          ELSE ns_counter + (i - 1) - NS_REG_MAX
    <3>1. i - 1 \in 0 .. NS_REG_MAX
      BY <1>1, <2>2
    <3> QED BY <1>1, <1>4, <3>1, Wraps DEF Server!Place
  <2>4. \A i \in 1 .. Server!Count : Server!Place(i) \in Server!Entries
    BY <1>1, <2>2, <2>3
  <2>5. ASSUME NEW e \in Server!Entries PROVE \E i \in 1 .. Server!Count : Server!Place(i) = e
    <3>1. CASE e >= ns_counter
      <4>1. /\ e - ns_counter + 1 \in 1 .. Server!Count
            /\ ns_counter + ((e - ns_counter + 1) - 1) = e /\ e < NS_REG_MAX
        BY <1>1, <2>2, <3>1
      <4>2. Server!Place(e - ns_counter + 1) = e
        BY <2>3, <4>1
      <4> QED BY <4>1, <4>2
    <3>2. CASE e < ns_counter
      <4> DEFINE k == e - ns_counter + NS_REG_MAX + 1
      <4>1. k \in 1 .. Server!Count /\ ns_counter + (k - 1) = e + NS_REG_MAX /\ e \in Nat
        BY <1>1, <2>2, <3>2
      <4> HIDE DEF k
      <4>2. Server!Place(k) = e
        BY <1>1, <2>3, <4>1
      <4> QED BY <4>1, <4>2
    <3> QED BY <1>1, <3>1, <3>2
  <2> QED BY <1>2, <1>3, <2>1, <2>4, <2>5
<1>5. CASE ~ Server!IsFull
  <2>1. /\ \A e \in Server!Entries : Named(e) <=> e < ns_counter
        /\ Server!Count = ns_counter /\ \A i \in 1 .. Server!Count : Server!Place(i) = i - 1
    BY <1>1, <1>5 DEF TableInv, FilledInOrder, Server!IsFull, Named, Server!Count, Server!Place
  <2>2. \A i \in 1 .. Server!Count : Server!Place(i) \in Server!Entries /\ Server!Place(i) < ns_counter
    BY <1>1, <2>1
  <2>3. ASSUME NEW e \in Server!Entries, Named(e) PROVE \E i \in 1 .. Server!Count : Server!Place(i) = e
    <3>1. e + 1 \in 1 .. Server!Count /\ (e + 1) - 1 = e
      BY <1>1, <2>1, <2>3
    <3> QED BY <2>1, <3>1
  <2> QED BY <1>2, <1>3, <2>1, <2>2, <2>3
<1> QED BY <1>4, <1>5

-----------------------------------------------------------------------------
(* The invariant.                                                          *)

\* A new name takes the entry at ns_counter.
LEMMA NewKeeps ==
    ASSUME Server!NameServerAssumption, TableInv,
           NEW query \in Query, Server!RegisterNew(query),
           queries' \in Seq(Query)
    PROVE  /\ TableInv'
           /\ ns_counter' = IF ns_counter + 1 < NS_REG_MAX THEN ns_counter + 1 ELSE 0
           /\ ~ Server!IsFull /\ ns_counter + 1 < NS_REG_MAX => ~ Server!IsFull'
           /\ Server!IsFull \/ ns_counter + 1 = NS_REG_MAX => Server!IsFull'
<1>1. /\ NS_REG_MAX \in Nat \ {0} /\ ns_counter \in Server!Entries /\ Server!Entries = 0 .. NS_REG_MAX - 1
      /\ 1 \in 0 .. NS_REG_MAX
      /\ table \in [Server!Entries -> [name : Names \union {NoName}, tid : Callers \union {0}]]
      /\ query.name \in Names /\ query.tid \in Callers /\ query.name # NoName
  BY DEF TableInv, TableTypes, Server!NameServerAssumption, Server!Entries, Query
<1>2. /\ table' = [table EXCEPT ![ns_counter] = Server!Entry(query)]
      /\ ns_counter' = (ns_counter + 1) % NS_REG_MAX
      /\ \A i \in Server!Entries : table[i].name # query.name
  <2>1. Server!findTidFor(query.name) = -1 /\ ~ (-1 \in Server!Entries)
    BY <1>1 DEF Server!RegisterNew
  <2> QED BY <2>1, FindIs DEF Server!RegisterNew
<1>3. ns_counter' = IF ns_counter + 1 < NS_REG_MAX THEN ns_counter + 1 ELSE 0
  <2>1. (ns_counter + 1) % NS_REG_MAX =
          IF ns_counter + 1 < NS_REG_MAX THEN ns_counter + 1 ELSE ns_counter + 1 - NS_REG_MAX
    BY <1>1, Wraps
  <2> QED BY <1>1, <1>2, <2>1
<1>4. ns_counter' \in Server!Entries
  BY <1>1, <1>3
<1>5. Server!Entry(query).name = query.name /\ Server!Entry(query) \in [name : Names \union {NoName}, tid : Callers \union {0}]
  BY <1>1 DEF Server!Entry
<1>6. \A i \in Server!Entries : table'[i] = IF i = ns_counter THEN Server!Entry(query) ELSE table[i]
  BY <1>1, <1>2
<1>7. \A i \in Server!Entries : Named(i)' <=> i = ns_counter \/ Named(i)
  BY <1>1, <1>5, <1>6 DEF Named
<1>8. TableTypes'
  BY <1>1, <1>2, <1>4, <1>5 DEF TableTypes
<1>9. NamedOnce'
  <2> SUFFICES ASSUME NEW i \in Server!Entries, NEW j \in Server!Entries,
                      Named(i)', table'[i].name = table'[j].name
               PROVE  i = j
    BY DEF NamedOnce
  <2>1. CASE i = ns_counter
    BY <1>2, <1>5, <1>6, <2>1
  <2>2. CASE j = ns_counter
    BY <1>2, <1>5, <1>6, <2>2
  <2>3. CASE i # ns_counter /\ j # ns_counter
    <3>1. Named(i) /\ table[i].name = table[j].name
      BY <1>6, <1>7, <2>3
    <3> QED BY <3>1 DEF TableInv, NamedOnce
  <2> QED BY <2>1, <2>2, <2>3
<1>10. CASE \A i \in Server!Entries : Named(i)
  <2>1. \A i \in Server!Entries : Named(i)'
    BY <1>7, <1>10
  <2>2. FilledInOrder'
    BY <2>1 DEF FilledInOrder
  <2>3. Server!IsFull /\ Server!IsFull'
    BY <1>1, <1>4, <1>10, <2>1 DEF Named, Server!IsFull
  <2> QED BY <1>3, <1>8, <1>9, <2>2, <2>3 DEF TableInv
<1>11. CASE \A i \in Server!Entries : Named(i) <=> i < ns_counter
  <2>1. ~ Server!IsFull
    BY <1>1, <1>11 DEF Named, Server!IsFull
  <2>2. CASE ns_counter + 1 < NS_REG_MAX
    <3>1. \A i \in Server!Entries : Named(i)' <=> i < ns_counter'
      BY <1>1, <1>3, <1>7, <1>11, <2>2
    <3>2. FilledInOrder'
      BY <3>1 DEF FilledInOrder
    <3>3. ~ Server!IsFull'
      BY <1>1, <1>4, <3>1 DEF Named, Server!IsFull
    <3> QED BY <1>3, <1>8, <1>9, <2>1, <2>2, <3>2, <3>3 DEF TableInv
  <2>3. CASE ns_counter + 1 = NS_REG_MAX
    <3>1. \A i \in Server!Entries : Named(i)'
      BY <1>1, <1>7, <1>11, <2>3
    <3>2. FilledInOrder'
      BY <3>1 DEF FilledInOrder
    <3>3. Server!IsFull'
      BY <1>4, <3>1 DEF Named, Server!IsFull
    <3> QED BY <1>3, <1>8, <1>9, <2>1, <2>3, <3>2, <3>3 DEF TableInv
  <2> QED BY <1>1, <2>2, <2>3
<1> QED BY <1>10, <1>11 DEF TableInv, FilledInOrder

\* A name that is registered again keeps its entry.
LEMMA AgainKeeps ==
    ASSUME Server!NameServerAssumption, TableInv,
           NEW query \in Query, Server!RegisterAgain(query),
           queries' \in Seq(Query)
    PROVE  /\ TableInv' /\ ns_counter' = ns_counter /\ (Server!IsFull' <=> Server!IsFull)
           /\ \E e \in Server!Entries : Named(e) /\ table[e].name = query.name
           /\ \A e \in Server!Entries : table'[e] = IF table[e].name = query.name THEN Server!Entry(query)
                                             ELSE table[e]
<1> DEFINE f == Server!findTidFor(query.name)
<1>1. /\ ns_counter \in Server!Entries
      /\ table \in [Server!Entries -> [name : Names \union {NoName}, tid : Callers \union {0}]]
      /\ query.name \in Names /\ query.tid \in Callers /\ query.name # NoName
  BY DEF TableInv, TableTypes, Server!NameServerAssumption, Query
<1>2. /\ f \in Server!Entries /\ table[f].name = query.name
      /\ table' = [table EXCEPT ![f].tid = query.tid] /\ ns_counter' = ns_counter
  BY FindIs DEF Server!RegisterAgain
<1> HIDE DEF f
<1>3. table'[f] = Server!Entry(query) /\ \A e \in Server!Entries : e # f => table'[e] = table[e]
  BY <1>1, <1>2 DEF Server!Entry
<1>4. \A e \in Server!Entries : table[e].name = query.name => e = f
  BY <1>1, <1>2 DEF TableInv, NamedOnce, Named
<1>5. \A e \in Server!Entries : table'[e].name = table[e].name
  BY <1>2, <1>3 DEF Server!Entry
<1>6. /\ \A e \in Server!Entries : Named(e)' <=> Named(e)
      /\ Server!IsFull' <=> Server!IsFull
  BY <1>1, <1>2, <1>5 DEF Named, Server!IsFull
<1>7. FilledInOrder' /\ NamedOnce'
  BY <1>2, <1>5, <1>6 DEF TableInv, FilledInOrder, NamedOnce
<1>8. TableTypes'
  BY <1>1, <1>2 DEF TableTypes
<1> QED BY <1>1, <1>2, <1>3, <1>4, <1>6, <1>7, <1>8 DEF TableInv, Named

\* Every step keeps the invariant.
LEMMA TableInvKept ==
    ASSUME Server!NameServerAssumption
    PROVE  /\ Server!Init => TableInv
           /\ TableInv /\ [Server!Next]_(Server!vars) => TableInv'
<1>1. NS_REG_MAX \in Nat \ {0} /\ Server!Entries = 0 .. NS_REG_MAX - 1
  BY DEF Server!NameServerAssumption, Server!Entries
<1>2. ASSUME Server!Init PROVE TableInv
  <2>1. /\ table = [i \in Server!Entries |-> [name |-> NoName, tid |-> 0]]
        /\ ns_counter = 0 /\ queries = << >>
    BY <1>2 DEF Server!Init
  <2>2. \A i \in Server!Entries : ~ Named(i) /\ ~ (i < ns_counter)
    BY <1>1, <2>1 DEF Named
  <2>3. TableTypes
    BY <1>1, <2>1 DEF TableTypes
  <2> QED BY <2>2, <2>3 DEF TableInv, FilledInOrder, NamedOnce
<1>3. ASSUME TableInv, [Server!Next]_(Server!vars) PROVE TableInv'
  <2>1. queries \in Seq(Query)
    BY <1>3 DEF TableInv, TableTypes
  <2>2. ASSUME UNCHANGED <<table, ns_counter>>, queries' \in Seq(Query) PROVE TableInv'
    BY <1>3, <2>2 DEF TableInv, TableTypes, FilledInOrder, NamedOnce, Named
  <2>3. CASE UNCHANGED Server!vars
    BY <2>1, <2>2, <2>3 DEF Server!vars
  <2>4. ASSUME NEW tid \in Callers, NEW type \in {"R", "W"}, NEW name \in Names,
               Server!Send(tid, type, name)
        PROVE  TableInv'
    <3>1. [tid |-> tid, type |-> type, name |-> name] \in Query
      BY DEF Query
    <3>2. queries' \in Seq(Query)
      BY <2>1, <2>4, <3>1 DEF Server!Send
    <3> QED BY <2>2, <2>4, <3>2 DEF Server!Send
  <2>5. CASE Server!nameserver
    <3>1. Head(queries) \in Query /\ queries' \in Seq(Query)
      <4>1. queries # << >> /\ queries' = Tail(queries)
        BY <2>5 DEF Server!nameserver
      <4> QED BY <2>1, <4>1, HeadTail
    <3>2. CASE Server!RegisterAgain(Head(queries))
      BY <1>3, <3>1, <3>2, AgainKeeps
    <3>3. CASE Server!RegisterNew(Head(queries))
      BY <1>3, <3>1, <3>3, NewKeeps
    <3>4. CASE Server!AnswerWhoIs(Head(queries))
      BY <2>2, <3>1, <3>4 DEF Server!AnswerWhoIs
    <3> QED BY <2>5, <3>2, <3>3, <3>4 DEF Server!nameserver
  <2> QED BY <1>3, <2>3, <2>4, <2>5 DEF Server!Next
<1> QED BY <1>2, <1>3

-----------------------------------------------------------------------------
(* The refinement.                                                         *)

\* A name is known if an entry has it.
LEMMA KnownHas ==
    ASSUME Server!NameServerAssumption, TableInv, NEW name \in Names
    PROVE  Server!Book!Has(name) <=> \E e \in Server!Entries : table[e].name = name
<1>1. /\ Len(Server!Known) = Server!Count /\ \A i \in 1 .. Server!Count : Server!Known[i] = table[Server!Place(i)]
      /\ \A i \in 1 .. Server!Count : Server!Place(i) \in Server!Entries
      /\ \A e \in Server!Entries : Named(e) => \E i \in 1 .. Server!Count : Server!Place(i) = e
  BY PlaceIs
<1>2. \A e \in Server!Entries : table[e].name = name => Named(e)
  BY DEF Named, Server!NameServerAssumption
<1> QED BY <1>1, <1>2 DEF Server!Book!Has

\* A lookup answers with what is known.
LEMMA WhoIsRefines ==
    ASSUME Server!NameServerAssumption, TableInv,
           NEW query \in Query, Server!AnswerWhoIs(query)
    PROVE  Server!Book!WhoIs
<1> DEFINE f == Server!findTidFor(query.name)
<1>1. Server!Known' = Server!Known
  BY DEF Server!AnswerWhoIs, Server!Known, Server!Count, Server!Place, Server!IsFull
<1>2. answer' = [to |-> query.tid, result |-> IF f = -1 THEN Server!NotFound ELSE table[f].tid]
  BY DEF Server!AnswerWhoIs, Server!Replies
<1>3. query.name \in Names /\ query.tid \in Callers /\ query.name # NoName /\ ~ (-1 \in Server!Entries)
  BY DEF Server!NameServerAssumption, Server!Entries, Query
<1>4. \/ f = -1 /\ \A i \in Server!Entries : table[i].name # query.name
      \/ f \in Server!Entries /\ table[f].name = query.name
  BY FindIs
<1> HIDE DEF f
<1>5. CASE f = -1 /\ \A i \in Server!Entries : table[i].name # query.name
  <2>1. ~ Server!Book!Has(query.name)
    BY <1>3, <1>5, KnownHas
  <2> QED BY <1>1, <1>2, <1>3, <1>5, <2>1 DEF Server!Book!WhoIs
<1>6. CASE f \in Server!Entries /\ table[f].name = query.name
  <2>1. f # -1 /\ Named(f)
    BY <1>3, <1>6 DEF Named
  <2>2. PICK i \in 1 .. Server!Count : Server!Place(i) = f
    BY <1>6, <2>1, PlaceIs
  <2>3. i \in 1 .. Len(Server!Known) /\ Server!Known[i] = table[f]
    BY <2>2, PlaceIs
  <2>4. Server!Known[i].name = query.name /\ answer' = [to |-> query.tid, result |-> Server!Known[i].tid]
    BY <1>2, <1>6, <2>1, <2>3
  <2> QED BY <1>1, <1>3, <2>3, <2>4 DEF Server!Book!WhoIs
<1> QED BY <1>4, <1>5, <1>6

\* A name that is registered again keeps its place.
LEMMA AgainRefines ==
    ASSUME Server!NameServerAssumption, TableInv,
           NEW query \in Query, Server!RegisterAgain(query),
           queries' \in Seq(Query)
    PROVE  Server!Book!Register
<1>1. query.name \in Names /\ query.tid \in Callers
  BY DEF Query
<1>2. /\ ns_counter' = ns_counter /\ (Server!IsFull' <=> Server!IsFull)
      /\ \E e \in Server!Entries : Named(e) /\ table[e].name = query.name
      /\ \A e \in Server!Entries : table'[e] = IF table[e].name = query.name THEN Server!Entry(query)
                                        ELSE table[e]
  BY AgainKeeps
<1>3. Server!Book!Has(query.name)
  BY <1>1, <1>2, KnownHas
<1>4. /\ Len(Server!Known) = Server!Count /\ \A i \in 1 .. Server!Count : Server!Known[i] = table[Server!Place(i)]
      /\ \A i \in 1 .. Server!Count : Server!Place(i) \in Server!Entries
  BY PlaceIs
<1>5. Server!Count' = Server!Count /\ \A i : Server!Place(i)' = Server!Place(i)
  BY <1>2 DEF Server!Count, Server!Place
<1>6. Server!Known' = [i \in 1 .. Server!Count |-> table'[Server!Place(i)]]
  BY <1>5 DEF Server!Known
<1>7. Server!Known' = [i \in 1 .. Len(Server!Known) |-> IF Server!Known[i].name = query.name
                                          THEN [name |-> query.name, tid |-> query.tid]
                                          ELSE Server!Known[i]]
  BY <1>2, <1>4, <1>6 DEF Server!Entry
<1>8. answer' = [to |-> query.tid, result |-> 0]
  BY DEF Server!RegisterAgain, Server!Replies
<1> QED BY <1>1, <1>3, <1>7, <1>8 DEF Server!Book!Register, Server!Book!Again

\* A new name is the youngest, and takes the place of the oldest if the table
\* is full.
LEMMA NewRefines ==
    ASSUME Server!NameServerAssumption, TableInv,
           NEW query \in Query, Server!RegisterNew(query),
           queries' \in Seq(Query)
    PROVE  Server!Book!Register
<1> DEFINE E == Server!Entry(query)
           R == [name : Names \union {NoName}, tid : Callers \union {0}]
           Kept == IF Len(Server!Known) = NS_REG_MAX THEN Tail(Server!Known) ELSE Server!Known
<1>1. /\ NS_REG_MAX \in Nat \ {0} /\ Server!Entries = 0 .. NS_REG_MAX - 1
      /\ query.name \in Names /\ query.tid \in Callers /\ ns_counter \in Server!Entries
      /\ ns_counter' \in Server!Entries /\ ns_counter \in Nat
      /\ table \in [Server!Entries -> [name : Names \union {NoName}, tid : Callers \union {0}]]
  <2>1. TableInv'
    BY NewKeeps
  <2> QED BY <2>1 DEF Server!NameServerAssumption, Server!Entries, TableInv, TableTypes, Query
<1>2. /\ ns_counter' = IF ns_counter + 1 < NS_REG_MAX THEN ns_counter + 1 ELSE 0
      /\ ~ Server!IsFull /\ ns_counter + 1 < NS_REG_MAX => ~ Server!IsFull'
      /\ Server!IsFull \/ ns_counter + 1 = NS_REG_MAX => Server!IsFull'
  BY NewKeeps
<1>3. \A i \in Server!Entries : table'[i] = IF i = ns_counter THEN E ELSE table[i]
  BY <1>1 DEF Server!RegisterNew
<1>4. ~ Server!Book!Has(query.name)
  <2>1. \A i \in Server!Entries : table[i].name # query.name
    <3>1. Server!findTidFor(query.name) = -1 /\ ~ (-1 \in Server!Entries)
      BY <1>1 DEF Server!RegisterNew
    <3> QED BY <3>1, FindIs
  <2> QED BY <1>1, <2>1, KnownHas
<1>5. answer' = [to |-> query.tid, result |-> 0]
  BY DEF Server!RegisterNew, Server!Replies
<1>6. /\ Len(Server!Known) = Server!Count /\ \A i \in 1 .. Server!Count : Server!Known[i] = table[Server!Place(i)]
      /\ Server!Count \in 0 .. NS_REG_MAX /\ (Server!Count = NS_REG_MAX <=> Server!IsFull)
      /\ \A i \in 1 .. Server!Count : Server!Place(i) \in Server!Entries
  BY PlaceIs
<1>7. E \in R
  BY <1>1 DEF Server!Entry
<1>8. Server!Known \in Seq(R)
  <2>1. \A i \in 1 .. Server!Count : Server!Known[i] \in R
    <3>1. table \in [Server!Entries -> R]
      BY <1>1
    <3> HIDE DEF R
    <3> QED BY <1>6, <3>1
  <2>2. Server!Known = [i \in 1 .. Server!Count |-> Server!Known[i]] /\ Server!Count \in Nat
    BY <1>1, <1>6 DEF Server!Known
  <2> HIDE DEF R
  <2> QED BY <2>1, <2>2, FunIsSeq
<1> HIDE DEF E, R
<1>9. Server!Known' = Append(Kept, E)
  <2>1. CASE Server!IsFull
    <3>1. /\ Server!Count = NS_REG_MAX /\ Server!Count' = NS_REG_MAX
          /\ \A i : Server!Place(i) = (ns_counter + (i - 1)) % NS_REG_MAX
          /\ \A i : Server!Place(i)' = (ns_counter' + (i - 1)) % NS_REG_MAX
      BY <1>2, <2>1 DEF Server!Count, Server!Place
    <3>2. Server!Known' = [i \in 1 .. NS_REG_MAX |-> table'[Server!Place(i)']]
      BY <3>1 DEF Server!Known
    <3>3. ASSUME NEW i \in 1 .. NS_REG_MAX - 1
          PROVE  Server!Place(i)' \in Server!Entries /\ Server!Place(i)' = Server!Place(i + 1) /\ Server!Place(i)' # ns_counter
      <4>1. i - 1 \in 0 .. NS_REG_MAX /\ i \in 0 .. NS_REG_MAX /\ (i + 1) - 1 = i
        BY <1>1
      <4>2. /\ (ns_counter' + (i - 1)) % NS_REG_MAX =
                 IF ns_counter' + (i - 1) < NS_REG_MAX THEN ns_counter' + (i - 1)
                 ELSE ns_counter' + (i - 1) - NS_REG_MAX
            /\ (ns_counter + i) % NS_REG_MAX =
                 IF ns_counter + i < NS_REG_MAX THEN ns_counter + i
                 ELSE ns_counter + i - NS_REG_MAX
        BY <1>1, <4>1, Wraps
      <4>3. /\ Server!Place(i)' = IF ns_counter' + (i - 1) < NS_REG_MAX THEN ns_counter' + (i - 1)
                           ELSE ns_counter' + (i - 1) - NS_REG_MAX
            /\ Server!Place(i + 1) = IF ns_counter + i < NS_REG_MAX THEN ns_counter + i
                              ELSE ns_counter + i - NS_REG_MAX
        BY <3>1, <4>1, <4>2
      <4>4. CASE ns_counter + 1 < NS_REG_MAX
        <5>1. ns_counter' + (i - 1) = ns_counter + i
          BY <1>1, <1>2, <4>4
        <5>2. CASE ns_counter + i < NS_REG_MAX
          <6>1. ns_counter' + (i - 1) < NS_REG_MAX
            BY <5>1, <5>2
          <6>2. Server!Place(i + 1) = ns_counter + i /\ Server!Place(i)' = ns_counter' + (i - 1)
            BY <4>3, <5>2, <6>1
          <6>3. Server!Place(i)' = Server!Place(i + 1)
            BY <5>1, <6>2
          <6>4. ns_counter + i \in 0 .. NS_REG_MAX - 1 /\ ns_counter + i # ns_counter
            BY <1>1, <4>1, <5>2
          <6> QED BY <1>1, <6>2, <6>3, <6>4
        <5>3. CASE ~ (ns_counter + i < NS_REG_MAX)
          <6>1. ~ (ns_counter' + (i - 1) < NS_REG_MAX)
            BY <5>1, <5>3
          <6>2. /\ Server!Place(i + 1) = ns_counter + i - NS_REG_MAX
                /\ Server!Place(i)' = ns_counter' + (i - 1) - NS_REG_MAX
            BY <4>3, <5>3, <6>1
          <6>3. ns_counter' + (i - 1) - NS_REG_MAX = ns_counter + i - NS_REG_MAX
            <7>1. NS_REG_MAX \in Int /\ ns_counter \in Int /\ ns_counter' \in Int /\ i \in Int
              BY <1>1
            <7>2. ns_counter' = ns_counter + 1
              BY <1>2, <4>4
            <7> QED BY <7>1, <7>2
          <6>4. /\ ns_counter + i - NS_REG_MAX \in 0 .. NS_REG_MAX - 1
                /\ ns_counter + i - NS_REG_MAX # ns_counter
            BY <1>1, <4>1, <5>3
          <6> QED BY <1>1, <6>2, <6>3, <6>4
        <5> QED BY <5>2, <5>3
      <4>5. CASE ns_counter + 1 = NS_REG_MAX
        <5>1. ns_counter' = 0 /\ ns_counter' + (i - 1) = i - 1 /\ ns_counter + i - NS_REG_MAX = i - 1
          BY <1>1, <1>2, <4>5
        <5> QED BY <1>1, <4>3, <4>5, <5>1
      <4> QED BY <1>1, <4>4, <4>5
    <3>4. Server!Place(NS_REG_MAX)' = ns_counter
      <4>1. NS_REG_MAX - 1 \in 0 .. NS_REG_MAX
        BY <1>1
      <4>2. (ns_counter' + (NS_REG_MAX - 1)) % NS_REG_MAX =
               IF ns_counter' + (NS_REG_MAX - 1) < NS_REG_MAX THEN ns_counter' + (NS_REG_MAX - 1)
               ELSE ns_counter' + (NS_REG_MAX - 1) - NS_REG_MAX
        BY <1>1, <4>1, Wraps
      <4>3. CASE ns_counter + 1 < NS_REG_MAX
        <5>1. /\ ns_counter' + (NS_REG_MAX - 1) = ns_counter + NS_REG_MAX
              /\ ~ (ns_counter + NS_REG_MAX < NS_REG_MAX)
              /\ ns_counter + NS_REG_MAX - NS_REG_MAX = ns_counter
          BY <1>1, <1>2, <4>3
        <5>2. ~ (ns_counter' + (NS_REG_MAX - 1) < NS_REG_MAX)
          BY <5>1
        <5>3. (ns_counter' + (NS_REG_MAX - 1)) % NS_REG_MAX =
                ns_counter' + (NS_REG_MAX - 1) - NS_REG_MAX
          BY <4>2, <5>2
        <5>4. ns_counter' + (NS_REG_MAX - 1) - NS_REG_MAX = ns_counter
          <6>1. NS_REG_MAX \in Int /\ ns_counter \in Int /\ ns_counter' \in Int
            BY <1>1
          <6>2. ns_counter' = ns_counter + 1
            BY <1>2, <4>3
          <6> QED BY <6>1, <6>2
        <5> QED BY <3>1, <5>3, <5>4
      <4>4. CASE ns_counter + 1 = NS_REG_MAX
        BY <1>1, <1>2, <3>1, <4>2, <4>4
      <4> QED BY <1>1, <4>3, <4>4
    <3>5. Kept = Tail(Server!Known) /\ Len(Tail(Server!Known)) = NS_REG_MAX - 1 /\ Server!Known # << >>
          /\ Tail(Server!Known) \in Seq(R)
      <4>1. Len(Server!Known) = NS_REG_MAX
        BY <1>6, <3>1
      <4>2. Server!Known # << >>
        BY <1>1, <4>1
      <4> QED BY <1>8, <4>1, <4>2, HeadTail
    <3>6. ASSUME NEW i \in 1 .. NS_REG_MAX - 1
          PROVE  table'[Server!Place(i)'] = Tail(Server!Known)[i]
      <4>1. i + 1 \in 1 .. Server!Count /\ Tail(Server!Known)[i] = Server!Known[i + 1]
        BY <1>1, <1>6, <1>8, <3>1, <3>5, HeadTail
      <4> QED BY <1>3, <1>6, <3>3, <4>1
    <3>7. table'[Server!Place(NS_REG_MAX)'] = E
      BY <1>1, <1>3, <3>4
    <3>8. \A i \in 1 .. NS_REG_MAX : Server!Known'[i] = IF i = NS_REG_MAX THEN E ELSE Tail(Server!Known)[i]
      <4> SUFFICES ASSUME NEW i \in 1 .. NS_REG_MAX
                   PROVE  Server!Known'[i] = IF i = NS_REG_MAX THEN E ELSE Tail(Server!Known)[i]
        OBVIOUS
      <4>1. Server!Known'[i] = table'[Server!Place(i)']
        BY <3>2
      <4>2. i = NS_REG_MAX \/ i \in 1 .. NS_REG_MAX - 1
        BY <1>1
      <4> QED BY <3>6, <3>7, <4>1, <4>2
    <3>9. Server!Known' = [i \in 1 .. NS_REG_MAX |-> Server!Known'[i]]
      BY <3>2
    <3>10. NS_REG_MAX = Len(Tail(Server!Known)) + 1 /\ NS_REG_MAX \in Nat
      BY <1>1, <3>5
    <3>11. Server!Known' = Append(Tail(Server!Known), E)
      BY <1>7, <3>5, <3>8, <3>9, <3>10, AppendIs
    <3> QED BY <3>5, <3>11
  <2>2. CASE ~ Server!IsFull
    <3>1. /\ Server!Count = ns_counter /\ Kept = Server!Known /\ \A i : Server!Place(i) = i - 1
      BY <1>6, <2>2 DEF Server!Count, Server!Place
    <3>2. Server!Count' = ns_counter + 1 /\ \A i \in 1 .. ns_counter + 1 : Server!Place(i)' = i - 1
      <4>1. CASE ns_counter + 1 < NS_REG_MAX
        BY <1>1, <1>2, <2>2, <4>1 DEF Server!Count, Server!Place
      <4>2. CASE ns_counter + 1 = NS_REG_MAX
        <5>1. /\ ns_counter' = 0 /\ Server!Count' = NS_REG_MAX
              /\ \A i : Server!Place(i)' = (ns_counter' + (i - 1)) % NS_REG_MAX
          BY <1>1, <1>2, <4>2 DEF Server!Count, Server!Place
        <5>2. ASSUME NEW i \in 1 .. NS_REG_MAX PROVE Server!Place(i)' = i - 1
          <6>1. i - 1 \in 0 .. NS_REG_MAX /\ i - 1 < NS_REG_MAX /\ 0 + (i - 1) = i - 1
            BY <1>1
          <6>2. (ns_counter' + (i - 1)) % NS_REG_MAX =
                  IF ns_counter' + (i - 1) < NS_REG_MAX THEN ns_counter' + (i - 1)
                  ELSE ns_counter' + (i - 1) - NS_REG_MAX
            BY <1>1, <6>1, Wraps
          <6> QED BY <5>1, <6>1, <6>2
        <5> QED BY <4>2, <5>1, <5>2
      <4> QED BY <1>1, <4>1, <4>2
    <3>3. Server!Known' = [i \in 1 .. ns_counter + 1 |-> table'[i - 1]]
      BY <1>1, <3>2 DEF Server!Known
    <3>4. ASSUME NEW i \in 1 .. ns_counter PROVE table'[i - 1] = Server!Known[i]
      <4>1. i - 1 \in Server!Entries /\ i - 1 # ns_counter /\ Server!Known[i] = table[i - 1]
        BY <1>1, <1>6, <3>1
      <4> QED BY <1>3, <4>1
    <3>5. table'[(ns_counter + 1) - 1] = E
      BY <1>1, <1>3
    <3>6. \A i \in 1 .. ns_counter + 1 : Server!Known'[i] = IF i = ns_counter + 1 THEN E ELSE Server!Known[i]
      <4> SUFFICES ASSUME NEW i \in 1 .. ns_counter + 1
                   PROVE  Server!Known'[i] = IF i = ns_counter + 1 THEN E ELSE Server!Known[i]
        OBVIOUS
      <4>1. Server!Known'[i] = table'[i - 1]
        BY <3>3
      <4>2. i = ns_counter + 1 \/ i \in 1 .. ns_counter
        BY <1>1
      <4>3. i \in 1 .. ns_counter => i # ns_counter + 1
        BY <1>1
      <4> QED BY <3>4, <3>5, <4>1, <4>2, <4>3
    <3>7. Server!Known' = [i \in 1 .. ns_counter + 1 |-> Server!Known'[i]]
      BY <3>3
    <3>8. ns_counter + 1 = Len(Server!Known) + 1 /\ ns_counter + 1 \in Nat
      BY <1>1, <1>6, <3>1
    <3>9. Server!Known' = Append(Server!Known, E)
      BY <1>7, <1>8, <3>6, <3>7, <3>8, AppendIs
    <3> QED BY <3>1, <3>9
  <2> QED BY <2>1, <2>2
<1>10. Server!Book!New(query.name, query.tid)
  BY <1>4, <1>9 DEF Server!Book!New, Server!Entry, E
<1> QED BY <1>1, <1>5, <1>10 DEF Server!Book!Register

\* Each query that is answered is a step of Registry.
LEMMA TableSteps ==
    ASSUME Server!NameServerAssumption PROVE Server!Spec => Server!NamesAreKnown
<1>1. ASSUME Server!Init PROVE Server!Book!Init
  <2>1. TableInv /\ ~ Server!IsFull /\ Server!Count = 0
    BY <1>1, TableInvKept DEF Server!Init, Server!IsFull, Server!Count, Server!Entries, Server!NameServerAssumption
  <2>2. Server!Known = << >>
    BY <2>1 DEF Server!Known
  <2> QED BY <2>2 DEF Server!Book!Init
<1>2. ASSUME TableInv, [Server!Next]_(Server!vars) PROVE [Server!Book!Next]_<<Server!Known, answer>>
  <2>1. ASSUME UNCHANGED <<table, ns_counter, answer>> PROVE UNCHANGED <<Server!Known, answer>>
    BY <2>1 DEF Server!Known, Server!Count, Server!Place, Server!IsFull
  <2>2. CASE UNCHANGED Server!vars
    BY <2>1, <2>2 DEF Server!vars
  <2>3. ASSUME NEW tid \in Callers, NEW type \in {"R", "W"}, NEW name \in Names,
               Server!Send(tid, type, name)
        PROVE  UNCHANGED <<Server!Known, answer>>
    BY <2>1, <2>3 DEF Server!Send
  <2>4. CASE Server!nameserver
    <3>1. /\ Head(queries) \in Query
          /\ queries' \in Seq(Query)
      <4>1. queries \in Seq(Query) /\ queries # << >> /\ queries' = Tail(queries)
        BY <1>2, <2>4 DEF Server!nameserver, TableInv, TableTypes
      <4>2. Head(queries) \in Query /\ queries' \in Seq(Query)
        BY <4>1, HeadTail
      <4> QED BY <4>2
    <3>2. CASE Server!RegisterAgain(Head(queries))
      BY <1>2, <3>1, <3>2, AgainRefines DEF Server!Book!Next
    <3>3. CASE Server!RegisterNew(Head(queries))
      BY <1>2, <3>1, <3>3, NewRefines DEF Server!Book!Next
    <3>4. CASE Server!AnswerWhoIs(Head(queries))
      BY <1>2, <3>1, <3>4, WhoIsRefines DEF Server!Book!Next
    <3> QED BY <2>4, <3>2, <3>3, <3>4 DEF Server!nameserver
  <2> QED BY <1>2, <2>2, <2>3, <2>4 DEF Server!Next
<1>3. Server!Spec => []TableInv
  BY TableInvKept, PTL DEF Server!Spec
<1> QED BY <1>1, <1>2, <1>3, PTL DEF Server!Spec, Server!NamesAreKnown

-----------------------------------------------------------------------------
(* The parts together: each one takes its own steps.                       *)

\* The circular buffer of buffer.c is a queue: what is pushed is popped once,
\* in the order it was pushed, whatever the buffer's size and whatever the
\* array held before.
THEOREM BufferRefinesFifo == Spec => BufferIsFifo
<1>1. Buffer!BufferAssumption
  BY PartsAssumption
<1>2. Init => Buffer!Init
  BY DEF Init
<1>3. [Next]_vars => [Buffer!Next]_(Buffer!vars)
  BY DEF Next, vars, buffer_vars, Buffer!vars
<1> QED BY <1>1, <1>2, <1>3, BufferSteps, PTL DEF Spec, Buffer!Spec, BufferIsFifo

\* The name server of nameserver.c keeps what a bounded registry promises:
\* the table whose counter wraps knows the last NS_REG_MAX names that were
\* registered, a name has one entry, and a lookup answers with the task that
\* registered the name last (nameserver.c:60-95).
THEOREM NameServerRefinesRegistry == Spec => NamesAreKnown
<1>1. Server!NameServerAssumption
  BY PartsAssumption
<1>2. Init => Server!Init
  BY DEF Init
<1>3. [Next]_vars => [Server!Next]_(Server!vars)
  BY DEF Next, vars, names_vars, Server!vars
<1> QED BY <1>1, <1>2, <1>3, TableSteps, PTL DEF Spec, Server!Spec, NamesAreKnown

-----------------------------------------------------------------------------
(* The sensors: which byte an answer is of.                                *)

\* The queries for byte k and those behind it.
From(k) == [i \in 1 .. SENSOR_BYTES_TOTAL - k |-> k + i - 1]

\* What the decoders still have to answer in this round when they have
\* answered k bytes: the notifier's only AUTO_RESET may be among it, at its
\* end, or in front when it was asked for at the end of the round before.
IsAsked(k) ==
    \/ asked = From(k)
    \/ asked = From(k) \o <<-1>>
    \/ k = 0 /\ asked = <<-1>> \o From(0)

\* How many bytes of this round the decoders have answered.
Answered == sensor_next + Len(com1)

SensorTypes ==
    /\ latch \in [Sensor!Bytes -> BOOLEAN] /\ auto_reset \in BOOLEAN
    /\ com1 \in Seq(BOOLEAN)
    /\ pc \in {"start", "filter", "get", "send"}
    /\ sensor_next \in Sensor!Bytes
    /\ msg_data \in [Sensor!Bytes -> BOOLEAN] /\ sensor_data \in [Sensor!Bytes -> BOOLEAN]
    /\ passed \in [Sensor!Bytes -> BOOLEAN]

\* Queries, answers and the notifier's index agree.
InStep ==
    /\ Answered <= SENSOR_BYTES_TOTAL
    /\ pc = "start" => asked = << >> /\ com1 = << >> /\ sensor_next = 0
    /\ pc = "filter" => sensor_next = 0 /\ asked = From(Answered)
    /\ pc = "get" => IsAsked(Answered)
    /\ pc = "send" => com1 = << >> /\ sensor_next = 0 /\ asked \in {<< >>, <<-1>>}

\* Nothing is saved or sent before the filter has ended.
NothingYet ==
    pc \in {"start", "filter"} => \A b \in Sensor!Bytes : ~ msg_data[b] /\ ~ sensor_data[b]

\* What is latched, on its way, or saved has been passed, and not released since.
AllPassed ==
    /\ \A b \in Sensor!Bytes : latch[b] \/ msg_data[b] \/ sensor_data[b] => passed[b]
    /\ \A i \in 1 .. Len(com1) : com1[i] => passed[sensor_next + i - 1]

\* A sensor of which the center knows, that is not shown any more, is not
\* latched again: a train cannot come back before it has been reported.
NotBack ==
    /\ pc = "get" =>
          /\ \A b \in Sensor!Bytes :
                b < sensor_next /\ sensor_data[b] /\ ~ msg_data[b] => ~ latch[b]
          /\ \A i \in 1 .. Len(com1) :
                sensor_data[sensor_next + i - 1] /\ ~ com1[i] => ~ latch[sensor_next + i - 1]
    /\ pc = "send" =>
          \A b \in Sensor!Bytes : sensor_data[b] /\ ~ msg_data[b] => ~ latch[b]

SensorInv == SensorTypes /\ InStep /\ NothingYet /\ AllPassed /\ NotBack

\* The head and the tail of what has been asked.
LEMMA FromFacts ==
  ASSUME Sensor!SensorAssumption
  PROVE  /\ Sensor!query = From(0) /\ From(SENSOR_BYTES_TOTAL) = << >>
         /\ \A k \in 0 .. SENSOR_BYTES_TOTAL : From(k) \in Seq(Int)
         /\ \A k \in 0 .. SENSOR_BYTES_TOTAL - 1 :
               /\ From(k) # << >> /\ Head(From(k)) = k /\ Tail(From(k)) = From(k + 1)
<1> DEFINE N == SENSOR_BYTES_TOTAL
<1>1. N \in Nat \ {0, 1}
  BY DEF Sensor!SensorAssumption
<1> HIDE DEF N
<1>2. ASSUME NEW k \in 0 .. N
      PROVE  /\ From(k) \in Seq(Int) /\ Len(From(k)) = N - k
             /\ \A i \in 1 .. N - k : From(k)[i] = k + i - 1
  <2>1. N - k \in Nat /\ From(k) = [i \in 1 .. N - k |-> k + i - 1]
    BY <1>1 DEF From, N
  <2> QED BY <2>1
<1>3. ASSUME NEW k \in 0 .. N - 1
      PROVE  From(k) # << >> /\ Head(From(k)) = k /\ Tail(From(k)) = From(k + 1)
  <2>1. k \in 0 .. N /\ k + 1 \in 0 .. N /\ N - k >= 1 /\ k \in Int
    BY <1>1
  <2>2. /\ From(k) \in Seq(Int) /\ Len(From(k)) = N - k
        /\ \A i \in 1 .. N - k : From(k)[i] = k + i - 1
    BY <1>2, <2>1
  <2>3. /\ From(k + 1) \in Seq(Int) /\ Len(From(k + 1)) = N - (k + 1)
        /\ \A i \in 1 .. N - (k + 1) : From(k + 1)[i] = k + 1 + i - 1
    BY <1>2, <2>1
  <2> DEFINE f == From(k)
             g == From(k + 1)
  <2> HIDE DEF f, g
  <2>4. f # << >> /\ Head(f) = k
    <3>1. Len(f) >= 1 /\ 1 \in 1 .. N - k /\ f \in Seq(Int)
      BY <1>1, <2>1, <2>2 DEF f
    <3>2. f[1] = k + 1 - 1
      BY <2>2, <3>1 DEF f
    <3> QED BY <2>1, <3>1, <3>2
  <2>5. Tail(f) \in Seq(Int) /\ Len(Tail(f)) = N - (k + 1) /\ \A i \in 1 .. N - (k + 1) : Tail(f)[i] = f[i + 1]
    BY <1>1, <2>1, <2>2, <2>4 DEF f
  <2>6. ASSUME NEW i \in 1 .. N - (k + 1) PROVE Tail(f)[i] = g[i]
    <3>1. i + 1 \in 1 .. N - k
      BY <1>1, <2>1
    <3>2. f[i + 1] = k + (i + 1) - 1 /\ g[i] = k + 1 + i - 1
      BY <2>2, <2>3, <3>1 DEF f, g
    <3> QED BY <2>1, <2>5, <3>2
  <2>7. Tail(f) = g
    <3>1. g \in Seq(Int) /\ Len(g) = N - (k + 1)
      BY <2>3 DEF g
    <3> QED BY <2>5, <2>6, <3>1, SeqEqual
  <2> QED BY <2>4, <2>7 DEF f, g
<1>4. Sensor!query = From(0)
  <2>1. From(0) = [i \in 1 .. N - 0 |-> 0 + i - 1]
    BY DEF From, N
  <2>2. N - 0 = N /\ \A i \in 1 .. N : 0 + i - 1 = i - 1
    BY <1>1
  <2>3. Sensor!query = [i \in 1 .. N |-> i - 1]
    BY DEF Sensor!query, N
  <2> QED BY <2>1, <2>2, <2>3
<1>5. From(N) = << >>
  <2>1. N \in 0 .. N /\ N - N = 0
    BY <1>1
  <2>2. From(N) \in Seq(Int) /\ Len(From(N)) = 0
    BY <1>2, <2>1
  <2> QED BY <2>2
<1> QED BY <1>2, <1>3, <1>4, <1>5 DEF N

\* The next answer, whether the AUTO_RESET is in front, behind or not there.
LEMMA AskedNext ==
  ASSUME Sensor!SensorAssumption, NEW k \in 0 .. SENSOR_BYTES_TOTAL, IsAsked(k), asked # << >>
  PROVE  \/ Head(asked) = -1 /\ Tail(asked) = From(k)
         \/ /\ k < SENSOR_BYTES_TOTAL /\ Head(asked) = k
            /\ Tail(asked) \in {From(k + 1), From(k + 1) \o <<-1>>}
<1> DEFINE N == SENSOR_BYTES_TOTAL
           f == From(k)
           r == <<-1>>
<1>1. N \in Nat \ {0, 1} /\ k \in 0 .. N /\ f \in Seq(Int) /\ r \in Seq(Int) /\ r # << >>
      /\ Head(r) = -1 /\ Tail(r) = << >> /\ From(0) \in Seq(Int)
  BY FromFacts DEF Sensor!SensorAssumption
<1>2. k # N => k < N /\ f # << >> /\ Head(f) = k /\ Tail(f) = From(k + 1)
  <2>1. k # N => k \in 0 .. N - 1 /\ k < N
    BY <1>1
  <2> QED BY <2>1, FromFacts
<1>3. k = N => f = << >>
  BY FromFacts
<1> HIDE DEF f, r, N
<1>4. CASE asked = f
  BY <1>2, <1>3, <1>4 DEF N
<1>5. CASE asked = f \o r
  <2>1. CASE k = N
    <3>1. asked = r
      BY <1>1, <1>3, <1>5, <2>1
    <3> QED BY <1>1, <1>3, <2>1, <3>1 DEF f
  <2>2. CASE k # N
    <3>1. Head(Join(f, r)) = Head(f) /\ Tail(Join(f, r)) = Join(Tail(f), r)
      BY <1>1, <1>2, <2>2, JoinHead
    <3> QED BY <1>2, <1>5, <2>2, <3>1 DEF Join, r, N
  <2> QED BY <2>1, <2>2
<1>6. CASE k = 0 /\ asked = r \o From(0)
  <2>1. Head(Join(r, From(0))) = Head(r) /\ Tail(Join(r, From(0))) = Join(Tail(r), From(0))
    BY <1>1, JoinHead
  <2>2. Join(<< >>, From(0)) = From(0)
    BY <1>1, JoinFacts
  <2> QED BY <1>1, <1>6, <2>1, <2>2 DEF Join, f
<1> QED BY <1>4, <1>5, <1>6 DEF IsAsked, f, r

\* The index that follows another.
LEMMA NextByte ==
  ASSUME Sensor!SensorAssumption, NEW b \in Sensor!Bytes
  PROVE  /\ SENSOR_BYTES_TOTAL \in Nat \ {0, 1} /\ Sensor!Bytes = 0 .. SENSOR_BYTES_TOTAL - 1
         /\ Sensor!Incremented(b) = IF b + 1 < SENSOR_BYTES_TOTAL THEN b + 1 ELSE 0
<1>1. /\ SENSOR_BYTES_TOTAL \in Nat \ {0} /\ 1 \in 0 .. SENSOR_BYTES_TOTAL
      /\ b \in 0 .. SENSOR_BYTES_TOTAL - 1
  BY DEF Sensor!SensorAssumption, Sensor!Bytes
<1>2. (b + 1) % SENSOR_BYTES_TOTAL =
         IF b + 1 < SENSOR_BYTES_TOTAL THEN b + 1 ELSE b + 1 - SENSOR_BYTES_TOTAL
  BY <1>1, IndexWraps
<1> QED BY <1>1, <1>2 DEF Sensor!SensorAssumption, Sensor!Bytes, Sensor!Incremented

LEMMA SensorStarts ==
  ASSUME Sensor!SensorAssumption, Init
  PROVE  SensorInv
<1>1. 0 \in Sensor!Bytes
  BY DEF Sensor!SensorAssumption, Sensor!Bytes
<1>2. << >> \in Seq(BOOLEAN) /\ Len(<< >>) = 0
  OBVIOUS
<1>3. SensorTypes
  BY <1>1, <1>2 DEF Init, Sensor!Init, SensorTypes, Sensor!Nothing
<1> QED BY <1>2, <1>3 DEF Init, Sensor!Init, SensorInv, InStep, NothingYet, AllPassed, NotBack,
                          Answered, Sensor!Nothing, Sensor!SensorAssumption

\* A train on a sensor: it has not passed it since it was released, so that
\* the center does not know of it.
LEMMA TriggerKeeps ==
  ASSUME Sensor!SensorAssumption, SensorInv, NEW b \in Sensor!Bytes, Sensor!Trigger(b)
  PROVE  SensorInv'
<1>1. /\ latch' = [latch EXCEPT ![b] = TRUE] /\ passed' = [passed EXCEPT ![b] = TRUE] /\ ~ passed[b]
      /\ UNCHANGED <<auto_reset, asked, com1, pc, sensor_next, msg_data, sensor_data>>
  BY DEF Sensor!Trigger, Sensor!notifier
<1>2. /\ \A x \in Sensor!Bytes : latch'[x] = (x = b \/ latch[x])
      /\ \A x \in Sensor!Bytes : passed'[x] = (x = b \/ passed[x])
      /\ ~ sensor_data[b]
  BY <1>1 DEF SensorInv, SensorTypes, AllPassed
<1>3. SensorTypes'
  BY <1>1 DEF SensorInv, SensorTypes
<1>4. \A i \in 1 .. Len(com1) : sensor_next + i - 1 \in Sensor!Bytes
  BY DEF SensorInv, SensorTypes, InStep, Answered, Sensor!Bytes, Sensor!SensorAssumption
<1>5. InStep' /\ NothingYet'
  BY <1>1 DEF SensorInv, InStep, NothingYet, Answered, IsAsked
<1>6. AllPassed'
  BY <1>1, <1>2, <1>4 DEF SensorInv, AllPassed
<1>7. NotBack'
  BY <1>1, <1>2, <1>4 DEF SensorInv, NotBack
<1> QED BY <1>3, <1>5, <1>6, <1>7 DEF SensorInv

\* An answer is of the byte that is Answered, which comes after all before it.
LEMMA AnswerKeeps ==
  ASSUME Sensor!SensorAssumption, SensorInv, Sensor!DecodersAnswer
  PROVE  SensorInv'
<1> DEFINE N == SENSOR_BYTES_TOTAL
<1>1. /\ asked # << >> /\ asked' = Tail(asked)
      /\ UNCHANGED <<pc, sensor_next, data_changed, msg_data, sensor_data, passed>>
      /\ N \in Nat \ {0, 1} /\ Sensor!Bytes = 0 .. N - 1
  BY DEF Sensor!DecodersAnswer, Sensor!notifier, Sensor!SensorAssumption, Sensor!Bytes
<1>2. Answered \in 0 .. N /\ sensor_next \in 0 .. N - 1 /\ com1 \in Seq(BOOLEAN) /\ Len(com1) \in Nat
      /\ Answered = sensor_next + Len(com1)
  BY <1>1 DEF SensorInv, SensorTypes, InStep, Answered
<1>3. CASE Head(asked) = -1
  <2>1. UNCHANGED <<latch, com1>> /\ auto_reset' = TRUE
    BY <1>3 DEF Sensor!DecodersAnswer, Sensor!AUTO_RESET
  <2>2. SensorTypes' /\ NothingYet' /\ AllPassed' /\ NotBack'
    BY <1>1, <2>1 DEF SensorInv, SensorTypes, NothingYet, AllPassed, NotBack
  <2>3. Answered' = Answered
    BY <1>1, <2>1 DEF Answered
  <2>4. pc # "filter"
    <3>1. SUFFICES ASSUME pc = "filter" PROVE FALSE
      OBVIOUS
    <3>2. asked = From(Answered)
      BY <3>1 DEF SensorInv, InStep
    <3>3. CASE Answered = N
      BY <1>1, <3>2, <3>3, FromFacts
    <3>4. CASE Answered # N
      <4>1. Answered \in 0 .. N - 1
        BY <1>1, <1>2, <3>4
      <4>2. Head(From(Answered)) = Answered
        BY <4>1, FromFacts
      <4> QED BY <1>3, <3>2, <4>1, <4>2
    <3> QED BY <3>3, <3>4
  <2>5. pc = "get" => asked' = From(Answered)
    <3>1. SUFFICES ASSUME pc = "get" PROVE asked' = From(Answered)
      OBVIOUS
    <3>2. IsAsked(Answered)
      BY <3>1 DEF SensorInv, InStep
    <3> QED BY <1>1, <1>2, <1>3, <3>2, AskedNext
  <2>6. pc = "send" => asked' = << >>
    BY <1>1 DEF SensorInv, InStep
  <2>7. InStep'
    BY <1>1, <2>1, <2>3, <2>4, <2>5, <2>6 DEF SensorInv, InStep, IsAsked
  <2> QED BY <2>2, <2>7 DEF SensorInv
<1>4. CASE Head(asked) # -1
  <2> DEFINE k == Answered
             b == Head(asked)
  <2>1. com1' = Append(com1, latch[b]) /\ latch' = [latch EXCEPT ![b] = @ /\ ~ auto_reset]
        /\ UNCHANGED auto_reset
    BY <1>4 DEF Sensor!DecodersAnswer, Sensor!AUTO_RESET
  <2>2. pc \in {"filter", "get"}
    BY <1>1, <1>4 DEF SensorInv, SensorTypes, InStep
  <2>3. pc = "get" => k < N /\ b = k /\ asked' \in {From(k + 1), From(k + 1) \o <<-1>>}
    <3>1. SUFFICES ASSUME pc = "get"
                   PROVE  k < N /\ b = k /\ asked' \in {From(k + 1), From(k + 1) \o <<-1>>}
      OBVIOUS
    <3>2. IsAsked(k)
      BY <3>1 DEF SensorInv, InStep
    <3> QED BY <1>1, <1>2, <1>4, <3>2, AskedNext
  <2>4. pc = "filter" => k < N /\ b = k /\ asked' = From(k + 1)
    <3>1. SUFFICES ASSUME pc = "filter" PROVE k < N /\ b = k /\ asked' = From(k + 1)
      OBVIOUS
    <3>2. asked = From(k)
      BY <3>1 DEF SensorInv, InStep
    <3>3. k # N
      BY <1>1, <3>2, FromFacts
    <3>4. k \in 0 .. N - 1
      BY <1>1, <1>2, <3>3
    <3>5. Head(From(k)) = k /\ Tail(From(k)) = From(k + 1)
      BY <3>4, FromFacts
    <3> QED BY <1>1, <3>2, <3>4, <3>5
  <2>5. k < N /\ b = k /\ b \in Sensor!Bytes
    BY <1>1, <1>2, <2>2, <2>3, <2>4
  <2> HIDE DEF b, k
  <2>6. /\ latch \in [Sensor!Bytes -> BOOLEAN] /\ latch[b] \in BOOLEAN
        /\ latch' \in [Sensor!Bytes -> BOOLEAN]
        /\ \A x \in Sensor!Bytes : latch'[x] => latch[x]
        /\ ~ latch[b] => ~ latch'[b]
    <3>1. latch \in [Sensor!Bytes -> BOOLEAN] /\ auto_reset \in BOOLEAN
      BY DEF SensorInv, SensorTypes
    <3> QED BY <2>1, <2>5, <3>1
  <2>7. /\ com1' \in Seq(BOOLEAN) /\ Len(com1') = Len(com1) + 1
        /\ com1'[Len(com1) + 1] = latch[b]
        /\ \A i \in 1 .. Len(com1) : com1'[i] = com1[i]
    BY <1>2, <2>1, <2>6
  <2>8. Answered' = k + 1 /\ sensor_next + (Len(com1) + 1) - 1 = b
    <3>1. Answered' = sensor_next + (Len(com1) + 1)
      BY <1>1, <2>7 DEF Answered
    <3> QED BY <1>2, <2>5, <3>1 DEF k
  <2>9. SensorTypes'
    BY <1>1, <2>1, <2>6, <2>7 DEF SensorInv, SensorTypes
  <2>10. InStep'
    <3>1. Answered' <= SENSOR_BYTES_TOTAL
      BY <1>1, <1>2, <2>5, <2>8 DEF k
    <3>2. pc' = "filter" => sensor_next' = 0 /\ asked' = From(Answered')
      BY <1>1, <2>4, <2>8 DEF SensorInv, InStep
    <3>3. pc' = "get" => asked' \in {From(Answered'), From(Answered') \o <<-1>>}
      BY <1>1, <2>3, <2>8
    <3>4. pc' = "get" => IsAsked(Answered)'
      BY <3>3 DEF IsAsked, From
    <3> QED BY <1>1, <2>2, <3>1, <3>2, <3>4 DEF InStep
  <2>11. NothingYet'
    BY <1>1 DEF SensorInv, NothingYet
  <2>12. \A i \in 1 .. Len(com1') : i = Len(com1) + 1 \/ i \in 1 .. Len(com1)
    BY <1>2, <2>7
  <2>13. AllPassed'
    <3>1. \A x \in Sensor!Bytes : latch[x] \/ msg_data[x] \/ sensor_data[x] => passed[x]
      BY DEF SensorInv, AllPassed
    <3>2. \A x \in Sensor!Bytes : latch'[x] \/ msg_data'[x] \/ sensor_data'[x] => passed'[x]
      BY <1>1, <2>6, <3>1
    <3>3. ASSUME NEW i \in 1 .. Len(com1'), com1'[i] PROVE passed'[sensor_next' + i - 1]
      <4>1. CASE i = Len(com1) + 1
        BY <1>1, <2>5, <2>7, <2>8, <3>1, <3>3, <4>1
      <4>2. CASE i \in 1 .. Len(com1)
        BY <1>1, <2>7, <3>3, <4>2 DEF SensorInv, AllPassed
      <4> QED BY <2>12, <4>1, <4>2
    <3> QED BY <3>2, <3>3 DEF AllPassed
  <2>14. NotBack'
    <3>1. pc' # "send"
      BY <1>1, <2>2
    <3>2. SUFFICES ASSUME pc = "get"
                   PROVE  /\ \A x \in Sensor!Bytes :
                               x < sensor_next' /\ sensor_data'[x] /\ ~ msg_data'[x] => ~ latch'[x]
                          /\ \A i \in 1 .. Len(com1') :
                               sensor_data'[sensor_next' + i - 1] /\ ~ com1'[i]
                                  => ~ latch'[sensor_next' + i - 1]
      BY <1>1, <3>1 DEF NotBack
    <3>3. \A x \in Sensor!Bytes : x < sensor_next' /\ sensor_data'[x] /\ ~ msg_data'[x] => ~ latch'[x]
      BY <1>1, <2>6, <3>2 DEF SensorInv, NotBack
    <3>4. ASSUME NEW i \in 1 .. Len(com1'), sensor_data'[sensor_next' + i - 1], ~ com1'[i]
          PROVE  ~ latch'[sensor_next' + i - 1]
      <4>1. CASE i = Len(com1) + 1
        BY <1>1, <2>6, <2>7, <2>8, <3>4, <4>1
      <4>2. CASE i \in 1 .. Len(com1)
        <5>1. sensor_next + i - 1 \in Sensor!Bytes
          BY <1>1, <1>2, <2>5, <4>2 DEF k
        <5>2. ~ latch[sensor_next + i - 1]
          BY <1>1, <2>7, <3>2, <3>4, <4>2 DEF SensorInv, NotBack
        <5> QED BY <1>1, <2>6, <5>1, <5>2
      <4> QED BY <2>12, <4>1, <4>2
    <3> QED BY <3>3, <3>4
  <2> QED BY <2>9, <2>10, <2>11, <2>13, <2>14 DEF SensorInv
<1> QED BY <1>3, <1>4

\* A query when all has been answered: only an AUTO_RESET may be before it.
LEMMA RoundAsked ==
  ASSUME Sensor!SensorAssumption, asked \in {<< >>, <<-1>>}, Sensor!Asks(Sensor!query)
  PROVE  asked' = From(0) \/ asked' = <<-1>> \o From(0)
<1>1. Sensor!query = From(0) /\ asked' = asked \o Sensor!query /\ From(0) \in Seq(Int)
  BY FromFacts DEF Sensor!Asks, Sensor!SensorAssumption
<1> DEFINE f == From(0)
<1> HIDE DEF f
<1>2. f \in Seq(Int) /\ asked' = asked \o f
  BY <1>1 DEF f
<1>3. << >> \o f = f
  BY <1>2
<1> QED BY <1>2, <1>3 DEF f

LEMMA StartKeeps ==
  ASSUME Sensor!SensorAssumption, SensorInv, Sensor!Start
  PROVE  SensorInv'
<1>1. /\ pc = "start" /\ pc' = "filter" /\ Sensor!Asks(Sensor!query)
      /\ UNCHANGED <<latch, auto_reset, com1, sensor_next, msg_data, sensor_data, passed>>
  BY DEF Sensor!Start
<1>2. asked = << >> /\ com1 = << >> /\ sensor_next = 0 /\ Len(<< >>) = 0
  BY <1>1 DEF SensorInv, InStep
<1>3. asked' = From(0)
  <2>1. asked' = << >> \o From(0) /\ From(0) \in Seq(Int)
    BY <1>1, <1>2, FromFacts DEF Sensor!Asks, Sensor!SensorAssumption
  <2> DEFINE f == From(0)
  <2> HIDE DEF f
  <2>2. asked' = << >> \o f /\ f \in Seq(Int)
    BY <2>1 DEF f
  <2>3. asked' = f
    BY <2>2
  <2> QED BY <2>3 DEF f
<1>4. Answered' = 0
  BY <1>1, <1>2 DEF Answered
<1>5. InStep'
  <2>1. asked' = From(Answered')
    BY <1>3, <1>4
  <2> QED BY <1>1, <1>2, <1>4, <2>1 DEF InStep, Sensor!SensorAssumption
<1>6. SensorTypes' /\ NothingYet' /\ AllPassed' /\ NotBack'
  BY <1>1 DEF SensorInv, SensorTypes, NothingYet, AllPassed, NotBack
<1> QED BY <1>5, <1>6 DEF SensorInv

\* One answer is got: it was of sensor_next, and those left are of the next.
LEMMA OneGot ==
  ASSUME Sensor!SensorAssumption, SensorInv, com1 # << >>, com1' = Tail(com1)
  PROVE  /\ Answered <= SENSOR_BYTES_TOTAL /\ Answered = sensor_next + Len(com1)
         /\ sensor_next + 1 + Len(com1') = Answered
         /\ Head(com1) \in BOOLEAN /\ Head(com1) = com1[1] /\ com1' \in Seq(BOOLEAN)
         /\ Len(com1') \in Nat /\ 1 \in 1 .. Len(com1)
         /\ \A i \in 1 .. Len(com1') :
               /\ com1'[i] = com1[i + 1] /\ i + 1 \in 1 .. Len(com1)
               /\ sensor_next + (i + 1) - 1 = sensor_next + 1 + i - 1
         /\ sensor_next + 1 = SENSOR_BYTES_TOTAL =>
               com1' = << >> /\ Answered = SENSOR_BYTES_TOTAL
<1>1. /\ com1 \in Seq(BOOLEAN) /\ sensor_next \in Nat /\ SENSOR_BYTES_TOTAL \in Nat
      /\ Answered <= SENSOR_BYTES_TOTAL /\ Answered = sensor_next + Len(com1)
  BY DEF SensorInv, SensorTypes, InStep, Answered, Sensor!Bytes, Sensor!SensorAssumption
<1>2. /\ Head(com1) \in BOOLEAN /\ Head(com1) = com1[1] /\ com1' \in Seq(BOOLEAN)
      /\ Len(com1') = Len(com1) - 1 /\ Len(com1) \in Nat /\ Len(com1') \in Nat
      /\ \A i \in 1 .. Len(com1) - 1 : com1'[i] = com1[i + 1]
  BY <1>1, HeadTail
<1>3. Len(com1') = 0 => com1' = << >>
  BY <1>2
<1> QED BY <1>1, <1>2, <1>3

LEMMA FilterKeeps ==
  ASSUME Sensor!SensorAssumption, SensorInv, Sensor!Filter
  PROVE  SensorInv'
<1> DEFINE N == SENSOR_BYTES_TOTAL
<1>1. /\ pc = "filter" /\ pc' = "get" /\ com1 # << >> /\ com1' = Tail(com1)
      /\ sensor_next' = Sensor!Incremented(sensor_next) /\ asked' = asked \o <<-1>>
      /\ passed' = [passed EXCEPT ![sensor_next] = latch[sensor_next]]
      /\ UNCHANGED <<latch, auto_reset, msg_data, sensor_data>>
  BY DEF Sensor!Filter, Sensor!Asks, Sensor!AUTO_RESET
<1>2. sensor_next = 0 /\ asked = From(Answered) /\ \A b \in Sensor!Bytes : ~ msg_data[b] /\ ~ sensor_data[b]
  BY <1>1 DEF SensorInv, InStep, NothingYet
<1>3. N \in Nat \ {0, 1} /\ Sensor!Bytes = 0 .. N - 1 /\ sensor_next' = 1
  <2>1. sensor_next \in Sensor!Bytes
    BY DEF SensorInv, SensorTypes
  <2>2. /\ N \in Nat \ {0, 1} /\ Sensor!Bytes = 0 .. N - 1
        /\ Sensor!Incremented(sensor_next) = IF sensor_next + 1 < N THEN sensor_next + 1 ELSE 0
    BY <2>1, NextByte
  <2> QED BY <1>1, <1>2, <2>2
<1>4. /\ Answered <= N /\ Answered = sensor_next + Len(com1) /\ sensor_next + 1 + Len(com1') = Answered
      /\ com1' \in Seq(BOOLEAN) /\ Len(com1') \in Nat
      /\ \A i \in 1 .. Len(com1') :
            /\ com1'[i] = com1[i + 1] /\ i + 1 \in 1 .. Len(com1)
            /\ sensor_next + (i + 1) - 1 = sensor_next + 1 + i - 1
  BY <1>1, OneGot
<1>5. Answered' = Answered
  BY <1>2, <1>3, <1>4 DEF Answered
<1>6. /\ passed' \in [Sensor!Bytes -> BOOLEAN] /\ passed'[0] = latch[0]
      /\ \A b \in Sensor!Bytes : b # 0 => passed'[b] = passed[b]
  <2>1. passed \in [Sensor!Bytes -> BOOLEAN] /\ latch \in [Sensor!Bytes -> BOOLEAN] /\ 0 \in Sensor!Bytes
    BY <1>3 DEF SensorInv, SensorTypes
  <2> QED BY <1>1, <1>2, <2>1
<1>7. SensorTypes'
  BY <1>1, <1>3, <1>4, <1>6 DEF SensorInv, SensorTypes
<1>8. InStep'
  <2>1. asked' = From(Answered') \o <<-1>>
    BY <1>1, <1>2, <1>5
  <2>2. IsAsked(Answered)'
    BY <2>1 DEF IsAsked, From
  <2> QED BY <1>1, <1>4, <1>5, <2>2 DEF InStep
<1>9. \A i \in 1 .. Len(com1') : 1 + i - 1 \in Sensor!Bytes /\ 1 + i - 1 # 0
  BY <1>2, <1>3, <1>4
<1>10. AllPassed'
  <2>1. \A b \in Sensor!Bytes : latch'[b] \/ msg_data'[b] \/ sensor_data'[b] => passed'[b]
    BY <1>1, <1>2, <1>6 DEF SensorInv, AllPassed
  <2>2. ASSUME NEW i \in 1 .. Len(com1'), com1'[i] PROVE passed'[sensor_next' + i - 1]
    <3>1. passed[1 + i - 1]
      BY <1>2, <1>4, <2>2 DEF SensorInv, AllPassed
    <3> QED BY <1>3, <1>6, <1>9, <3>1
  <2> QED BY <2>1, <2>2 DEF AllPassed
<1>11. NothingYet'
  BY <1>1 DEF NothingYet
<1>12. NotBack'
  BY <1>1, <1>2, <1>3, <1>9 DEF NotBack
<1> QED BY <1>7, <1>8, <1>10, <1>11, <1>12 DEF SensorInv

LEMMA GetKeeps ==
  ASSUME Sensor!SensorAssumption, SensorInv, Sensor!Get
  PROVE  SensorInv'
<1> DEFINE N == SENSOR_BYTES_TOTAL
           b == sensor_next
<1>1. /\ pc = "get" /\ com1 # << >> /\ com1' = Tail(com1)
      /\ msg_data' = [msg_data EXCEPT ![b] = Head(com1)]
      /\ sensor_next' = Sensor!Incremented(b)
      /\ \/ sensor_next' # 0 /\ UNCHANGED <<pc, asked>>
         \/ sensor_next' = 0 /\ pc' = "send" /\ UNCHANGED asked
         \/ sensor_next' = 0 /\ Sensor!Asks(Sensor!query) /\ UNCHANGED pc
      /\ UNCHANGED <<latch, auto_reset, sensor_data, passed>>
  BY DEF Sensor!Get
<1>2. /\ N \in Nat \ {0, 1} /\ Sensor!Bytes = 0 .. N - 1 /\ b \in Sensor!Bytes
      /\ sensor_next' = IF b + 1 < N THEN b + 1 ELSE 0
  <2>1. b \in Sensor!Bytes
    BY DEF SensorInv, SensorTypes
  <2>2. /\ N \in Nat \ {0, 1} /\ Sensor!Bytes = 0 .. N - 1
        /\ Sensor!Incremented(b) = IF b + 1 < N THEN b + 1 ELSE 0
    BY <2>1, NextByte
  <2> QED BY <1>1, <2>1, <2>2
<1>3. /\ Answered <= N /\ Answered = b + Len(com1) /\ b + 1 + Len(com1') = Answered
      /\ Head(com1) \in BOOLEAN /\ Head(com1) = com1[1] /\ com1' \in Seq(BOOLEAN)
      /\ Len(com1') \in Nat /\ 1 \in 1 .. Len(com1)
      /\ \A i \in 1 .. Len(com1') :
            /\ com1'[i] = com1[i + 1] /\ i + 1 \in 1 .. Len(com1)
            /\ b + (i + 1) - 1 = b + 1 + i - 1
      /\ b + 1 = N => com1' = << >> /\ Answered = N
  BY <1>1, OneGot
<1>4. IsAsked(Answered)
  BY <1>1 DEF SensorInv, InStep
<1>5. /\ \A x \in Sensor!Bytes : latch[x] \/ msg_data[x] \/ sensor_data[x] => passed[x]
      /\ \A i \in 1 .. Len(com1) : com1[i] => passed[b + i - 1]
      /\ \A x \in Sensor!Bytes : x < b /\ sensor_data[x] /\ ~ msg_data[x] => ~ latch[x]
      /\ \A i \in 1 .. Len(com1) : sensor_data[b + i - 1] /\ ~ com1[i] => ~ latch[b + i - 1]
  BY <1>1 DEF SensorInv, AllPassed, NotBack
<1>6. b + 1 - 1 = b
  BY <1>2
<1>7. /\ msg_data' \in [Sensor!Bytes -> BOOLEAN] /\ msg_data'[b] = com1[1]
      /\ \A x \in Sensor!Bytes : x # b => msg_data'[x] = msg_data[x]
  <2>1. msg_data \in [Sensor!Bytes -> BOOLEAN]
    BY DEF SensorInv, SensorTypes
  <2> QED BY <1>1, <1>2, <1>3, <2>1
<1> HIDE DEF b
<1>8. SensorTypes'
  <2>1. sensor_next' \in Sensor!Bytes
    BY <1>2
  <2> QED BY <1>1, <1>3, <1>7, <2>1 DEF SensorInv, SensorTypes
<1>9. pc' \in {"get", "send"}
  BY <1>1
<1>10. NothingYet'
  BY <1>9 DEF NothingYet
\* What has been got of this round: the bytes up to this one.
<1>11. \A x \in Sensor!Bytes : x < b + 1 /\ sensor_data[x] /\ ~ msg_data'[x] => ~ latch[x]
  <2>1. sensor_data[b] /\ ~ com1[1] => ~ latch[b]
    BY <1>3, <1>5, <1>6
  <2>2. ASSUME NEW x \in Sensor!Bytes, x < b + 1, sensor_data[x], ~ msg_data'[x] PROVE ~ latch[x]
    <3>1. x < b \/ x = b
      BY <1>2, <2>2
    <3> QED BY <1>5, <1>7, <2>1, <2>2, <3>1
  <2> QED BY <2>2
<1>12. \A x \in Sensor!Bytes : latch'[x] \/ msg_data'[x] \/ sensor_data'[x] => passed'[x]
  <2>1. com1[1] => passed[b]
    BY <1>3, <1>5, <1>6
  <2> QED BY <1>1, <1>5, <1>7, <2>1
<1>13. CASE b + 1 < N
  <2>1. sensor_next' = b + 1 /\ sensor_next' # 0
    BY <1>2, <1>13
  <2>2. UNCHANGED <<pc, asked>>
    BY <1>1, <2>1
  <2>3. Answered' = Answered
    BY <1>3, <2>1 DEF Answered
  <2>4. InStep'
    <3>1. IsAsked(Answered)'
      BY <1>4, <2>2, <2>3 DEF IsAsked, From
    <3> QED BY <1>1, <1>3, <2>2, <2>3, <3>1 DEF InStep
  <2>5. AllPassed'
    <3>1. ASSUME NEW i \in 1 .. Len(com1'), com1'[i] PROVE passed'[sensor_next' + i - 1]
      <4>1. passed[b + (i + 1) - 1]
        BY <1>3, <1>5, <3>1
      <4> QED BY <1>1, <1>3, <2>1, <4>1
    <3> QED BY <1>12, <3>1 DEF AllPassed
  <2>6. NotBack'
    <3>1. ASSUME NEW i \in 1 .. Len(com1'), sensor_data'[sensor_next' + i - 1], ~ com1'[i]
          PROVE  ~ latch'[sensor_next' + i - 1]
      <4>1. sensor_next' + i - 1 = b + (i + 1) - 1
        BY <1>3, <2>1
      <4> QED BY <1>1, <1>3, <1>5, <3>1, <4>1
    <3>2. \A x \in Sensor!Bytes : x < sensor_next' /\ sensor_data'[x] /\ ~ msg_data'[x] => ~ latch'[x]
      BY <1>1, <1>11, <2>1
    <3> QED BY <1>1, <2>2, <3>1, <3>2 DEF NotBack
  <2> QED BY <1>8, <1>10, <2>4, <2>5, <2>6 DEF SensorInv
<1>14. CASE ~ (b + 1 < N)
  <2>1. b + 1 = N /\ sensor_next' = 0 /\ com1' = << >> /\ Answered = N /\ Len(com1') = 0
    BY <1>2, <1>3, <1>14
  <2>2. asked \in {<< >>, <<-1>>}
    <3>1. From(Answered) = << >> /\ Answered # 0
      BY <1>2, <2>1, FromFacts
    <3>2. asked \in {<< >>, << >> \o <<-1>>}
      BY <1>4, <3>1 DEF IsAsked
    <3> QED BY <3>2
  <2>3. Answered' = 0
    BY <2>1 DEF Answered
  <2>4. pc' = "get" => IsAsked(Answered)'
    <3>1. pc' = "get" => Sensor!Asks(Sensor!query)
      BY <1>1, <2>1
    <3>2. pc' = "get" => asked' = From(Answered') \/ asked' = <<-1>> \o From(0)
      BY <2>2, <2>3, <3>1, RoundAsked
    <3> QED BY <2>3, <3>2 DEF IsAsked, From
  <2>5. pc' = "send" => asked' \in {<< >>, <<-1>>}
    <3>1. pc' = "send" => asked' = asked
      BY <1>1, <2>1
    <3> QED BY <2>2, <3>1
  <2>6. InStep'
    BY <1>2, <1>9, <2>1, <2>3, <2>4, <2>5 DEF InStep
  <2>7. AllPassed'
    BY <1>12, <2>1 DEF AllPassed
  <2>8. NotBack'
    <3>1. \A x \in Sensor!Bytes : x < b + 1 /\ ~ (x < sensor_next')
      BY <1>2, <2>1
    <3>2. \A i \in 1 .. Len(com1') : FALSE
      BY <2>1
    <3>3. \A x \in Sensor!Bytes : sensor_data'[x] /\ ~ msg_data'[x] => ~ latch'[x]
      BY <1>1, <1>11, <3>1
    <3> QED BY <1>9, <3>2, <3>3 DEF NotBack
  <2> QED BY <1>8, <1>10, <2>6, <2>7, <2>8 DEF SensorInv
<1> QED BY <1>13, <1>14

LEMMA SendKeeps ==
  ASSUME Sensor!SensorAssumption, SensorInv, Sensor!Send
  PROVE  SensorInv' /\ \A b \in released' : passed[b]
<1>1. /\ pc = "send" /\ pc' = "get" /\ Sensor!Asks(Sensor!query) /\ sensor_data' = msg_data
      /\ released' = {b \in Sensor!Bytes : sensor_data[b] /\ ~ msg_data[b]}
      /\ passed' = [b \in Sensor!Bytes |-> passed[b] /\ b \notin released']
      /\ UNCHANGED <<latch, auto_reset, com1, sensor_next, msg_data>>
  BY DEF Sensor!Send
<1>2. com1 = << >> /\ sensor_next = 0 /\ asked \in {<< >>, <<-1>>} /\ Len(<< >>) = 0
  BY <1>1 DEF SensorInv, InStep
<1>3. /\ \A b \in Sensor!Bytes : latch[b] \/ msg_data[b] \/ sensor_data[b] => passed[b]
      /\ \A b \in Sensor!Bytes : sensor_data[b] /\ ~ msg_data[b] => ~ latch[b]
  BY <1>1 DEF SensorInv, AllPassed, NotBack
<1>4. Answered' = 0 /\ SENSOR_BYTES_TOTAL \in Nat /\ \A b \in Sensor!Bytes : ~ (b < 0)
  BY <1>1, <1>2 DEF Answered, Sensor!SensorAssumption, Sensor!Bytes
<1>5. SensorTypes'
  BY <1>1 DEF SensorInv, SensorTypes
<1>6. InStep'
  <2>1. asked' = From(0) \/ asked' = <<-1>> \o From(0)
    BY <1>1, <1>2, RoundAsked
  <2>2. IsAsked(Answered)'
    BY <1>4, <2>1 DEF IsAsked, From
  <2> QED BY <1>1, <1>4, <2>2 DEF InStep
<1>7. AllPassed'
  <2>1. \A i \in 1 .. Len(com1') : FALSE
    BY <1>1, <1>2
  <2>2. \A b \in Sensor!Bytes : latch'[b] \/ msg_data'[b] \/ sensor_data'[b] => passed'[b]
    BY <1>1, <1>3
  <2> QED BY <2>1, <2>2 DEF AllPassed
<1>8. NotBack' /\ NothingYet'
  BY <1>1, <1>2, <1>4 DEF NotBack, NothingYet
<1> QED BY <1>1, <1>3, <1>5, <1>6, <1>7, <1>8 DEF SensorInv

\* Every step, those of the other parts too.
LEMMA SensorStep ==
  ASSUME Sensor!SensorAssumption, SensorInv, [Next]_vars
  PROVE  SensorInv' /\ [\A b \in released' : passed[b]]_Sensor!vars
<1>1. CASE UNCHANGED sensor_vars
  <2>1. SensorInv'
    BY <1>1 DEF sensor_vars, SensorInv, SensorTypes, InStep, NothingYet, AllPassed, NotBack,
                Answered, IsAsked
  <2>2. UNCHANGED Sensor!vars
    BY <1>1 DEF sensor_vars, Sensor!vars, Sensor!decoders, Sensor!notifier
  <2> QED BY <2>1, <2>2
<1>2. CASE Sensor!Next
  <2>1. CASE Sensor!Send
    BY <2>1, SendKeeps
  <2>2. CASE Sensor!Start
    <3>1. released' = {}
      BY <2>2 DEF Sensor!Start
    <3> QED BY <2>2, <3>1, StartKeeps
  <2>3. CASE Sensor!Filter
    <3>1. released' = {}
      BY <2>3 DEF Sensor!Filter
    <3> QED BY <2>3, <3>1, FilterKeeps
  <2>4. CASE Sensor!Get
    <3>1. released' = {}
      BY <2>4 DEF Sensor!Get
    <3> QED BY <2>4, <3>1, GetKeeps
  <2>5. CASE Sensor!DecodersAnswer
    <3>1. released' = {}
      BY <2>5 DEF Sensor!DecodersAnswer
    <3> QED BY <2>5, <3>1, AnswerKeeps
  <2>6. ASSUME NEW b \in Sensor!Bytes, Sensor!Trigger(b)
        PROVE  SensorInv' /\ [\A x \in released' : passed[x]]_Sensor!vars
    <3>1. released' = {}
      BY <2>6 DEF Sensor!Trigger
    <3> QED BY <2>6, <3>1, TriggerKeeps
  <2> QED BY <1>2, <2>1, <2>2, <2>3, <2>4, <2>5, <2>6 DEF Sensor!Next, Sensor!Notifier
<1> QED BY <1>1, <1>2 DEF Next, vars

\* Whatever trains do on the track, and in whatever state the decoders were
\* left, what the center takes for a release (train_center.c) is a sensor that
\* a train has passed and that it has not taken for one since, for any number
\* of bytes: the queries, the answers and the index that the notifier counts
\* (train_sensor.c:41, 63) never come apart.
THEOREM SensorsPassedOnce == Spec => Sensor!OnlyPassedReported
<1>1. Init => SensorInv
  BY PartsAssumption, SensorStarts
<1>2. SensorInv /\ [Next]_vars => SensorInv' /\ [\A b \in released' : passed[b]]_Sensor!vars
  BY PartsAssumption, SensorStep
<1> QED BY <1>1, <1>2, PTL DEF Spec, Sensor!OnlyPassedReported

-----------------------------------------------------------------------------
(* Satellites: the fields of the memory of the linked lists.               *)

Lists == Orbits!Orbits
Nodes == Orbits!Trains
Link  == Nodes \cup {NULL}

Memory == [head : [Lists -> Link], tail : [Lists -> Link],
           previous : [Nodes -> Link], next : [Nodes -> Link]]

\* One field is set, the others keep their values; none is, for no node.
LEMMA SetIs ==
  ASSUME NEW D, NEW field \in [D -> Link], NEW n, NEW value \in Link
  PROVE  /\ Orbits!Set(field, n, value) \in [D -> Link]
         /\ \A x \in D : Orbits!Set(field, n, value)[x] = IF x = n THEN value ELSE field[x]
BY DEF Orbits!Set

\* What listPush writes.
LEMMA PushWrites ==
  ASSUME NEW m \in Memory, NEW l \in Lists, NEW n \in Nodes, NEW w, w = Orbits!listPush(m, l, n)
  PROVE  /\ w \in Memory
         /\ \A k \in Lists : w.head[k] = IF k = l THEN n ELSE m.head[k]
         /\ \A k \in Lists : w.tail[k] = IF k = l /\ m.tail[l] = NULL THEN n ELSE m.tail[k]
         /\ \A x \in Nodes : w.previous[x] = IF x = m.head[l] THEN n
                                             ELSE IF x = n THEN NULL ELSE m.previous[x]
         /\ \A x \in Nodes : w.next[x] = IF x = n THEN m.head[l] ELSE m.next[x]
<1> DEFINE h == Orbits!Set(m.head, l, n)
           t == Orbits!Set(m.tail, l, IF m.tail[l] = NULL THEN n ELSE m.tail[l])
           q == Orbits!Set(m.previous, n, NULL)
           p == Orbits!Set(q, m.head[l], n)
           x == Orbits!Set(m.next, n, m.head[l])
<1>1. w = [head |-> h, tail |-> t, previous |-> p, next |-> x]
  BY DEF Orbits!listPush
<1>2. /\ m.head \in [Lists -> Link] /\ m.tail \in [Lists -> Link]
      /\ m.previous \in [Nodes -> Link] /\ m.next \in [Nodes -> Link]
      /\ n \in Link /\ NULL \in Link /\ m.head[l] \in Link /\ m.tail[l] \in Link
  BY DEF Memory, Link
<1>3. h \in [Lists -> Link] /\ \A k \in Lists : h[k] = IF k = l THEN n ELSE m.head[k]
  BY <1>2, SetIs
<1>4. /\ t \in [Lists -> Link]
      /\ \A k \in Lists : t[k] = IF k = l THEN IF m.tail[l] = NULL THEN n ELSE m.tail[l]
                                 ELSE m.tail[k]
  BY <1>2, SetIs
<1>5. q \in [Nodes -> Link] /\ \A k \in Nodes : q[k] = IF k = n THEN NULL ELSE m.previous[k]
  BY <1>2, SetIs
<1>6. p \in [Nodes -> Link] /\ \A k \in Nodes : p[k] = IF k = m.head[l] THEN n ELSE q[k]
  <2> HIDE DEF q
  <2> QED BY <1>2, <1>5, SetIs
<1>7. x \in [Nodes -> Link] /\ \A k \in Nodes : x[k] = IF k = n THEN m.head[l] ELSE m.next[k]
  BY <1>2, SetIs
<1> HIDE DEF h, t, q, p, x
<1>8. w \in Memory
  BY <1>1, <1>3, <1>4, <1>6, <1>7 DEF Memory
<1> QED BY <1>1, <1>3, <1>4, <1>5, <1>6, <1>7, <1>8

\* What listAppend writes.
LEMMA AppendWrites ==
  ASSUME NEW m \in Memory, NEW l \in Lists, NEW n \in Nodes, NEW w, w = Orbits!listAppend(m, l, n)
  PROVE  /\ w \in Memory
         /\ \A k \in Lists : w.head[k] = IF k = l /\ m.head[l] = NULL THEN n ELSE m.head[k]
         /\ \A k \in Lists : w.tail[k] = IF k = l THEN n ELSE m.tail[k]
         /\ \A x \in Nodes : w.previous[x] = IF x = n THEN m.tail[l] ELSE m.previous[x]
         /\ \A x \in Nodes : w.next[x] = IF x = n THEN NULL
                                         ELSE IF x = m.tail[l] THEN n ELSE m.next[x]
<1> DEFINE h == Orbits!Set(m.head, l, IF m.head[l] = NULL THEN n ELSE m.head[l])
           t == Orbits!Set(m.tail, l, n)
           p == Orbits!Set(m.previous, n, m.tail[l])
           y == Orbits!Set(m.next, m.tail[l], n)
           x == Orbits!Set(y, n, NULL)
<1>1. w = [head |-> h, tail |-> t, previous |-> p, next |-> x]
  BY DEF Orbits!listAppend
<1>2. /\ m.head \in [Lists -> Link] /\ m.tail \in [Lists -> Link]
      /\ m.previous \in [Nodes -> Link] /\ m.next \in [Nodes -> Link]
      /\ n \in Link /\ NULL \in Link /\ m.head[l] \in Link /\ m.tail[l] \in Link
  BY DEF Memory, Link
<1>3. /\ h \in [Lists -> Link]
      /\ \A k \in Lists : h[k] = IF k = l THEN IF m.head[l] = NULL THEN n ELSE m.head[l]
                                 ELSE m.head[k]
  BY <1>2, SetIs
<1>4. t \in [Lists -> Link] /\ \A k \in Lists : t[k] = IF k = l THEN n ELSE m.tail[k]
  BY <1>2, SetIs
<1>5. y \in [Nodes -> Link] /\ \A k \in Nodes : y[k] = IF k = m.tail[l] THEN n ELSE m.next[k]
  BY <1>2, SetIs
<1>6. x \in [Nodes -> Link] /\ \A k \in Nodes : x[k] = IF k = n THEN NULL ELSE y[k]
  <2> HIDE DEF y
  <2> QED BY <1>2, <1>5, SetIs
<1>7. p \in [Nodes -> Link] /\ \A k \in Nodes : p[k] = IF k = n THEN m.tail[l] ELSE m.previous[k]
  BY <1>2, SetIs
<1> HIDE DEF h, t, y, p, x
<1>8. w \in Memory
  BY <1>1, <1>3, <1>4, <1>6, <1>7 DEF Memory
<1> QED BY <1>1, <1>3, <1>4, <1>5, <1>6, <1>7, <1>8

\* What listRemove writes when it has found the node.
LEMMA RemoveWrites ==
  ASSUME NEW m \in Memory, NEW l \in Lists, NEW n \in Nodes, NEW tail \in Link,
         NEW w, w = Orbits!Removed(m, l, n, tail)
  PROVE  /\ w \in Memory
         /\ \A k \in Lists : w.head[k] = IF k = l /\ n = m.head[l] THEN m.next[n] ELSE m.head[k]
         /\ \A k \in Lists : w.tail[k] = IF k = l THEN tail ELSE m.tail[k]
         /\ \A x \in Nodes : w.previous[x] = IF x = n THEN NULL
                                             ELSE IF x = m.next[n] THEN m.previous[n]
                                             ELSE m.previous[x]
         /\ \A x \in Nodes : w.next[x] = IF x = n THEN NULL
                                         ELSE IF x = m.previous[n] THEN m.next[n]
                                         ELSE m.next[x]
<1> DEFINE h == Orbits!Set(m.head, l, IF n = m.head[l] THEN m.next[n] ELSE m.head[l])
           t == Orbits!Set(m.tail, l, tail)
           q == Orbits!Set(m.previous, m.next[n], m.previous[n])
           p == Orbits!Set(q, n, NULL)
           y == Orbits!Set(m.next, m.previous[n], m.next[n])
           x == Orbits!Set(y, n, NULL)
<1>1. w = [head |-> h, tail |-> t, previous |-> p, next |-> x]
  BY DEF Orbits!Removed
<1>2. /\ m.head \in [Lists -> Link] /\ m.tail \in [Lists -> Link]
      /\ m.previous \in [Nodes -> Link] /\ m.next \in [Nodes -> Link]
      /\ n \in Link /\ NULL \in Link /\ m.head[l] \in Link
      /\ m.next[n] \in Link /\ m.previous[n] \in Link
  BY DEF Memory, Link
<1>3. /\ h \in [Lists -> Link]
      /\ \A k \in Lists : h[k] = IF k = l THEN IF n = m.head[l] THEN m.next[n] ELSE m.head[l]
                                 ELSE m.head[k]
  BY <1>2, SetIs
<1>4. t \in [Lists -> Link] /\ \A k \in Lists : t[k] = IF k = l THEN tail ELSE m.tail[k]
  BY <1>2, SetIs
<1>5. /\ y \in [Nodes -> Link]
      /\ \A k \in Nodes : y[k] = IF k = m.previous[n] THEN m.next[n] ELSE m.next[k]
  BY <1>2, SetIs
<1>6. x \in [Nodes -> Link] /\ \A k \in Nodes : x[k] = IF k = n THEN NULL ELSE y[k]
  <2> HIDE DEF y
  <2> QED BY <1>2, <1>5, SetIs
<1>7. /\ q \in [Nodes -> Link]
      /\ \A k \in Nodes : q[k] = IF k = m.next[n] THEN m.previous[n] ELSE m.previous[k]
  BY <1>2, SetIs
<1>8. p \in [Nodes -> Link] /\ \A k \in Nodes : p[k] = IF k = n THEN NULL ELSE q[k]
  <2> HIDE DEF q
  <2> QED BY <1>2, <1>7, SetIs
<1> HIDE DEF h, t, q, y, p, x
<1>9. w \in Memory
  BY <1>1, <1>3, <1>4, <1>6, <1>8 DEF Memory
<1> QED BY <1>1, <1>3, <1>4, <1>5, <1>6, <1>7, <1>8, <1>9

-----------------------------------------------------------------------------
(* The sequences that a memory stands for.                                 *)

\* A sequence for each list, and no node twice.
Lines(S) ==
    /\ S \in [Lists -> Seq(Nodes)]
    /\ \A l, k \in Lists : \A i \in 1 .. Len(S[l]), j \in 1 .. Len(S[k]) :
          S[l][i] = S[k][j] => l = k /\ i = j

HeadsAre(m, S) == \A l \in Lists : m.head[l] = IF Len(S[l]) = 0 THEN NULL ELSE S[l][1]

TailsAre(m, S) == \A l \in Lists : m.tail[l] = IF Len(S[l]) = 0 THEN NULL ELSE S[l][Len(S[l])]

NextAre(m, S) ==
    \A l \in Lists : \A i \in 1 .. Len(S[l]) :
       m.next[S[l][i]] = IF i = Len(S[l]) THEN NULL ELSE S[l][i + 1]

PreviousAre(m, S) ==
    \A l \in Lists : \A i \in 1 .. Len(S[l]) :
       m.previous[S[l][i]] = IF i = 1 THEN NULL ELSE S[l][i - 1]

Stands(m, S) ==
    /\ m \in Memory /\ Lines(S)
    /\ HeadsAre(m, S) /\ TailsAre(m, S) /\ NextAre(m, S) /\ PreviousAre(m, S)

\* n is in none of the lists.
Absent(S, n) == \A l \in Lists : \A i \in 1 .. Len(S[l]) : S[l][i] # n

LEMMA NodesAre ==
  ASSUME Orbits!SatellitesAssumption
  PROVE  /\ NULL \notin Nodes /\ NULL \notin Lists
         /\ IsFiniteSet(Nodes) /\ Cardinality(Nodes) = TRAIN_MAX
         /\ TRAIN_MAX \in Nat \ {0} /\ ORBIT_MAX \in Nat \ {0}
         /\ Nodes = 0 .. TRAIN_MAX - 1 /\ Lists = 0 .. ORBIT_MAX - 1
<1>1. /\ TRAIN_MAX \in Nat \ {0} /\ ORBIT_MAX \in Nat \ {0}
      /\ Nodes = 0 .. TRAIN_MAX - 1 /\ Lists = 0 .. ORBIT_MAX - 1
      /\ NULL \notin Nodes /\ NULL \notin Lists
  BY DEF Orbits!SatellitesAssumption, Nodes, Lists, Orbits!Trains, Orbits!Orbits
<1>2. IsFiniteSet(0 .. TRAIN_MAX - 1) /\ Cardinality(0 .. TRAIN_MAX - 1) = TRAIN_MAX
  BY <1>1, FS_Interval
<1> QED BY <1>1, <1>2

\* What a memory and the sequences it stands for are made of.
LEMMA StandsFacts ==
  ASSUME Orbits!SatellitesAssumption, NEW m, NEW S, Stands(m, S)
  PROVE  /\ m \in Memory /\ S \in [Lists -> Seq(Nodes)] /\ NULL \notin Nodes
         /\ \A k \in Lists : Len(S[k]) \in Nat /\ \A i \in 1 .. Len(S[k]) : S[k][i] \in Nodes
<1>1. m \in Memory /\ S \in [Lists -> Seq(Nodes)] /\ NULL \notin Nodes
  BY NodesAre DEF Stands, Lines
<1>2. ASSUME NEW k \in Lists
      PROVE  Len(S[k]) \in Nat /\ \A i \in 1 .. Len(S[k]) : S[k][i] \in Nodes
  <2>1. S[k] \in Seq(Nodes)
    BY <1>1
  <2> QED BY <2>1
<1> QED BY <1>1, <1>2

\* Empty lists stand for empty sequences.
LEMMA InitialStands ==
  ASSUME NEW m, m = Orbits!listInitial(Lists, Nodes)
  PROVE  Stands(m, [l \in Lists |-> << >>])
BY DEF Orbits!listInitial, Stands, Memory, Link, Lines, HeadsAre, TailsAre, NextAre, PreviousAre

\* listPush puts a node in front.
LEMMA PushStands ==
  ASSUME Orbits!SatellitesAssumption, NEW m, NEW S, Stands(m, S),
         NEW l \in Lists, NEW n \in Nodes, Absent(S, n)
  PROVE  Stands(Orbits!listPush(m, l, n), [S EXCEPT ![l] = <<n>> \o S[l]])
<1> DEFINE w == Orbits!listPush(m, l, n)
           T == [S EXCEPT ![l] = <<n>> \o S[l]]
<1>1. /\ m \in Memory /\ S \in [Lists -> Seq(Nodes)] /\ NULL \notin Nodes
      /\ \A k \in Lists : Len(S[k]) \in Nat /\ \A i \in 1 .. Len(S[k]) : S[k][i] \in Nodes /\ S[k][i] # n
  <2> HIDE DEF w, T
  <2> QED BY StandsFacts DEF Absent
<1>2. /\ T \in [Lists -> Seq(Nodes)]
      /\ \A k \in Lists : k # l => T[k] = S[k]
      /\ Len(T[l]) = Len(S[l]) + 1
      /\ \A i \in 1 .. Len(S[l]) + 1 : T[l][i] = IF i = 1 THEN n ELSE S[l][i - 1]
  <2>1. S[l] \in Seq(Nodes) /\ T[l] = <<n>> \o S[l]
    BY <1>1
  <2>2. T[l] \in Seq(Nodes) /\ Len(T[l]) = Len(S[l]) + 1
    BY <2>1
  <2>3. \A i \in 1 .. Len(S[l]) + 1 : T[l][i] = IF i = 1 THEN n ELSE S[l][i - 1]
    BY <2>1
  <2> QED BY <1>1, <2>2, <2>3
<1> HIDE DEF T
<1>3. /\ w \in Memory
      /\ \A k \in Lists : w.head[k] = IF k = l THEN n ELSE m.head[k]
      /\ \A k \in Lists : w.tail[k] = IF k = l /\ m.tail[l] = NULL THEN n ELSE m.tail[k]
      /\ \A x \in Nodes : w.previous[x] = IF x = m.head[l] THEN n
                                          ELSE IF x = n THEN NULL ELSE m.previous[x]
      /\ \A x \in Nodes : w.next[x] = IF x = n THEN m.head[l] ELSE m.next[x]
  BY <1>1, PushWrites
<1> HIDE DEF w
<1>4. Lines(T)
  <2> SUFFICES ASSUME NEW a \in Lists, NEW b \in Lists,
                      NEW i \in 1 .. Len(T[a]), NEW j \in 1 .. Len(T[b]), T[a][i] = T[b][j]
               PROVE  a = b /\ i = j
    BY <1>2 DEF Lines
  <2>1. \A c, d \in Lists : \A p \in 1 .. Len(S[c]), q \in 1 .. Len(S[d]) :
           S[c][p] = S[d][q] => c = d /\ p = q
    BY DEF Stands, Lines
  <2> DEFINE Was(c, p) == IF c = l THEN p - 1 ELSE p
  <2>2. ASSUME NEW c \in Lists, NEW p \in 1 .. Len(T[c])
        PROVE  \/ c = l /\ p = 1 /\ T[c][p] = n
               \/ Was(c, p) \in 1 .. Len(S[c]) /\ T[c][p] = S[c][Was(c, p)] /\ T[c][p] # n
    <3>1. CASE c = l
      BY <1>1, <1>2, <3>1
    <3>2. CASE c # l
      BY <1>1, <1>2, <3>2
    <3> QED BY <3>1, <3>2
  <2>3. CASE T[a][i] = n
    BY <2>2, <2>3
  <2>4. CASE T[a][i] # n
    <3>1. /\ Was(a, i) \in 1 .. Len(S[a]) /\ Was(b, j) \in 1 .. Len(S[b])
          /\ S[a][Was(a, i)] = S[b][Was(b, j)]
      BY <2>2, <2>4
    <3>2. a = b /\ Was(a, i) = Was(b, j)
      <4> HIDE DEF Was
      <4> QED BY <2>1, <3>1
    <3> QED BY <3>2
  <2> QED BY <2>3, <2>4
<1>5. /\ m.head[l] = IF Len(S[l]) = 0 THEN NULL ELSE S[l][1]
      /\ m.tail[l] = IF Len(S[l]) = 0 THEN NULL ELSE S[l][Len(S[l])]
      /\ Len(S[l]) \in Nat
  BY <1>1 DEF Stands, HeadsAre, TailsAre
<1>6. HeadsAre(w, T)
  <2> SUFFICES ASSUME NEW k \in Lists
               PROVE  w.head[k] = IF Len(T[k]) = 0 THEN NULL ELSE T[k][1]
    BY DEF HeadsAre
  <2>1. CASE k = l
    <3>1. Len(T[l]) # 0 /\ T[l][1] = n
      BY <1>2, <1>5
    <3> QED BY <1>3, <2>1, <3>1
  <2>2. CASE k # l
    <3>1. T[k] = S[k] /\ w.head[k] = m.head[k]
      BY <1>2, <1>3, <2>2
    <3> QED BY <3>1 DEF Stands, HeadsAre
  <2> QED BY <2>1, <2>2
<1>7. TailsAre(w, T)
  BY <1>1, <1>2, <1>3, <1>5 DEF TailsAre, Stands
<1>8. NextAre(w, T)
  <2> SUFFICES ASSUME NEW k \in Lists, NEW i \in 1 .. Len(T[k])
               PROVE  w.next[T[k][i]] = IF i = Len(T[k]) THEN NULL ELSE T[k][i + 1]
    BY DEF NextAre
  <2>1. CASE k = l /\ i = 1
    BY <1>1, <1>2, <1>3, <1>5, <2>1
  <2>2. CASE k = l /\ i # 1
    <3>1. i - 1 \in 1 .. Len(S[l])
      BY <1>2, <1>5, <2>2
    <3>2. m.next[S[l][i - 1]] = IF i - 1 = Len(S[l]) THEN NULL ELSE S[l][i - 1 + 1]
      BY <3>1 DEF Stands, NextAre
    <3> QED BY <1>1, <1>2, <1>3, <1>5, <2>2, <3>1, <3>2
  <2>3. CASE k # l
    <3>1. i \in 1 .. Len(S[k]) /\ T[k] = S[k] /\ S[k][i] \in Nodes /\ S[k][i] # n
      BY <1>1, <1>2, <2>3
    <3>2. w.next[S[k][i]] = m.next[S[k][i]]
      BY <1>3, <3>1
    <3> QED BY <3>1, <3>2 DEF Stands, NextAre
  <2> QED BY <2>1, <2>2, <2>3
<1>9. PreviousAre(w, T)
  <2> SUFFICES ASSUME NEW k \in Lists, NEW i \in 1 .. Len(T[k])
               PROVE  w.previous[T[k][i]] = IF i = 1 THEN NULL ELSE T[k][i - 1]
    BY DEF PreviousAre
  <2>1. \A c, d \in Lists : \A p \in 1 .. Len(S[c]), q \in 1 .. Len(S[d]) :
           S[c][p] = S[d][q] => c = d /\ p = q
    BY DEF Stands, Lines
  <2>2. CASE k = l /\ i = 1
    <3>1. T[k][i] = n /\ n # m.head[l]
      BY <1>1, <1>2, <1>5, <2>2
    <3> QED BY <1>3, <2>2, <3>1
  <2>3. CASE k = l /\ i # 1
    <3>1. i - 1 \in 1 .. Len(S[l]) /\ T[k][i] = S[l][i - 1] /\ S[l][i - 1] \in Nodes
      BY <1>1, <1>2, <1>5, <2>3
    <3>2. m.previous[S[l][i - 1]] = IF i - 1 = 1 THEN NULL ELSE S[l][i - 1 - 1]
      BY <3>1 DEF Stands, PreviousAre
    <3>3. S[l][i - 1] = m.head[l] <=> i = 2
      BY <1>5, <2>1, <3>1
    <3> QED BY <1>1, <1>2, <1>3, <1>5, <2>3, <3>1, <3>2, <3>3
  <2>4. CASE k # l
    <3>1. i \in 1 .. Len(S[k]) /\ T[k] = S[k] /\ S[k][i] \in Nodes /\ S[k][i] # n
      BY <1>1, <1>2, <2>4
    <3>2. S[k][i] # m.head[l]
      BY <1>1, <1>5, <2>1, <2>4, <3>1
    <3> QED BY <1>3, <3>1, <3>2 DEF Stands, PreviousAre
  <2> QED BY <2>2, <2>3, <2>4
<1> QED BY <1>3, <1>4, <1>6, <1>7, <1>8, <1>9 DEF Stands, w, T

\* listAppend puts a node at the end.
LEMMA AppendStands ==
  ASSUME Orbits!SatellitesAssumption, NEW m, NEW S, Stands(m, S),
         NEW l \in Lists, NEW n \in Nodes, Absent(S, n)
  PROVE  Stands(Orbits!listAppend(m, l, n), [S EXCEPT ![l] = Append(S[l], n)])
<1> DEFINE w == Orbits!listAppend(m, l, n)
           T == [S EXCEPT ![l] = Append(S[l], n)]
<1>1. /\ m \in Memory /\ S \in [Lists -> Seq(Nodes)] /\ NULL \notin Nodes
      /\ \A k \in Lists : Len(S[k]) \in Nat /\ \A i \in 1 .. Len(S[k]) : S[k][i] \in Nodes /\ S[k][i] # n
  <2> HIDE DEF w, T
  <2> QED BY StandsFacts DEF Absent
<1>2. /\ T \in [Lists -> Seq(Nodes)]
      /\ \A k \in Lists : k # l => T[k] = S[k]
      /\ Len(T[l]) = Len(S[l]) + 1
      /\ \A i \in 1 .. Len(S[l]) + 1 : T[l][i] = IF i = Len(S[l]) + 1 THEN n ELSE S[l][i]
  <2>1. S[l] \in Seq(Nodes) /\ T[l] = Append(S[l], n)
    BY <1>1
  <2>2. T[l] \in Seq(Nodes) /\ Len(T[l]) = Len(S[l]) + 1
    BY <2>1
  <2>3. \A i \in 1 .. Len(S[l]) + 1 : T[l][i] = IF i = Len(S[l]) + 1 THEN n ELSE S[l][i]
    BY <2>1
  <2> QED BY <1>1, <2>2, <2>3
<1> HIDE DEF T
<1>3. /\ w \in Memory
      /\ \A k \in Lists : w.head[k] = IF k = l /\ m.head[l] = NULL THEN n ELSE m.head[k]
      /\ \A k \in Lists : w.tail[k] = IF k = l THEN n ELSE m.tail[k]
      /\ \A x \in Nodes : w.previous[x] = IF x = n THEN m.tail[l] ELSE m.previous[x]
      /\ \A x \in Nodes : w.next[x] = IF x = n THEN NULL
                                      ELSE IF x = m.tail[l] THEN n ELSE m.next[x]
  BY <1>1, AppendWrites
<1> HIDE DEF w
<1>4. \A c, d \in Lists : \A p \in 1 .. Len(S[c]), q \in 1 .. Len(S[d]) :
         S[c][p] = S[d][q] => c = d /\ p = q
  BY DEF Stands, Lines
<1>5. ASSUME NEW c \in Lists, NEW p \in 1 .. Len(T[c])
      PROVE  \/ c = l /\ p = Len(S[l]) + 1 /\ T[c][p] = n
             \/ p \in 1 .. Len(S[c]) /\ T[c][p] = S[c][p] /\ T[c][p] \in Nodes /\ T[c][p] # n
  <2>1. CASE c = l
    BY <1>1, <1>2, <2>1
  <2>2. CASE c # l
    BY <1>1, <1>2, <2>2
  <2> QED BY <2>1, <2>2
<1>6. Lines(T)
  <2> SUFFICES ASSUME NEW a \in Lists, NEW b \in Lists,
                      NEW i \in 1 .. Len(T[a]), NEW j \in 1 .. Len(T[b]), T[a][i] = T[b][j]
               PROVE  a = b /\ i = j
    BY <1>2 DEF Lines
  <2>1. CASE T[a][i] = n
    <3>1. a = l /\ i = Len(S[l]) + 1
      BY <1>5, <2>1
    <3>2. b = l /\ j = Len(S[l]) + 1
      BY <1>5, <2>1
    <3> QED BY <3>1, <3>2
  <2>2. CASE T[a][i] # n
    BY <1>4, <1>5, <2>2
  <2> QED BY <2>1, <2>2
<1>7. /\ m.head[l] = IF Len(S[l]) = 0 THEN NULL ELSE S[l][1]
      /\ m.tail[l] = IF Len(S[l]) = 0 THEN NULL ELSE S[l][Len(S[l])]
      /\ Len(S[l]) \in Nat
  BY <1>1 DEF Stands, HeadsAre, TailsAre
<1>8. HeadsAre(w, T)
  <2> SUFFICES ASSUME NEW k \in Lists
               PROVE  w.head[k] = IF Len(T[k]) = 0 THEN NULL ELSE T[k][1]
    BY DEF HeadsAre
  <2>1. CASE k = l
    BY <1>1, <1>2, <1>3, <1>7, <2>1
  <2>2. CASE k # l
    BY <1>2, <1>3, <2>2 DEF HeadsAre, Stands
  <2> QED BY <2>1, <2>2
<1>9. TailsAre(w, T)
  BY <1>1, <1>2, <1>3, <1>7 DEF TailsAre, Stands
<1>10. NextAre(w, T)
  <2> SUFFICES ASSUME NEW k \in Lists, NEW i \in 1 .. Len(T[k])
               PROVE  w.next[T[k][i]] = IF i = Len(T[k]) THEN NULL ELSE T[k][i + 1]
    BY DEF NextAre
  <2>1. CASE T[k][i] = n
    BY <1>2, <1>3, <1>5, <2>1
  <2>2. CASE T[k][i] # n
    <3>1. /\ i \in 1 .. Len(S[k]) /\ T[k][i] = S[k][i] /\ S[k][i] \in Nodes /\ S[k][i] # n
          /\ m.next[S[k][i]] = IF i = Len(S[k]) THEN NULL ELSE S[k][i + 1]
      BY <1>5, <2>2 DEF Stands, NextAre
    <3>2. S[k][i] = m.tail[l] <=> k = l /\ i = Len(S[l])
      BY <1>1, <1>4, <1>7, <3>1
    <3>3. CASE k = l
      <4>1. w.next[T[k][i]] = IF i = Len(S[l]) THEN n ELSE S[l][i + 1]
        BY <1>3, <3>1, <3>2, <3>3
      <4>2. i + 1 \in 1 .. Len(S[l]) + 1 /\ i # Len(T[l])
        BY <1>2, <1>7, <3>1, <3>3
      <4>3. T[l][i + 1] = IF i + 1 = Len(S[l]) + 1 THEN n ELSE S[l][i + 1]
        BY <1>2, <4>2
      <4> QED BY <1>7, <3>1, <3>3, <4>1, <4>2, <4>3
    <3>4. CASE k # l
      BY <1>2, <1>3, <3>1, <3>2, <3>4
    <3> QED BY <3>3, <3>4
  <2> QED BY <2>1, <2>2
<1>11. PreviousAre(w, T)
  <2> SUFFICES ASSUME NEW k \in Lists, NEW i \in 1 .. Len(T[k])
               PROVE  w.previous[T[k][i]] = IF i = 1 THEN NULL ELSE T[k][i - 1]
    BY DEF PreviousAre
  <2>1. CASE T[k][i] = n
    BY <1>2, <1>3, <1>5, <1>7, <2>1
  <2>2. CASE T[k][i] # n
    <3>1. /\ i \in 1 .. Len(S[k]) /\ T[k][i] = S[k][i] /\ S[k][i] \in Nodes /\ S[k][i] # n
          /\ m.previous[S[k][i]] = IF i = 1 THEN NULL ELSE S[k][i - 1]
      BY <1>5, <2>2 DEF Stands, PreviousAre
    <3>2. ASSUME i # 1 PROVE T[k][i - 1] = S[k][i - 1]
      <4>1. CASE k = l
        <5>1. i - 1 \in 1 .. Len(S[l]) + 1 /\ i - 1 # Len(S[l]) + 1
          BY <1>7, <3>1, <3>2, <4>1
        <5> QED BY <1>2, <4>1, <5>1
      <4>2. CASE k # l
        BY <1>2, <4>2
      <4> QED BY <4>1, <4>2
    <3> QED BY <1>3, <3>1, <3>2
  <2> QED BY <2>1, <2>2
<1> QED BY <1>3, <1>6, <1>8, <1>9, <1>10, <1>11 DEF Stands, w, T

\* Without the p-th.
Without(s, p) == SubSeq(s, 1, p - 1) \o SubSeq(s, p + 1, Len(s))

LEMMA WithoutIs ==
  ASSUME NEW D, NEW s \in Seq(D), NEW p \in 1 .. Len(s)
  PROVE  /\ Without(s, p) \in Seq(D) /\ Len(Without(s, p)) = Len(s) - 1
         /\ \A i \in 1 .. Len(s) - 1 : Without(s, p)[i] = IF i < p THEN s[i] ELSE s[i + 1]
<1> DEFINE a == SubSeq(s, 1, p - 1)
           b == SubSeq(s, p + 1, Len(s))
<1>1. /\ a \in Seq(D) /\ Len(a) = p - 1
      /\ \A i \in 1 .. p - 1 : a[i] = s[i]
  OBVIOUS
<1>2. /\ b \in Seq(D) /\ Len(b) = Len(s) - p
      /\ \A i \in 1 .. Len(s) - p : b[i] = s[p + i]
  OBVIOUS
<1>3. Without(s, p) = a \o b
  BY DEF Without
<1> HIDE DEF a, b
<1>4. /\ a \o b \in Seq(D) /\ Len(a \o b) = Len(s) - 1
      /\ \A i \in 1 .. Len(s) - 1 : (a \o b)[i] = IF i <= Len(a) THEN a[i] ELSE b[i - Len(a)]
  <2>1. /\ a \o b \in Seq(D) /\ Len(a \o b) = Len(a) + Len(b)
        /\ \A i \in 1 .. Len(a) + Len(b) : (a \o b)[i] = IF i <= Len(a) THEN a[i] ELSE b[i - Len(a)]
    BY <1>1, <1>2, ConcatProperties
  <2>2. Len(a) + Len(b) = Len(s) - 1
    BY <1>1, <1>2
  <2> QED BY <2>1, <2>2
<1>5. ASSUME NEW i \in 1 .. Len(s) - 1 PROVE (a \o b)[i] = IF i < p THEN s[i] ELSE s[i + 1]
  <2>1. CASE i < p
    BY <1>1, <1>4, <2>1
  <2>2. CASE ~ (i < p)
    <3>1. i - (p - 1) \in 1 .. Len(s) - p /\ p + (i - (p - 1)) = i + 1
      BY <2>2
    <3> QED BY <1>1, <1>2, <1>4, <2>2, <3>1
  <2> QED BY <2>1, <2>2
<1> QED BY <1>3, <1>4, <1>5

\* listRemove, when it has found the node, takes it out.
LEMMA RemoveStands ==
  ASSUME Orbits!SatellitesAssumption, NEW m, NEW S, Stands(m, S),
         NEW l \in Lists, NEW p \in 1 .. Len(S[l]), NEW n, n = S[l][p]
  PROVE  LET tail == IF n = m.tail[l] THEN m.previous[n] ELSE m.tail[l]
             T    == [S EXCEPT ![l] = Without(S[l], p)]
         IN  Stands(Orbits!Removed(m, l, n, tail), T) /\ Absent(T, n)
<1> DEFINE tail == IF n = m.tail[l] THEN m.previous[n] ELSE m.tail[l]
           w == Orbits!Removed(m, l, n, tail)
           T == [S EXCEPT ![l] = Without(S[l], p)]
<1>1. /\ m \in Memory /\ S \in [Lists -> Seq(Nodes)] /\ NULL \notin Nodes
      /\ \A k \in Lists : Len(S[k]) \in Nat /\ \A i \in 1 .. Len(S[k]) : S[k][i] \in Nodes
      /\ n \in Nodes /\ Len(S[l]) \in Nat
  <2> HIDE DEF tail, w, T
  <2> QED BY StandsFacts
<1>2. /\ T \in [Lists -> Seq(Nodes)]
      /\ \A k \in Lists : k # l => T[k] = S[k]
      /\ Len(T[l]) = Len(S[l]) - 1
      /\ \A i \in 1 .. Len(S[l]) - 1 : T[l][i] = IF i < p THEN S[l][i] ELSE S[l][i + 1]
  <2>1. S[l] \in Seq(Nodes) /\ T[l] = Without(S[l], p)
    BY <1>1
  <2> QED BY <1>1, <2>1, WithoutIs
<1> HIDE DEF T
<1>3. \A c, d \in Lists : \A i \in 1 .. Len(S[c]), j \in 1 .. Len(S[d]) :
         S[c][i] = S[d][j] => c = d /\ i = j
  BY DEF Stands, Lines
<1>4. /\ m.head[l] = S[l][1] /\ m.tail[l] = S[l][Len(S[l])]
      /\ m.next[n] = IF p = Len(S[l]) THEN NULL ELSE S[l][p + 1]
      /\ m.previous[n] = IF p = 1 THEN NULL ELSE S[l][p - 1]
  BY <1>1 DEF Stands, HeadsAre, TailsAre, NextAre, PreviousAre
<1>5. /\ tail \in Link
      /\ tail = IF p = Len(S[l]) THEN IF p = 1 THEN NULL ELSE S[l][p - 1] ELSE S[l][Len(S[l])]
  <2>1. n = m.tail[l] <=> p = Len(S[l])
    BY <1>1, <1>3, <1>4
  <2> QED BY <1>1, <1>4, <2>1 DEF Link
<1> HIDE DEF tail
<1>6. /\ w \in Memory
      /\ \A k \in Lists : w.head[k] = IF k = l /\ n = m.head[l] THEN m.next[n] ELSE m.head[k]
      /\ \A k \in Lists : w.tail[k] = IF k = l THEN tail ELSE m.tail[k]
      /\ \A x \in Nodes : w.previous[x] = IF x = n THEN NULL
                                          ELSE IF x = m.next[n] THEN m.previous[n]
                                          ELSE m.previous[x]
      /\ \A x \in Nodes : w.next[x] = IF x = n THEN NULL
                                      ELSE IF x = m.previous[n] THEN m.next[n]
                                      ELSE m.next[x]
  <2>1. m \in Memory /\ n \in Nodes /\ tail \in Link /\ w = Orbits!Removed(m, l, n, tail)
    BY <1>1, <1>5 DEF w
  <2> HIDE DEF w
  <2> QED BY <2>1, RemoveWrites
<1> HIDE DEF w
<1> DEFINE Was(c, i) == IF c = l /\ i >= p THEN i + 1 ELSE i
<1>7. ASSUME NEW c \in Lists, NEW i \in 1 .. Len(T[c])
      PROVE  /\ Was(c, i) \in 1 .. Len(S[c]) /\ T[c][i] = S[c][Was(c, i)]
             /\ T[c][i] \in Nodes /\ T[c][i] # n
  <2>1. CASE c = l
    <3>1. Was(c, i) \in 1 .. Len(S[c]) /\ T[c][i] = S[c][Was(c, i)] /\ Was(c, i) # p
      BY <1>1, <1>2, <2>1
    <3> HIDE DEF Was
    <3> QED BY <1>1, <1>3, <2>1, <3>1
  <2>2. CASE c # l
    <3>1. Was(c, i) \in 1 .. Len(S[c]) /\ T[c][i] = S[c][Was(c, i)]
      BY <1>1, <1>2, <2>2
    <3> HIDE DEF Was
    <3> QED BY <1>1, <1>3, <2>2, <3>1
  <2> QED BY <2>1, <2>2
<1>8. Lines(T)
  <2> SUFFICES ASSUME NEW a \in Lists, NEW b \in Lists,
                      NEW i \in 1 .. Len(T[a]), NEW j \in 1 .. Len(T[b]), T[a][i] = T[b][j]
               PROVE  a = b /\ i = j
    BY <1>2 DEF Lines
  <2>1. a = b /\ Was(a, i) = Was(b, j)
    <3>1. /\ Was(a, i) \in 1 .. Len(S[a]) /\ T[a][i] = S[a][Was(a, i)]
          /\ Was(b, j) \in 1 .. Len(S[b]) /\ T[b][j] = S[b][Was(b, j)]
      <4> HIDE DEF Was
      <4> QED BY <1>7
    <3> DEFINE u == Was(a, i)
               v == Was(b, j)
    <3>2. u \in 1 .. Len(S[a]) /\ v \in 1 .. Len(S[b]) /\ S[a][u] = S[b][v]
      BY <3>1
    <3> HIDE DEF u, v
    <3>3. a = b /\ u = v
      BY <1>3, <3>2
    <3> QED BY <3>3 DEF u, v
  <2>2. i \in Nat /\ j \in Nat
    BY <1>2
  <2> QED BY <2>1, <2>2
<1>9. Absent(T, n)
  BY <1>7 DEF Absent
<1>10. HeadsAre(w, T)
  <2> SUFFICES ASSUME NEW k \in Lists
               PROVE  w.head[k] = IF Len(T[k]) = 0 THEN NULL ELSE T[k][1]
    BY DEF HeadsAre
  <2>1. CASE k = l
    <3>1. n = m.head[l] <=> p = 1
      BY <1>1, <1>3, <1>4
    <3> QED BY <1>1, <1>2, <1>4, <1>6, <2>1, <3>1
  <2>2. CASE k # l
    <3>1. w.head[k] = m.head[k] /\ T[k] = S[k]
      BY <1>2, <1>6, <2>2
    <3> QED BY <3>1 DEF HeadsAre, Stands
  <2> QED BY <2>1, <2>2
<1>11. TailsAre(w, T)
  <2> SUFFICES ASSUME NEW k \in Lists
               PROVE  w.tail[k] = IF Len(T[k]) = 0 THEN NULL ELSE T[k][Len(T[k])]
    BY DEF TailsAre
  <2>1. CASE k = l
    BY <1>1, <1>2, <1>5, <1>6, <2>1
  <2>2. CASE k # l
    BY <1>2, <1>6, <2>2 DEF TailsAre, Stands
  <2> QED BY <2>1, <2>2
<1>12. NextAre(w, T)
  <2> SUFFICES ASSUME NEW k \in Lists, NEW i \in 1 .. Len(T[k])
               PROVE  w.next[T[k][i]] = IF i = Len(T[k]) THEN NULL ELSE T[k][i + 1]
    BY DEF NextAre
  <2> DEFINE j == Was(k, i)
  <2>1. /\ j \in 1 .. Len(S[k]) /\ T[k][i] = S[k][j] /\ S[k][j] \in Nodes /\ S[k][j] # n
        /\ m.next[S[k][j]] = IF j = Len(S[k]) THEN NULL ELSE S[k][j + 1]
    <3> HIDE DEF Was
    <3> QED BY <1>7 DEF Stands, NextAre
  <2>2. S[k][j] = m.previous[n] <=> k = l /\ j = p - 1
    <3>1. p # 1 => p - 1 \in 1 .. Len(S[l])
      BY <1>1
    <3>2. j \in Nat
      BY <2>1
    <3> HIDE DEF j
    <3> QED BY <1>1, <1>3, <1>4, <2>1, <3>1, <3>2
  <2>3. w.next[T[k][i]] = IF k = l /\ j = p - 1 THEN m.next[n] ELSE m.next[S[k][j]]
    <3> HIDE DEF j
    <3> QED BY <1>6, <2>1, <2>2
  <2>4. CASE k = l
    <3>1. i \in 1 .. Len(S[l]) - 1 /\ p \in 1 .. Len(S[l]) /\ Len(T[k]) = Len(S[l]) - 1
      BY <1>2, <2>4
    <3>2. CASE i < p - 1
      <4>1. j = i /\ i + 1 \in 1 .. Len(S[l]) - 1 /\ i + 1 < p /\ i # Len(S[l]) - 1
        BY <1>1, <2>4, <3>1, <3>2
      <4>2. T[l][i + 1] = S[l][i + 1]
        BY <1>2, <4>1
      <4> QED BY <1>1, <2>1, <2>3, <2>4, <3>1, <3>2, <4>1, <4>2
    <3>3. CASE i = p - 1
      <4>1. j = p - 1 /\ w.next[T[k][i]] = IF p = Len(S[l]) THEN NULL ELSE S[l][p + 1]
        BY <1>1, <1>4, <2>3, <2>4, <3>1, <3>3
      <4>2. ASSUME p # Len(S[l]) PROVE T[l][p] = S[l][p + 1]
        <5>1. p \in 1 .. Len(S[l]) - 1 /\ ~ (p < p)
          BY <1>1, <3>1, <4>2
        <5> QED BY <1>2, <5>1
      <4> QED BY <1>1, <2>4, <3>1, <3>3, <4>1, <4>2
    <3>4. CASE i > p - 1
      <4>1. j = i + 1 /\ j # p - 1
        BY <1>1, <2>4, <3>1, <3>4
      <4>2. ASSUME i # Len(S[l]) - 1 PROVE T[l][i + 1] = S[l][i + 1 + 1]
        <5>1. i + 1 \in 1 .. Len(S[l]) - 1 /\ ~ (i + 1 < p)
          BY <1>1, <3>1, <3>4, <4>2
        <5> QED BY <1>2, <5>1
      <4> QED BY <1>1, <2>1, <2>3, <2>4, <3>1, <4>1, <4>2
    <3> QED BY <1>1, <3>1, <3>2, <3>3, <3>4
  <2>5. CASE k # l
    BY <1>2, <2>1, <2>3, <2>5
  <2> QED BY <2>4, <2>5
<1>13. PreviousAre(w, T)
  <2> SUFFICES ASSUME NEW k \in Lists, NEW i \in 1 .. Len(T[k])
               PROVE  w.previous[T[k][i]] = IF i = 1 THEN NULL ELSE T[k][i - 1]
    BY DEF PreviousAre
  <2> DEFINE j == Was(k, i)
  <2>1. /\ j \in 1 .. Len(S[k]) /\ T[k][i] = S[k][j] /\ S[k][j] \in Nodes /\ S[k][j] # n
        /\ m.previous[S[k][j]] = IF j = 1 THEN NULL ELSE S[k][j - 1]
    <3> HIDE DEF Was
    <3> QED BY <1>7 DEF Stands, PreviousAre
  <2>2. S[k][j] = m.next[n] <=> k = l /\ j = p + 1
    <3>1. p # Len(S[l]) => p + 1 \in 1 .. Len(S[l])
      BY <1>1
    <3>2. j \in Nat
      BY <2>1
    <3> HIDE DEF j
    <3> QED BY <1>1, <1>3, <1>4, <2>1, <3>1, <3>2
  <2>3. w.previous[T[k][i]] = IF k = l /\ j = p + 1 THEN m.previous[n] ELSE m.previous[S[k][j]]
    <3> HIDE DEF j
    <3> QED BY <1>6, <2>1, <2>2
  <2>4. CASE k = l
    BY <1>1, <1>2, <1>4, <2>1, <2>3, <2>4
  <2>5. CASE k # l
    BY <1>2, <2>1, <2>3, <2>5
  <2> QED BY <2>4, <2>5
<1> QED BY <1>6, <1>8, <1>9, <1>10, <1>11, <1>12, <1>13 DEF Stands, w, T, tail

-----------------------------------------------------------------------------
(* The loops over the lists.                                               *)

\* The cardinality that the instance counts with is the one of the library.
LEMMA SameCardinality == \A X : Orbits!Cardinality(X) = Cardinality(X)
BY DEF Orbits!Cardinality, Cardinality

\* A list is no longer than there are nodes.
LEMMA LineIsShort ==
  ASSUME Orbits!SatellitesAssumption, NEW S, Lines(S), NEW l \in Lists
  PROVE  Len(S[l]) \in Nat /\ Len(S[l]) <= TRAIN_MAX
<1> DEFINE s == S[l]
           n == Len(s)
<1>1. s \in Seq(Nodes) /\ n \in Nat /\ \A i, j \in 1 .. n : s[i] = s[j] => i = j
  BY DEF Lines
<1>2. s \in [1 .. n -> Nodes]
  BY <1>1
<1>3. s \in Injection(1 .. n, Nodes)
  BY <1>1, <1>2 DEF Injection, IsInjective
<1>4. IsFiniteSet(Nodes) /\ Cardinality(Nodes) = TRAIN_MAX
  BY NodesAre
<1> HIDE DEF s, n
<1>5. Cardinality(1 .. n) <= Cardinality(Nodes)
  BY <1>3, <1>4, FS_Injection
<1>6. Cardinality(1 .. n) = IF 1 > n THEN 0 ELSE n - 1 + 1
  BY <1>1, FS_Interval
<1>7. TRAIN_MAX \in Nat
  BY NodesAre
<1>8. n \in Nat /\ n <= TRAIN_MAX
  BY <1>1, <1>4, <1>5, <1>6, <1>7
<1> QED BY <1>8 DEF n, s

\* What Walk computes.
Steps(at, N, m, l) ==
    at = [i \in 1 .. N + 1 |-> IF i = 1 THEN m.head[l]
                               ELSE IF at[i - 1] = NULL THEN NULL
                               ELSE m.next[at[i - 1]]]

\* A loop from the head finds the sequence, in its order.
LEMMA WalkIs ==
  ASSUME Orbits!SatellitesAssumption, NEW m, NEW S, Stands(m, S), NEW l \in Lists
  PROVE  Orbits!Walk(m, l) = S[l]
<1> DEFINE s == S[l]
           n == Len(s)
           N == Orbits!Cardinality(DOMAIN m.next)
           f == [i \in 1 .. N + 1 |-> IF i <= n THEN s[i] ELSE NULL]
           at == CHOOSE g : Steps(g, N, m, l)
<1>1. /\ s \in Seq(Nodes) /\ n \in Nat /\ n <= N /\ N \in Nat \ {0}
      /\ NULL \notin Nodes 
      /\ m.head[l] = IF n = 0 THEN NULL ELSE s[1]
      /\ \A i \in 1 .. n : m.next[s[i]] = IF i = n THEN NULL ELSE s[i + 1]
      /\ \A i \in 1 .. n : s[i] \in Nodes /\ s[i] # NULL
      /\ DOMAIN m.next = Nodes
  <2>1. Len(S[l]) \in Nat /\ Len(S[l]) <= TRAIN_MAX
    BY LineIsShort DEF Stands
  <2>2. /\ NULL \notin Nodes /\ IsFiniteSet(Nodes) /\ Cardinality(Nodes) = TRAIN_MAX
        /\ TRAIN_MAX \in Nat \ {0}
    BY NodesAre
  <2>3. S[l] \in Seq(Nodes) /\ DOMAIN m.next = Nodes
    BY DEF Stands, Lines, Memory
  <2>4. /\ m.head[l] = IF Len(S[l]) = 0 THEN NULL ELSE S[l][1]
        /\ \A i \in 1 .. Len(S[l]) : m.next[S[l][i]] = IF i = Len(S[l]) THEN NULL ELSE S[l][i + 1]
    BY DEF Stands, HeadsAre, NextAre
  <2>5. \A i \in 1 .. n : s[i] \in Nodes /\ s[i] # NULL
    BY <2>2, <2>3
  <2>6. N = TRAIN_MAX
    BY <2>2, <2>3, SameCardinality
  <2> QED BY <2>1, <2>2, <2>3, <2>4, <2>5, <2>6
<1>2. Orbits!Walk(m, l) = SubSeq(at, 1, Orbits!Cardinality({i \in 1 .. N : at[i] # NULL}))
  BY DEF Orbits!Walk, Steps
<1> HIDE DEF s, n, N
<1> DEFINE V(g, i) == IF i = 1 THEN m.head[l]
                      ELSE IF g[i - 1] = NULL THEN NULL
                      ELSE m.next[g[i - 1]]
<1>3. Steps(f, N, m, l)
  <2>1. ASSUME NEW i \in 1 .. N + 1 PROVE f[i] = V(f, i)
    <3>1. CASE i = 1
      BY <1>1, <3>1
    <3>2. CASE i # 1
      <4>1. i - 1 \in 1 .. N /\ i - 1 \in 1 .. N + 1
        BY <1>1, <3>2
      <4>2. /\ f[i] = IF i <= n THEN s[i] ELSE NULL
            /\ f[i - 1] = IF i - 1 <= n THEN s[i - 1] ELSE NULL
        BY <4>1
      <4>3. i - 1 <= n => i - 1 \in 1 .. n
        BY <1>1, <4>1
      <4> QED BY <1>1, <3>2, <4>1, <4>2, <4>3
    <3> QED BY <3>1, <3>2
  <2>2. f = [i \in 1 .. N + 1 |-> f[i]]
    OBVIOUS
  <2> HIDE DEF f
  <2>3. f = [i \in 1 .. N + 1 |-> V(f, i)]
    <3> HIDE DEF V
    <3> QED BY <2>1, <2>2
  <2> QED BY <2>3 DEF Steps
<1>4. Steps(at, N, m, l)
  BY <1>3
<1> HIDE DEF at
<1>5. /\ DOMAIN at = 1 .. N + 1
      /\ \A i \in 1 .. N + 1 : at[i] = V(at, i)
  <2> HIDE DEF V
  <2>1. at = [i \in 1 .. N + 1 |-> V(at, i)]
    BY <1>4 DEF Steps, V
  <2> QED BY <2>1
<1> DEFINE T == {i \in Nat : i + 1 \in 1 .. N + 1 => at[i + 1] = IF i + 1 <= n THEN s[i + 1] ELSE NULL}
<1>6. 0 \in T
  <2>1. 1 \in 1 .. N + 1 /\ at[1] = m.head[l]
    BY <1>1, <1>5
  <2> QED BY <1>1, <2>1
<1>7. ASSUME NEW i \in Nat, i \in T PROVE i + 1 \in T
  <2> SUFFICES ASSUME i + 1 + 1 \in 1 .. N + 1
               PROVE  at[i + 1 + 1] = IF i + 1 + 1 <= n THEN s[i + 1 + 1] ELSE NULL
    OBVIOUS
  <2>1. i + 1 \in 1 .. N + 1 /\ i + 1 + 1 # 1 /\ i + 1 + 1 - 1 = i + 1
    BY <1>1
  <2>2. at[i + 1] = IF i + 1 <= n THEN s[i + 1] ELSE NULL
    BY <1>7, <2>1
  <2>3. at[i + 1 + 1] = IF at[i + 1] = NULL THEN NULL ELSE m.next[at[i + 1]]
    BY <1>5, <2>1
  <2>4. CASE i + 1 <= n
    <3>1. i + 1 \in 1 .. n
      BY <1>1, <2>4
    <3>2. m.next[s[i + 1]] = IF i + 1 = n THEN NULL ELSE s[i + 1 + 1]
      BY <1>1, <3>1
    <3> QED BY <1>1, <2>2, <2>3, <2>4, <3>1, <3>2
  <2>5. CASE ~ (i + 1 <= n)
    BY <1>1, <2>2, <2>3, <2>5
  <2> QED BY <2>4, <2>5
<1> HIDE DEF T
<1>8. \A i \in Nat : i \in T
  BY <1>6, <1>7, Induction
<1>9. ASSUME NEW i \in 1 .. N + 1 PROVE at[i] = IF i <= n THEN s[i] ELSE NULL
  <2>1. i - 1 \in Nat /\ (i - 1) + 1 = i
    BY <1>1
  <2> QED BY <1>8, <2>1 DEF T
<1>10. {i \in 1 .. N : at[i] # NULL} = 1 .. n
  <2>1. ASSUME NEW i \in 1 .. N PROVE at[i] # NULL <=> i <= n
    BY <1>1, <1>9
  <2> QED BY <1>1, <2>1
<1>11. Orbits!Cardinality(1 .. n) = n
  BY <1>1, FS_Interval, SameCardinality
<1>12. SubSeq(at, 1, n) = s
  <2>1. s = [i \in 1 .. n |-> s[i]]
    BY <1>1 DEF n
  <2>2. SubSeq(at, 1, n) = [i \in 1 .. n |-> at[i]]
    <3>1. at \in Seq(Link)
      <4>1. at = [i \in 1 .. N + 1 |-> at[i]]
        BY <1>4 DEF Steps
      <4>2. \A i \in 1 .. N + 1 : at[i] \in Link
        BY <1>1, <1>9 DEF Link
      <4>3. N + 1 \in Nat
        BY <1>1
      <4> QED BY <4>1, <4>2, <4>3
    <3> QED BY <1>1, <1>5, <3>1
  <2>3. \A i \in 1 .. n : at[i] = s[i]
    BY <1>1, <1>9
  <2> QED BY <2>1, <2>2, <2>3
<1> QED BY <1>2, <1>10, <1>11, <1>12 DEF s

LEMMA IsInIs ==
  ASSUME Orbits!SatellitesAssumption, NEW m, NEW S, Stands(m, S), NEW l \in Lists, NEW n
  PROVE  Orbits!IsIn(m, l, n) <=> \E i \in 1 .. Len(S[l]) : S[l][i] = n
<1>1. Orbits!Walk(m, l) = S[l]
  BY WalkIs
<1> QED BY <1>1 DEF Orbits!IsIn

\* What InOrder computes, list by list.
ListByList(upTo, m, n) ==
    upTo = [o \in 0 .. n |-> IF o = 0 THEN << >> ELSE upTo[o - 1] \o Orbits!Walk(m, o - 1)]

LEMMA ListsExist ==
  ASSUME NEW m
  PROVE  \A n \in Nat : \E f : ListByList(f, m, n)
<1> DEFINE W(f, o) == IF o = 0 THEN << >> ELSE f[o - 1] \o Orbits!Walk(m, o - 1)
           T == {n \in Nat : \E f : ListByList(f, m, n)}
<1>1. 0 \in T
  <2> DEFINE f == [k \in 0 .. 0 |-> << >>]
  <2>1. \A k \in 0 .. 0 : f[k] = W(f, k)
    OBVIOUS
  <2>2. f = [k \in 0 .. 0 |-> f[k]]
    OBVIOUS
  <2> HIDE DEF f
  <2>3. f = [k \in 0 .. 0 |-> W(f, k)]
    <3> HIDE DEF W
    <3> QED BY <2>1, <2>2
  <2>4. ListByList(f, m, 0)
    BY <2>3 DEF ListByList
  <2> QED BY <2>4
<1>2. ASSUME NEW n \in Nat, n \in T PROVE n + 1 \in T
  <2>1. PICK f : ListByList(f, m, n)
    BY <1>2
  <2>2. \A k \in 0 .. n : f[k] = W(f, k)
    <3>1. f = [k \in 0 .. n |-> W(f, k)]
      BY <2>1 DEF ListByList
    <3> HIDE DEF W
    <3> QED BY <3>1
  <2> DEFINE g == [k \in 0 .. n + 1 |-> IF k = n + 1 THEN W(f, n + 1) ELSE f[k]]
  <2>3. ASSUME NEW k \in 0 .. n + 1 PROVE g[k] = W(g, k)
    <3>1. CASE k = n + 1
      <4>1. g[k] = W(f, k) /\ k # 0 /\ k - 1 = n /\ n \in 0 .. n + 1 /\ n # n + 1
        BY <3>1
      <4>2. g[k - 1] = f[k - 1]
        BY <4>1
      <4> QED BY <4>1, <4>2
    <3>2. CASE k # n + 1 /\ k = 0
      <4>1. g[k] = f[k] /\ k \in 0 .. n
        BY <3>2
      <4>2. f[k] = << >>
        BY <2>2, <3>2, <4>1
      <4> QED BY <3>2, <4>1, <4>2
    <3>3. CASE k # n + 1 /\ k # 0
      <4>1. k \in 0 .. n /\ k - 1 \in 0 .. n + 1 /\ k - 1 # n + 1
        BY <3>3
      <4>2. g[k] = f[k] /\ g[k - 1] = f[k - 1]
        BY <3>3, <4>1
      <4>3. f[k] = f[k - 1] \o Orbits!Walk(m, k - 1)
        BY <2>2, <3>3, <4>1
      <4> QED BY <3>3, <4>2, <4>3
    <3> QED BY <3>1, <3>2, <3>3
  <2>4. g = [k \in 0 .. n + 1 |-> g[k]]
    OBVIOUS
  <2> HIDE DEF g
  <2>5. g = [k \in 0 .. n + 1 |-> W(g, k)]
    <3> HIDE DEF W
    <3> QED BY <2>3, <2>4
  <2>6. ListByList(g, m, n + 1)
    BY <2>5 DEF ListByList
  <2> QED BY <2>6
<1> HIDE DEF T
<1>3. \A n \in Nat : n \in T
  BY <1>1, <1>2, Induction
<1> QED BY <1>3 DEF T

\* The nodes of the first lists in w, in their order: every node follows its
\* previous one, and the first of a list has none.
Gathered(m, S, o, w) ==
    /\ w \in Seq(Nodes)
    /\ \A i, j \in 1 .. Len(w) : w[i] = w[j] => i = j
    /\ \A i \in 1 .. Len(w) : \E l \in Lists : l < o /\ \E j \in 1 .. Len(S[l]) : S[l][j] = w[i]
    /\ \A l \in Lists : l < o => \A j \in 1 .. Len(S[l]) : \E i \in 1 .. Len(w) : S[l][j] = w[i]
    /\ \A i \in 1 .. Len(w) :
          m.previous[w[i]] = NULL \/ (i # 1 /\ m.previous[w[i]] = w[i - 1])

LEMMA NoneGathered ==
  ASSUME Orbits!SatellitesAssumption, NEW m, NEW S
  PROVE  Gathered(m, S, 0, << >>)
<1>1. \A l \in Lists : ~ (l < 0)
  BY NodesAre
<1> QED BY <1>1 DEF Gathered

LEMMA OneMoreGathered ==
  ASSUME Orbits!SatellitesAssumption, NEW m, NEW S, Stands(m, S),
         NEW o \in Lists, NEW w, Gathered(m, S, o, w)
  PROVE  Gathered(m, S, o + 1, w \o S[o])
<1> DEFINE s == S[o]
           r == w \o s
           a == Len(w)
           b == Len(s)
<1>1. /\ w \in Seq(Nodes) /\ s \in Seq(Nodes) /\ a \in Nat /\ b \in Nat
      /\ NULL \notin Nodes /\ Lists \subseteq Nat
  BY NodesAre DEF Gathered, Stands, Lines
<1>2. /\ r \in Seq(Nodes) /\ Len(r) = a + b
      /\ \A i \in 1 .. a + b : r[i] = IF i <= a THEN w[i] ELSE s[i - a]
  BY <1>1, ConcatProperties
<1>3. /\ \A i, j \in 1 .. b : s[i] = s[j] => i = j
      /\ \A i \in 1 .. b : m.previous[s[i]] = IF i = 1 THEN NULL ELSE s[i - 1]
  BY DEF Stands, Lines, PreviousAre
<1>4. ASSUME NEW i \in 1 .. a, NEW j \in 1 .. b PROVE w[i] # s[j]
  <2>1. PICK l \in Lists : l < o /\ \E k \in 1 .. Len(S[l]) : S[l][k] = w[i]
    BY DEF Gathered
  <2>2. PICK k \in 1 .. Len(S[l]) : S[l][k] = w[i]
    BY <2>1
  <2>3. l # o
    BY <1>1, <2>1
  <2>4. S[l][k] # S[o][j]
    BY <2>2, <2>3 DEF Stands, Lines
  <2> QED BY <2>2, <2>4
<1> HIDE DEF s, r, a, b
<1>5. ASSUME NEW i \in 1 .. a + b
      PROVE  \/ i \in 1 .. a /\ r[i] = w[i]
             \/ i > a /\ i - a \in 1 .. b /\ r[i] = s[i - a]
  <2>1. CASE i <= a
    BY <1>1, <1>2, <2>1
  <2>2. CASE ~ (i <= a)
    BY <1>1, <1>2, <2>2
  <2> QED BY <2>1, <2>2
<1>6. ASSUME NEW i \in 1 .. a + b, NEW j \in 1 .. a + b, r[i] = r[j] PROVE i = j
  <2>1. CASE i \in 1 .. a /\ r[i] = w[i]
    <3>1. j \in 1 .. a /\ r[j] = w[j]
      BY <1>4, <1>5, <1>6, <2>1
    <3>2. w[i] = w[j]
      BY <1>6, <2>1, <3>1
    <3>3. \A p, q \in 1 .. a : w[p] = w[q] => p = q
      BY DEF Gathered, a
    <3> QED BY <2>1, <3>1, <3>2, <3>3
  <2>2. CASE i > a /\ i - a \in 1 .. b /\ r[i] = s[i - a]
    <3>1. j > a /\ j - a \in 1 .. b /\ r[j] = s[j - a]
      BY <1>4, <1>5, <1>6, <2>2
    <3>2. i - a = j - a
      BY <1>3, <1>6, <2>2, <3>1
    <3> QED BY <1>1, <3>2
  <2> QED BY <1>5, <2>1, <2>2
<1>7. ASSUME NEW i \in 1 .. a + b
      PROVE  \E l \in Lists : l < o + 1 /\ \E j \in 1 .. Len(S[l]) : S[l][j] = r[i]
  <2>1. CASE i \in 1 .. a /\ r[i] = w[i]
    <3>1. PICK l \in Lists : l < o /\ \E j \in 1 .. Len(S[l]) : S[l][j] = w[i]
      BY <2>1 DEF Gathered, a
    <3>2. l < o + 1
      BY <1>1, <3>1
    <3> QED BY <2>1, <3>1, <3>2
  <2>2. CASE i > a /\ i - a \in 1 .. b /\ r[i] = s[i - a]
    <3>1. o < o + 1
      BY <1>1
    <3> QED BY <2>2, <3>1 DEF s, b
  <2> QED BY <1>5, <2>1, <2>2
<1>8. ASSUME NEW l \in Lists, l < o + 1, NEW j \in 1 .. Len(S[l])
      PROVE  \E i \in 1 .. a + b : S[l][j] = r[i]
  <2>1. CASE l = o
    <3>1. j \in 1 .. b /\ S[l][j] = s[j]
      BY <2>1 DEF s, b
    <3>2. a + j \in 1 .. a + b /\ ~ (a + j <= a) /\ (a + j) - a = j
      BY <1>1, <3>1
    <3> QED BY <1>2, <3>1, <3>2
  <2>2. CASE l # o
    <3>1. l < o
      BY <1>1, <1>8, <2>2
    <3>2. PICK i \in 1 .. a : S[l][j] = w[i]
      BY <3>1 DEF Gathered, a
    <3>3. i \in 1 .. a + b /\ i <= a
      BY <1>1
    <3> QED BY <1>2, <3>2, <3>3
  <2> QED BY <2>1, <2>2
<1>9. ASSUME NEW i \in 1 .. a + b
      PROVE  m.previous[r[i]] = NULL \/ (i # 1 /\ m.previous[r[i]] = r[i - 1])
  <2>1. CASE i \in 1 .. a /\ r[i] = w[i]
    <3>1. m.previous[w[i]] = NULL \/ (i # 1 /\ m.previous[w[i]] = w[i - 1])
      BY <2>1 DEF Gathered, a
    <3>2. i # 1 => r[i - 1] = w[i - 1]
      <4>1. i # 1 => i - 1 \in 1 .. a + b /\ i - 1 <= a
        BY <1>1, <2>1
      <4> QED BY <1>2, <4>1
    <3> QED BY <2>1, <3>1, <3>2
  <2>2. CASE i > a /\ i - a \in 1 .. b /\ r[i] = s[i - a]
    <3>1. CASE i - a = 1
      BY <1>3, <2>2, <3>1
    <3>2. CASE i - a # 1
      <4>1. m.previous[r[i]] = s[(i - a) - 1] /\ i # 1
        BY <1>1, <1>3, <2>2, <3>2
      <4>2. i - 1 \in 1 .. a + b /\ ~ (i - 1 <= a) /\ (i - a) - 1 = (i - 1) - a
        BY <1>1, <2>2, <3>2
      <4> QED BY <1>2, <4>1, <4>2
    <3> QED BY <3>1, <3>2
  <2> QED BY <1>5, <2>1, <2>2
<1>10. Gathered(m, S, o + 1, r)
  BY <1>2, <1>6, <1>7, <1>8, <1>9 DEF Gathered
<1> QED BY <1>10 DEF r, s

\* The loops over all lists find every node that is in one, once.
LEMMA InOrderIs ==
  ASSUME Orbits!SatellitesAssumption, NEW m, NEW S, Stands(m, S)
  PROVE  Gathered(m, S, ORBIT_MAX, Orbits!InOrder(m))
<1> DEFINE N == ORBIT_MAX
           f == CHOOSE g : ListByList(g, m, N)
           T == {o \in Nat : o <= N => Gathered(m, S, o, f[o])}
<1>1. N \in Nat /\ Lists = 0 .. N - 1
  BY NodesAre
<1>2. Orbits!InOrder(m) = f[N]
  BY DEF Orbits!InOrder, ListByList
<1>3. ListByList(f, m, N)
  <2>1. \E g : ListByList(g, m, N)
    BY <1>1, ListsExist
  <2> QED BY <2>1
<1> HIDE DEF N, f
<1>4. \A o \in 0 .. N : f[o] = IF o = 0 THEN << >> ELSE f[o - 1] \o Orbits!Walk(m, o - 1)
  <2> DEFINE V(o) == IF o = 0 THEN << >> ELSE f[o - 1] \o Orbits!Walk(m, o - 1)
  <2>1. f = [o \in 0 .. N |-> V(o)]
    BY <1>3 DEF ListByList
  <2> HIDE DEF V
  <2>2. \A o \in 0 .. N : f[o] = V(o)
    BY <2>1
  <2> QED BY <2>2 DEF V
<1>5. 0 \in T
  <2>1. f[0] = << >>
    BY <1>1, <1>4
  <2> QED BY <2>1, NoneGathered
<1>6. ASSUME NEW o \in Nat, o \in T PROVE o + 1 \in T
  <2> SUFFICES ASSUME o + 1 <= N PROVE Gathered(m, S, o + 1, f[o + 1])
    OBVIOUS
  <2>1. o \in Lists /\ o <= N /\ o + 1 \in 0 .. N /\ o + 1 # 0 /\ (o + 1) - 1 = o
    BY <1>1
  <2>2. Gathered(m, S, o, f[o])
    BY <1>6, <2>1
  <2>3. f[o + 1] = f[o] \o Orbits!Walk(m, o)
    BY <1>4, <2>1
  <2>4. Orbits!Walk(m, o) = S[o]
    BY <2>1, WalkIs
  <2> QED BY <2>1, <2>2, <2>3, <2>4, OneMoreGathered
<1> HIDE DEF T
<1>7. \A o \in Nat : o \in T
  BY <1>5, <1>6, Induction
<1>8. Gathered(m, S, N, f[N])
  BY <1>1, <1>7 DEF T
<1> QED BY <1>2, <1>8 DEF N

\* So each node but the first has the one in front of it as its parent.
LEMMA TrainParentIs ==
  ASSUME Orbits!SatellitesAssumption, NEW m, NEW S, NEW w, Gathered(m, S, ORBIT_MAX, w),
         NEW i \in 1 .. Len(w)
  PROVE  Orbits!Parent(m, w, i) = IF i = 1 THEN NULL ELSE w[i - 1]
<1>1. /\ Len(w) \in Nat /\ \A k \in 1 .. Len(w) : w[k] \in Nodes
      /\ NULL \notin Nodes
  BY NodesAre DEF Gathered
<1>2. m.previous[w[i]] = NULL \/ (i # 1 /\ m.previous[w[i]] = w[i - 1])
  BY DEF Gathered
<1>3. CASE m.previous[w[i]] # NULL
  BY <1>2, <1>3 DEF Orbits!Parent
<1>4. CASE m.previous[w[i]] = NULL /\ i = 1
  <2>1. 1 .. i - 1 = {}
    BY <1>4
  <2> QED BY <1>4, <2>1 DEF Orbits!Parent
<1>5. CASE m.previous[w[i]] = NULL /\ i # 1
  <2>1. 1 \in 1 .. Len(w) /\ 1 \in 1 .. i - 1
    BY <1>1, <1>5
  <2>2. m.previous[w[1]] = NULL
    BY <2>1 DEF Gathered
  <2> QED BY <1>5, <2>1, <2>2 DEF Orbits!Parent
<1> QED BY <1>3, <1>4, <1>5

-----------------------------------------------------------------------------
(* What the drivers keep.                                                  *)

Has(s, x) == \E i \in 1 .. Len(s) : s[i] = x

\* The trains in the sequence of an orbit are those that were ordered to it.
Manned(S, where) ==
    \A l \in Lists, t \in Nodes : Has(S[l], t) <=> where[t] = l

SatellitesInv ==
    /\ orbit \in [Nodes -> Lists \cup {NULL}]
    /\ \E S : Stands(satellite_lists, S) /\ Manned(S, orbit)

LEMMA SatellitesInit ==
  ASSUME Orbits!SatellitesAssumption, Orbits!Init
  PROVE  SatellitesInv
<1> DEFINE S == [l \in Lists |-> << >>]
<1>1. /\ satellite_lists = Orbits!listInitial(Lists, Nodes)
      /\ orbit = [t \in Nodes |-> NULL] /\ NULL \notin Lists
  BY NodesAre DEF Orbits!Init, Lists, Nodes
<1>2. Stands(satellite_lists, S)
  BY <1>1, InitialStands
<1>3. Manned(S, orbit)
  BY <1>1 DEF Manned, Has
<1> QED BY <1>1, <1>2, <1>3 DEF SatellitesInv

\* The hierarchy as a step leaves it: the trains in order, each with its parent.
LEMMA RankedIs ==
  ASSUME Orbits!SatellitesAssumption, NEW m, NEW S, Stands(m, S),
         NEW where \in [Nodes -> Lists \cup {NULL}], Manned(S, where)
  PROVE  LET w == Orbits!InOrder(m)
             placed == {t \in Nodes : where[t] # NULL}
         IN  /\ Len(w) \in Nat /\ Len(w) = Cardinality(placed)
             /\ \A i \in 1 .. Len(w) : w[i] \in placed
             /\ \A i, j \in 1 .. Len(w) : w[i] = w[j] => i = j
             /\ \A t \in placed : Orbits!IsIn(m, where[t], t)
             /\ \A i \in 1 .. Len(w) :
                   Orbits!Parent(m, w, i) = IF i = 1 THEN NULL ELSE w[i - 1]
<1> DEFINE w == Orbits!InOrder(m)
           n == Len(w)
           placed == {t \in Nodes : where[t] # NULL}
<1>1. Gathered(m, S, ORBIT_MAX, w)
  BY InOrderIs
<1>2. /\ \A i \in 1 .. Len(w) : Orbits!Parent(m, w, i) = IF i = 1 THEN NULL ELSE w[i - 1]
  BY <1>1, TrainParentIs
<1>3. /\ NULL \notin Lists /\ ORBIT_MAX \in Nat /\ Lists = 0 .. ORBIT_MAX - 1
  BY NodesAre
<1> HIDE DEF w
<1>4. /\ w \in Seq(Nodes) /\ n \in Nat
      /\ \A i, j \in 1 .. n : w[i] = w[j] => i = j
  BY <1>1 DEF Gathered
<1>5. ASSUME NEW i \in 1 .. n PROVE w[i] \in placed
  <2>1. PICK l \in Lists : \E j \in 1 .. Len(S[l]) : S[l][j] = w[i]
    BY <1>1 DEF Gathered
  <2>2. w[i] \in Nodes
    BY <1>4
  <2>3. where[w[i]] = l
    BY <2>1, <2>2 DEF Manned, Has
  <2> QED BY <1>3, <2>2, <2>3
<1>6. ASSUME NEW t \in placed
      PROVE  /\ Orbits!IsIn(m, where[t], t)
             /\ \E i \in 1 .. n : w[i] = t
  <2>1. t \in Nodes /\ where[t] \in Lists
    OBVIOUS
  <2>2. PICK j \in 1 .. Len(S[where[t]]) : S[where[t]][j] = t
    BY <2>1 DEF Manned, Has
  <2>3. Orbits!IsIn(m, where[t], t)
    BY <2>1, <2>2, IsInIs
  <2>4. where[t] < ORBIT_MAX
    BY <1>3, <2>1
  <2>5. \E i \in 1 .. n : S[where[t]][j] = w[i]
    BY <1>1, <2>1, <2>2, <2>4 DEF Gathered
  <2> QED BY <2>2, <2>3, <2>5
<1>7. n = Cardinality(placed)
  <2> HIDE DEF placed
  <2>1. w \in [1 .. n -> placed]
    <3> HIDE DEF n
    <3>1. w = [i \in 1 .. n |-> w[i]]
      BY <1>4 DEF n
    <3> QED BY <1>5, <3>1
  <2>2. w \in Bijection(1 .. n, placed)
    BY <1>4, <1>6, <2>1 DEF Bijection, Injection, IsInjective, Surjection
  <2>3. ExistsBijection(1 .. n, placed)
    BY <2>2 DEF ExistsBijection
  <2> QED BY <1>4, <2>3, FS_CountingElements
<1> QED BY <1>2, <1>4, <1>5, <1>6, <1>7 DEF w

-----------------------------------------------------------------------------
(* An order for an orbit.                                                  *)

\* The elements with one put in front or at the end, and without one.
LEMMA PutElements ==
  ASSUME NEW s \in Seq(Nodes), NEW t \in Nodes
  PROVE  /\ \A u : Has(<<t>> \o s, u) <=> u = t \/ Has(s, u)
         /\ \A u : Has(Append(s, t), u) <=> u = t \/ Has(s, u)
<1> DEFINE a == <<t>> \o s
           b == Append(s, t)
<1>1. /\ Len(s) \in Nat
      /\ Len(a) = Len(s) + 1 /\ \A i \in 1 .. Len(s) + 1 : a[i] = IF i = 1 THEN t ELSE s[i - 1]
      /\ Len(b) = Len(s) + 1 /\ \A i \in 1 .. Len(s) + 1 : b[i] = IF i = Len(s) + 1 THEN t ELSE s[i]
  OBVIOUS
<1> HIDE DEF a, b
<1>2. ASSUME NEW i \in 1 .. Len(a) PROVE a[i] = t \/ Has(s, a[i])
  <2>1. i # 1 => i - 1 \in 1 .. Len(s)
    BY <1>1
  <2> QED BY <1>1, <2>1 DEF Has
<1>3. Has(a, t)
  <2>1. 1 \in 1 .. Len(a) /\ a[1] = t
    BY <1>1
  <2> QED BY <2>1 DEF Has
<1>4. ASSUME NEW j \in 1 .. Len(s) PROVE Has(a, s[j])
  <2>1. j + 1 \in 1 .. Len(a) /\ a[j + 1] = s[(j + 1) - 1] /\ (j + 1) - 1 = j
    BY <1>1
  <2> QED BY <2>1 DEF Has
<1>5. ASSUME NEW i \in 1 .. Len(b) PROVE b[i] = t \/ Has(s, b[i])
  <2>1. i # Len(s) + 1 => i \in 1 .. Len(s)
    BY <1>1
  <2> QED BY <1>1, <2>1 DEF Has
<1>6. Has(b, t)
  <2>1. Len(s) + 1 \in 1 .. Len(b) /\ b[Len(s) + 1] = t
    BY <1>1
  <2> QED BY <2>1 DEF Has
<1>7. ASSUME NEW j \in 1 .. Len(s) PROVE Has(b, s[j])
  <2>1. j \in 1 .. Len(b) /\ b[j] = s[j]
    BY <1>1
  <2> QED BY <2>1 DEF Has
<1>8. \A u : Has(a, u) <=> u = t \/ Has(s, u)
  BY <1>2, <1>3, <1>4 DEF Has
<1>9. \A u : Has(b, u) <=> u = t \/ Has(s, u)
  BY <1>5, <1>6, <1>7 DEF Has
<1> QED BY <1>8, <1>9 DEF a, b

LEMMA WithoutElements ==
  ASSUME NEW s \in Seq(Nodes), \A i, j \in 1 .. Len(s) : s[i] = s[j] => i = j,
         NEW p \in 1 .. Len(s)
  PROVE  \A u : Has(Without(s, p), u) <=> u # s[p] /\ Has(s, u)
<1> DEFINE w == Without(s, p)
<1>1. /\ Len(s) \in Nat /\ Len(w) = Len(s) - 1
      /\ \A i \in 1 .. Len(s) - 1 : w[i] = IF i < p THEN s[i] ELSE s[i + 1]
  BY WithoutIs
<1> HIDE DEF w
<1>2. ASSUME NEW i \in 1 .. Len(w) PROVE w[i] # s[p] /\ Has(s, w[i])
  <2>1. CASE i < p
    <3>1. i \in 1 .. Len(s) /\ i # p /\ s[i] = w[i]
      BY <1>1, <2>1
    <3> QED BY <3>1 DEF Has
  <2>2. CASE ~ (i < p)
    <3>1. i + 1 \in 1 .. Len(s) /\ i + 1 # p /\ s[i + 1] = w[i]
      BY <1>1, <2>2
    <3> QED BY <3>1 DEF Has
  <2> QED BY <2>1, <2>2
<1>3. ASSUME NEW j \in 1 .. Len(s), j # p PROVE Has(w, s[j])
  <2>1. CASE j < p
    <3>1. j \in 1 .. Len(w) /\ w[j] = s[j]
      BY <1>1, <2>1
    <3> QED BY <3>1 DEF Has
  <2>2. CASE ~ (j < p)
    <3>1. j - 1 \in 1 .. Len(w) /\ ~ (j - 1 < p) /\ (j - 1) + 1 = j
      BY <1>1, <1>3, <2>2
    <3>2. w[j - 1] = s[(j - 1) + 1]
      BY <1>1, <3>1
    <3> QED BY <3>1, <3>2 DEF Has
  <2> QED BY <2>1, <2>2
<1>4. \A u : Has(w, u) <=> u # s[p] /\ Has(s, u)
  BY <1>2, <1>3 DEF Has
<1> QED BY <1>4 DEF w

Outside(o) == (o + ORBIT_MAX - 1) % ORBIT_MAX

\* The condition for listPush: the train comes from the orbit outside.
LEMMA FromOutside ==
  ASSUME Orbits!SatellitesAssumption, NEW new \in Lists, NEW old \in Lists, new # old
  PROVE  (new + ORBIT_MAX - old) % ORBIT_MAX = 1 <=> old = Outside(new)
<1>1. /\ ORBIT_MAX \in Nat \ {0} /\ Lists = 0 .. ORBIT_MAX - 1
      /\ new \in 0 .. ORBIT_MAX - 1 /\ old \in 0 .. ORBIT_MAX - 1
      /\ ORBIT_MAX - old \in 0 .. ORBIT_MAX /\ ORBIT_MAX - 1 \in 0 .. ORBIT_MAX
      /\ new + ORBIT_MAX - old = new + (ORBIT_MAX - old)
      /\ new + ORBIT_MAX - 1 = new + (ORBIT_MAX - 1)
  BY NodesAre
<1>2. (new + (ORBIT_MAX - old)) % ORBIT_MAX =
         IF new + (ORBIT_MAX - old) < ORBIT_MAX THEN new + (ORBIT_MAX - old)
         ELSE new + (ORBIT_MAX - old) - ORBIT_MAX
  BY <1>1, IndexWraps
<1>3. (new + (ORBIT_MAX - 1)) % ORBIT_MAX =
         IF new + (ORBIT_MAX - 1) < ORBIT_MAX THEN new + (ORBIT_MAX - 1)
         ELSE new + (ORBIT_MAX - 1) - ORBIT_MAX
  BY <1>1, IndexWraps
<1>4. Outside(new) = (new + (ORBIT_MAX - 1)) % ORBIT_MAX
  BY <1>1 DEF Outside
<1> QED BY <1>1, <1>2, <1>3, <1>4

\* The memory r and the sequence s of the list new, with t in front or at the end.
IsPut(r, s, m, S, t, new) ==
    \/ r = Orbits!listPush(m, new, t) /\ s = <<t>> \o S[new]
    \/ r = Orbits!listAppend(m, new, t) /\ s = Append(S[new], t)

\* T is S with t in the sequence of new.
HasIn(T, S, t, new) ==
    /\ \A l \in Lists : l # new => T[l] = S[l]
    /\ \A l \in Lists, u \in Nodes : Has(T[l], u) <=> ((l = new /\ u = t) \/ Has(S[l], u))

\* A train, in no list, is put in one.
LEMMA PutStands ==
  ASSUME Orbits!SatellitesAssumption, NEW m, NEW S, Stands(m, S),
         NEW t \in Nodes, Absent(S, t), NEW new \in Lists,
         NEW r, NEW s, IsPut(r, s, m, S, t, new)
  PROVE  \E T : Stands(r, T) /\ HasIn(T, S, t, new) /\ T[new] = s
<1> DEFINE T == [S EXCEPT ![new] = s]
<1>1. Stands(r, T)
  <2>1. CASE r = Orbits!listPush(m, new, t) /\ s = <<t>> \o S[new]
    <3>1. Stands(Orbits!listPush(m, new, t), [S EXCEPT ![new] = <<t>> \o S[new]])
      BY PushStands
    <3> QED BY <2>1, <3>1
  <2>2. CASE r = Orbits!listAppend(m, new, t) /\ s = Append(S[new], t)
    <3>1. Stands(Orbits!listAppend(m, new, t), [S EXCEPT ![new] = Append(S[new], t)])
      BY AppendStands
    <3> QED BY <2>2, <3>1
  <2> QED BY <2>1, <2>2 DEF IsPut
<1>2. S \in [Lists -> Seq(Nodes)] /\ S[new] \in Seq(Nodes)
  BY DEF Stands, Lines
<1>3. \A u : Has(s, u) <=> u = t \/ Has(S[new], u)
  <2>1. CASE s = <<t>> \o S[new]
    BY <1>2, <2>1, PutElements
  <2>2. CASE s = Append(S[new], t)
    BY <1>2, <2>2, PutElements
  <2> QED BY <2>1, <2>2 DEF IsPut
<1>4. T[new] = s /\ \A l \in Lists : l # new => T[l] = S[l]
  BY <1>2
<1> HIDE DEF T
<1>5. HasIn(T, S, t, new)
  BY <1>3, <1>4 DEF HasIn
<1> QED BY <1>1, <1>4, <1>5

\* What becomes of the sequence s of orbit o, by Moved(m, t, old, new).
Becomes(s, r, o, t, old) ==
    \/ r = s
    \/ \E i \in 1 .. Len(s) : s[i] = t /\ old = o /\ r = Without(s, i)
    \/ old = Outside(o) /\ r = <<t>> \o s
    \/ old # Outside(o) /\ r = Append(s, t)

LEMMA OutsideIs ==
  ASSUME Orbits!SatellitesAssumption, NEW o \in Lists
  PROVE  Outside(o) \in Lists
<1>1. /\ ORBIT_MAX \in Nat \ {0} /\ Lists = 0 .. ORBIT_MAX - 1
      /\ o \in 0 .. ORBIT_MAX - 1 /\ ORBIT_MAX - 1 \in 0 .. ORBIT_MAX
      /\ o + ORBIT_MAX - 1 = o + (ORBIT_MAX - 1)
  BY NodesAre
<1>2. (o + (ORBIT_MAX - 1)) % ORBIT_MAX =
         IF o + (ORBIT_MAX - 1) < ORBIT_MAX THEN o + (ORBIT_MAX - 1)
         ELSE o + (ORBIT_MAX - 1) - ORBIT_MAX
  BY <1>1, IndexWraps
<1> QED BY <1>1, <1>2 DEF Outside

LEMMA MovedIs ==
  ASSUME Orbits!SatellitesAssumption, NEW m, NEW S, Stands(m, S),
         NEW where \in [Nodes -> Lists \cup {NULL}], Manned(S, where),
         NEW t \in Nodes, NEW new \in Lists, where[t] # new
  PROVE  \E T : /\ Stands(Orbits!Moved(m, t, where[t], new), T)
               /\ Manned(T, [where EXCEPT ![t] = new])
               /\ \A o \in Lists : Becomes(S[o], T[o], o, t, where[t])
<1> DEFINE old == where[t]
           r == Orbits!Moved(m, t, old, new)
           now == [where EXCEPT ![t] = new]
<1>1. NULL \notin Lists /\ \A o \in Lists : Outside(o) \in Lists
  BY NodesAre, OutsideIs
<1>2. /\ now[t] = new /\ \A u \in Nodes : u # t => now[u] = where[u]
  OBVIOUS
<1> HIDE DEF now
<1>3. CASE old = NULL
  <2>1. r = Orbits!listAppend(m, new, t)
    BY <1>3 DEF Orbits!Moved
  <2>2. Absent(S, t)
    BY <1>1, <1>3 DEF Absent, Manned, Has
  <2> HIDE DEF r
  <2> DEFINE put == Append(S[new], t)
  <2>3. PICK T : Stands(r, T) /\ HasIn(T, S, t, new) /\ T[new] = put
    <3>1. IsPut(r, put, m, S, t, new)
      BY <2>1 DEF IsPut
    <3> HIDE DEF put
    <3> QED BY <2>2, <3>1, PutStands
  <2>4. Manned(T, now)
    <3> SUFFICES ASSUME NEW l \in Lists, NEW u \in Nodes
                 PROVE  Has(T[l], u) <=> now[u] = l
      BY DEF Manned
    <3>1. Has(S[l], u) <=> where[u] = l
      BY DEF Manned
    <3>2. Has(T[l], u) <=> ((l = new /\ u = t) \/ where[u] = l)
      BY <2>3, <3>1 DEF HasIn
    <3>3. where[t] # l
      BY <1>1, <1>3
    <3> QED BY <1>2, <3>2, <3>3
  <2>5. \A o \in Lists : Becomes(S[o], T[o], o, t, old)
    <3>1. old # Outside(new) /\ T[new] = Append(S[new], t)
      BY <1>1, <1>3, <2>3
    <3>2. Becomes(S[new], T[new], new, t, old)
      BY <3>1 DEF Becomes
    <3>3. \A o \in Lists : o # new => Becomes(S[o], T[o], o, t, old)
      BY <2>3 DEF Becomes, HasIn
    <3> QED BY <3>2, <3>3
  <2> QED BY <2>3, <2>4, <2>5 DEF r, now
<1>4. CASE old # NULL
  <2>1. old \in Lists /\ old # new
    BY <1>4
  <2>2. PICK p \in 1 .. Len(S[old]) : S[old][p] = t
    BY <2>1 DEF Manned, Has
  <2>3. Orbits!IsIn(m, old, t)
    BY <2>1, <2>2, IsInIs
  <2> DEFINE left == Orbits!listRemove(m, old, t)
             U == [S EXCEPT ![old] = Without(S[old], p)]
             c == (new + ORBIT_MAX - old) % ORBIT_MAX = 1
  <2>4. Stands(left, U) /\ Absent(U, t)
    <3>1. left = Orbits!Removed(m, old, t, IF t = m.tail[old] THEN m.previous[t] ELSE m.tail[old])
      BY <2>3 DEF Orbits!listRemove
    <3> HIDE DEF left, old
    <3> QED BY <2>1, <2>2, <3>1, RemoveStands
  <2>5. /\ S \in [Lists -> Seq(Nodes)]
        /\ S[old] \in Seq(Nodes) /\ \A i, j \in 1 .. Len(S[old]) : S[old][i] = S[old][j] => i = j
    BY <2>1 DEF Stands, Lines
  <2>6. U[old] = Without(S[old], p) /\ \A l \in Lists : l # old => U[l] = S[l]
    <3> HIDE DEF old
    <3> QED BY <2>1, <2>5
  <2>7. ASSUME NEW l \in Lists, NEW u \in Nodes
        PROVE  Has(U[l], u) <=> ~ (l = old /\ u = t) /\ Has(S[l], u)
    <3> HIDE DEF U
    <3>1. CASE l = old
      <4> HIDE DEF old
      <4>1. Has(Without(S[old], p), u) <=> u # S[old][p] /\ Has(S[old], u)
        BY <2>5, WithoutElements
      <4> QED BY <2>2, <2>6, <3>1, <4>1
    <3>2. CASE l # old
      BY <2>6, <3>2
    <3> QED BY <3>1, <3>2
  <2>8. r = IF c THEN Orbits!listPush(left, new, t) ELSE Orbits!listAppend(left, new, t)
    BY <1>4 DEF Orbits!Moved
  <2>9. c <=> old = Outside(new)
    <3> HIDE DEF old
    <3> QED BY <2>1, FromOutside
  <2> HIDE DEF c, left, U, r
  <2> DEFINE put == IF c THEN <<t>> \o U[new] ELSE Append(U[new], t)
  <2>10. PICK T : Stands(r, T) /\ HasIn(T, U, t, new) /\ T[new] = put
    <3>1. IsPut(r, put, left, U, t, new)
      BY <2>8 DEF IsPut
    <3> HIDE DEF put
    <3> QED BY <2>4, <3>1, PutStands
  <2>11. Manned(T, now)
    <3> SUFFICES ASSUME NEW l \in Lists, NEW u \in Nodes
                 PROVE  Has(T[l], u) <=> now[u] = l
      BY DEF Manned
    <3>1. Has(S[l], u) <=> where[u] = l
      BY DEF Manned
    <3>2. Has(T[l], u) <=> ((l = new /\ u = t) \/ (~ (l = old /\ u = t) /\ where[u] = l))
      BY <2>7, <2>10, <3>1 DEF HasIn
    <3>3. CASE u = t
      BY <1>2, <3>2, <3>3
    <3>4. CASE u # t
      BY <1>2, <3>2, <3>4
    <3> QED BY <3>3, <3>4
  <2>12. ASSUME NEW o \in Lists PROVE Becomes(S[o], T[o], o, t, old)
    <3>1. CASE o = new
      <4>1. U[new] = S[new]
        BY <2>1, <2>6
      <4> QED BY <2>9, <2>10, <3>1, <4>1 DEF Becomes
    <3>2. CASE o = old
      <4>1. T[o] = Without(S[o], p) /\ S[o][p] = t /\ p \in 1 .. Len(S[o])
        BY <2>1, <2>2, <2>6, <2>10, <3>2 DEF HasIn
      <4> QED BY <3>2, <4>1 DEF Becomes
    <3>3. CASE o # new /\ o # old
      BY <2>6, <2>10, <3>3 DEF Becomes, HasIn
    <3> QED BY <3>1, <3>2, <3>3
  <2> QED BY <2>10, <2>11, <2>12 DEF r, now
<1> QED BY <1>3, <1>4

LEMMA OrderedToOrbit ==
  ASSUME Orbits!SatellitesAssumption, SatellitesInv, NEW t \in Nodes, NEW new \in Lists,
         Orbits!OrderOrbit(t, new)
  PROVE  SatellitesInv' /\ Orbits!OrderKept /\ Orbits!Ranked'
<1> DEFINE m == satellite_lists
           r == Orbits!Moved(m, t, orbit[t], new)
           w == Orbits!InOrder(r)
           now == [orbit EXCEPT ![t] = new]
           placed == {u \in Nodes : now[u] # NULL}
<1>1. PICK S : Stands(m, S) /\ Manned(S, orbit)
  BY DEF SatellitesInv
<1>2. /\ orbit[t] # new /\ orbit' = now /\ m' = r
      /\ parent_train' = [u \in Nodes |->
            IF \E i \in 1 .. Len(w) : w[i] = u
            THEN Orbits!Parent(r, w, CHOOSE i \in 1 .. Len(w) : w[i] = u)
            ELSE parent_train[u]]
  BY DEF Orbits!OrderOrbit, Nodes
<1>3. orbit \in [Nodes -> Lists \cup {NULL}] /\ now \in [Nodes -> Lists \cup {NULL}]
  BY DEF SatellitesInv
<1>4. PICK T : /\ Stands(r, T) /\ Manned(T, now)
               /\ \A o \in Lists : Becomes(S[o], T[o], o, t, orbit[t])
  <2> HIDE DEF m
  <2> QED BY <1>1, <1>2, <1>3, MovedIs
<1>5. /\ Len(w) \in Nat /\ Len(w) = Cardinality(placed)
      /\ \A i \in 1 .. Len(w) : w[i] \in placed
      /\ \A i, j \in 1 .. Len(w) : w[i] = w[j] => i = j
      /\ \A u \in placed : Orbits!IsIn(r, now[u], u)
      /\ \A i \in 1 .. Len(w) :
            Orbits!Parent(r, w, i) = IF i = 1 THEN NULL ELSE w[i - 1]
  <2> HIDE DEF r, now
  <2> QED BY <1>3, <1>4, RankedIs
<1> HIDE DEF now, w, r
<1>6. SatellitesInv'
  BY <1>2, <1>3, <1>4 DEF SatellitesInv
<1>7. Orbits!OrderKept
  <2> SUFFICES ASSUME NEW o \in Lists
               PROVE  \/ Orbits!Walk(m', o) = Orbits!Walk(m, o)
                      \/ \E i \in 1 .. Len(Orbits!Walk(m, o)) :
                            /\ orbit[Orbits!Walk(m, o)[i]] = o
                            /\ Orbits!Walk(m', o) = Without(Orbits!Walk(m, o), i)
                      \/ \E u \in Nodes :
                            \/ /\ orbit[u] = Outside(o)
                               /\ Orbits!Walk(m', o) = <<u>> \o Orbits!Walk(m, o)
                            \/ /\ orbit[u] # Outside(o)
                               /\ Orbits!Walk(m', o) = Append(Orbits!Walk(m, o), u)
    BY DEF Orbits!OrderKept, Lists, Nodes, Without, Outside
  <2>1. Orbits!Walk(m, o) = S[o] /\ Orbits!Walk(m', o) = T[o]
    <3> HIDE DEF m
    <3>1. Orbits!Walk(m, o) = S[o]
      BY <1>1, WalkIs
    <3>2. Orbits!Walk(r, o) = T[o]
      BY <1>4, WalkIs
    <3> QED BY <1>2, <3>1, <3>2
  <2>2. Becomes(S[o], T[o], o, t, orbit[t])
    BY <1>4
  <2>3. CASE T[o] = S[o]
    BY <2>1, <2>3
  <2>4. CASE \E i \in 1 .. Len(S[o]) : S[o][i] = t /\ orbit[t] = o /\ T[o] = Without(S[o], i)
    BY <2>1, <2>4
  <2>5. CASE orbit[t] = Outside(o) /\ T[o] = <<t>> \o S[o]
    BY <2>1, <2>5
  <2>6. CASE orbit[t] # Outside(o) /\ T[o] = Append(S[o], t)
    BY <2>1, <2>6
  <2> QED BY <2>2, <2>3, <2>4, <2>5, <2>6 DEF Becomes
<1>8. ASSUME NEW i \in 1 .. Len(w)
      PROVE  parent_train'[w[i]] = IF i = 1 THEN NULL ELSE w[i - 1]
  <2> DEFINE c == CHOOSE j \in 1 .. Len(w) : w[j] = w[i]
  <2>1. c \in 1 .. Len(w) /\ w[c] = w[i]
    OBVIOUS
  <2>2. c = i
    <3> HIDE DEF c
    <3> QED BY <1>5, <2>1
  <2>3. w[i] \in Nodes
    BY <1>5
  <2>4. parent_train'[w[i]] = Orbits!Parent(r, w, c)
    BY <1>2, <2>3
  <2> HIDE DEF c
  <2> QED BY <1>5, <2>2, <2>4
<1>9. Orbits!Ranked'
  <2> HIDE DEF placed
  <2>1. Orbits!InOrder(m') = w
    BY <1>2 DEF w
  <2>2. {u \in Orbits!Trains : orbit'[u] # NULL} = placed
    BY <1>2 DEF placed, Nodes
  <2>3. Len(w) = Orbits!Cardinality(placed)
    BY <1>5, SameCardinality
  <2>4. \A u \in placed : Orbits!IsIn(m', orbit'[u], u)
    BY <1>2, <1>5
  <2> QED BY <1>8, <2>1, <2>2, <2>3, <2>4 DEF Orbits!Ranked
<1> QED BY <1>6, <1>7, <1>9

-----------------------------------------------------------------------------
\* However orders follow one another, the linked lists hold the hierarchy by
\* which the drivers keep their distance (train_driver.c:855-887): every train
\* that was ordered to an orbit is in its list, once, the others keep their
\* order, and each one's parent is the one in front of it.
THEOREM SatellitesKeepHierarchy == Spec => HierarchyKept
<1>1. Orbits!SatellitesAssumption
  BY PartsAssumption
<1>2. Init => SatellitesInv
  BY <1>1, SatellitesInit DEF Init
<1>3. ASSUME SatellitesInv, [Next]_vars
      PROVE  SatellitesInv' /\ [Orbits!OrderKept /\ Orbits!Ranked']_(Orbits!vars)
  <2>1. [Orbits!Next]_(Orbits!vars)
    BY <1>3 DEF Next, vars, orbits_vars, Orbits!vars
  <2>2. CASE Orbits!Next
    <3>1. PICK t \in Nodes, o \in Lists : Orbits!OrderOrbit(t, o)
      BY <2>2 DEF Orbits!Next, Nodes, Lists
    <3> QED BY <1>1, <1>3, <3>1, OrderedToOrbit
  <2>3. CASE UNCHANGED Orbits!vars
    BY <1>3, <2>3 DEF Orbits!vars, SatellitesInv
  <2> QED BY <2>1, <2>2, <2>3
<1> QED BY <1>2, <1>3, PTL DEF Spec, HierarchyKept, Orbits!HierarchyKept
=============================================================================
