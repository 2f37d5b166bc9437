------------------------- MODULE TrainDriverProofs -------------------------
(***************************************************************************)
(* Proofs about the train driver: dijkstra of train_driver.c finds a       *)
(* shortest route over the track of init_trackb, for every order that may  *)
(* be given, and the names of the landmarks are those of the track.  The   *)
(* argument: the search keeps a tree of predecessors whose edges make up   *)
(* for the differences of the keys, in which no popped node is farther     *)
(* than one that is still in the heap; at its end every edge of a popped   *)
(* node counts, so that the rounds of the reference come to the same       *)
(* costs.  The heap's part is in SequenceLemmas.                           *)
(*                                                                         *)
(* And a train on its orbit keeps to it.  The argument: it is on the way   *)
(* from its landmark to the sensor that is predicted, along the orbit, and *)
(* what is near enough on that way has been thrown.                        *)
(***************************************************************************)
EXTENDS TrainDriver, SequenceLemmas, FiniteSetTheorems, TLAPS

-----------------------------------------------------------------------------
(* The track.                                                              *)

Edges == Nodes \X Nat
Legs  == Nodes \X Nat \X Nodes \X Nat \X Nodes \X Nat

\* An item of a sequence is in its set.
LEMMA Item ==
  ASSUME NEW S, NEW s \in Seq(S), NEW i \in 1 .. Len(s)
  PROVE  s[i] \in S
  OBVIOUS

\* Join puts one sequence after another.
LEMMA JoinLen ==
  ASSUME NEW S, NEW a \in Seq(S), NEW b \in Seq(S)
  PROVE  Join(a, b) \in Seq(S) /\ Len(Join(a, b)) = Len(a) + Len(b)
  BY DEF Join

\* The items of the first come before those of the second.
LEMMA JoinItems ==
  ASSUME NEW S, NEW a \in Seq(S), NEW b \in Seq(S), NEW i \in 1 .. Len(a) + Len(b)
  PROVE  Join(a, b)[i] = IF i <= Len(a) THEN a[i] ELSE b[i - Len(a)]
  BY DEF Join

\* The tables have rows of nodes and lengths, and the legs of a branch differ.
LEMMA SensorTable == SensorRows \in Seq(Edges) /\ Len(SensorRows) = 80
<1>1. SensorsA \in Seq(Edges) /\ Len(SensorsA) = 16
  BY DEF SensorsA, Nodes, Edges
<1>2. SensorsB \in Seq(Edges) /\ Len(SensorsB) = 16
  BY DEF SensorsB, Nodes, Edges
<1>3. SensorsC \in Seq(Edges) /\ Len(SensorsC) = 16
  BY DEF SensorsC, Nodes, Edges
<1>4. SensorsD \in Seq(Edges) /\ Len(SensorsD) = 16
  BY DEF SensorsD, Nodes, Edges
<1>5. SensorsE \in Seq(Edges) /\ Len(SensorsE) = 16
  BY DEF SensorsE, Nodes, Edges
<1> DEFINE ab   == Join(SensorsA, SensorsB)
           abc  == Join(ab, SensorsC)
           abcd == Join(abc, SensorsD)
<1>6. ab \in Seq(Edges) /\ Len(ab) = 32
  <2>1. ab \in Seq(Edges) /\ Len(ab) = Len(SensorsA) + Len(SensorsB)
    BY <1>1, <1>2, JoinLen
  <2> HIDE DEF ab
  <2> QED BY <1>1, <1>2, <2>1
<1> HIDE DEF ab
<1>7. abc \in Seq(Edges) /\ Len(abc) = 48
  <2>1. abc \in Seq(Edges) /\ Len(abc) = Len(ab) + Len(SensorsC)
    BY <1>3, <1>6, JoinLen
  <2> HIDE DEF abc
  <2> QED BY <1>3, <1>6, <2>1
<1> HIDE DEF abc
<1>8. abcd \in Seq(Edges) /\ Len(abcd) = 64
  <2>1. abcd \in Seq(Edges) /\ Len(abcd) = Len(abc) + Len(SensorsD)
    BY <1>4, <1>7, JoinLen
  <2> HIDE DEF abcd
  <2> QED BY <1>4, <1>7, <2>1
<1> HIDE DEF abcd
<1>9. Join(abcd, SensorsE) \in Seq(Edges) /\ Len(Join(abcd, SensorsE)) = 80
  <2>1. abcd \in Seq(Edges) /\ SensorsE \in Seq(Edges)
    BY <1>5, <1>8
  <2>2. Join(abcd, SensorsE) \in Seq(Edges) /\ Len(Join(abcd, SensorsE)) = Len(abcd) + Len(SensorsE)
    BY ONLY <2>1, JoinLen
  <2> QED BY <1>5, <1>8, <2>2
<1>10. SensorRows = Join(abcd, SensorsE)
  BY DEF SensorRows, abcd, abc, ab, Join
<1> QED BY <1>9, <1>10

\* The switches have their rows, and the legs of a branch differ.
LEMMA SwitchTable ==
  /\ SwitchRows \in Seq(Legs) /\ Len(SwitchRows) = 22
  /\ \A i \in 1 .. 22 : SwitchRows[i][1] # SwitchRows[i][3]
<1> DEFINE a == Switches1
           b == Switches2
           c == Switches3
           x == Join(a, b)
           y == Join(x, c)
<1>1. a \in Seq(Legs) /\ Len(a) = 7
  BY DEF Switches1, Nodes, Legs
<1>2. b \in Seq(Legs) /\ Len(b) = 7
  BY DEF Switches2, Nodes, Legs
<1>3. c \in Seq(Legs) /\ Len(c) = 8
  BY DEF Switches3, Nodes, Legs
<1>4. \A i \in 1 .. 7 : a[i][1] # a[i][3]
  BY DEF Switches1
<1>5. \A i \in 1 .. 7 : b[i][1] # b[i][3]
  BY DEF Switches2
<1>6. \A i \in 1 .. 8 : c[i][1] # c[i][3]
  BY DEF Switches3
<1>7. SwitchRows = y
  BY DEF SwitchRows, Join
<1> HIDE DEF a, b, c
<1>8. x \in Seq(Legs) /\ Len(x) = 14 /\ \A i \in 1 .. 14 : x[i] = IF i <= 7 THEN a[i] ELSE b[i - 7]
  <2>1. /\ x \in Seq(Legs) /\ Len(x) = Len(a) + Len(b)
        /\ \A i \in 1 .. Len(a) + Len(b) : x[i] = IF i <= Len(a) THEN a[i] ELSE b[i - Len(a)]
    BY <1>1, <1>2, JoinLen, JoinItems
  <2> QED BY <1>1, <1>2, <2>1
<1> HIDE DEF x
<1>9. \A i \in 1 .. 14 : x[i][1] # x[i][3]
  <2> SUFFICES ASSUME NEW i \in 1 .. 14 PROVE x[i][1] # x[i][3]
    OBVIOUS
  <2>1. CASE i <= 7
    BY <1>4, <1>8, <2>1
  <2>2. CASE ~ (i <= 7)
    <3>1. i - 7 \in 1 .. 7
      BY <2>2
    <3> QED BY <1>5, <1>8, <2>2, <3>1
  <2> QED BY <2>1, <2>2
<1>10. y \in Seq(Legs) /\ Len(y) = 22 /\ \A i \in 1 .. 22 : y[i] = IF i <= 14 THEN x[i] ELSE c[i - 14]
  <2>1. /\ y \in Seq(Legs) /\ Len(y) = Len(x) + Len(c)
        /\ \A i \in 1 .. Len(x) + Len(c) : y[i] = IF i <= Len(x) THEN x[i] ELSE c[i - Len(x)]
    BY <1>3, <1>8, JoinLen, JoinItems
  <2> QED BY <1>3, <1>8, <2>1
<1> HIDE DEF y
<1>11. \A i \in 1 .. 22 : y[i][1] # y[i][3]
  <2> SUFFICES ASSUME NEW i \in 1 .. 22 PROVE y[i][1] # y[i][3]
    OBVIOUS
  <2>1. CASE i <= 14
    <3>1. i \in 1 .. 14
      BY <2>1
    <3>2. y[i] = x[i]
      BY <1>10, <2>1
    <3> QED BY <1>9, <3>1, <3>2
  <2>2. CASE ~ (i <= 14)
    <3>1. i - 14 \in 1 .. 8
      BY <2>2
    <3> QED BY <1>6, <1>10, <2>2, <3>1
  <2> QED BY <2>1, <2>2
<1> QED BY <1>7, <1>10, <1>11

\* The types of the nodes, and the rows of their edges.
LEMMA NodeRanges ==
  ASSUME NEW n \in Nodes
  PROVE  /\ NodeType[n] \in {"sensor", "branch", "merge", "enter", "exit"}
         /\ NodeType[n] = "sensor" <=> n \in 0 .. 79
         /\ NodeType[n] = "branch" => n \in 80 .. 123 /\ (n - 80) \div 2 + 1 \in 1 .. 22
         /\ NodeType[n] = "merge" => n \in 80 .. 123 /\ (n - 80) \div 2 + 1 \in 1 .. 22
         /\ NodeType[n] = "enter" => n \in 124 .. 139 /\ (n - 124) \div 2 + 1 \in 1 .. 8
         /\ NodeType[n] = "exit" => n \in 124 .. 139 /\ (n - 124) \div 2 + 1 \in 1 .. 8
  BY DEF NodeType, Nodes, Sensors, SwitchNodes

\* The edges lead to nodes of the track, and their lengths are no less than 0.
LEMMA EdgeTypes ==
  ASSUME NEW n \in Nodes, NEW d \in Directions(n)
  PROVE  Dest(n, d) \in Nodes /\ Dist(n, d) \in Nat /\ d \in {0, 1}
<1> DEFINE k == (n - 80) \div 2 + 1
           w == SwitchRows[k]
<1>0. NodeType[n] # "exit" /\ d \in {0, 1} /\ (d = 1 => NodeType[n] = "branch")
  BY DEF Directions, DIR_AHEAD, DIR_STRAIGHT, DIR_CURVED
<1>1. CASE NodeType[n] = "sensor"
  <2>1. n + 1 \in 1 .. 80
    BY <1>1, NodeRanges
  <2>2. SensorRows[n + 1] \in Edges
    <3>1. SensorRows \in Seq(Edges) /\ n + 1 \in 1 .. Len(SensorRows)
      BY <2>1, SensorTable
    <3> QED BY ONLY <3>1, Item
  <2>3. EdgeRow[n] = SensorRows[n + 1]
    BY <1>1 DEF EdgeRow
  <2>4. d = 0
    BY <1>0, <1>1
  <2> QED BY <2>2, <2>3, <2>4 DEF Edges, Dest, Dist
<1>2. CASE NodeType[n] = "branch"
  <2>1. k \in 1 .. 22
    BY <1>2, NodeRanges
  <2>2. w \in Legs
    BY <2>1, SwitchTable, Item
  <2>3. EdgeRow[n] = SubSeq(w, 1, 4)
    BY <1>2 DEF EdgeRow
  <2> HIDE DEF w
  <2> DEFINE r == SubSeq(w, 1, 4)
  <2>4. r[1] = w[1] /\ r[2] = w[2] /\ r[3] = w[3] /\ r[4] = w[4]
    BY <2>2 DEF Legs
  <2>5. w[1] \in Nodes /\ w[2] \in Nat /\ w[3] \in Nodes /\ w[4] \in Nat
    BY <2>2 DEF Legs
  <2> HIDE DEF r
  <2>6. EdgeRow[n] = r
    BY <2>3 DEF r
  <2>7. CASE d = 0
    BY <2>4, <2>5, <2>6, <2>7 DEF Dest, Dist
  <2>8. CASE d = 1
    BY <2>4, <2>5, <2>6, <2>8 DEF Dest, Dist
  <2> QED BY <1>0, <2>7, <2>8
<1>3. CASE NodeType[n] = "merge"
  <2>1. k \in 1 .. 22
    BY <1>3, NodeRanges
  <2>2. w \in Legs
    BY <2>1, SwitchTable, Item
  <2>3. EdgeRow[n] = SubSeq(w, 5, 6)
    BY <1>3 DEF EdgeRow
  <2> HIDE DEF w
  <2> DEFINE r == SubSeq(w, 5, 6)
  <2>4. r[1] = w[5] /\ r[2] = w[6]
    BY <2>2 DEF Legs
  <2>5. w[5] \in Nodes /\ w[6] \in Nat
    BY <2>2 DEF Legs
  <2> HIDE DEF r
  <2>6. EdgeRow[n] = r /\ d = 0
    BY <1>0, <1>3, <2>3 DEF r
  <2> QED BY <1>0, <2>4, <2>5, <2>6 DEF Dest, Dist
<1>4. CASE NodeType[n] = "enter"
  <2>1. (n - 124) \div 2 + 1 \in 1 .. 8
    BY <1>4, NodeRanges
  <2>2. Enters \in Seq(Edges) /\ Len(Enters) = 8
    BY DEF Enters, Nodes, Edges
  <2>3. Enters[(n - 124) \div 2 + 1] \in Edges
    BY <2>1, <2>2, Item
  <2>4. EdgeRow[n] = Enters[(n - 124) \div 2 + 1]
    BY <1>4 DEF EdgeRow
  <2>5. d = 0
    BY <1>0, <1>4
  <2> QED BY <2>3, <2>4, <2>5 DEF Edges, Dest, Dist
<1> QED BY <1>0, <1>1, <1>2, <1>3, <1>4, NodeRanges

\* One edge at most leads from a node to another.
LEMMA OneLeg ==
  ASSUME NEW n \in Nodes, NEW d \in Directions(n), NEW e \in Directions(n), Dest(n, d) = Dest(n, e)
  PROVE  d = e
<1> SUFFICES ASSUME d # e PROVE FALSE
  OBVIOUS
<1>1. NodeType[n] = "branch" /\ {d, e} = {0, 1}
  BY DEF Directions, DIR_AHEAD, DIR_STRAIGHT, DIR_CURVED
<1> DEFINE k == (n - 80) \div 2 + 1
           w == SwitchRows[k]
           r == SubSeq(w, 1, 4)
<1>2. k \in 1 .. 22
  BY <1>1, NodeRanges
<1>3. w \in Legs /\ w[1] # w[3]
  BY <1>2, SwitchTable, Item
<1>4. EdgeRow[n] = r
  BY <1>1 DEF EdgeRow
<1> HIDE DEF w
<1>5. r[1] = w[1] /\ r[3] = w[3]
  BY <1>3 DEF Legs
<1> HIDE DEF r
<1>6. Dest(n, 0) = w[1] /\ Dest(n, 1) = w[3]
  BY <1>4, <1>5 DEF Dest
<1> QED BY <1>1, <1>3, <1>6

\* The search starts and ends at nodes of the track.
LEMMA OrbitStarts ==
  /\ \A o \in Orbits : orbits[o].start \in Nodes
  /\ \A o, p \in Orbits : orbits[o].start = orbits[p].start => o = p
  BY DEF Orbits, ORBIT_MAX, orbits, Orbit1, Orbit2, Orbit3, Nodes

\* No edge costs less than nothing.
LEMMA EdgeCosts ==
  ASSUME NEW n \in Nodes, NEW d \in Directions(n), NEW avoid
  PROVE  EdgeCost(n, d, avoid) \in Nat
  BY EdgeTypes DEF EdgeCost, AVOID_PENALTY

Seen(s)   == DOMAIN s.heap.key
Popped(s) == {v \in Seen(s) : ~ Holds(v, s.heap.data)}
Far(s, v) == s.heap.key[v]

\* The heap of a search: the nodes that have a key and are still in it.
HeapPart(s) ==
  /\ s \in [heap : {s.heap}, previous : {s.previous}, u : {s.u}]
  /\ HeapOf(s.heap, Seen(s)) /\ Ordered(s.heap) /\ Indexed(s.heap)
  /\ Seen(s) \subseteq Nodes
  /\ \A v \in Seen(s) : Far(s, v) \in Nat

\* What an update of v, at cost c from u, changes.
Updated(s, t, u, v, c) ==
  /\ HeapPart(t)
  /\ Seen(t) = Seen(s) \cup {v} /\ Popped(t) = Popped(s) \ {v}
  /\ \A w \in Seen(t) : Far(t, w) = IF w = v THEN c ELSE Far(s, w)
  /\ t.previous = SetAt(s.previous, v, u) /\ t.u = s.u

\* What the heap holds has a key.
LEMMA HeldIsSeen ==
  ASSUME NEW s, HeapPart(s), NEW v, Holds(v, s.heap.data)
  PROVE  v \in Seen(s)
<1>1. s.heap.data \in Seq(Seen(s))
  BY DEF HeapPart, HeapOf
<1>2. PICK i \in 1 .. Len(s.heap.data) : s.heap.data[i] = v
  BY DEF Holds
<1> QED BY <1>1, <1>2

\* dijkstraUpdate either leaves the search as it is, when the neighbour is known at no
\* greater cost, or gives a neighbour that has not been popped its new key and predecessor.
LEMMA UpdateIs ==
  ASSUME NEW s, HeapPart(s), NEW u \in Popped(s), u \in Nodes, NEW d \in Directions(u), NEW avoid,
         \A w \in Popped(s) : Far(s, w) <= Far(s, u)
  PROVE  LET v == Dest(u, d)
             c == Far(s, u) + EdgeCost(u, d, avoid)
             t == dijkstraUpdate(s, u, d, avoid)
         IN  /\ v \in Nodes /\ c \in Nat
             /\ v \in Seen(s) /\ Far(s, v) <= c => t = s
             /\ ~ (v \in Seen(s) /\ Far(s, v) <= c) => v \notin Popped(s) /\ Updated(s, t, u, v, c)
<1> DEFINE v == Dest(u, d)
           c == Far(s, u) + EdgeCost(u, d, avoid)
           t == dijkstraUpdate(s, u, d, avoid)
           h == s.heap
           e == SetKey(h, v, c)
<1>1. /\ s \in [heap : {h}, previous : {s.previous}, u : {s.u}]
      /\ HeapOf(h, Seen(s)) /\ Ordered(h) /\ Indexed(h) /\ Seen(s) \subseteq Nodes
      /\ \A w \in Seen(s) : Far(s, w) \in Nat
  BY DEF HeapPart
<1>2. /\ u \in Seen(s) /\ Far(s, u) \in Nat /\ EdgeCost(u, d, avoid) \in Nat /\ v \in Nodes
      /\ c \in Nat /\ Far(s, u) <= c
  BY <1>1, EdgeTypes, EdgeCosts DEF Popped
<1>3. Key(h, v) = IF v \in Seen(s) THEN Far(s, v) ELSE -1
  BY DEF Key, Seen, Far
<1>4. t = IF Key(h, v) = -1 \/ c < Key(h, v)
          THEN [s EXCEPT !.heap = IF Key(h, v) = -1 THEN minHeapInsert(e, v)
                                  ELSE minHeapResortNode(e, v),
                         !.previous = SetAt(@, v, u)]
          ELSE s
  BY DEF dijkstraUpdate, Far
<1> HIDE DEF v, c, t, e
<1>5. ASSUME v \in Seen(s), Far(s, v) <= c PROVE t = s
  <2>1. Far(s, v) \in Nat
    BY <1>1, <1>5
  <2>2. ~ (c < Far(s, v)) /\ Far(s, v) # -1
    BY <1>2, <1>5, <2>1
  <2> QED BY <1>3, <1>4, <1>5, <2>2
<1>6. ASSUME ~ (v \in Seen(s) /\ Far(s, v) <= c)
      PROVE  v \notin Popped(s) /\ Updated(s, t, u, v, c)
  <2>1. v \notin Popped(s)
    <3> SUFFICES ASSUME v \in Popped(s) PROVE FALSE
      OBVIOUS
    <3>1. v \in Seen(s) /\ Far(s, v) <= Far(s, u) /\ Far(s, v) \in Nat
      BY <1>1 DEF Popped
    <3> QED BY <1>2, <1>6, <3>1
  <2> DEFINE N == Seen(s) \cup {v}
             g == IF Key(h, v) = -1 THEN minHeapInsert(e, v) ELSE minHeapResortNode(e, v)
  <2>2. t = [s EXCEPT !.heap = g, !.previous = SetAt(@, v, u)]
    <3>1. CASE v \in Seen(s)
      <4>1. Far(s, v) \in Nat
        BY <1>1, <3>1
      <4>2. c < Far(s, v)
        BY <1>2, <1>6, <3>1, <4>1
      <4> QED BY <1>3, <1>4, <3>1, <4>2
    <3>2. CASE v \notin Seen(s)
      BY <1>3, <1>4, <3>2
    <3> QED BY <3>1, <3>2
  <2>3. /\ t \in [heap : {t.heap}, previous : {t.previous}, u : {t.u}]
        /\ t.heap = g /\ t.previous = SetAt(s.previous, v, u) /\ t.u = s.u
    <3> HIDE DEF g, h
    <3>1. s = [heap |-> h, previous |-> s.previous, u |-> s.u]
      BY <1>1
    <3> DEFINE x == SetAt(s.previous, v, u)
    <3>2. t = [s EXCEPT !.heap = g, !.previous = x]
      BY <2>2, <3>1
    <3> HIDE DEF x
    <3>3. t = [heap |-> g, previous |-> x, u |-> s.u]
      BY <3>1, <3>2
    <3>4. t.previous = x
      BY <3>3
    <3> QED BY <3>3, <3>4 DEF x
  <2>4. /\ HeapOf(g, N) /\ Ordered(g) /\ Indexed(g) /\ g.key = SetAt(h.key, v, c)
        /\ \A w : Holds(w, g.data) <=> Holds(w, h.data) \/ w = v
    <3>1. CASE v \in Seen(s)
      <4>1. Key(h, v) # -1
        BY <1>1, <1>3, <3>1
      <4>2. g = minHeapResortNode(SetKey(h, v, c), v)
        BY <4>1 DEF e
      <4>3. Holds(v, h.data)
        BY <2>1, <3>1 DEF Popped
      <4>4. c \in Int /\ c <= h.key[v]
        <5>1. Far(s, v) = h.key[v] /\ h.key[v] \in Nat
          BY <1>1, <3>1 DEF Far
        <5> QED BY <1>2, <1>6, <3>1, <5>1
      <4>5. N = Seen(s)
        BY <3>1
      <4> HIDE DEF g, h, N
      <4>6. /\ HeapOf(g, Seen(s)) /\ Ordered(g) /\ Indexed(g) /\ g.key = SetAt(h.key, v, c)
            /\ \A w : Holds(w, g.data) <=> Holds(w, h.data)
        BY <1>1, <4>2, <4>3, <4>4, HeapResort
      <4> QED BY <4>3, <4>5, <4>6
    <3>2. CASE v \notin Seen(s)
      <4>1. g = minHeapInsert(e, v)
        BY <1>3, <3>2
      <4>2. ~ Holds(v, h.data)
        BY <3>2, HeldIsSeen
      <4>3. /\ e.data = h.data /\ e.index = h.index /\ e.lost = h.lost /\ e.key = SetAt(h.key, v, c)
            /\ e \in [data : {e.data}, key : {e.key}, index : {e.index}, lost : {e.lost}]
        <5> DEFINE k == SetAt(h.key, v, c)
        <5>1. h = [data |-> h.data, key |-> h.key, index |-> h.index, lost |-> h.lost]
          BY <1>1 DEF HeapOf
        <5>2. e = [h EXCEPT !.key = k]
          BY DEF SetKey, e
        <5> HIDE DEF k
        <5>3. e = [data |-> h.data, key |-> k, index |-> h.index, lost |-> h.lost]
          BY <5>1, <5>2
        <5>4. e.key = k
          BY <5>3
        <5> QED BY <5>3, <5>4 DEF k
      <4>4. h.data \in Seq(Seen(s)) /\ h.key \in [Seen(s) -> Int] /\ Distinct(h.data)
        BY <1>1 DEF HeapOf
      <4>5. e.key \in [N -> Int] /\ \A w \in Seen(s) : e.key[w] = h.key[w]
        BY <1>2, <3>2, <4>3, <4>4 DEF SetAt
      <4>6. e.data \in Seq(N) /\ Distinct(e.data)
        <5>1. Seen(s) \subseteq N
          OBVIOUS
        <5> HIDE DEF N
        <5> QED BY <4>3, <4>4, <5>1
      <4> HIDE DEF N, g, h
      <4>7. HeapOf(e, N)
        BY <4>3, <4>5, <4>6 DEF HeapOf
      <4>8. Size(e) = Size(h) /\ \A j \in 0 .. Size(h) - 1 : K(e, j) = K(h, j)
        <5>1. Size(e) = Size(h)
          BY <4>3 DEF Size, HeapSize
        <5>2. ASSUME NEW j \in 0 .. Size(h) - 1 PROVE K(e, j) = K(h, j)
          <6>1. K(h, j) = h.key[h.data[j + 1]] /\ At(h, j) \in Seen(s) /\ At(h, j) = h.data[j + 1]
            BY <1>1, HeapTypes
          <6>2. K(e, j) = e.key[e.data[j + 1]]
            BY <4>7, <5>1, HeapTypes
          <6> QED BY <4>3, <4>5, <6>1, <6>2
        <5> QED BY <5>1, <5>2
      <4>9. Ordered(e)
        <5>1. \A j \in 1 .. Size(h) - 1 : j \in 0 .. Size(h) - 1 /\ Parent(j) \in 0 .. Size(h) - 1
          <6>1. Size(h) \in Nat
            BY <1>1, HeapTypes
          <6> QED BY <6>1, ParentIs
        <5> QED BY <1>1, <4>8, <5>1 DEF Ordered
      <4>10. Indexed(e)
        BY <1>1, <4>3, <4>8 DEF Indexed
      <4>11. v \in N /\ ~ Holds(v, e.data)
        BY <4>2, <4>3 DEF N
      <4>12. /\ HeapOf(g, N) /\ Ordered(g) /\ Indexed(g) /\ g.key = e.key
             /\ \A w : Holds(w, g.data) <=> Holds(w, e.data) \/ w = v
        BY <4>1, <4>7, <4>9, <4>10, <4>11, HeapInsert
      <4> QED BY <4>3, <4>12
    <3> QED BY <3>1, <3>2
  <2> HIDE DEF g
  <2>5. Seen(t) = N /\ \A w \in N : Far(t, w) = IF w = v THEN c ELSE Far(s, w)
    BY <2>3, <2>4 DEF Seen, Far, SetAt
  <2>6. Popped(t) = Popped(s) \ {v}
    <3>1. Popped(t) = {w \in N : ~ Holds(w, g.data)}
      BY <2>3, <2>5 DEF Popped
    <3> QED BY <2>4, <3>1 DEF Popped
  <2>7. HeapPart(t)
    <3>1. N \subseteq Nodes /\ \A w \in N : Far(t, w) \in Nat
      BY <1>1, <1>2, <2>5
    <3> QED BY <2>3, <2>4, <2>5, <3>1 DEF HeapPart
  <2> QED BY <2>1, <2>3, <2>5, <2>6, <2>7 DEF Updated
<1> QED BY <1>2, <1>5, <1>6 DEF v, c, t

\* v was reached from p, over an edge that makes up for the difference of their keys.
CameBy(s, v, p, avoid) ==
  /\ p \in Popped(s)
  /\ \E d \in Directions(p) : Dest(p, d) = v /\ Far(s, v) = Far(s, p) + EdgeCost(p, d, avoid)

KeysInOrder(s) == \A v \in Popped(s), w \in Seen(s) \ Popped(s) : Far(s, v) <= Far(s, w)

Tree(s, src, avoid) ==
  /\ src \in Seen(s) /\ Far(s, src) = 0
  /\ DOMAIN s.previous = Seen(s) \ {src}
  /\ \A v \in Seen(s) \ {src} : CameBy(s, v, s.previous[v], avoid)

\* f is what RouteBack finds from each node.
Traces(p, f) ==
  /\ f \in [Nodes -> Seq(Nodes)]
  /\ \A v \in Nodes : f[v] = IF v \in DOMAIN p THEN Append(f[p[v]], v) ELSE <<v>>

Short(s, f, m) ==
  \A v \in Seen(s) : Len(f[v]) <= m + 1 /\ (v \in Popped(s) => Len(f[v]) <= m)

Tracked(s, f, m, src, avoid) ==
  /\ HeapPart(s) /\ KeysInOrder(s) /\ Tree(s, src, avoid)
  /\ Traces(s.previous, f) /\ Short(s, f, m)
  /\ m \in Nat /\ Cardinality(Popped(s)) = m

\* The end of an edge has a key no greater than over the edge.
Reaches(s, v, d, avoid) ==
  /\ Dest(v, d) \in Seen(s)
  /\ Far(s, Dest(v, d)) <= Far(s, v) + EdgeCost(v, d, avoid)

\* Of two searches, the second knows better ways and has popped the same nodes.
Better(s, t, avoid) ==
  /\ Popped(t) = Popped(s) /\ t.u = s.u
  /\ \A w \in Popped(s) : Far(t, w) = Far(s, w)
  /\ \A v \in Popped(s) : \A d \in Directions(v) : Reaches(s, v, d, avoid) => Reaches(t, v, d, avoid)

\* dijkstraUpdate keeps the tree of predecessors and the order of the keys, and the
\* edge that it goes over is then one that counts.
LEMMA UpdateKeeps ==
  ASSUME NEW s, NEW f, NEW m, NEW src, NEW avoid, Tracked(s, f, m, src, avoid),
         NEW u \in Popped(s), NEW d \in Directions(u),
         \A w \in Popped(s) : Far(s, w) <= Far(s, u)
  PROVE  LET t == dijkstraUpdate(s, u, d, avoid)
         IN  /\ \E g : Tracked(t, g, m, src, avoid)
             /\ Better(s, t, avoid) /\ Reaches(t, u, d, avoid)
<1> DEFINE v == Dest(u, d)
           c == Far(s, u) + EdgeCost(u, d, avoid)
           t == dijkstraUpdate(s, u, d, avoid)
<1>1. /\ HeapPart(s) /\ KeysInOrder(s) /\ Tree(s, src, avoid) /\ Traces(s.previous, f) /\ Short(s, f, m)
      /\ m \in Nat /\ Cardinality(Popped(s)) = m
  BY DEF Tracked
<1>2. Popped(s) \subseteq Seen(s) /\ Seen(s) \subseteq Nodes /\ \A w \in Seen(s) : Far(s, w) \in Nat
  BY <1>1 DEF Popped, HeapPart
<1>3. /\ v \in Nodes /\ c \in Nat
      /\ v \in Seen(s) /\ Far(s, v) <= c => t = s
      /\ ~ (v \in Seen(s) /\ Far(s, v) <= c) => v \notin Popped(s) /\ Updated(s, t, u, v, c)
  <2>1. u \in Nodes
    BY <1>2
  <2> QED BY <1>1, <2>1, UpdateIs
<1> HIDE DEF t
<1>4. CASE v \in Seen(s) /\ Far(s, v) <= c
  <2>1. t = s
    BY <1>3, <1>4
  <2>2. Reaches(t, u, d, avoid)
    BY <1>4, <2>1 DEF Reaches
  <2> QED BY <2>1, <2>2 DEF Better, t
<1>5. CASE ~ (v \in Seen(s) /\ Far(s, v) <= c)
  <2>0. EdgeCost(u, d, avoid) \in Nat /\ Far(s, u) \in Nat /\ Far(s, u) <= c /\ c = Far(s, u) + EdgeCost(u, d, avoid)
    BY <1>2, EdgeCosts
  <2>v. v = Dest(u, d)
    OBVIOUS
  <2> HIDE DEF v, c
  <2>1. /\ HeapPart(t) /\ v \notin Popped(s)
        /\ Seen(t) = Seen(s) \cup {v} /\ Popped(t) = Popped(s)
        /\ \A w \in Seen(t) : Far(t, w) = IF w = v THEN c ELSE Far(s, w)
        /\ t.previous = SetAt(s.previous, v, u) /\ t.u = s.u
    BY <1>3, <1>5 DEF Updated
  <2>2. v # src
    <3>1. src \in Seen(s) /\ Far(s, src) = 0 /\ 0 <= c
      BY <1>1, <1>3 DEF Tree
    <3> QED BY <1>5, <3>1
  <2>3. \A w \in Popped(s) : w # v /\ w \in Seen(s) /\ w \in Seen(t) /\ Far(t, w) = Far(s, w)
    BY <1>2, <2>1
  <2>4. KeysInOrder(t)
    <3> SUFFICES ASSUME NEW w \in Popped(s), NEW x \in Seen(t) \ Popped(s) PROVE Far(t, w) <= Far(t, x)
      BY <2>1 DEF KeysInOrder
    <3>1. CASE x = v
      <4>1. Far(s, w) <= Far(s, u) /\ Far(s, w) \in Nat /\ Far(t, x) = c
        BY <1>2, <2>1, <3>1
      <4> QED BY <1>3, <2>0, <2>3, <4>1
    <3>2. CASE x # v
      <4>1. x \in Seen(s) \ Popped(s) /\ Far(t, x) = Far(s, x)
        BY <2>1, <3>2
      <4> QED BY <1>1, <2>3, <4>1 DEF KeysInOrder
    <3> QED BY <3>1, <3>2
  <2>5. DOMAIN t.previous = Seen(t) \ {src}
    BY <1>1, <2>1, <2>2 DEF Tree, SetAt
  <2>6. \A w \in Seen(t) \ {src} : t.previous[w] = IF w = v THEN u ELSE s.previous[w]
    BY <1>1, <2>1, <2>2 DEF Tree, SetAt
  <2>7. ASSUME NEW w \in Seen(t) \ {src} PROVE CameBy(t, w, t.previous[w], avoid)
    <3>1. CASE w = v
      <4>1. t.previous[w] = u /\ Far(t, w) = c /\ Far(t, u) = Far(s, u)
        BY <2>1, <2>3, <2>6, <3>1
      <4>2. Dest(u, d) = w /\ Far(t, w) = Far(t, u) + EdgeCost(u, d, avoid)
        BY <2>0, <2>v, <3>1, <4>1
      <4> QED BY <2>1, <4>1, <4>2 DEF CameBy
    <3>2. CASE w # v
      <4> DEFINE p == s.previous[w]
      <4>1. w \in Seen(s) \ {src} /\ t.previous[w] = p /\ Far(t, w) = Far(s, w)
        BY <2>1, <2>6, <3>2
      <4>2. CameBy(s, w, p, avoid)
        BY <1>1, <4>1 DEF Tree
      <4> HIDE DEF p
      <4>3. p \in Popped(s) /\ Far(t, p) = Far(s, p)
        BY <2>3, <4>2 DEF CameBy
      <4>4. CameBy(t, w, p, avoid)
        BY <2>1, <4>1, <4>2, <4>3 DEF CameBy
      <4> QED BY <4>1, <4>4
    <3> QED BY <3>1, <3>2
  <2>8. Tree(t, src, avoid)
    <3>1. src \in Seen(t) /\ Far(t, src) = 0
      BY <1>1, <2>1, <2>2 DEF Tree
    <3> QED BY <2>5, <2>7, <3>1 DEF Tree
  <2> DEFINE g == [f EXCEPT ![v] = Append(f[u], v)]
  <2>9. /\ g \in [Nodes -> Seq(Nodes)] /\ g[v] = Append(f[u], v) /\ g[v] \in Seq(Nodes)
        /\ \A w \in Nodes : w # v => g[w] = f[w]
        /\ u \in Nodes /\ u # v
    <3>1. u \in Nodes /\ u # v /\ v \in Nodes /\ f \in [Nodes -> Seq(Nodes)]
      BY <1>1, <1>2, <1>3, <2>3 DEF Traces
    <3>2. Append(f[u], v) \in Seq(Nodes)
      BY <3>1
    <3> DEFINE a == Append(f[u], v)
    <3> HIDE DEF a
    <3>3. [f EXCEPT ![v] = a] \in [Nodes -> Seq(Nodes)] /\ [f EXCEPT ![v] = a][v] = a
          /\ \A w \in Nodes : w # v => [f EXCEPT ![v] = a][w] = f[w]
      BY <3>1, <3>2 DEF a
    <3> QED BY <3>1, <3>2, <3>3 DEF a
  <2> HIDE DEF g
  <2>10. Traces(t.previous, g)
    <3> SUFFICES ASSUME NEW w \in Nodes
                 PROVE  g[w] = IF w \in DOMAIN t.previous THEN Append(g[t.previous[w]], w) ELSE <<w>>
      BY <2>9 DEF Traces
    <3>1. CASE w = v
      <4>1. w \in DOMAIN t.previous /\ t.previous[w] = u
        BY <2>1, <2>2, <2>5, <2>6, <3>1
      <4> QED BY <2>9, <3>1, <4>1
    <3>2. CASE w # v /\ w \in DOMAIN t.previous
      <4> DEFINE p == s.previous[w]
      <4>1. w \in Seen(s) \ {src} /\ t.previous[w] = p /\ w \in DOMAIN s.previous
        BY <1>1, <2>1, <2>5, <2>6, <3>2 DEF Tree
      <4>2. p \in Popped(s) /\ p # v /\ p \in Nodes
        BY <1>1, <1>2, <2>3, <4>1 DEF Tree, CameBy
      <4>3. f[w] = Append(f[p], w)
        BY <1>1, <4>1 DEF Traces
      <4> QED BY <2>9, <3>2, <4>1, <4>2, <4>3
    <3>3. CASE w # v /\ w \notin DOMAIN t.previous
      <4>1. w \notin DOMAIN s.previous
        BY <1>1, <2>1, <2>5, <3>3 DEF Tree
      <4>2. f[w] = <<w>>
        BY <1>1, <4>1 DEF Traces
      <4> QED BY <2>9, <3>3, <4>2
    <3> QED BY <3>1, <3>2, <3>3
  <2>11. Short(t, g, m)
    <3> SUFFICES ASSUME NEW w \in Seen(t)
                 PROVE  Len(g[w]) <= m + 1 /\ (w \in Popped(s) => Len(g[w]) <= m)
      BY <2>1 DEF Short
    <3>1. CASE w = v
      <4>1. f[u] \in Seq(Nodes) /\ Len(f[u]) <= m
        BY <1>1, <2>3, <2>9 DEF Traces, Short
      <4>2. Len(g[w]) = Len(f[u]) + 1 /\ Len(f[u]) \in Nat
        BY <1>3, <2>9, <3>1, <4>1
      <4> QED BY <1>1, <2>3, <3>1, <4>1, <4>2
    <3>2. CASE w # v
      <4>1. w \in Seen(s) /\ w \in Nodes
        BY <1>2, <2>1, <3>2
      <4> QED BY <1>1, <2>9, <3>2, <4>1 DEF Short
    <3> QED BY <3>1, <3>2
  <2>12. Tracked(t, g, m, src, avoid)
    BY <1>1, <2>1, <2>4, <2>8, <2>10, <2>11 DEF Tracked
  <2>13. Better(s, t, avoid)
    <3> SUFFICES ASSUME NEW w \in Popped(s), NEW e \in Directions(w), Reaches(s, w, e, avoid)
                 PROVE  Reaches(t, w, e, avoid)
      BY <2>1, <2>3 DEF Better
    <3> DEFINE x == Dest(w, e)
               y == Far(s, w) + EdgeCost(w, e, avoid)
    <3>1. x \in Seen(s) /\ Far(s, x) <= y
      BY DEF Reaches
    <3>2. y \in Nat /\ Far(s, x) \in Nat
      <4>1. EdgeCost(w, e, avoid) \in Nat /\ Far(s, w) \in Nat
        BY <1>2, EdgeCosts
      <4> QED BY <1>2, <3>1, <4>1
    <3>3. x \in Seen(t) /\ Far(t, x) <= Far(s, x) /\ Far(t, x) \in Nat
      <4>1. CASE x = v
        <5>1. ~ (Far(s, v) <= c) /\ Far(s, v) \in Nat
          BY <1>5, <3>1, <3>2, <4>1
        <5> QED BY <1>3, <2>1, <4>1, <5>1
      <4>2. CASE x # v
        BY <2>1, <3>1, <3>2, <4>2
      <4> QED BY <4>1, <4>2
    <3> HIDE DEF x, y
    <3>4. Far(t, x) <= y
      BY <3>1, <3>2, <3>3
    <3>5. y = Far(t, w) + EdgeCost(w, e, avoid)
      BY <2>3 DEF y
    <3> QED BY <3>3, <3>4, <3>5 DEF Reaches, x
  <2>14. Reaches(t, u, d, avoid)
    <3>1. v \in Seen(t) /\ Far(t, v) = c /\ c <= c /\ c = Far(t, u) + EdgeCost(u, d, avoid)
      BY <1>3, <2>0, <2>1, <2>3
    <3> QED BY <2>v, <3>1 DEF Reaches
  <2> QED BY <2>12, <2>13, <2>14 DEF t
<1> QED BY <1>4, <1>5

\* Two steps forward are a step forward.
LEMMA BetterTwice ==
  ASSUME NEW s, NEW t, NEW r, NEW avoid, Better(s, t, avoid), Better(t, r, avoid)
  PROVE  Better(s, r, avoid)
<1>1. /\ Popped(t) = Popped(s) /\ t.u = s.u /\ \A w \in Popped(s) : Far(t, w) = Far(s, w)
      /\ \A v \in Popped(s) : \A d \in Directions(v) : Reaches(s, v, d, avoid) => Reaches(t, v, d, avoid)
  BY DEF Better
<1>2. /\ Popped(r) = Popped(t) /\ r.u = t.u /\ \A w \in Popped(t) : Far(r, w) = Far(t, w)
      /\ \A v \in Popped(t) : \A d \in Directions(v) : Reaches(t, v, d, avoid) => Reaches(r, v, d, avoid)
  BY DEF Better
<1> QED BY <1>1, <1>2 DEF Better

\* After the edges of u have been gone over, all of them count.
LEMMA ExpandKeeps ==
  ASSUME NEW s, NEW f, NEW m, NEW src, NEW avoid, Tracked(s, f, m, src, avoid),
         NEW u \in Popped(s), \A w \in Popped(s) : Far(s, w) <= Far(s, u)
  PROVE  LET t == Expand(s, u, avoid)
         IN  /\ \E g : Tracked(t, g, m, src, avoid)
             /\ Better(s, t, avoid)
             /\ \A d \in Directions(u) : Reaches(t, u, d, avoid)
<1> DEFINE t == Expand(s, u, avoid)
           a == dijkstraUpdate(s, u, 0, avoid)
           b == dijkstraUpdate(a, u, 1, avoid)
<1>0. u \in Nodes
  BY DEF Tracked, HeapPart, Popped
<1>1. CASE NodeType[u] = "exit"
  <2>1. t = s /\ Directions(u) = {}
    BY <1>1 DEF Expand, Directions
  <2>2. Better(s, s, avoid)
    BY DEF Better
  <2> QED BY <2>1, <2>2
<1>2. CASE NodeType[u] # "exit"
  <2>1. 0 \in Directions(u) /\ \A d \in Directions(u) : d = 0 \/ (d = 1 /\ NodeType[u] = "branch")
    BY <1>2 DEF Directions, DIR_AHEAD, DIR_STRAIGHT, DIR_CURVED
  <2>2. t = IF NodeType[u] = "branch" THEN b ELSE a
    BY <1>2 DEF Expand, DIR_AHEAD, DIR_CURVED
  <2>3. (\E g : Tracked(a, g, m, src, avoid)) /\ Better(s, a, avoid) /\ Reaches(a, u, 0, avoid)
    BY <2>1, UpdateKeeps
  <2>4. CASE NodeType[u] # "branch"
    <3>1. t = a
      BY <2>2, <2>4
    <3> HIDE DEF a, t
    <3> QED BY <2>1, <2>3, <2>4, <3>1 DEF t
  <2>5. CASE NodeType[u] = "branch"
    <3>1. t = b /\ 1 \in Directions(u)
      BY <2>2, <2>5 DEF Directions, DIR_CURVED
    <3> HIDE DEF a
    <3>2. PICK g : Tracked(a, g, m, src, avoid)
      BY <2>3
    <3>3. u \in Popped(a) /\ \A w \in Popped(a) : Far(a, w) <= Far(a, u)
      BY <2>3 DEF Better
    <3>4. (\E e : Tracked(b, e, m, src, avoid)) /\ Better(a, b, avoid) /\ Reaches(b, u, 1, avoid)
      BY <3>1, <3>2, <3>3, UpdateKeeps
    <3> HIDE DEF b, t
    <3>5. Reaches(b, u, 0, avoid)
      BY <2>1, <2>3, <3>3, <3>4 DEF Better
    <3>6. Better(s, b, avoid)
      BY <2>3, <3>4, BetterTwice
    <3> QED BY <2>1, <3>1, <3>4, <3>5, <3>6 DEF t
  <2> QED BY <2>4, <2>5
<1> QED BY <1>1, <1>2

\* There are 140 nodes.
LEMMA NodesAre == IsFiniteSet(Nodes) /\ Cardinality(Nodes) = 140
<1>1. 0 \in Int /\ 139 \in Int
  OBVIOUS
<1>2. IsFiniteSet(0 .. 139) /\ Cardinality(0 .. 139) = IF 0 > 139 THEN 0 ELSE 139 - 0 + 1
  BY ONLY <1>1, FS_Interval, Zenon
<1>3. Nodes = 0 .. 139
  BY DEF Nodes
<1> QED BY <1>2, <1>3

\* The search between two turns of its loop.
SearchOK(s, f, m, src, dest, avoid) ==
  /\ Tracked(s, f, m, src, avoid)
  /\ \A v \in Popped(s) \ {dest} : \A d \in Directions(v) : Reaches(s, v, d, avoid)
  /\ s.u = dest <=> dest \in Popped(s)

\* The node that is popped is one of the nearest that had not been.
LEMMA PopIs ==
  ASSUME NEW s, NEW f, NEW m, NEW src, NEW avoid, Tracked(s, f, m, src, avoid), HeapSize(s.heap) # 0
  PROVE  LET u == At(s.heap, 0)
             t == [s EXCEPT !.heap = minHeapPop(@), !.u = u]
         IN  /\ u \in Seen(s) \ Popped(s)
             /\ Tracked(t, f, m + 1, src, avoid)
             /\ Popped(t) = Popped(s) \cup {u} /\ Seen(t) = Seen(s) /\ t.u = u
             /\ \A w \in Seen(s) : Far(t, w) = Far(s, w)
             /\ \A w \in Popped(t) : Far(t, w) <= Far(t, u)
<1> DEFINE h == s.heap
           u == At(h, 0)
           g == minHeapPop(h)
           t == [s EXCEPT !.heap = minHeapPop(@), !.u = u]
<1>1. /\ s \in [heap : {h}, previous : {s.previous}, u : {s.u}]
      /\ HeapOf(h, Seen(s)) /\ Ordered(h) /\ Indexed(h) /\ Seen(s) \subseteq Nodes
      /\ \A w \in Seen(s) : Far(s, w) \in Nat
  BY DEF Tracked, HeapPart
<1>2. /\ KeysInOrder(s) /\ Tree(s, src, avoid) /\ Traces(s.previous, f) /\ Short(s, f, m)
      /\ m \in Nat /\ Cardinality(Popped(s)) = m
  BY DEF Tracked
<1>3. h.data \in Seq(Seen(s)) /\ Len(h.data) \in Nat /\ Len(h.data) # 0 /\ h.data # << >> /\ u = h.data[1]
  BY <1>1 DEF HeapOf, HeapSize, At
<1>4. Holds(u, h.data) /\ u \in Seen(s)
  <2>1. 1 \in 1 .. Len(h.data)
    BY <1>3
  <2> HIDE DEF u
  <2> QED BY <1>3, <2>1 DEF Holds
<1>5. /\ HeapOf(g, Seen(s)) /\ Ordered(g) /\ g.key = h.key /\ Indexed(g)
      /\ \A x : Holds(x, g.data) <=> Holds(x, h.data) /\ x # u
  <2> HIDE DEF g, u, h
  <2>1. /\ HeapOf(g, Seen(s)) /\ Ordered(g) /\ g.key = h.key /\ Indexed(g)
        /\ \A x : Holds(x, g.data) <=> Holds(x, h.data) /\ x # h.data[1]
    BY <1>1, <1>3, HeapPop DEF g
  <2> QED BY <1>3, <2>1
<1>6. /\ t \in [heap : {t.heap}, previous : {t.previous}, u : {t.u}]
      /\ t.heap = g /\ t.previous = s.previous /\ t.u = u
  <2> HIDE DEF u, h
  <2>1. s = [heap |-> h, previous |-> s.previous, u |-> s.u]
    BY <1>1
  <2>2. t = [s EXCEPT !.heap = g, !.u = u]
    BY DEF h
  <2> HIDE DEF t, g
  <2>3. t = [heap |-> g, previous |-> s.previous, u |-> u]
    BY <2>1, <2>2
  <2> QED BY <2>3
<1> HIDE DEF t, g, u, h
<1>7. Seen(t) = Seen(s) /\ \A w : Far(t, w) = Far(s, w)
  BY <1>5, <1>6 DEF Seen, Far, h
<1>8. u \notin Popped(s) /\ Popped(t) = Popped(s) \cup {u}
  BY <1>4, <1>5, <1>6, <1>7 DEF Popped, h
<1>9. ASSUME NEW w \in Seen(s) \ Popped(s) PROVE Far(s, u) <= Far(s, w)
  <2>1. PICK i \in 1 .. Len(h.data) : h.data[i] = w
    BY DEF Popped, Holds, h
  <2> DEFINE j == i - 1
  <2>2. j \in 0 .. Size(h) - 1 /\ j + 1 = i /\ 0 \in 0 .. Size(h) - 1 /\ 0 + 1 = 1
    BY <1>3 DEF Size, HeapSize
  <2> HIDE DEF j
  <2>3. K(h, 0) <= K(h, j)
    BY <1>1, <2>2, RootIsLeast
  <2>4. K(h, 0) = h.key[h.data[0 + 1]] /\ K(h, j) = h.key[h.data[j + 1]]
    <3>1. HeapOf(h, Seen(s))
      BY <1>1
    <3>2. ASSUME NEW k \in 0 .. Size(h) - 1 PROVE K(h, k) = h.key[h.data[k + 1]]
      BY ONLY <3>1, <3>2, HeapTypes
    <3> QED BY <2>2, <3>2
  <2> QED BY <1>3, <2>1, <2>2, <2>3, <2>4 DEF Far, h
<1>10. HeapPart(t)
  BY <1>1, <1>5, <1>6, <1>7 DEF HeapPart
<1>11. KeysInOrder(t)
  <2> SUFFICES ASSUME NEW v \in Popped(t), NEW w \in Seen(t) \ Popped(t) PROVE Far(s, v) <= Far(s, w)
    BY <1>7 DEF KeysInOrder
  <2>1. w \in Seen(s) \ Popped(s)
    BY <1>7, <1>8
  <2> QED BY <1>2, <1>8, <1>9, <2>1 DEF KeysInOrder
<1>12. Tree(t, src, avoid)
  <2>1. ASSUME NEW v \in Seen(s) \ {src} PROVE CameBy(t, v, t.previous[v], avoid)
    <3>1. CameBy(s, v, s.previous[v], avoid)
      BY <1>2 DEF Tree
    <3> QED BY <1>6, <1>7, <1>8, <3>1 DEF CameBy
  <2> QED BY <1>2, <1>6, <1>7, <2>1 DEF Tree
<1>13. Short(t, f, m + 1)
  <2> SUFFICES ASSUME NEW v \in Seen(s)
               PROVE  Len(f[v]) <= (m + 1) + 1 /\ (v \in Popped(t) => Len(f[v]) <= m + 1)
    BY <1>7 DEF Short
  <2>1. f[v] \in Seq(Nodes) /\ Len(f[v]) <= m + 1
    BY <1>1, <1>2 DEF Short, Traces
  <2>2. Len(f[v]) \in Nat
    BY <2>1
  <2> QED BY <1>2, <2>1, <2>2
<1>14. Cardinality(Popped(t)) = m + 1
  <2>1. IsFiniteSet(Popped(s))
    <3>1. IsFiniteSet(Nodes)
      BY NodesAre
    <3>2. Popped(s) \subseteq Nodes
      BY <1>1 DEF Popped
    <3> QED BY <3>1, <3>2, FS_Subset
  <2> QED BY <1>2, <1>8, <2>1, FS_AddElement
<1>15. Tracked(t, f, m + 1, src, avoid)
  BY <1>2, <1>6, <1>10, <1>11, <1>12, <1>13, <1>14 DEF Tracked
<1>16. ASSUME NEW w \in Popped(t) PROVE Far(t, w) <= Far(t, u)
  <2>1. CASE w = u
    BY <1>1, <1>4, <1>7, <2>1
  <2>2. CASE w # u
    BY <1>2, <1>4, <1>7, <1>8, <2>2 DEF KeysInOrder
  <2> QED BY <2>1, <2>2
<1> QED BY <1>4, <1>6, <1>7, <1>8, <1>15, <1>16 DEF t, u, h

\* A turn of the loop pops one more node.
LEMMA TurnKeeps ==
  ASSUME NEW s, NEW f, NEW m, NEW src, NEW dest, NEW avoid,
         SearchOK(s, f, m, src, dest, avoid), ~ Ended(s, dest)
  PROVE  \E g : SearchOK(Turn(s, dest, avoid), g, m + 1, src, dest, avoid)
<1> DEFINE u == At(s.heap, 0)
           p == [s EXCEPT !.heap = minHeapPop(@), !.u = u]
           t == Expand(p, u, avoid)
<1>1. /\ Tracked(s, f, m, src, avoid) /\ HeapSize(s.heap) # 0 /\ s.u # dest /\ dest \notin Popped(s)
      /\ \A v \in Popped(s) \ {dest} : \A d \in Directions(v) : Reaches(s, v, d, avoid)
  BY DEF SearchOK, Ended
<1>2. Turn(s, dest, avoid) = IF u = dest THEN p ELSE t
  BY DEF Turn
<1>3. /\ u \in Seen(s) \ Popped(s)
      /\ Tracked(p, f, m + 1, src, avoid)
      /\ Popped(p) = Popped(s) \cup {u} /\ Seen(p) = Seen(s) /\ p.u = u
      /\ \A w \in Seen(s) : Far(p, w) = Far(s, w)
      /\ \A w \in Popped(p) : Far(p, w) <= Far(p, u)
  BY <1>1, PopIs
<1> HIDE DEF p, u
<1>4. ASSUME NEW v \in Popped(s) \ {dest}, NEW d \in Directions(v) PROVE Reaches(p, v, d, avoid)
  <2>1. Reaches(s, v, d, avoid) /\ v \in Seen(s)
    BY <1>1 DEF Popped
  <2> QED BY <1>3, <2>1 DEF Reaches
<1>5. CASE u = dest
  <2>1. \A v \in Popped(p) \ {dest} : v \in Popped(s) \ {dest}
    BY <1>3, <1>5
  <2>2. SearchOK(p, f, m + 1, src, dest, avoid)
    BY <1>3, <1>4, <1>5, <2>1 DEF SearchOK
  <2> QED BY <1>2, <1>5, <2>2
<1>6. CASE u # dest
  <2>1. u \in Popped(p)
    BY <1>3
  <2>2. /\ \E g : Tracked(t, g, m + 1, src, avoid)
        /\ Better(p, t, avoid)
        /\ \A d \in Directions(u) : Reaches(t, u, d, avoid)
    BY <1>3, <2>1, ExpandKeeps
  <2> HIDE DEF t
  <2>3. PICK g : Tracked(t, g, m + 1, src, avoid)
    BY <2>2
  <2>4. ASSUME NEW v \in Popped(t) \ {dest}, NEW d \in Directions(v) PROVE Reaches(t, v, d, avoid)
    <3>1. v \in Popped(p) /\ (v = u \/ v \in Popped(s) \ {dest})
      BY <1>3, <2>2 DEF Better
    <3> QED BY <1>4, <2>2, <3>1 DEF Better
  <2>5. t.u = dest <=> dest \in Popped(t)
    BY <1>1, <1>3, <1>6, <2>2 DEF Better
  <2>6. SearchOK(t, g, m + 1, src, dest, avoid)
    BY <2>3, <2>4, <2>5 DEF SearchOK
  <2> QED BY <1>2, <1>6, <2>6
<1> QED BY <1>5, <1>6

-----------------------------------------------------------------------------
(* The loops of the search.                                                *)

LoopOfTurn(f, n, m, dest, avoid) ==
  f = [k \in 0 .. n |-> IF k = 0 THEN m ELSE Turn(f[k - 1], dest, avoid)]

\* Such a loop exists.
LEMMA LoopOfTurnExists ==
  ASSUME NEW m, NEW dest, NEW avoid
  PROVE  \A n \in Nat : \E f : LoopOfTurn(f, n, m, dest, avoid)
<1> DEFINE T == {n \in Nat : \E f : LoopOfTurn(f, n, m, dest, avoid)}
<1>1. 0 \in T
  <2> DEFINE f == [k \in 0 .. 0 |-> m]
  <2>1. f = [k \in 0 .. 0 |-> IF k = 0 THEN m ELSE Turn(f[k - 1], dest, avoid)]
    OBVIOUS
  <2> HIDE DEF f
  <2>2. LoopOfTurn(f, 0, m, dest, avoid)
    BY <2>1 DEF LoopOfTurn
  <2> QED BY <2>2
<1>2. ASSUME NEW n \in Nat, n \in T PROVE n + 1 \in T
  <2>1. PICK f : LoopOfTurn(f, n, m, dest, avoid)
    BY <1>2
  <2>2. \A k \in 0 .. n : f[k] = IF k = 0 THEN m ELSE Turn(f[k - 1], dest, avoid)
    <3>1. f = [k \in 0 .. n |-> IF k = 0 THEN m ELSE Turn(f[k - 1], dest, avoid)]
      BY <2>1 DEF LoopOfTurn
    <3> DEFINE V(k) == IF k = 0 THEN m ELSE Turn(f[k - 1], dest, avoid)
    <3>2. f = [k \in 0 .. n |-> V(k)]
      BY <3>1
    <3> HIDE DEF V
    <3>3. \A k \in 0 .. n : f[k] = V(k)
      BY <3>2
    <3> QED BY <3>3 DEF V
  <2> DEFINE g == [k \in 0 .. n + 1 |-> IF k = n + 1 THEN Turn(f[n], dest, avoid) ELSE f[k]]
             W(k) == IF k = 0 THEN m ELSE Turn(g[k - 1], dest, avoid)
  <2>3. ASSUME NEW k \in 0 .. n + 1 PROVE g[k] = W(k)
    <3>1. CASE k = n + 1
      <4>1. g[k] = Turn(f[n], dest, avoid) /\ g[n] = f[n] /\ k - 1 = n /\ k # 0
        BY <3>1
      <4> QED BY <4>1
    <3>2. CASE k # n + 1 /\ k = 0
      BY <2>2, <3>2
    <3>3. CASE k # n + 1 /\ k # 0
      <4>1. k \in 0 .. n /\ k - 1 \in 0 .. n + 1 /\ k - 1 # n + 1
        BY <3>3
      <4>2. g[k] = f[k] /\ g[k - 1] = f[k - 1]
        BY <3>3, <4>1
      <4>3. f[k] = Turn(f[k - 1], dest, avoid)
        BY <2>2, <3>3, <4>1
      <4> QED BY <3>3, <4>2, <4>3
    <3> QED BY <3>1, <3>2, <3>3
  <2>4. g = [k \in 0 .. n + 1 |-> g[k]]
    OBVIOUS
  <2> HIDE DEF g
  <2>5. g = [k \in 0 .. n + 1 |-> W(k)]
    <3> HIDE DEF W
    <3> QED BY <2>3, <2>4
  <2>6. LoopOfTurn(g, n + 1, m, dest, avoid)
    BY <2>5 DEF LoopOfTurn
  <2> QED BY <2>6
<1> HIDE DEF T
<1>3. \A n \in Nat : n \in T
  BY <1>1, <1>2, Induction
<1> QED BY <1>3 DEF T

LoopOfTurns(f, n, m, dest, avoid) ==
  f = [k \in 0 .. n |-> IF k = 0 THEN m ELSE Turns(f[k - 1], dest, avoid)]

\* Such a loop exists.
LEMMA LoopOfTurnsExists ==
  ASSUME NEW m, NEW dest, NEW avoid
  PROVE  \A n \in Nat : \E f : LoopOfTurns(f, n, m, dest, avoid)
<1> DEFINE T == {n \in Nat : \E f : LoopOfTurns(f, n, m, dest, avoid)}
<1>1. 0 \in T
  <2> DEFINE f == [k \in 0 .. 0 |-> m]
  <2>1. f = [k \in 0 .. 0 |-> IF k = 0 THEN m ELSE Turns(f[k - 1], dest, avoid)]
    OBVIOUS
  <2> HIDE DEF f
  <2>2. LoopOfTurns(f, 0, m, dest, avoid)
    BY <2>1 DEF LoopOfTurns
  <2> QED BY <2>2
<1>2. ASSUME NEW n \in Nat, n \in T PROVE n + 1 \in T
  <2>1. PICK f : LoopOfTurns(f, n, m, dest, avoid)
    BY <1>2
  <2>2. \A k \in 0 .. n : f[k] = IF k = 0 THEN m ELSE Turns(f[k - 1], dest, avoid)
    <3>1. f = [k \in 0 .. n |-> IF k = 0 THEN m ELSE Turns(f[k - 1], dest, avoid)]
      BY <2>1 DEF LoopOfTurns
    <3> DEFINE V(k) == IF k = 0 THEN m ELSE Turns(f[k - 1], dest, avoid)
    <3>2. f = [k \in 0 .. n |-> V(k)]
      BY <3>1
    <3> HIDE DEF V
    <3>3. \A k \in 0 .. n : f[k] = V(k)
      BY <3>2
    <3> QED BY <3>3 DEF V
  <2> DEFINE g == [k \in 0 .. n + 1 |-> IF k = n + 1 THEN Turns(f[n], dest, avoid) ELSE f[k]]
             W(k) == IF k = 0 THEN m ELSE Turns(g[k - 1], dest, avoid)
  <2>3. ASSUME NEW k \in 0 .. n + 1 PROVE g[k] = W(k)
    <3>1. CASE k = n + 1
      <4>1. g[k] = Turns(f[n], dest, avoid) /\ g[n] = f[n] /\ k - 1 = n /\ k # 0
        BY <3>1
      <4> QED BY <4>1
    <3>2. CASE k # n + 1 /\ k = 0
      BY <2>2, <3>2
    <3>3. CASE k # n + 1 /\ k # 0
      <4>1. k \in 0 .. n /\ k - 1 \in 0 .. n + 1 /\ k - 1 # n + 1
        BY <3>3
      <4>2. g[k] = f[k] /\ g[k - 1] = f[k - 1]
        BY <3>3, <4>1
      <4>3. f[k] = Turns(f[k - 1], dest, avoid)
        BY <2>2, <3>3, <4>1
      <4> QED BY <3>3, <4>2, <4>3
    <3> QED BY <3>1, <3>2, <3>3
  <2>4. g = [k \in 0 .. n + 1 |-> g[k]]
    OBVIOUS
  <2> HIDE DEF g
  <2>5. g = [k \in 0 .. n + 1 |-> W(k)]
    <3> HIDE DEF W
    <3> QED BY <2>3, <2>4
  <2>6. LoopOfTurns(g, n + 1, m, dest, avoid)
    BY <2>5 DEF LoopOfTurns
  <2> QED BY <2>6
<1> HIDE DEF T
<1>3. \A n \in Nat : n \in T
  BY <1>1, <1>2, Induction
<1> QED BY <1>3 DEF T

\* The search has ended, or has made n turns.
Progress(s, n, src, dest, avoid) ==
  \E f, m : SearchOK(s, f, m, src, dest, avoid) /\ (Ended(s, dest) \/ n <= m)

\* One turn,
LEMMA TurnProgress ==
  ASSUME NEW s, NEW n \in Nat, NEW src, NEW dest, NEW avoid, Progress(s, n, src, dest, avoid)
  PROVE  Progress(Turn(s, dest, avoid), n + 1, src, dest, avoid)
<1>1. PICK f, m : SearchOK(s, f, m, src, dest, avoid) /\ (Ended(s, dest) \/ n <= m)
  BY DEF Progress
<1>2. CASE Ended(s, dest)
  <2>1. Turn(s, dest, avoid) = s
    BY <1>2 DEF Turn
  <2> QED BY <1>1, <1>2, <2>1 DEF Progress
<1>3. CASE ~ Ended(s, dest)
  <2>1. n + 1 <= m + 1
    BY <1>1, <1>3 DEF SearchOK, Tracked
  <2>2. PICK g : SearchOK(Turn(s, dest, avoid), g, m + 1, src, dest, avoid)
    BY <1>1, <1>3, TurnKeeps
  <2> QED BY <2>1, <2>2 DEF Progress
<1> QED BY <1>2, <1>3

\* a dozen turns,
LEMMA TurnsProgress ==
  ASSUME NEW s, NEW n \in Nat, NEW src, NEW dest, NEW avoid, Progress(s, n, src, dest, avoid)
  PROVE  Progress(Turns(s, dest, avoid), n + 12, src, dest, avoid)
<1> DEFINE turn == CHOOSE f : LoopOfTurn(f, 12, s, dest, avoid)
<1>1. LoopOfTurn(turn, 12, s, dest, avoid)
  <2>1. \E f : LoopOfTurn(f, 12, s, dest, avoid)
    BY LoopOfTurnExists
  <2> QED BY <2>1
<1>2. Turns(s, dest, avoid) = IF Ended(s, dest) THEN s ELSE turn[12]
  BY DEF Turns, LoopOfTurn
<1> HIDE DEF turn
<1>3. turn = [k \in 0 .. 12 |-> IF k = 0 THEN s ELSE Turn(turn[k - 1], dest, avoid)]
  BY <1>1 DEF LoopOfTurn
<1>4. turn[0] = s /\ \A k \in 0 .. 11 : turn[k + 1] = Turn(turn[k], dest, avoid)
  <2>1. turn[0] = s
    BY <1>3
  <2>2. ASSUME NEW k \in 0 .. 11 PROVE turn[k + 1] = Turn(turn[k], dest, avoid)
    <3>1. k + 1 \in 0 .. 12 /\ k + 1 # 0 /\ (k + 1) - 1 = k
      OBVIOUS
    <3> QED BY <1>3, <3>1
  <2> QED BY <2>1, <2>2
<1> DEFINE T == {k \in Nat : k <= 12 => Progress(turn[k], n + k, src, dest, avoid)}
<1>5. 0 \in T
  BY <1>4
<1>6. ASSUME NEW k \in Nat, k \in T PROVE k + 1 \in T
  <2> SUFFICES ASSUME k + 1 <= 12 PROVE Progress(turn[k + 1], n + (k + 1), src, dest, avoid)
    OBVIOUS
  <2>1. k \in 0 .. 11 /\ k <= 12 /\ n + k \in Nat /\ (n + k) + 1 = n + (k + 1)
    OBVIOUS
  <2>2. Progress(turn[k], n + k, src, dest, avoid)
    BY <1>6, <2>1
  <2>3. Progress(Turn(turn[k], dest, avoid), (n + k) + 1, src, dest, avoid)
    BY <2>1, <2>2, TurnProgress
  <2> QED BY <1>4, <2>1, <2>3
<1>7. Progress(turn[12], n + 12, src, dest, avoid)
  <2>1. \A k \in Nat : k \in T
    <3> HIDE DEF T
    <3> QED BY <1>5, <1>6, Induction
  <2> QED BY <2>1
<1>8. CASE Ended(s, dest)
  BY <1>2, <1>8 DEF Progress
<1> QED BY <1>2, <1>7, <1>8

\* and a dozen dozens.
LEMMA SearchProgress ==
  ASSUME NEW s, NEW src, NEW dest, NEW avoid, Progress(s, 0, src, dest, avoid)
  PROVE  Progress(Search(s, dest, avoid), 144, src, dest, avoid)
<1> DEFINE dozen == CHOOSE f : LoopOfTurns(f, 12, s, dest, avoid)
<1>1. LoopOfTurns(dozen, 12, s, dest, avoid)
  <2>1. \E f : LoopOfTurns(f, 12, s, dest, avoid)
    BY LoopOfTurnsExists
  <2> QED BY <2>1
<1>2. Search(s, dest, avoid) = dozen[12]
  BY DEF Search, LoopOfTurns
<1> HIDE DEF dozen
<1>3. dozen = [k \in 0 .. 12 |-> IF k = 0 THEN s ELSE Turns(dozen[k - 1], dest, avoid)]
  BY <1>1 DEF LoopOfTurns
<1>4. dozen[0] = s /\ \A k \in 0 .. 11 : dozen[k + 1] = Turns(dozen[k], dest, avoid)
  <2>1. dozen[0] = s
    BY <1>3
  <2>2. ASSUME NEW k \in 0 .. 11 PROVE dozen[k + 1] = Turns(dozen[k], dest, avoid)
    <3>1. k + 1 \in 0 .. 12 /\ k + 1 # 0 /\ (k + 1) - 1 = k
      OBVIOUS
    <3> QED BY <1>3, <3>1
  <2> QED BY <2>1, <2>2
<1> DEFINE T == {k \in Nat : k <= 12 => Progress(dozen[k], 12 * k, src, dest, avoid)}
<1>5. 0 \in T
  BY <1>4
<1>6. ASSUME NEW k \in Nat, k \in T PROVE k + 1 \in T
  <2> SUFFICES ASSUME k + 1 <= 12 PROVE Progress(dozen[k + 1], 12 * (k + 1), src, dest, avoid)
    OBVIOUS
  <2>1. k \in 0 .. 11 /\ k <= 12 /\ 12 * k \in Nat /\ (12 * k) + 12 = 12 * (k + 1)
    OBVIOUS
  <2>2. Progress(dozen[k], 12 * k, src, dest, avoid)
    BY <1>6, <2>1
  <2>3. Progress(Turns(dozen[k], dest, avoid), (12 * k) + 12, src, dest, avoid)
    BY <2>1, <2>2, TurnsProgress
  <2> QED BY <1>4, <2>1, <2>3
<1>7. Progress(dozen[12], 144, src, dest, avoid)
  <2>1. \A k \in Nat : k \in T
    <3> HIDE DEF T
    <3> QED BY <1>5, <1>6, Induction
  <2>2. Progress(dozen[12], 12 * 12, src, dest, avoid)
    BY <2>1
  <2>3. 12 * 12 = 144
    OBVIOUS
  <2> QED BY <2>2, <2>3
<1> QED BY <1>2, <1>7

\* The search starts with its source in the heap.
LEMMA StartOK ==
  ASSUME NEW src \in Nodes, NEW dest \in Nodes, NEW avoid
  PROVE  Progress(StartSearch(src), 0, src, dest, avoid)
<1> DEFINE h == heapInitial
           e == SetKey(h, src, 0)
           g == minHeapInsert(e, src)
           s == StartSearch(src)
           f == [v \in Nodes |-> <<v>>]
           N == {src}
<1>1. /\ e.data = << >> /\ e.index = << >> /\ e.lost = {} /\ e.key = SetAt(<< >>, src, 0)
      /\ e \in [data : {e.data}, key : {e.key}, index : {e.index}, lost : {e.lost}]
  <2> DEFINE k == SetAt(<< >>, src, 0)
  <2>1. e = [h EXCEPT !.key = SetAt(h.key, src, 0)]
    BY DEF SetKey
  <2>2. h.key = << >>
    BY DEF heapInitial
  <2>3. e = [h EXCEPT !.key = k]
    BY <2>1, <2>2
  <2> HIDE DEF k, e
  <2>4. e = [data |-> << >>, key |-> k, index |-> << >>, lost |-> {}]
    BY <2>3 DEF heapInitial
  <2>5. e.key = k
    BY <2>4
  <2> QED BY <2>4, <2>5 DEF k
<1> HIDE DEF e, h
<1>2. e.key \in [N -> Int] /\ e.key[src] = 0 /\ DOMAIN e.key = N
  BY <1>1 DEF SetAt
<1>3. HeapOf(e, N) /\ Size(e) = 0 /\ \A x : ~ Holds(x, e.data)
  <2>1. Len(e.data) = 0 /\ e.data \in Seq(N)
    BY <1>1
  <2>2. HeapOf(e, N)
    <3>1. Distinct(e.data)
      BY <2>1 DEF Distinct
    <3>2. e.key \in [N -> Int]
      BY <1>2
    <3> QED BY <1>1, <2>1, <3>1, <3>2 DEF HeapOf
  <2> QED BY <2>1, <2>2 DEF Size, HeapSize, Holds
<1>4. Ordered(e) /\ Indexed(e)
  <2>1. Ordered(e)
    BY <1>3 DEF Ordered
  <2>2. DOMAIN e.index = {} /\ e.index \in [DOMAIN e.index -> Int]
    BY <1>1
  <2> QED BY <1>3, <2>1, <2>2 DEF Indexed
<1> HIDE DEF N
<1>5. /\ HeapOf(g, N) /\ Ordered(g) /\ g.key = e.key /\ Indexed(g)
      /\ \A x : Holds(x, g.data) <=> Holds(x, e.data) \/ x = src
  <2>1. src \in N /\ ~ Holds(src, e.data)
    BY <1>3 DEF N
  <2> QED BY <1>3, <1>4, <2>1, HeapInsert
<1> HIDE DEF g
<1>6. /\ s.heap = g /\ s.previous = << >> /\ s.u = NoNode
      /\ s \in [heap : {s.heap}, previous : {s.previous}, u : {s.u}]
  <2>1. s = [heap |-> g, previous |-> << >>, u |-> NoNode]
    BY DEF StartSearch, g, e, h
  <2> HIDE DEF s
  <2> QED BY <2>1
<1> HIDE DEF s
<1>7. Seen(s) = {src} /\ Popped(s) = {} /\ Far(s, src) = 0
  <2>1. Seen(s) = {src} /\ Far(s, src) = 0
    BY <1>2, <1>5, <1>6 DEF Seen, Far, N
  <2> QED BY <1>5, <1>6, <2>1 DEF Popped
<1>8. HeapPart(s)
  BY <1>5, <1>6, <1>7 DEF HeapPart, N
<1>9. KeysInOrder(s) /\ Tree(s, src, avoid)
  <2>1. DOMAIN s.previous = {}
    BY <1>6
  <2> QED BY <1>7, <2>1 DEF KeysInOrder, Tree
<1>10. Traces(s.previous, f) /\ Short(s, f, 0)
  <2>1. DOMAIN s.previous = {}
    BY <1>6
  <2>2. f \in [Nodes -> Seq(Nodes)]
    OBVIOUS
  <2>3. \A v \in Nodes : f[v] = <<v>>
    OBVIOUS
  <2> HIDE DEF f
  <2>4. Len(f[src]) = 1
    BY <2>3
  <2>5. Traces(s.previous, f)
    BY <2>1, <2>2, <2>3 DEF Traces
  <2>6. Short(s, f, 0)
    <3> SUFFICES ASSUME NEW v \in Seen(s)
                 PROVE  Len(f[v]) <= 0 + 1 /\ (v \in Popped(s) => Len(f[v]) <= 0)
      BY DEF Short
    <3>1. v = src /\ v \notin Popped(s)
      BY <1>7
    <3>2. Len(f[v]) = 1 /\ 1 <= 0 + 1
      BY <2>4, <3>1
    <3> QED BY <3>1, <3>2
  <2> QED BY <2>5, <2>6
<1>11. Cardinality(Popped(s)) = 0
  BY <1>7, FS_EmptySet
<1>12. SearchOK(s, f, 0, src, dest, avoid)
  <2>1. s.u # dest
    <3>1. NoNode \notin Nodes
      BY DEF NoNode, Nodes
    <3> QED BY <1>6, <3>1
  <2> HIDE DEF f
  <2> QED BY <1>7, <1>8, <1>9, <1>10, <1>11, <2>1 DEF SearchOK, Tracked
<1> HIDE DEF f
<1> QED BY <1>12 DEF Progress, s

\* The search comes to its end: more turns than there are nodes are enough.
THEOREM SearchEnds ==
  ASSUME NEW src \in Nodes, NEW dest \in Nodes, NEW avoid
  PROVE  LET s == Search(StartSearch(src), dest, avoid)
         IN  /\ Ended(s, dest)
             /\ \E f, m : SearchOK(s, f, m, src, dest, avoid) /\ m <= 140
<1> DEFINE s == Search(StartSearch(src), dest, avoid)
<1>1. PICK f, m : SearchOK(s, f, m, src, dest, avoid) /\ (Ended(s, dest) \/ 144 <= m)
  <2>1. Progress(s, 144, src, dest, avoid)
    BY StartOK, SearchProgress
  <2> QED BY <2>1 DEF Progress
<1> HIDE DEF s
<1>2. m \in Nat /\ m <= 140
  <2>1. m \in Nat /\ Cardinality(Popped(s)) = m /\ Popped(s) \subseteq Nodes
    BY <1>1 DEF SearchOK, Tracked, HeapPart, Popped
  <2>2. Cardinality(Popped(s)) <= Cardinality(Nodes)
    BY <2>1, NodesAre, FS_Subset
  <2> QED BY <2>1, <2>2, NodesAre
<1>3. Ended(s, dest)
  BY <1>1, <1>2
<1> QED BY <1>1, <1>2, <1>3 DEF s

\* RouteBack, whose recursion ends as f is a solution of it.
LEMMA BackIs ==
  ASSUME NEW p, NEW f, Traces(p, f), \A v \in DOMAIN p : v \in Nodes => p[v] \in Nodes,
         NEW dest \in Nodes
  PROVE  RouteBack(p, dest) = f[dest]
<1> DEFINE V(g, v) == IF v \in DOMAIN p THEN Append(g[p[v]], v) ELSE <<v>>
           back == CHOOSE g : g = [v \in Nodes |-> V(g, v)]
<1>1. f \in [Nodes -> Seq(Nodes)] /\ \A v \in Nodes : f[v] = V(f, v)
  BY DEF Traces
<1>2. RouteBack(p, dest) = back[dest]
  BY DEF RouteBack
<1>3. back = [v \in Nodes |-> V(back, v)]
  <2> HIDE DEF V
  <2>1. f = [v \in Nodes |-> V(f, v)]
    BY <1>1
  <2> QED BY <2>1
<1> HIDE DEF back
<1>4. \A v \in Nodes : back[v] = V(back, v)
  <2> HIDE DEF V
  <2> QED BY <1>3
<1> DEFINE T == {n \in Nat : \A v \in Nodes : Len(f[v]) = n => back[v] = f[v]}
<1>5. 0 \in T
  <2> SUFFICES ASSUME NEW v \in Nodes, Len(f[v]) = 0 PROVE FALSE
    OBVIOUS
  <2>1. CASE v \in DOMAIN p
    <3>1. f[v] = Append(f[p[v]], v) /\ f[p[v]] \in Seq(Nodes)
      BY <1>1, <2>1
    <3> QED BY <3>1
  <2>2. CASE v \notin DOMAIN p
    <3>1. f[v] = <<v>>
      BY <1>1, <2>2
    <3> QED BY <3>1
  <2> QED BY <2>1, <2>2
<1>6. ASSUME NEW n \in Nat, n \in T PROVE n + 1 \in T
  <2> SUFFICES ASSUME NEW v \in Nodes, Len(f[v]) = n + 1 PROVE back[v] = f[v]
    OBVIOUS
  <2>1. CASE v \in DOMAIN p
    <3>1. f[v] = Append(f[p[v]], v) /\ f[p[v]] \in Seq(Nodes) /\ p[v] \in Nodes
      BY <1>1, <2>1
    <3>2. Len(f[p[v]]) = n
      BY <3>1
    <3>3. back[p[v]] = f[p[v]]
      BY <1>6, <3>1, <3>2
    <3> QED BY <1>4, <2>1, <3>1, <3>3
  <2>2. CASE v \notin DOMAIN p
    BY <1>1, <1>4, <2>2
  <2> QED BY <2>1, <2>2
<1>7. Len(f[dest]) \in Nat
  BY <1>1
<1>8. \A n \in Nat : n \in T
  <2> HIDE DEF T
  <2> QED BY <1>5, <1>6, Induction
<1> QED BY <1>2, <1>7, <1>8

\* A route over edges that make up for the differences of the keys.
Follows(s, r, src, v, avoid) ==
  /\ r \in Seq(Nodes) /\ Len(r) \in Nat \ {0} /\ r[1] = src /\ r[Len(r)] = v
  /\ \A i \in 1 .. Len(r) - 1 : CameBy(s, r[i + 1], r[i], avoid)

\* A route goes on over one more such edge.
LEMMA FollowsAppend ==
  ASSUME NEW s, NEW r, NEW src, NEW p, NEW v \in Nodes, NEW avoid,
         Follows(s, r, src, p, avoid), CameBy(s, v, p, avoid)
  PROVE  Follows(s, Append(r, v), src, v, avoid)
<1> DEFINE n == Len(r)
           a == Append(r, v)
<1>1. /\ r \in Seq(Nodes) /\ n \in Nat \ {0} /\ r[1] = src /\ r[n] = p
      /\ \A i \in 1 .. n - 1 : CameBy(s, r[i + 1], r[i], avoid)
  BY DEF Follows
<1>2. a \in Seq(Nodes) /\ Len(a) = n + 1 /\ \A i \in 1 .. n : a[i] = r[i]
  BY <1>1
<1>3. a[n + 1] = v
  BY <1>1
<1> HIDE DEF a, n
<1>4. ASSUME NEW i \in 1 .. n PROVE CameBy(s, a[i + 1], a[i], avoid)
  <2>1. CASE i = n
    BY <1>1, <1>2, <1>3, <2>1
  <2>2. CASE i # n
    <3>1. i \in 1 .. n - 1 /\ i + 1 \in 1 .. n
      BY <1>1, <2>2
    <3> QED BY <1>1, <1>2, <3>1
  <2> QED BY <2>1, <2>2
<1>5. a[1] = src /\ Len(a) \in Nat \ {0} /\ a[Len(a)] = v /\ Len(a) - 1 = n
  BY <1>1, <1>2, <1>3
<1> QED BY <1>2, <1>4, <1>5 DEF Follows, a

\* The predecessors lead from the source to every node that has been seen.
LEMMA TraceFollows ==
  ASSUME NEW s, NEW f, NEW m, NEW src, NEW avoid, Tracked(s, f, m, src, avoid), NEW w \in Seen(s)
  PROVE  Follows(s, f[w], src, w, avoid)
<1>1. /\ Seen(s) \subseteq Nodes /\ Popped(s) \subseteq Seen(s)
      /\ src \in Seen(s) /\ DOMAIN s.previous = Seen(s) \ {src}
      /\ \A v \in Seen(s) \ {src} : CameBy(s, v, s.previous[v], avoid)
      /\ f \in [Nodes -> Seq(Nodes)]
      /\ \A v \in Nodes : f[v] = IF v \in DOMAIN s.previous THEN Append(f[s.previous[v]], v) ELSE <<v>>
  BY DEF Tracked, HeapPart, Popped, Tree, Traces
<1> DEFINE T == {n \in Nat : \A v \in Seen(s) : Len(f[v]) = n => Follows(s, f[v], src, v, avoid)}
<1>2. ASSUME NEW n \in Nat, NEW v \in Seen(s) \ {src}, Len(f[v]) = n,
             \A u \in Seen(s) : Len(f[u]) = n - 1 => Follows(s, f[u], src, u, avoid)
      PROVE  Follows(s, f[v], src, v, avoid)
  <2> DEFINE u == s.previous[v]
  <2>1. CameBy(s, v, u, avoid) /\ u \in Seen(s) /\ u \in Nodes /\ v \in Nodes /\ f[v] = Append(f[u], v)
    BY <1>1 DEF CameBy
  <2> HIDE DEF u
  <2>2. f[u] \in Seq(Nodes) /\ Len(f[u]) = n - 1
    BY <1>1, <1>2, <2>1
  <2>3. Follows(s, f[u], src, u, avoid)
    BY <1>2, <2>1, <2>2
  <2> QED BY <2>1, <2>3, FollowsAppend
<1>3. Follows(s, f[src], src, src, avoid)
  <2> DEFINE r == <<src>>
  <2>1. src \in Nodes /\ f[src] = r
    BY <1>1
  <2>2. r \in Seq(Nodes) /\ Len(r) = 1 /\ r[1] = src
    BY <2>1
  <2> HIDE DEF r
  <2>3. Len(r) \in Nat \ {0} /\ r[Len(r)] = src /\ \A i \in 1 .. Len(r) - 1 : FALSE
    BY <2>2
  <2> QED BY <2>1, <2>2, <2>3 DEF Follows
<1>4. 0 \in T
  <2> SUFFICES ASSUME NEW v \in Seen(s), Len(f[v]) = 0 PROVE Follows(s, f[v], src, v, avoid)
    OBVIOUS
  <2>1. CASE v = src
    BY <1>3, <2>1
  <2>2. CASE v # src
    <3>1. f[v] = Append(f[s.previous[v]], v) /\ f[s.previous[v]] \in Seq(Nodes)
      BY <1>1, <2>2 DEF CameBy
    <3> QED BY <3>1
  <2> QED BY <2>1, <2>2
<1>5. ASSUME NEW n \in Nat, n \in T PROVE n + 1 \in T
  <2> SUFFICES ASSUME NEW v \in Seen(s), Len(f[v]) = n + 1 PROVE Follows(s, f[v], src, v, avoid)
    OBVIOUS
  <2>1. n + 1 \in Nat /\ (n + 1) - 1 = n
    OBVIOUS
  <2>2. CASE v # src
    BY <1>2, <1>5, <2>1, <2>2
  <2> QED BY <1>3, <2>2
<1>6. \A n \in Nat : n \in T
  <2> HIDE DEF T
  <2> QED BY <1>4, <1>5, Induction
<1>7. Len(f[w]) \in Nat
  BY <1>1
<1> QED BY <1>6, <1>7

\* A route costs what its last node's key says.
LEMMA FollowsCosts ==
  ASSUME NEW s, HeapPart(s), NEW r, NEW src, NEW v, NEW avoid, Follows(s, r, src, v, avoid),
         Far(s, src) = 0
  PROVE  /\ RouteCost(r, avoid) = Far(s, v)
         /\ \A i \in 1 .. Len(r) - 1 : \E d \in Directions(r[i]) : Dest(r[i], d) = r[i + 1]
<1> DEFINE n == Len(r)
           V(c, i) == IF i = 1 THEN 0
                      ELSE c[i - 1] + EdgeCost(r[i - 1], LegTo(r[i - 1], r[i]), avoid)
           cost == CHOOSE c : c = [i \in 1 .. n |-> V(c, i)]
           far == [i \in 1 .. n |-> Far(s, r[i])]
<1>1. /\ r \in Seq(Nodes) /\ n \in Nat \ {0} /\ r[1] = src /\ r[n] = v
      /\ \A i \in 1 .. n - 1 : CameBy(s, r[i + 1], r[i], avoid)
  BY DEF Follows
<1>2. ASSUME NEW i \in 1 .. n - 1
      PROVE  /\ Far(s, r[i + 1]) = Far(s, r[i]) + EdgeCost(r[i], LegTo(r[i], r[i + 1]), avoid)
             /\ \E d \in Directions(r[i]) : Dest(r[i], d) = r[i + 1]
  <2> DEFINE a == r[i]
             b == r[i + 1]
  <2>1. CameBy(s, b, a, avoid)
    BY <1>1
  <2>2. a \in Nodes
    <3>1. i \in 1 .. n
      BY <1>1
    <3> QED BY <1>1, <3>1
  <2> HIDE DEF a, b
  <2>3. PICK d \in Directions(a) : Dest(a, d) = b /\ Far(s, b) = Far(s, a) + EdgeCost(a, d, avoid)
    BY <2>1 DEF CameBy
  <2>4. LegTo(a, b) \in Directions(a) /\ Dest(a, LegTo(a, b)) = b
    BY <2>3 DEF LegTo
  <2>5. LegTo(a, b) = d
    BY <2>2, <2>3, <2>4, OneLeg
  <2> QED BY <2>3, <2>5 DEF a, b
<1>3. ASSUME NEW i \in 1 .. n PROVE far[i] = V(far, i)
  <2>1. CASE i = 1
    BY <1>1, <2>1
  <2>2. CASE i # 1
    <3>1. i - 1 \in 1 .. n - 1 /\ (i - 1) + 1 = i /\ i - 1 \in 1 .. n
      BY <1>1, <2>2
    <3>2. far[i] = Far(s, r[i]) /\ far[i - 1] = Far(s, r[i - 1])
      BY <3>1
    <3> DEFINE j == i - 1
    <3>3. Far(s, r[j + 1]) = Far(s, r[j]) + EdgeCost(r[j], LegTo(r[j], r[j + 1]), avoid)
      BY <1>2, <3>1
    <3> HIDE DEF far
    <3> QED BY <2>2, <3>1, <3>2, <3>3
  <2> QED BY <2>1, <2>2
<1>4. far = [i \in 1 .. n |-> V(far, i)]
  <2>1. far = [i \in 1 .. n |-> far[i]]
    OBVIOUS
  <2> HIDE DEF far, V
  <2> QED BY <1>3, <2>1
<1>5. RouteCost(r, avoid) = cost[n]
  BY DEF RouteCost
<1>6. cost = [i \in 1 .. n |-> V(cost, i)]
  <2> HIDE DEF far, V
  <2> QED BY <1>4
<1> HIDE DEF cost
<1>7. \A i \in 1 .. n : cost[i] = V(cost, i)
  <2> HIDE DEF V
  <2> QED BY <1>6
<1> DEFINE T == {i \in Nat : i + 1 \in 1 .. n => cost[i + 1] = Far(s, r[i + 1])}
<1>8. 0 \in T
  <2>1. 1 \in 1 .. n
    BY <1>1
  <2>2. cost[1] = 0
    BY <1>7, <2>1
  <2> QED BY <1>1, <2>2
<1>9. ASSUME NEW i \in Nat, i \in T PROVE i + 1 \in T
  <2> DEFINE j == i + 1
  <2> SUFFICES ASSUME j + 1 \in 1 .. n PROVE cost[j + 1] = Far(s, r[j + 1])
    OBVIOUS
  <2>1. j \in 1 .. n - 1 /\ j \in 1 .. n /\ (j + 1) - 1 = j /\ j + 1 # 1
    BY <1>1
  <2>2. cost[j] = Far(s, r[j])
    BY <1>9, <2>1
  <2> HIDE DEF j
  <2>3. cost[j + 1] = V(cost, j + 1)
    BY <1>7
  <2>4. cost[j + 1] = cost[j] + EdgeCost(r[j], LegTo(r[j], r[j + 1]), avoid)
    BY <2>1, <2>3
  <2> QED BY <1>2, <2>1, <2>2, <2>4
<1>10. cost[n] = Far(s, r[n])
  <2> DEFINE i == n - 1
  <2>1. i \in Nat /\ i + 1 = n /\ n \in 1 .. n
    BY <1>1
  <2>2. i \in T
    <3> HIDE DEF T
    <3>1. \A k \in Nat : k \in T
      BY <1>8, <1>9, Induction
    <3> QED BY <2>1, <3>1
  <2> HIDE DEF n, i
  <2> QED BY <2>1, <2>2
<1> QED BY <1>1, <1>2, <1>5, <1>10

-----------------------------------------------------------------------------
(* The reference.                                                          *)

CostTable(c) == c \in [DOMAIN c -> Nat] /\ DOMAIN c \subseteq Nodes

\* A round of the reference: nothing gets dearer, every edge counts, and what
\* a node is said to cost is paid by an edge, or was known before.
LEMMA RelaxIs ==
  ASSUME NEW c, NEW avoid, CostTable(c)
  PROVE  LET r == Relax(c, avoid)
         IN  /\ CostTable(r)
             /\ \A n \in DOMAIN c : n \in DOMAIN r /\ r[n] <= c[n]
             /\ \A n \in Nodes : \A d \in Directions(n) :
                   Dest(n, d) \in DOMAIN c =>
                      n \in DOMAIN r /\ r[n] <= EdgeCost(n, d, avoid) + c[Dest(n, d)]
             /\ \A n \in DOMAIN r :
                   \/ n \in DOMAIN c /\ r[n] = c[n]
                   \/ \E d \in Directions(n) :
                         /\ Dest(n, d) \in DOMAIN c
                         /\ r[n] = EdgeCost(n, d, avoid) + c[Dest(n, d)]
<1> DEFINE r == Relax(c, avoid)
           O(n) == Offers(c, n, avoid)
<1>1. c \in [DOMAIN c -> Nat] /\ DOMAIN c \subseteq Nodes
  BY DEF CostTable
<1>2. DOMAIN r = {n \in Nodes : O(n) # {}} /\ \A n \in DOMAIN r : r[n] = Least(O(n))
  BY DEF Relax, WorkedOut
<1>3. ASSUME NEW n \in Nodes PROVE O(n) \subseteq Nat
  <2>1. \A d \in Directions(n) : EdgeCost(n, d, avoid) \in Nat
    BY EdgeCosts
  <2>2. \A m \in DOMAIN c : c[m] \in Nat
    BY <1>1
  <2> QED BY <2>1, <2>2 DEF Offers
<1>4. \A n : \A x \in O(n) :
         \/ n \in DOMAIN c /\ x = c[n]
         \/ \E d \in Directions(n) :
               /\ Dest(n, d) \in DOMAIN c
               /\ x = EdgeCost(n, d, avoid) + c[Dest(n, d)]
  BY DEF Offers
<1>5. \A n : n \in DOMAIN c => c[n] \in O(n)
  BY DEF Offers
<1>6. \A n : \A d \in Directions(n) :
         Dest(n, d) \in DOMAIN c => EdgeCost(n, d, avoid) + c[Dest(n, d)] \in O(n)
  BY DEF Offers
<1> HIDE DEF O, r
<1>7. ASSUME NEW n \in Nodes, NEW x \in O(n)
      PROVE  n \in DOMAIN r /\ r[n] \in O(n) /\ r[n] <= x /\ r[n] \in Nat
  <2>1. n \in DOMAIN r /\ r[n] = Least(O(n))
    BY <1>2
  <2>2. PICK y \in O(n) : \A z \in O(n) : y <= z
    BY <1>3, LeastElement
  <2>3. Least(O(n)) \in O(n) /\ \A z \in O(n) : Least(O(n)) <= z
    BY <2>2 DEF Least
  <2> QED BY <1>3, <2>1, <2>3
<1>8. ASSUME NEW n \in DOMAIN r PROVE n \in Nodes /\ r[n] \in O(n) /\ r[n] \in Nat
  <2>1. n \in Nodes /\ \E x : x \in O(n)
    BY <1>2
  <2> QED BY <2>1, <1>7
<1>9. CostTable(r)
  <2>1. r = [n \in DOMAIN r |-> r[n]]
    BY DEF r, Relax, WorkedOut
  <2> QED BY <1>8, <2>1 DEF CostTable
<1>10. ASSUME NEW n \in DOMAIN c PROVE n \in DOMAIN r /\ r[n] <= c[n]
  BY <1>1, <1>5, <1>7
<1>11. ASSUME NEW n \in Nodes, NEW d \in Directions(n), Dest(n, d) \in DOMAIN c
       PROVE  n \in DOMAIN r /\ r[n] <= EdgeCost(n, d, avoid) + c[Dest(n, d)]
  BY <1>6, <1>7, <1>11
<1> QED BY <1>4, <1>8, <1>9, <1>10, <1>11 DEF r

\* What a search that has ended says of a table of costs to dest, after k
\* rounds: no way from a node that it has seen is better than the one it has
\* found, and from the last k + 1 nodes of that one the ways are known.
Bounds(c, k, s, r, dest, avoid) ==
  /\ CostTable(c)
  /\ \A v \in Seen(s) \cap DOMAIN c :
        dest \in Popped(s) /\ Far(s, v) + c[v] >= Far(s, dest)
  /\ dest \in Popped(s) =>
        \A j \in 0 .. Len(r) - 1 :
           j <= k => /\ r[Len(r) - j] \in DOMAIN c
                     /\ c[r[Len(r) - j]] + Far(s, r[Len(r) - j]) <= Far(s, dest)

\* A search that has ended, and its route.
Final(s, r, src, dest, avoid) ==
  /\ HeapPart(s) /\ KeysInOrder(s) /\ dest \in Nodes
  /\ \A v \in Popped(s) \ {dest} : \A d \in Directions(v) : Reaches(s, v, d, avoid)
  /\ dest \in Popped(s) \/ Popped(s) = Seen(s)
  /\ dest \in Popped(s) => Follows(s, r, src, dest, avoid)

\* A round of the reference keeps both bounds, and knows one more node of the route.
LEMMA RelaxBounds ==
  ASSUME NEW s, NEW r, NEW src, NEW dest, NEW avoid, Final(s, r, src, dest, avoid),
         NEW c, NEW k \in Nat, Bounds(c, k, s, r, dest, avoid)
  PROVE  Bounds(Relax(c, avoid), k + 1, s, r, dest, avoid)
<1> DEFINE e == Relax(c, avoid)
<1>1. /\ HeapPart(s) /\ KeysInOrder(s) /\ dest \in Nodes
      /\ \A v \in Popped(s) \ {dest} : \A d \in Directions(v) : Reaches(s, v, d, avoid)
      /\ dest \in Popped(s) \/ Popped(s) = Seen(s)
      /\ dest \in Popped(s) => Follows(s, r, src, dest, avoid)
  BY DEF Final
<1>2. /\ Popped(s) \subseteq Seen(s) /\ Seen(s) \subseteq Nodes
      /\ \A v \in Seen(s) : Far(s, v) \in Nat
  BY <1>1 DEF HeapPart, Popped
<1>3. /\ CostTable(c)
      /\ \A v \in Seen(s) \cap DOMAIN c :
            dest \in Popped(s) /\ Far(s, v) + c[v] >= Far(s, dest)
      /\ dest \in Popped(s) =>
            \A j \in 0 .. Len(r) - 1 :
               j <= k => /\ r[Len(r) - j] \in DOMAIN c
                         /\ c[r[Len(r) - j]] + Far(s, r[Len(r) - j]) <= Far(s, dest)
  BY DEF Bounds
<1>4. /\ CostTable(e)
      /\ \A n \in DOMAIN c : n \in DOMAIN e /\ e[n] <= c[n]
      /\ \A n \in Nodes : \A d \in Directions(n) :
            Dest(n, d) \in DOMAIN c =>
               n \in DOMAIN e /\ e[n] <= EdgeCost(n, d, avoid) + c[Dest(n, d)]
      /\ \A n \in DOMAIN e :
            \/ n \in DOMAIN c /\ e[n] = c[n]
            \/ \E d \in Directions(n) :
                  /\ Dest(n, d) \in DOMAIN c
                  /\ e[n] = EdgeCost(n, d, avoid) + c[Dest(n, d)]
  BY <1>3, RelaxIs
<1> HIDE DEF e
<1>5. /\ \A n \in DOMAIN c : c[n] \in Nat
      /\ \A n \in DOMAIN e : e[n] \in Nat
      /\ DOMAIN c \subseteq Nodes
  BY <1>3, <1>4 DEF CostTable
<1>6. ASSUME NEW v \in Seen(s), v \in DOMAIN e
      PROVE  dest \in Popped(s) /\ Far(s, v) + e[v] >= Far(s, dest)
  <2>1. CASE v \in DOMAIN c /\ e[v] = c[v]
    BY <1>3, <2>1
  <2>2. CASE v \notin Popped(s)
    <3>1. dest \in Popped(s)
      BY <1>1, <2>2
    <3>2. Far(s, dest) <= Far(s, v) /\ Far(s, dest) \in Nat /\ Far(s, v) \in Nat /\ e[v] \in Nat
      BY <1>1, <1>2, <1>5, <1>6, <2>2, <3>1 DEF KeysInOrder
    <3> QED BY <3>1, <3>2
  <2>3. CASE v = dest /\ v \in Popped(s)
    <3>1. Far(s, v) \in Nat /\ e[v] \in Nat
      BY <1>2, <1>5, <1>6
    <3> QED BY <2>3, <3>1
  <2>4. ASSUME v # dest, v \in Popped(s),
               NEW d \in Directions(v), Dest(v, d) \in DOMAIN c,
               e[v] = EdgeCost(v, d, avoid) + c[Dest(v, d)]
        PROVE  dest \in Popped(s) /\ Far(s, v) + e[v] >= Far(s, dest)
    <3>1. Dest(v, d) \in Seen(s) /\ Far(s, Dest(v, d)) <= Far(s, v) + EdgeCost(v, d, avoid)
      BY <1>1, <2>4 DEF Reaches
    <3>2. dest \in Popped(s) /\ Far(s, Dest(v, d)) + c[Dest(v, d)] >= Far(s, dest)
      BY <1>3, <2>4, <3>1
    <3>3. EdgeCost(v, d, avoid) \in Nat
      BY <1>2, EdgeCosts
    <3> DEFINE x == Far(s, Dest(v, d))
               y == c[Dest(v, d)]
               z == EdgeCost(v, d, avoid)
               w == Far(s, v)
               a == Far(s, dest)
    <3>4. x \in Nat /\ y \in Nat /\ z \in Nat /\ w \in Nat /\ a \in Nat
      BY <1>2, <1>5, <2>4, <3>1, <3>2, <3>3
    <3>5. x <= w + z /\ x + y >= a /\ e[v] = z + y
      BY <2>4, <3>1, <3>2
    <3> HIDE DEF x, y, z, w, a
    <3>6. w + (z + y) >= a
      BY <3>4, <3>5
    <3>7. w + e[v] >= a
      BY <3>5, <3>6
    <3> QED BY <3>2, <3>7 DEF w, a
  <2> QED BY <1>4, <1>6, <2>1, <2>2, <2>3, <2>4
<1>7. ASSUME dest \in Popped(s), NEW j \in 0 .. Len(r) - 1, j <= k + 1
      PROVE  /\ r[Len(r) - j] \in DOMAIN e
             /\ e[r[Len(r) - j]] + Far(s, r[Len(r) - j]) <= Far(s, dest)
  <2> DEFINE n == Len(r)
             v == r[n - j]
  <2>1. /\ r \in Seq(Nodes) /\ n \in Nat \ {0}
        /\ \A i \in 1 .. n - 1 : CameBy(s, r[i + 1], r[i], avoid)
        /\ r[n] = dest
    BY <1>1, <1>7 DEF Follows
  <2>2. CASE j <= k
    <3>1. v \in DOMAIN c /\ c[v] + Far(s, v) <= Far(s, dest)
      BY <1>3, <1>7, <2>2
    <3>2. v \in Seen(s)
      <4>1. CASE j = 0
        BY <1>2, <1>7, <2>1, <4>1
      <4>2. CASE j # 0
        <5>1. n - j \in 1 .. n - 1
          BY <2>1, <4>2
        <5> QED BY <1>2, <2>1, <5>1 DEF CameBy
      <4> QED BY <4>1, <4>2
    <3> HIDE DEF v
    <3>3. /\ v \in DOMAIN e /\ e[v] <= c[v] /\ e[v] \in Nat /\ c[v] \in Nat
          /\ Far(s, v) \in Nat /\ Far(s, dest) \in Nat
      BY <1>2, <1>4, <1>5, <1>7, <3>1, <3>2
    <3>4. e[v] + Far(s, v) <= Far(s, dest)
      BY <3>1, <3>3
    <3> QED BY <3>3, <3>4 DEF v
  <2>3. CASE j = k + 1
    <3>1. k \in 0 .. n - 1 /\ n - j \in 1 .. n - 1 /\ (n - j) + 1 = n - k
      BY <2>1, <2>3
    <3> DEFINE w == r[n - k]
    <3>2. w \in DOMAIN c /\ c[w] + Far(s, w) <= Far(s, dest)
      BY <1>3, <1>7, <3>1
    <3>3. CameBy(s, w, v, avoid)
      BY <2>1, <3>1
    <3>4. v \in Popped(s)
      BY <3>3 DEF CameBy
    <3>5. PICK d \in Directions(v) : Dest(v, d) = w /\ Far(s, w) = Far(s, v) + EdgeCost(v, d, avoid)
      BY <3>3 DEF CameBy
    <3> HIDE DEF v, w
    <3>6. v \in Nodes /\ v \in DOMAIN e /\ e[v] <= EdgeCost(v, d, avoid) + c[w]
      BY <1>2, <1>4, <3>2, <3>4, <3>5
    <3> DEFINE x == EdgeCost(v, d, avoid)
    <3>7. /\ x \in Nat /\ c[w] \in Nat /\ e[v] \in Nat
          /\ Far(s, v) \in Nat /\ Far(s, dest) \in Nat
      BY <1>2, <1>5, <1>7, <3>2, <3>4, <3>6, EdgeCosts
    <3>8. Far(s, w) = Far(s, v) + x /\ e[v] <= x + c[w]
      BY <3>5, <3>6
    <3> HIDE DEF x
    <3>9. e[v] + Far(s, v) <= Far(s, dest)
      BY <3>2, <3>7, <3>8
    <3> QED BY <3>6, <3>9 DEF v
  <2> QED BY <1>7, <2>2, <2>3
<1>8. \A v \in Seen(s) \cap DOMAIN e : dest \in Popped(s) /\ Far(s, v) + e[v] >= Far(s, dest)
  BY <1>6
<1>9. Bounds(e, k + 1, s, r, dest, avoid)
  BY <1>4, <1>7, <1>8 DEF Bounds
<1> QED BY <1>9 DEF e

LoopOfRelax(f, n, m, avoid) ==
  f = [k \in 0 .. n |-> IF k = 0 THEN m ELSE Relax(f[k - 1], avoid)]

\* Such a loop exists.
LEMMA LoopOfRelaxExists ==
  ASSUME NEW m, NEW avoid
  PROVE  \A n \in Nat : \E f : LoopOfRelax(f, n, m, avoid)
<1> DEFINE T == {n \in Nat : \E f : LoopOfRelax(f, n, m, avoid)}
<1>1. 0 \in T
  <2> DEFINE f == [k \in 0 .. 0 |-> m]
  <2>1. f = [k \in 0 .. 0 |-> IF k = 0 THEN m ELSE Relax(f[k - 1], avoid)]
    OBVIOUS
  <2> HIDE DEF f
  <2>2. LoopOfRelax(f, 0, m, avoid)
    BY <2>1 DEF LoopOfRelax
  <2> QED BY <2>2
<1>2. ASSUME NEW n \in Nat, n \in T PROVE n + 1 \in T
  <2>1. PICK f : LoopOfRelax(f, n, m, avoid)
    BY <1>2
  <2>2. \A k \in 0 .. n : f[k] = IF k = 0 THEN m ELSE Relax(f[k - 1], avoid)
    <3>1. f = [k \in 0 .. n |-> IF k = 0 THEN m ELSE Relax(f[k - 1], avoid)]
      BY <2>1 DEF LoopOfRelax
    <3> DEFINE V(k) == IF k = 0 THEN m ELSE Relax(f[k - 1], avoid)
    <3>2. f = [k \in 0 .. n |-> V(k)]
      BY <3>1
    <3> HIDE DEF V
    <3>3. \A k \in 0 .. n : f[k] = V(k)
      BY <3>2
    <3> QED BY <3>3 DEF V
  <2> DEFINE g == [k \in 0 .. n + 1 |-> IF k = n + 1 THEN Relax(f[n], avoid) ELSE f[k]]
             W(k) == IF k = 0 THEN m ELSE Relax(g[k - 1], avoid)
  <2>3. ASSUME NEW k \in 0 .. n + 1 PROVE g[k] = W(k)
    <3>1. CASE k = n + 1
      <4>1. g[k] = Relax(f[n], avoid) /\ g[n] = f[n] /\ k - 1 = n /\ k # 0
        BY <3>1
      <4> QED BY <4>1
    <3>2. CASE k # n + 1 /\ k = 0
      BY <2>2, <3>2
    <3>3. CASE k # n + 1 /\ k # 0
      <4>1. k \in 0 .. n /\ k - 1 \in 0 .. n + 1 /\ k - 1 # n + 1
        BY <3>3
      <4>2. g[k] = f[k] /\ g[k - 1] = f[k - 1]
        BY <3>3, <4>1
      <4>3. f[k] = Relax(f[k - 1], avoid)
        BY <2>2, <3>3, <4>1
      <4> QED BY <3>3, <4>2, <4>3
    <3> QED BY <3>1, <3>2, <3>3
  <2>4. g = [k \in 0 .. n + 1 |-> g[k]]
    OBVIOUS
  <2> HIDE DEF g
  <2>5. g = [k \in 0 .. n + 1 |-> W(k)]
    <3> HIDE DEF W
    <3> QED BY <2>3, <2>4
  <2>6. LoopOfRelax(g, n + 1, m, avoid)
    BY <2>5 DEF LoopOfRelax
  <2> QED BY <2>6
<1> HIDE DEF T
<1>3. \A n \in Nat : n \in T
  BY <1>1, <1>2, Induction
<1> QED BY <1>3 DEF T

LoopOfSettle(f, n, m, avoid) ==
  f = [k \in 0 .. n |-> IF k = 0 THEN m ELSE Settle(f[k - 1], avoid)]

\* Such a loop exists.
LEMMA LoopOfSettleExists ==
  ASSUME NEW m, NEW avoid
  PROVE  \A n \in Nat : \E f : LoopOfSettle(f, n, m, avoid)
<1> DEFINE T == {n \in Nat : \E f : LoopOfSettle(f, n, m, avoid)}
<1>1. 0 \in T
  <2> DEFINE f == [k \in 0 .. 0 |-> m]
  <2>1. f = [k \in 0 .. 0 |-> IF k = 0 THEN m ELSE Settle(f[k - 1], avoid)]
    OBVIOUS
  <2> HIDE DEF f
  <2>2. LoopOfSettle(f, 0, m, avoid)
    BY <2>1 DEF LoopOfSettle
  <2> QED BY <2>2
<1>2. ASSUME NEW n \in Nat, n \in T PROVE n + 1 \in T
  <2>1. PICK f : LoopOfSettle(f, n, m, avoid)
    BY <1>2
  <2>2. \A k \in 0 .. n : f[k] = IF k = 0 THEN m ELSE Settle(f[k - 1], avoid)
    <3>1. f = [k \in 0 .. n |-> IF k = 0 THEN m ELSE Settle(f[k - 1], avoid)]
      BY <2>1 DEF LoopOfSettle
    <3> DEFINE V(k) == IF k = 0 THEN m ELSE Settle(f[k - 1], avoid)
    <3>2. f = [k \in 0 .. n |-> V(k)]
      BY <3>1
    <3> HIDE DEF V
    <3>3. \A k \in 0 .. n : f[k] = V(k)
      BY <3>2
    <3> QED BY <3>3 DEF V
  <2> DEFINE g == [k \in 0 .. n + 1 |-> IF k = n + 1 THEN Settle(f[n], avoid) ELSE f[k]]
             W(k) == IF k = 0 THEN m ELSE Settle(g[k - 1], avoid)
  <2>3. ASSUME NEW k \in 0 .. n + 1 PROVE g[k] = W(k)
    <3>1. CASE k = n + 1
      <4>1. g[k] = Settle(f[n], avoid) /\ g[n] = f[n] /\ k - 1 = n /\ k # 0
        BY <3>1
      <4> QED BY <4>1
    <3>2. CASE k # n + 1 /\ k = 0
      BY <2>2, <3>2
    <3>3. CASE k # n + 1 /\ k # 0
      <4>1. k \in 0 .. n /\ k - 1 \in 0 .. n + 1 /\ k - 1 # n + 1
        BY <3>3
      <4>2. g[k] = f[k] /\ g[k - 1] = f[k - 1]
        BY <3>3, <4>1
      <4>3. f[k] = Settle(f[k - 1], avoid)
        BY <2>2, <3>3, <4>1
      <4> QED BY <3>3, <4>2, <4>3
    <3> QED BY <3>1, <3>2, <3>3
  <2>4. g = [k \in 0 .. n + 1 |-> g[k]]
    OBVIOUS
  <2> HIDE DEF g
  <2>5. g = [k \in 0 .. n + 1 |-> W(k)]
    <3> HIDE DEF W
    <3> QED BY <2>3, <2>4
  <2>6. LoopOfSettle(g, n + 1, m, avoid)
    BY <2>5 DEF LoopOfSettle
  <2> QED BY <2>6
<1> HIDE DEF T
<1>3. \A n \in Nat : n \in T
  BY <1>1, <1>2, Induction
<1> QED BY <1>3 DEF T

\* So does a dozen rounds, or no round when nothing would change.
LEMMA SettleBounds ==
  ASSUME NEW s, NEW r, NEW src, NEW dest, NEW avoid, Final(s, r, src, dest, avoid),
         NEW c, NEW n \in Nat, Bounds(c, n, s, r, dest, avoid)
  PROVE  Bounds(Settle(c, avoid), n + 12, s, r, dest, avoid)
<1> DEFINE round == CHOOSE f : LoopOfRelax(f, 12, c, avoid)
<1>1. LoopOfRelax(round, 12, c, avoid)
  <2>1. \E f : LoopOfRelax(f, 12, c, avoid)
    BY LoopOfRelaxExists
  <2> QED BY <2>1
<1>2. Settle(c, avoid) = IF Relax(c, avoid) = c THEN c ELSE round[12]
  BY DEF Settle, LoopOfRelax
<1> HIDE DEF round
<1>3. round = [k \in 0 .. 12 |-> IF k = 0 THEN c ELSE Relax(round[k - 1], avoid)]
  BY <1>1 DEF LoopOfRelax
<1>4. round[0] = c /\ \A k \in 0 .. 11 : round[k + 1] = Relax(round[k], avoid)
  <2>1. round[0] = c
    BY <1>3
  <2>2. ASSUME NEW k \in 0 .. 11 PROVE round[k + 1] = Relax(round[k], avoid)
    <3>1. k + 1 \in 0 .. 12 /\ k + 1 # 0 /\ (k + 1) - 1 = k
      OBVIOUS
    <3> QED BY <1>3, <3>1
  <2> QED BY <2>1, <2>2
<1> DEFINE T == {k \in Nat : k <= 12 => /\ Bounds(round[k], n + k, s, r, dest, avoid)
                                        /\ Relax(c, avoid) = c => round[k] = c}
<1>5. 0 \in T
  BY <1>4
<1>6. ASSUME NEW k \in Nat, k \in T PROVE k + 1 \in T
  <2> SUFFICES ASSUME k + 1 <= 12
               PROVE  /\ Bounds(round[k + 1], n + (k + 1), s, r, dest, avoid)
                      /\ Relax(c, avoid) = c => round[k + 1] = c
    OBVIOUS
  <2>1. k \in 0 .. 11 /\ k <= 12 /\ n + k \in Nat /\ (n + k) + 1 = n + (k + 1)
    OBVIOUS
  <2>2. Bounds(round[k], n + k, s, r, dest, avoid) /\ (Relax(c, avoid) = c => round[k] = c)
    BY <1>6, <2>1
  <2>3. Bounds(Relax(round[k], avoid), (n + k) + 1, s, r, dest, avoid)
    BY <2>1, <2>2, RelaxBounds
  <2> QED BY <1>4, <2>1, <2>2, <2>3
<1>7. Bounds(round[12], n + 12, s, r, dest, avoid) /\ (Relax(c, avoid) = c => round[12] = c)
  <2>1. \A k \in Nat : k \in T
    <3> HIDE DEF T
    <3> QED BY <1>5, <1>6, Induction
  <2> QED BY <2>1
<1> QED BY <1>2, <1>7

\* So do all rounds: the reference knows the whole route.
LEMMA CostsBounds ==
  ASSUME NEW s, NEW r, NEW src, NEW dest, NEW avoid, Final(s, r, src, dest, avoid)
  PROVE  Bounds(CostsTo(dest, avoid), 144, s, r, dest, avoid)
<1> DEFINE c == [v \in {dest} |-> 0]
           dozen == CHOOSE f : LoopOfSettle(f, 12, c, avoid)
<1>1. LoopOfSettle(dozen, 12, c, avoid)
  <2>1. \E f : LoopOfSettle(f, 12, c, avoid)
    <3> HIDE DEF c
    <3> QED BY LoopOfSettleExists
  <2> QED BY <2>1
<1>2. CostsTo(dest, avoid) = dozen[12]
  BY DEF CostsTo, LoopOfSettle
<1> HIDE DEF dozen
<1>3. dozen = [k \in 0 .. 12 |-> IF k = 0 THEN c ELSE Settle(dozen[k - 1], avoid)]
  BY <1>1 DEF LoopOfSettle
<1> HIDE DEF c
<1>4. dozen[0] = c /\ \A k \in 0 .. 11 : dozen[k + 1] = Settle(dozen[k], avoid)
  <2>1. dozen[0] = c
    BY <1>3
  <2>2. ASSUME NEW k \in 0 .. 11 PROVE dozen[k + 1] = Settle(dozen[k], avoid)
    <3>1. k + 1 \in 0 .. 12 /\ k + 1 # 0 /\ (k + 1) - 1 = k
      OBVIOUS
    <3> QED BY <1>3, <3>1
  <2> QED BY <2>1, <2>2
<1>5. Bounds(c, 0, s, r, dest, avoid)
  <2>1. /\ HeapPart(s) /\ dest \in Nodes
        /\ dest \in Popped(s) \/ Popped(s) = Seen(s)
        /\ dest \in Popped(s) => Follows(s, r, src, dest, avoid)
    BY DEF Final
  <2>2. DOMAIN c = {dest} /\ c[dest] = 0 /\ CostTable(c)
    BY <2>1 DEF c, CostTable
  <2>3. ASSUME NEW v \in Seen(s) \cap DOMAIN c
        PROVE  dest \in Popped(s) /\ Far(s, v) + c[v] >= Far(s, dest)
    <3>1. v = dest /\ dest \in Popped(s) /\ c[v] = 0 /\ Far(s, dest) \in Nat
      BY <2>1, <2>2 DEF HeapPart
    <3> QED BY <3>1
  <2>4. ASSUME dest \in Popped(s), NEW j \in 0 .. Len(r) - 1, j <= 0
        PROVE  /\ r[Len(r) - j] \in DOMAIN c
               /\ c[r[Len(r) - j]] + Far(s, r[Len(r) - j]) <= Far(s, dest)
    <3>1. j = 0 /\ Len(r) - 0 = Len(r) /\ r[Len(r)] = dest
      BY <2>1, <2>4 DEF Follows
    <3>2. r[Len(r) - j] = dest
      BY <3>1
    <3>3. Far(s, dest) \in Nat
      BY <2>1, <2>4 DEF HeapPart, Popped
    <3> QED BY <2>2, <3>2, <3>3
  <2> QED BY <2>2, <2>3, <2>4 DEF Bounds
<1> DEFINE T == {k \in Nat : k <= 12 => Bounds(dozen[k], 12 * k, s, r, dest, avoid)}
<1>6. 0 \in T
  BY <1>4, <1>5
<1>7. ASSUME NEW k \in Nat, k \in T PROVE k + 1 \in T
  <2> SUFFICES ASSUME k + 1 <= 12 PROVE Bounds(dozen[k + 1], 12 * (k + 1), s, r, dest, avoid)
    OBVIOUS
  <2>1. k \in 0 .. 11 /\ k <= 12 /\ 12 * k \in Nat /\ (12 * k) + 12 = 12 * (k + 1)
    OBVIOUS
  <2>2. Bounds(dozen[k], 12 * k, s, r, dest, avoid)
    BY <1>7, <2>1
  <2>3. Bounds(Settle(dozen[k], avoid), (12 * k) + 12, s, r, dest, avoid)
    BY <2>1, <2>2, SettleBounds
  <2> QED BY <1>4, <2>1, <2>3
<1>8. Bounds(dozen[12], 144, s, r, dest, avoid)
  <2>1. \A k \in Nat : k \in T
    <3> HIDE DEF T
    <3> QED BY <1>6, <1>7, Induction
  <2>2. Bounds(dozen[12], 12 * 12, s, r, dest, avoid)
    BY <2>1
  <2>3. 12 * 12 = 144
    OBVIOUS
  <2> QED BY <2>2, <2>3
<1> QED BY <1>2, <1>8

-----------------------------------------------------------------------------
(* The result of the search.                                               *)

RightResult(x) ==
  LET o == CHOOSE o \in Orbits : orbits[o].start = x.dest
      n == IF Head(x.route) = x.src THEN 1 ELSE 2
      r == SubSeq(x.route, n, Len(x.route))
      costs == ShortestCost[o][x.avoid]
  IN  /\ x.found <=> x.src \in DOMAIN costs
      /\ x.found =>
           /\ Head(r) = x.src
           /\ r[Len(r)] = x.dest
           /\ \A i \in 1 .. Len(r) - 1 : \E d \in Directions(r[i]) : Dest(r[i], d) = r[i + 1]
           /\ RouteCost(r, x.avoid) = x.cost
           /\ x.cost = costs[x.src]

\* The landmark in front of a route, and the route without it.
LEMMA WithoutFirst ==
  ASSUME NEW r \in Seq(Nodes), Len(r) \in Nat \ {0}, NEW l \in Nodes, l # r[1]
  PROVE  LET x == <<l>> \o r
         IN  Head(x) = l /\ SubSeq(x, 2, Len(x)) = r
<1> DEFINE n == Len(r)
           x == <<l>> \o r
           y == SubSeq(x, 2, n + 1)
<1>1. x \in Seq(Nodes) /\ Len(x) = Len(<<l>>) + n /\ Len(<<l>>) = 1
  OBVIOUS
<1>2. Len(x) = n + 1
  BY <1>1
<1>3. Head(x) = l /\ \A i \in 1 .. n : x[i + 1] = r[i]
  OBVIOUS
<1> HIDE DEF x
<1>4. y \in Seq(Nodes) /\ Len(y) = n /\ \A i \in 1 .. n : y[i] = x[i + 1]
  <2>1. Len(y) = n
    BY <1>1, <1>2
  <2>2. \A i \in 1 .. n : y[i] = x[(2 + i) - 1] /\ (2 + i) - 1 = i + 1
    BY <1>1, <1>2
  <2>3. y \in Seq(Nodes)
    BY <1>1, <1>2
  <2> QED BY <2>1, <2>2, <2>3
<1> HIDE DEF y
<1>5. y = r
  <2>1. \A i \in 1 .. n : y[i] = r[i]
    BY <1>3, <1>4
  <2> QED BY <1>4, <2>1
<1> QED BY <1>2, <1>3, <1>5 DEF x, y

\* dijkstra finds a shortest route when there is one.
LEMMA DijkstraIs ==
  ASSUME NEW landmark \in Nodes, NEW src \in Nodes, NEW o \in Orbits, NEW avoid \in Avoids
  PROVE  LET x == dijkstra(landmark, src, orbits[o].start, avoid)
         IN  RightResult(x) /\ Len(x.route) \in Nat /\ Len(x.route) <= 141
<1> DEFINE dest == orbits[o].start
           s    == Search(StartSearch(src), dest, avoid)
           back == RouteBack(s.previous, dest)
           x    == dijkstra(landmark, src, dest, avoid)
           c    == CostsTo(dest, avoid)
<1>1. dest \in Nodes
  BY OrbitStarts
<1>2. x = [src |-> src, dest |-> dest, avoid |-> avoid, found |-> s.u = dest,
           cost |-> Key(s.heap, dest),
           route |-> IF ~ (s.u = dest) THEN << >>
                     ELSE IF src # landmark THEN <<landmark>> \o back ELSE back,
           lost |-> s.heap.lost]
  BY DEF dijkstra, Outcome
<1> HIDE DEF x, dest
<1>3. PICK f, m : SearchOK(s, f, m, src, dest, avoid) /\ m <= 140
  BY <1>1, SearchEnds
<1>4. Ended(s, dest)
  BY <1>1, SearchEnds
<1> HIDE DEF s
<1>5. /\ Tracked(s, f, m, src, avoid)
      /\ HeapPart(s) /\ KeysInOrder(s) /\ Tree(s, src, avoid)
      /\ Traces(s.previous, f) /\ Short(s, f, m) /\ m \in Nat
      /\ \A v \in Popped(s) \ {dest} : \A d \in Directions(v) : Reaches(s, v, d, avoid)
      /\ s.u = dest <=> dest \in Popped(s)
  BY <1>3 DEF SearchOK, Tracked
<1>6. /\ Popped(s) \subseteq Seen(s) /\ Seen(s) \subseteq Nodes /\ src \in Seen(s) /\ Far(s, src) = 0
      /\ \A v \in Seen(s) : Far(s, v) \in Nat
  BY <1>5 DEF HeapPart, Popped, Tree
<1>7. back = f[dest]
  <2>1. \A v \in DOMAIN s.previous : s.previous[v] \in Nodes
    BY <1>5, <1>6 DEF Tree, CameBy
  <2> QED BY <1>1, <1>5, <2>1, BackIs
<1> HIDE DEF back
<1>8. dest \in Popped(s) => Follows(s, back, src, dest, avoid) /\ Len(back) <= 140
  <2> SUFFICES ASSUME dest \in Popped(s)
               PROVE  Follows(s, back, src, dest, avoid) /\ Len(back) <= 140
    OBVIOUS
  <2>1. Follows(s, back, src, dest, avoid)
    BY <1>5, <1>6, <1>7, TraceFollows
  <2>2. Len(back) <= m /\ Len(back) \in Nat
    BY <1>5, <1>6, <1>7, <2>1 DEF Short, Follows
  <2> QED BY <1>3, <1>5, <2>1, <2>2
<1>9. Final(s, back, src, dest, avoid)
  <2>1. dest \in Popped(s) \/ Popped(s) = Seen(s)
    <3> SUFFICES ASSUME dest \notin Popped(s) PROVE Popped(s) = Seen(s)
      OBVIOUS
    <3>1. Len(s.heap.data) = 0
      BY <1>4, <1>5 DEF Ended, HeapSize
    <3> QED BY <3>1 DEF Popped, Holds
  <2> QED BY <1>1, <1>5, <1>8, <2>1 DEF Final
<1>10. /\ CostTable(c)
       /\ \A v \in Seen(s) \cap DOMAIN c : dest \in Popped(s) /\ Far(s, v) + c[v] >= Far(s, dest)
       /\ dest \in Popped(s) =>
            \A j \in 0 .. Len(back) - 1 :
               j <= 144 => /\ back[Len(back) - j] \in DOMAIN c
                           /\ c[back[Len(back) - j]] + Far(s, back[Len(back) - j]) <= Far(s, dest)
  BY <1>9, CostsBounds DEF Bounds
<1> HIDE DEF c
<1>11. src \in DOMAIN c <=> dest \in Popped(s)
  <2>1. ASSUME dest \in Popped(s) PROVE src \in DOMAIN c /\ c[src] <= Far(s, dest)
    <3>1. Len(back) \in Nat \ {0} /\ back[1] = src /\ Len(back) <= 140
      BY <1>8, <2>1 DEF Follows
    <3> DEFINE j == Len(back) - 1
    <3>2. j \in 0 .. Len(back) - 1 /\ j <= 144 /\ Len(back) - j = 1
      BY <3>1
    <3>3. back[1] \in DOMAIN c /\ c[back[1]] + Far(s, back[1]) <= Far(s, dest)
      BY <1>10, <2>1, <3>2
    <3>4. c[src] \in Nat
      BY <1>10, <3>1, <3>3 DEF CostTable
    <3> QED BY <1>6, <3>1, <3>3, <3>4
  <2> QED BY <1>6, <1>10, <2>1
<1>12. dest \in Popped(s) => c[src] = Far(s, dest)
  <2> SUFFICES ASSUME dest \in Popped(s) PROVE c[src] = Far(s, dest)
    OBVIOUS
  <2>1. Len(back) \in Nat \ {0} /\ back[1] = src /\ Len(back) <= 140
    BY <1>8 DEF Follows
  <2> DEFINE j == Len(back) - 1
  <2>2. j \in 0 .. Len(back) - 1 /\ j <= 144 /\ Len(back) - j = 1
    BY <2>1
  <2>3. back[1] \in DOMAIN c /\ c[back[1]] + Far(s, back[1]) <= Far(s, dest)
    BY <1>10, <2>2
  <2>4. c[src] \in Nat /\ Far(s, dest) \in Nat
    BY <1>6, <1>10, <1>11 DEF CostTable
  <2>5. c[src] <= Far(s, dest)
    BY <1>6, <2>1, <2>3, <2>4
  <2>6. Far(s, src) + c[src] >= Far(s, dest)
    BY <1>6, <1>10, <1>11
  <2> QED BY <1>6, <2>4, <2>5, <2>6
<1>13. /\ x.src = src /\ x.dest = dest /\ x.avoid = avoid /\ x.found = (s.u = dest)
       /\ x.cost = Key(s.heap, dest)
       /\ x.route = IF ~ (s.u = dest) THEN << >>
                    ELSE IF src # landmark THEN <<landmark>> \o back ELSE back
  BY <1>2
<1>14. x.found <=> dest \in Popped(s)
  BY <1>5, <1>13
<1> DEFINE p == CHOOSE p \in Orbits : orbits[p].start = x.dest
<1>15. p = o
  BY <1>13, OrbitStarts DEF dest
<1>16. ShortestCost[p][x.avoid] = c
  <2>1. ShortestCost[o][avoid] = CostsTo(orbits[o].start, avoid)
    BY DEF ShortestCost
  <2> QED BY <1>13, <1>15, <2>1 DEF c, dest
<1> HIDE DEF p
<1> DEFINE n == IF Head(x.route) = x.src THEN 1 ELSE 2
           r == SubSeq(x.route, n, Len(x.route))
<1>17. ASSUME dest \in Popped(s)
       PROVE  /\ r = back
              /\ Head(r) = x.src /\ r[Len(r)] = x.dest
              /\ \A i \in 1 .. Len(r) - 1 : \E d \in Directions(r[i]) : Dest(r[i], d) = r[i + 1]
              /\ RouteCost(r, x.avoid) = x.cost
              /\ x.cost = c[x.src]
  <2>1. /\ back \in Seq(Nodes) /\ Len(back) \in Nat \ {0} /\ back[1] = src
        /\ back[Len(back)] = dest
    BY <1>8, <1>17 DEF Follows
  <2>2. x.route = IF src # landmark THEN <<landmark>> \o back ELSE back
    BY <1>13, <1>14, <1>17
  <2>3. r = back
    <3>1. CASE src # landmark
      BY <1>13, <2>1, <2>2, <3>1, WithoutFirst
    <3>2. CASE src = landmark
      <4>1. x.route = back /\ Head(back) = back[1]
        BY <2>1, <2>2, <3>2
      <4>2. n = 1 /\ r = SubSeq(back, 1, Len(back))
        BY <1>13, <2>1, <4>1
      <4>3. SubSeq(back, 1, Len(back)) = back
        BY <2>1
      <4> QED BY ONLY <4>2, <4>3
    <3> QED BY <3>1, <3>2
  <2> HIDE DEF r
  <2>4. Head(r) = x.src /\ r[Len(r)] = x.dest
    BY <1>13, <2>1, <2>3
  <2>5. /\ RouteCost(back, avoid) = Far(s, dest)
        /\ \A i \in 1 .. Len(back) - 1 :
              \E d \in Directions(back[i]) : Dest(back[i], d) = back[i + 1]
    BY <1>5, <1>6, <1>8, <1>17, FollowsCosts
  <2>6. x.cost = Far(s, dest)
    BY <1>6, <1>13, <1>17 DEF Key, Far, Seen
  <2> QED BY <1>12, <1>13, <1>17, <2>3, <2>4, <2>5, <2>6
<1> HIDE DEF r, n
<1>18. RightResult(x)
  <2>1. x.found <=> x.src \in DOMAIN c
    BY <1>11, <1>13, <1>14
  <2> QED BY <1>14, <1>16, <1>17, <2>1 DEF RightResult, p, n, r
<1>19. Len(x.route) \in Nat /\ Len(x.route) <= 141
  <2>1. CASE dest \notin Popped(s)
    <3>1. x.route = << >> /\ Len(<< >>) = 0
      BY <1>13, <1>14, <2>1
    <3> QED BY <3>1
  <2>2. CASE dest \in Popped(s)
    <3>1. back \in Seq(Nodes) /\ Len(back) \in Nat /\ Len(back) <= 140
      BY <1>8, <2>2 DEF Follows
    <3>2. Len(<<landmark>> \o back) = 1 + Len(back)
      BY <3>1
    <3>3. /\ Len(<<landmark>> \o back) \in Nat /\ Len(<<landmark>> \o back) <= 141
          /\ Len(back) \in Nat /\ Len(back) <= 141
      BY <3>1, <3>2
    <3>4. x.route = <<landmark>> \o back \/ x.route = back
      BY <1>13, <1>14, <2>2
    <3> QED BY <3>3, <3>4
  <2> QED BY <2>1, <2>2
<1> QED BY <1>18, <1>19 DEF x, dest

-----------------------------------------------------------------------------
(* The driver's records.                                                   *)

Fields == {"landmark", "predict_dest", "ahead_lm", "forward_distance", "action", "orbit",
           "route", "route_nodes_num", "check_point", "next_sensor"}

\* A record of a train: where it is and where it goes to are on the track.
OnTrack(t) == DOMAIN t = Fields /\ t.landmark \in Nodes /\ t.predict_dest \in Nodes

\* Two records of a train that is at the same place, and has the same orbit.
Same(t, u) ==
  /\ DOMAIN u = Fields
  /\ u.landmark = t.landmark /\ u.predict_dest = t.predict_dest /\ u.orbit = t.orbit

\* The index of a switch is one of its table.
LEMMA SwitchIndex ==
  ASSUME NEW n \in Nodes, NodeType[n] = "branch"
  PROVE  switchIdToIndex(SwitchNum(n)) \in 0 .. 21
<1> DEFINE k == (n - 80) \div 2
<1>1. k \in 0 .. 21
  BY NodeRanges
<1>2. SwitchNum(n) = IF k < 18 THEN k + 1 ELSE k - 18 + 153
  BY DEF SwitchNum
<1> HIDE DEF k
<1>3. CASE k < 18
  <2>1. SwitchNum(n) = k + 1 /\ (k + 1) % 134 = k + 1
    BY <1>1, <1>2, <1>3
  <2> QED BY <1>1, <2>1 DEF switchIdToIndex
<1>4. CASE ~ (k < 18)
  <2>1. SwitchNum(n) = k + 135 /\ (k + 135) % 134 = k + 1
    BY <1>1, <1>2, <1>4
  <2> QED BY <1>1, <2>1 DEF switchIdToIndex
<1> QED BY <1>3, <1>4

\* A table of switches shows a leg of every branch.
LEMMA DirectionIs ==
  ASSUME NEW table \in SwitchTables, NEW n \in Nodes, NodeType[n] # "exit"
  PROVE  Direction(table, n) \in Directions(n)
<1>1. CASE NodeType[n] = "branch"
  <2> DEFINE i == switchIdToIndex(SwitchNum(n))
  <2>1. i \in 0 .. 21
    BY <1>1, SwitchIndex
  <2>2. Direction(table, n) = table[i] - 33
    BY <1>1 DEF Direction
  <2> HIDE DEF i
  <2>3. table[i] \in {33, 34}
    BY <2>1 DEF SwitchTables, SWITCH_STR, SWITCH_CUR
  <2> QED BY <1>1, <2>2, <2>3 DEF Directions, DIR_STRAIGHT, DIR_CURVED
<1>2. CASE NodeType[n] # "branch"
  BY <1>2 DEF Direction, Directions
<1> QED BY <1>1, <1>2

\* The orbits have tables of switches.
LEMMA OrbitTables == \A o \in Orbits : orbits[o].switches \in SwitchTables
<1>1. \A S : CurvedBut(S) \in SwitchTables
  BY DEF CurvedBut, SwitchTables
<1>2. ASSUME NEW o \in Orbits PROVE orbits[o].switches \in SwitchTables
  <2>1. orbits[o] \in {Orbit1, Orbit2, Orbit3}
    BY DEF Orbits, ORBIT_MAX, orbits
  <2>2. /\ Orbit1.switches \in SwitchTables
        /\ Orbit2.switches \in SwitchTables
        /\ Orbit3.switches \in SwitchTables
    BY <1>1 DEF Orbit1, Orbit2, Orbit3
  <2> QED BY <2>1, <2>2
<1> QED BY <1>2

\* The table that dead reckoning goes by is one of them.
LEMMA TableOfIs ==
  ASSUME NEW t, t.orbit \in Orbits, NEW table \in SwitchTables
  PROVE  TableOf(t, table) \in SwitchTables
  BY OrbitTables DEF TableOf

\* What the handlers write leaves the train where it is.
LEMMA FieldsKept ==
  ASSUME NEW t, DOMAIN t = Fields, NEW a, NEW b, NEW c
  PROVE  /\ Same(t, t)
         /\ Same(t, [t EXCEPT !.action = a])
         /\ Same(t, [t EXCEPT !.check_point = a])
         /\ Same(t, [t EXCEPT !.next_sensor = a])
         /\ Same(t, [t EXCEPT !.ahead_lm = a])
         /\ Same(t, [t EXCEPT !.action = a, !.check_point = b])
         /\ DOMAIN [t EXCEPT !.orbit = a] = Fields
         /\ [t EXCEPT !.orbit = a].landmark = t.landmark
         /\ [t EXCEPT !.orbit = a].predict_dest = t.predict_dest
         /\ [t EXCEPT !.orbit = a].orbit = a
  BY DEF Same, Fields

\* So do two of them.
LEMMA SameTwice ==
  ASSUME NEW t, NEW u, NEW v, Same(t, u), Same(u, v)
  PROVE  Same(t, v)
  BY DEF Same

\* So the record stays one of a train on the track.
LEMMA SameOnTrack ==
  ASSUME NEW t, NEW u, OnTrack(t), Same(t, u)
  PROVE  OnTrack(u) /\ u.orbit = t.orbit
  BY DEF OnTrack, Same

\* An update of the landmark leaves a record of a train on the track.
LEMMA UpdateLandmark ==
  ASSUME NEW t, OnTrack(t), NEW sensor \in Nodes \cup {NoNode}, NEW table,
         TableOf(t, table) \in SwitchTables
  PROVE  LET u == updateCurrentLandmark(t, sensor, table)
         IN  /\ OnTrack(u) /\ u.orbit = t.orbit
             /\ NodeType[t.landmark] # "exit" /\ sensor # NoNode => u.landmark = sensor
<1> DEFINE u  == updateCurrentLandmark(t, sensor, table)
           tb == TableOf(t, table)
           l  == IF sensor # NoNode THEN sensor ELSE findNextNode(t, table)
           d  == Direction(tb, l)
           at == [t EXCEPT !.landmark = l, !.ahead_lm = 0]
<1>1. DOMAIN t = Fields /\ t.landmark \in Nodes /\ t.predict_dest \in Nodes
  BY DEF OnTrack
<1>2. l \in Nodes /\ (sensor # NoNode => l = sensor)
  <2>1. findNextNode(t, table) \in Nodes
    <3>1. CASE NodeType[t.landmark] = "exit"
      BY <1>1, <3>1 DEF findNextNode
    <3>2. CASE NodeType[t.landmark] # "exit"
      <4>1. Direction(tb, t.landmark) \in Directions(t.landmark)
        BY <1>1, <3>2, DirectionIs
      <4>2. Dest(t.landmark, Direction(tb, t.landmark)) \in Nodes
        BY <1>1, <4>1, EdgeTypes
      <4> QED BY <3>2, <4>2 DEF findNextNode
    <3> QED BY <3>1, <3>2
  <2> QED BY <2>1
<1>3. u = IF NodeType[t.landmark] = "exit" THEN [t EXCEPT !.action = "Halted"]
          ELSE IF NodeType[l] = "exit" THEN [at EXCEPT !.forward_distance = -1]
          ELSE [at EXCEPT !.forward_distance = Dist(l, d), !.predict_dest = Dest(l, d)]
  BY DEF updateCurrentLandmark, Halted
<1>4. NodeType[l] # "exit" => Dest(l, d) \in Nodes
  <2> SUFFICES ASSUME NodeType[l] # "exit" PROVE Dest(l, d) \in Nodes
    OBVIOUS
  <2> HIDE DEF l, tb
  <2>1. d \in Directions(l)
    BY <1>2, DirectionIs DEF tb
  <2> QED BY <1>2, <2>1, EdgeTypes
<1> HIDE DEF u, l, d
<1>5. /\ DOMAIN at = Fields /\ at.landmark = l /\ at.predict_dest = t.predict_dest
      /\ at.orbit = t.orbit
  BY <1>1 DEF Fields
<1> HIDE DEF at
<1>6. ASSUME NodeType[t.landmark] = "exit" PROVE OnTrack(u) /\ u.orbit = t.orbit
  <2>1. u = [t EXCEPT !.action = "Halted"]
    BY <1>3, <1>6
  <2>2. Same(t, u)
    BY <1>1, <2>1, FieldsKept
  <2> QED BY <2>2, SameOnTrack
<1>7. ASSUME NodeType[t.landmark] # "exit", NodeType[l] = "exit"
      PROVE  OnTrack(u) /\ u.orbit = t.orbit /\ u.landmark = l
  <2>1. u = [at EXCEPT !.forward_distance = -1]
    BY <1>3, <1>7
  <2>2. DOMAIN u = Fields /\ u.landmark = l /\ u.predict_dest = t.predict_dest /\ u.orbit = t.orbit
    BY <1>5, <2>1 DEF Fields
  <2> QED BY <1>1, <1>2, <2>2 DEF OnTrack
<1>8. ASSUME NodeType[t.landmark] # "exit", NodeType[l] # "exit"
      PROVE  OnTrack(u) /\ u.orbit = t.orbit /\ u.landmark = l
  <2>1. u = [at EXCEPT !.forward_distance = Dist(l, d), !.predict_dest = Dest(l, d)]
    BY <1>3, <1>8
  <2>2. DOMAIN u = Fields /\ u.landmark = l /\ u.predict_dest = Dest(l, d) /\ u.orbit = t.orbit
    BY <1>5, <2>1 DEF Fields
  <2> QED BY <1>2, <1>4, <1>8, <2>2 DEF OnTrack
<1> QED BY <1>2, <1>6, <1>7, <1>8 DEF u

\* The handlers that come after it leave the train where it is.
LEMMA TakeRouteSame ==
  ASSUME NEW t, DOMAIN t = Fields, NEW x
  PROVE  Same(t, TakeRoute(t, x))
<1> DEFINE r == IF x.found THEN x.route \o SubSeq(t.route, Len(x.route) + 1, Len(t.route)) ELSE t.route
           n == IF x.found THEN Len(x.route) ELSE TRACK_MAX
<1>1. TakeRoute(t, x) = [t EXCEPT !.route = r, !.route_nodes_num = n, !.check_point = 0,
                                  !.action = "To_Orbit"]
  BY DEF TakeRoute
<1> HIDE DEF r, n
<1> QED BY <1>1 DEF Same, Fields

\* predictNextSensor leaves the train where it is.
LEMMA PredictSame ==
  ASSUME NEW t, DOMAIN t = Fields
  PROVE  Same(t, predictNextSensor(t))
<1>1. \/ predictNextSensor(t) = t
      \/ predictNextSensor(t) = [t EXCEPT !.action = "Halted"]
      \/ \E n : predictNextSensor(t) = [t EXCEPT !.next_sensor = n]
  BY DEF predictNextSensor, Halted
<1>2. CASE predictNextSensor(t) = t
  BY <1>2, FieldsKept
<1>3. CASE predictNextSensor(t) = [t EXCEPT !.action = "Halted"]
  <2>1. Same(t, [t EXCEPT !.action = "Halted"])
    BY FieldsKept
  <2> QED BY <1>3, <2>1
<1>4. ASSUME NEW n, predictNextSensor(t) = [t EXCEPT !.next_sensor = n]
      PROVE  Same(t, predictNextSensor(t))
  <2>1. Same(t, [t EXCEPT !.next_sensor = n])
    BY FieldsKept
  <2> QED BY <1>4, <2>1
<1> QED BY <1>1, <1>2, <1>3, <1>4

\* So do the parts of LOCATION_CHANGE.
LEMMA ComeToSame ==
  ASSUME NEW t, DOMAIN t = Fields
  PROVE  Same(t, ComeTo(t)) /\ Same(t, GoRound(t))
<1>1. \/ ComeTo(t) = t
      \/ \E a : ComeTo(t) = [t EXCEPT !.action = a]
      \/ \E a : ComeTo(t) = [t EXCEPT !.check_point = a]
      \/ \E a, b : ComeTo(t) = [t EXCEPT !.action = a, !.check_point = b]
  BY DEF ComeTo, JoinOrbit, Halted
<1>2. \/ GoRound(t) = t
      \/ \E a : GoRound(t) = [t EXCEPT !.action = a]
      \/ \E a : GoRound(t) = [t EXCEPT !.check_point = a]
  BY DEF GoRound, Halted
<1>3. Same(t, t)
  BY FieldsKept
<1>4. ASSUME NEW a PROVE Same(t, [t EXCEPT !.action = a])
  BY FieldsKept
<1>5. ASSUME NEW a PROVE Same(t, [t EXCEPT !.check_point = a])
  BY FieldsKept
<1>6. ASSUME NEW a, NEW b PROVE Same(t, [t EXCEPT !.action = a, !.check_point = b])
  BY FieldsKept
<1>7. ASSUME NEW u, \/ u = t
                    \/ \E a : u = [t EXCEPT !.action = a]
                    \/ \E a : u = [t EXCEPT !.check_point = a]
                    \/ \E a, b : u = [t EXCEPT !.action = a, !.check_point = b]
      PROVE  Same(t, u)
  <2>1. ASSUME NEW a, u = [t EXCEPT !.action = a] PROVE Same(t, u)
    BY <1>4, <2>1
  <2>2. ASSUME NEW a, u = [t EXCEPT !.check_point = a] PROVE Same(t, u)
    BY <1>5, <2>2
  <2>3. ASSUME NEW a, NEW b, u = [t EXCEPT !.action = a, !.check_point = b] PROVE Same(t, u)
    BY <1>6, <2>3
  <2> QED BY <1>3, <1>7, <2>1, <2>2, <2>3
<1>8. Same(t, ComeTo(t))
  BY ONLY <1>1, <1>7
<1>9. Same(t, GoRound(t))
  BY ONLY <1>2, <1>7
<1> QED BY ONLY <1>8, <1>9

\* The switches.
LEMMA ThrowIs ==
  ASSUME NEW table \in SwitchTables, NEW nodes, NEW i, NEW distance
  PROVE  ThrowAhead(table, nodes, i, distance) \in SwitchTables
<1>1. \A u, v : 33 + TurnTo(u, v) \in {33, 34}
  BY DEF TurnTo, DIR_STRAIGHT, DIR_CURVED
<1>2. DOMAIN table = 0 .. 21 /\ \A s \in 0 .. 21 : table[s] \in {33, 34}
  BY DEF SwitchTables, SWITCH_STR, SWITCH_CUR
<1>3. SwitchTables = [0 .. 21 -> {33, 34}]
  BY DEF SwitchTables, SWITCH_STR, SWITCH_CUR
<1>4. \/ ThrowAhead(table, nodes, i, distance) = table
      \/ \E f : /\ \A s \in 0 .. 21 : f[s] \in {33, 34}
                /\ ThrowAhead(table, nodes, i, distance) = [s \in 0 .. 21 |-> f[s]]
  <2> DEFINE Begins(j) == distance + Length(SubSeq(nodes, i + 1, j + 1))
             end == CHOOSE j \in i .. Len(nodes) - 1 :
                       /\ j + 1 = Len(nodes) \/ Begins(j) >= SWITCH_THRESHOLD
                       /\ \A k \in i .. j - 1 : Begins(k) < SWITCH_THRESHOLD
             Thrown(s) == {j \in i .. end - 1 :
                             /\ NodeType[nodes[j + 1]] = "branch"
                             /\ switchIdToIndex(SwitchNum(nodes[j + 1])) = s}
             last(s) == CHOOSE j \in Thrown(s) : \A k \in Thrown(s) : k <= j
             V(s) == IF Thrown(s) = {} THEN table[s]
                     ELSE 33 + TurnTo(nodes[last(s) + 1], nodes[last(s) + 2])
  <2>1. ThrowAhead(table, nodes, i, distance) =
           IF i + 1 >= Len(nodes) THEN table ELSE [s \in DOMAIN table |-> V(s)]
    BY DEF ThrowAhead
  <2>2. \A s \in 0 .. 21 : V(s) \in {33, 34}
    <3> HIDE DEF Thrown, last
    <3> QED BY <1>1, <1>2
  <2> HIDE DEF V
  <2> DEFINE f == [s \in 0 .. 21 |-> V(s)]
  <2>3. /\ \A s \in 0 .. 21 : f[s] \in {33, 34}
        /\ [s \in DOMAIN table |-> V(s)] = [s \in 0 .. 21 |-> f[s]]
    BY <1>2, <2>2
  <2> QED BY <2>1, <2>3
<1> QED BY <1>3, <1>4

\* changeNextSwitch leaves a table of switches.
LEMMA ChangeIs ==
  ASSUME NEW t, NEW table \in SwitchTables
  PROVE  changeNextSwitch(t, table) \in SwitchTables
  BY ThrowIs DEF changeNextSwitch

\* The searches.
Searched(x) ==
  \E landmark \in Nodes, src \in Nodes, o \in Orbits, avoid \in Avoids :
     x = dijkstra(landmark, src, orbits[o].start, avoid)

\* What a train on the track looks for is the result of a search.
LEMMA FindIs ==
  ASSUME NEW t, OnTrack(t), NEW o \in Orbits, NEW avoid \in Avoids
  PROVE  Searched(FindRoute(t, o, avoid))
  BY DEF OnTrack, FindRoute, Searched

\* The leg to avoid is one of the map.
LEMMA AvoidIs ==
  /\ AvoidMap[0] \in Avoids
  /\ \A old \in Orbits \cup {NoOrbit}, new \in Orbits : AvoidMap[AvoidIndex(old, new)] \in Avoids
<1>1. DOMAIN AvoidMap = 0 .. 8
  BY DEF AvoidMap, ORBIT_MAX
<1>2. \A old \in Orbits \cup {NoOrbit}, new \in Orbits : AvoidIndex(old, new) \in 0 .. 8
  BY DEF AvoidIndex, Orbits, NoOrbit, ORBIT_MAX
<1> QED BY <1>1, <1>2 DEF Avoids

-----------------------------------------------------------------------------
(* The names.                                                              *)

\* The names of the switches.
LEMMA SwitchNames ==
  ASSUME NEW n \in Nodes, NodeType[n] \in {"branch", "merge"}
  PROVE  SwitchLandmark(SwitchNum(n), n % 2) = n
<1> DEFINE k == (n - 80) \div 2
           b == n % 2
<1>1. k \in 0 .. 21 /\ b \in {0, 1} /\ n = 80 + k * 2 + b
  BY NodeRanges
<1>2. SwitchNum(n) = IF k < 18 THEN k + 1 ELSE k - 18 + 153
  BY DEF SwitchNum
<1> HIDE DEF k, b
<1>3. CASE k < 18
  <2>1. SwitchNum(n) = k + 1 /\ k + 1 <= 18
    BY <1>1, <1>2, <1>3
  <2>2. SwitchLandmark(k + 1, b) = 80 + ((k + 1) - 1) * 2 + b
    BY <2>1 DEF SwitchLandmark
  <2> QED BY <1>1, <2>1, <2>2 DEF b
<1>4. CASE ~ (k < 18)
  <2>1. SwitchNum(n) = k + 135 /\ ~ (k + 135 <= 18) /\ k + 135 \in 153 .. 156
    BY <1>1, <1>2, <1>4
  <2>2. SwitchLandmark(k + 135, b) = 116 + ((k + 135) - 153) * 2 + b
    BY <2>1 DEF SwitchLandmark
  <2>3. 116 + ((k + 135) - 153) * 2 + b = n
    BY <1>1
  <2> QED BY <2>1, <2>2, <2>3 DEF b
<1> QED BY <1>3, <1>4

\* The names of the ends.
LEMMA EndNames ==
  ASSUME NEW n \in Nodes, NodeType[n] \in {"enter", "exit"}
  PROVE  EndLandmark(EndNum[(n - 124) \div 2 + 1], n % 2) = n
<1> DEFINE k == (n - 124) \div 2 + 1
           b == n % 2
<1>1. k \in 1 .. 8 /\ b \in {0, 1} /\ n = 124 + (k - 1) * 2 + b
  BY NodeRanges
<1> HIDE DEF k, b
<1>2. EndNum[k] = IF k <= 5 THEN k ELSE IF k = 6 THEN 7 ELSE k + 2
  BY <1>1 DEF EndNum
<1>3. EndLandmark(EndNum[k], b) = 124 + (k - 1) * 2 + b
  <2>1. CASE k <= 5
    <3>1. EndNum[k] = k
      BY <1>2, <2>1
    <3> QED BY <1>1, <2>1, <3>1 DEF EndLandmark
  <2>2. CASE k = 6
    <3>1. EndNum[k] = 7
      BY <1>2, <2>2
    <3> QED BY <1>1, <2>2, <3>1 DEF EndLandmark
  <2>3. CASE k = 7
    <3>1. EndNum[k] = 9
      BY <1>2, <2>3
    <3> QED BY <1>1, <2>3, <3>1 DEF EndLandmark
  <2>4. CASE k = 8
    <3>1. EndNum[k] = 10
      BY <1>2, <2>4
    <3> QED BY <1>1, <2>4, <3>1 DEF EndLandmark
  <2> QED BY <1>1, <2>1, <2>2, <2>3, <2>4
<1> QED BY <1>1, <1>3 DEF k, b

\* The names of the sensors.
LEMMA SensorNames ==
  ASSUME NEW n \in Nodes, NodeType[n] = "sensor"
  PROVE  Landmark(Name(n)) = n
<1> DEFINE k == n \div 16 + 1
           i == CHOOSE j \in 1 .. 5 : Decoders[j] = Name(n)[1]
<1>1. k \in 1 .. 5 /\ n \in 0 .. 79 /\ n = k * 16 - 16 + (n % 16) + 1 - 1
  BY NodeRanges
<1>2. Name(n) = <<Decoders[k], (n % 16) + 1>>
  BY DEF Name, Decoders
<1> HIDE DEF k
<1>3. Name(n)[1] = Decoders[k] /\ Name(n)[2] = (n % 16) + 1
  BY <1>2
<1>4. \A j, l \in 1 .. 5 : Decoders[j] = Decoders[l] => j = l
  BY DEF Decoders
<1>5. i = k /\ \E j \in 1 .. 5 : Decoders[j] = Name(n)[1]
  BY <1>1, <1>3, <1>4
<1>6. Landmark(Name(n)) = i * 16 - 16 + Name(n)[2] - 1
  <2>1. \A j \in 1 .. 5 : Decoders[j] \notin {"BR", "MR", "EN", "EX"}
    BY DEF Decoders
  <2>2. Name(n)[1] \notin {"BR", "MR", "EN", "EX"}
    BY <1>1, <1>3, <2>1
  <2> QED BY <1>5, <2>2 DEF Landmark
<1> HIDE DEF i
<1> QED BY <1>1, <1>3, <1>5, <1>6

\* deliverCmd finds each node by its name, and never takes it for a wrong word.
LEMMA NameIsFound ==
  ASSUME NEW n \in Nodes
  PROVE  Landmark(Name(n)) = n
<1>1. CASE NodeType[n] = "sensor"
  BY <1>1, SensorNames
<1>2. ~ \E i \in 1 .. 5 : Decoders[i] \in {"BR", "MR", "EN", "EX"}
  BY DEF Decoders
<1>3. NodeType[n] = "branch" => n % 2 = 0
  BY DEF NodeType, Nodes, Sensors, SwitchNodes
<1>4. NodeType[n] = "merge" => n % 2 = 1
  BY DEF NodeType, Nodes, Sensors, SwitchNodes
<1>5. NodeType[n] = "enter" => n % 2 = 0
  BY DEF NodeType, Nodes, Sensors, SwitchNodes
<1>6. NodeType[n] = "exit" => n % 2 = 1
  BY DEF NodeType, Nodes, Sensors, SwitchNodes
<1>7. CASE NodeType[n] = "branch"
  <2>1. Name(n) = <<"BR", SwitchNum(n)>>
    BY <1>7 DEF Name
  <2>2. Landmark(Name(n)) = SwitchLandmark(SwitchNum(n), 0)
    BY <1>2, <2>1 DEF Landmark
  <2> QED BY <1>3, <1>7, <2>2, SwitchNames
<1>8. CASE NodeType[n] = "merge"
  <2>1. Name(n) = <<"MR", SwitchNum(n)>>
    BY <1>8 DEF Name
  <2>2. Landmark(Name(n)) = SwitchLandmark(SwitchNum(n), 1)
    BY <1>2, <2>1 DEF Landmark
  <2> QED BY <1>4, <1>8, <2>2, SwitchNames
<1>9. CASE NodeType[n] = "enter"
  <2>1. Name(n) = <<"EN", EndNum[(n - 124) \div 2 + 1]>>
    BY <1>9 DEF Name
  <2>2. Landmark(Name(n)) = EndLandmark(EndNum[(n - 124) \div 2 + 1], 0)
    BY <1>2, <2>1 DEF Landmark
  <2> QED BY <1>5, <1>9, <2>2, EndNames
<1>10. CASE NodeType[n] = "exit"
  <2>1. Name(n) = <<"EX", EndNum[(n - 124) \div 2 + 1]>>
    BY <1>10 DEF Name
  <2>2. Landmark(Name(n)) = EndLandmark(EndNum[(n - 124) \div 2 + 1], 1)
    BY <1>2, <2>1 DEF Landmark
  <2> QED BY <1>6, <1>10, <2>2, EndNames
<1> QED BY <1>1, <1>7, <1>8, <1>9, <1>10, NodeRanges

\* The message of "set" has the index of the node.
LEMMA SetIs ==
  ASSUME NEW n \in Nodes
  PROVE  deliverCmd(<<"set", 44, Name(n)>>).value = n
<1> DEFINE line == <<"set", 44, Name(n)>>
<1>1. line[1] = "set" /\ line[2] = 44 /\ line[3] = Name(n)
  OBVIOUS
<1> HIDE DEF line
<1>2. Landmark(line[3]) = n /\ n # Junk
  BY <1>1, NameIsFound DEF Nodes, Junk
<1>3. deliverCmd(line) = Message("CMD_SET", 44, n)
  BY <1>1, <1>2 DEF deliverCmd
<1> QED BY <1>3 DEF Message, line

-----------------------------------------------------------------------------
(* The driver.                                                             *)

DriverInv ==
  /\ OnTrack(td) /\ td.orbit \in Orbits \cup {NoOrbit}
  /\ mode # "parked" => td.orbit \in Orbits
  /\ mode = "parked" => Name(td.landmark) = typed
  /\ heading \in Nodes /\ lost \in Nodes \cup {NoNode}
  /\ switch_table \in SwitchTables
  /\ search = NoSearch \/ Searched(search)

\* From a node the track leads to a node.
LEMMA OnwardIs ==
  ASSUME NEW table \in SwitchTables, NEW n \in Nodes
  PROVE  Onward(table, n) \in Nodes
<1>1. CASE NodeType[n] = "exit"
  BY <1>1 DEF Onward
<1>2. CASE NodeType[n] # "exit"
  BY <1>2, DirectionIs, EdgeTypes DEF Onward
<1> QED BY <1>1, <1>2

\* Initially the train is parked where the operator has typed.
LEMMA InitInv == Init => DriverInv
<1> SUFFICES ASSUME Init PROVE DriverInv
  OBVIOUS
<1>1. PICK n \in Nodes :
         /\ typed = Name(n)
         /\ switch_table = CurvedBut({})
         /\ td = updateCurrentLandmark(Parked, deliverCmd(<<"set", 44, Name(n)>>).value, switch_table)
         /\ heading = Onward(switch_table, n)
  BY DEF Init
<1>2. mode = "parked" /\ lost = NoNode /\ search = NoSearch
  BY DEF Init
<1>3. switch_table \in SwitchTables
  BY <1>1 DEF CurvedBut, SwitchTables
<1>4. td = updateCurrentLandmark(Parked, n, switch_table)
  BY <1>1, SetIs
<1>5. OnTrack(Parked) /\ Parked.orbit = NoOrbit /\ TableOf(Parked, switch_table) = switch_table
      /\ Parked.landmark = 22
  BY DEF OnTrack, Parked, Fields, Nodes, TableOf
<1>6. NodeType[22] # "exit" /\ n # NoNode
  BY DEF NodeType, Nodes, Sensors, NoNode
<1> HIDE DEF Parked
<1>7. OnTrack(td) /\ td.orbit = NoOrbit /\ td.landmark = n
  BY <1>3, <1>4, <1>5, <1>6, UpdateLandmark
<1>8. heading \in Nodes
  BY <1>1, <1>3, OnwardIs
<1> QED BY <1>1, <1>2, <1>3, <1>7, <1>8 DEF DriverInv

\* A handler ends with the train no longer parked.
LEMMA ConcludeIs ==
  ASSUME NEW t, Conclude(t)
  PROVE  td' = t /\ mode' # "parked"
  BY DEF Conclude

\* A record of a train that has an order.
Driven(t) == OnTrack(t) /\ t.orbit \in Orbits

\* What leaves the train where it is leaves it its orbit.
LEMMA DrivenSame ==
  ASSUME NEW t, NEW u, Driven(t), Same(t, u)
  PROVE  Driven(u) /\ DOMAIN u = Fields
<1>1. OnTrack(t) /\ t.orbit \in Orbits
  BY DEF Driven
<1>2. OnTrack(u) /\ u.orbit = t.orbit
  BY <1>1, SameOnTrack
<1> QED BY <1>1, <1>2 DEF Driven, Same

\* LOCATION_CHANGE: the record, the switches and the search it leaves.
LEMMA LocationInv ==
  ASSUME DriverInv, mode # "parked", NEW sensor \in Nodes, LocationChange(sensor)
  PROVE  /\ Driven(td') /\ mode' # "parked" /\ switch_table' \in SwitchTables
         /\ search' = NoSearch \/ Searched(search')
<1>1. OnTrack(td) /\ td.orbit \in Orbits /\ switch_table \in SwitchTables
      /\ (search = NoSearch \/ Searched(search))
  BY DEF DriverInv
<1> DEFINE at == updateCurrentLandmark(td, sensor, switch_table)
           here == ComeTo(at)
           result == IF here.action = "Off_Route" THEN FindRoute(here, here.orbit, AvoidMap[0])
                     ELSE search
           there == GoRound(IF here.action = "Off_Route" THEN TakeRoute(here, result) ELSE here)
           t == predictNextSensor(there)
<1>2. /\ search' = result
      /\ switch_table' = IF there.action = "On_Orbit" THEN changeNextSwitch(there, switch_table)
                         ELSE switch_table
      /\ Conclude(t)
  BY DEF LocationChange
<1>3. Driven(at) /\ DOMAIN at = Fields
  <2>1. TableOf(td, switch_table) \in SwitchTables
    BY <1>1, TableOfIs
  <2>2. OnTrack(at) /\ at.orbit = td.orbit
    BY <1>1, <2>1, UpdateLandmark
  <2> QED BY <1>1, <2>2 DEF Driven, OnTrack
<1> HIDE DEF at
<1>4. Driven(here) /\ DOMAIN here = Fields
  BY <1>3, ComeToSame, DrivenSame
<1> HIDE DEF here
<1>5. result = NoSearch \/ Searched(result)
  BY <1>1, <1>4, FindIs, AvoidIs DEF Driven
<1> HIDE DEF result
<1>6. Driven(there) /\ DOMAIN there = Fields
  <2> DEFINE a == IF here.action = "Off_Route" THEN TakeRoute(here, result) ELSE here
  <2>1. Driven(a) /\ DOMAIN a = Fields
    <3>1. Same(here, TakeRoute(here, result))
      BY <1>4, TakeRouteSame
    <3>2. Driven(TakeRoute(here, result)) /\ DOMAIN TakeRoute(here, result) = Fields
      BY <1>4, <3>1, DrivenSame
    <3> QED BY <1>4, <3>2
  <2> HIDE DEF a
  <2>2. Same(a, GoRound(a))
    BY <2>1, ComeToSame
  <2>3. Driven(GoRound(a)) /\ DOMAIN GoRound(a) = Fields
    BY <2>1, <2>2, DrivenSame
  <2> QED BY <2>3 DEF a
<1> HIDE DEF there
<1>7. Driven(t)
  BY <1>6, PredictSame, DrivenSame
<1> HIDE DEF t
<1>8. td' = t /\ mode' # "parked"
  BY <1>2, ConcludeIs
<1>9. switch_table' \in SwitchTables
  BY <1>1, <1>2, ChangeIs
<1> QED BY <1>2, <1>5, <1>7, <1>8, <1>9

\* CMD_ORBIT.
LEMMA OrbitInv ==
  ASSUME DriverInv, NEW o \in Orbits, OrbitCommand(o)
  PROVE  DriverInv'
<1>1. /\ OnTrack(td) /\ td.orbit \in Orbits \cup {NoOrbit}
      /\ heading \in Nodes /\ lost \in Nodes \cup {NoNode} /\ switch_table \in SwitchTables
  BY DEF DriverInv
<1> DEFINE result == FindRoute(td, o, AvoidMap[AvoidIndex(td.orbit, o)])
           take == TakeRoute(td, result)
           u == [take EXCEPT !.orbit = o]
           t == predictNextSensor(u)
<1>2. /\ search' = result /\ Conclude(t)
      /\ UNCHANGED <<switch_table, heading, lost>>
  BY DEF OrbitCommand
<1>3. Searched(result)
  BY <1>1, AvoidIs, FindIs
<1> HIDE DEF result
<1>4. Same(td, take) /\ DOMAIN take = Fields
  BY <1>1, TakeRouteSame DEF OnTrack, Same
<1> HIDE DEF take
<1>5. /\ DOMAIN u = Fields /\ u.landmark = take.landmark /\ u.predict_dest = take.predict_dest
      /\ u.orbit = o
  BY <1>4, FieldsKept
<1> HIDE DEF u
<1>6. Driven(u)
  BY <1>1, <1>4, <1>5 DEF Driven, OnTrack, Same
<1>7. Driven(t)
  BY <1>5, <1>6, PredictSame, DrivenSame
<1> HIDE DEF t
<1>8. td' = t /\ mode' # "parked"
  BY <1>2, ConcludeIs
<1> QED BY <1>1, <1>2, <1>3, <1>7, <1>8 DEF DriverInv, Driven

\* A message of the secretary.
LEMMA SecretaryInv ==
  ASSUME DriverInv, mode # "parked", NEW t, Driven(t), Secretary(t)
  PROVE  DriverInv'
<1>1. /\ heading \in Nodes /\ lost \in Nodes \cup {NoNode} /\ switch_table \in SwitchTables
      /\ (search = NoSearch \/ Searched(search))
  BY DEF DriverInv
<1>2. /\ Conclude(t) /\ switch_table' = changeNextSwitch(t, switch_table)
      /\ UNCHANGED <<heading, lost, search>>
  BY DEF Secretary
<1>3. td' = t /\ mode' # "parked"
  BY <1>2, ConcludeIs
<1>4. switch_table' \in SwitchTables
  BY <1>1, <1>2, ChangeIs
<1> QED BY <1>1, <1>2, <1>3, <1>4 DEF DriverInv, Driven

\* The estimate passes a node that is no sensor.
LEMMA PassedIs ==
  ASSUME NEW t, Driven(t), switch_table \in SwitchTables
  PROVE  Driven(Passed(t))
<1> DEFINE u == updateCurrentLandmark(t, NoNode, switch_table)
<1>1. OnTrack(t) /\ t.orbit \in Orbits
  BY DEF Driven
<1>2. TableOf(t, switch_table) \in SwitchTables
  BY <1>1, TableOfIs
<1>3. Driven(u) /\ DOMAIN u = Fields
  <2>1. OnTrack(u) /\ u.orbit = t.orbit
    BY <1>1, <1>2, UpdateLandmark
  <2> QED BY <1>1, <2>1 DEF Driven, OnTrack
<1>4. \/ Passed(t) = u
      \/ \E a : Passed(t) = [u EXCEPT !.action = a]
      \/ \E a : Passed(t) = [u EXCEPT !.check_point = a]
  BY DEF Passed, Halted
<1> HIDE DEF u
<1>5. ASSUME NEW a
      PROVE  Driven([u EXCEPT !.action = a]) /\ Driven([u EXCEPT !.check_point = a])
  <2>1. Same(u, [u EXCEPT !.action = a]) /\ Same(u, [u EXCEPT !.check_point = a])
    BY <1>3, FieldsKept
  <2> QED BY <1>3, <2>1, DrivenSame
<1> QED BY <1>3, <1>4, <1>5

\* Every step keeps the invariant.
LEMMA StepInv == DriverInv /\ [Next]_vars => DriverInv'
<1> SUFFICES ASSUME DriverInv, [Next]_vars PROVE DriverInv'
  OBVIOUS
<1>1. /\ OnTrack(td) /\ (mode # "parked" => Driven(td))
      /\ heading \in Nodes /\ lost \in Nodes \cup {NoNode} /\ switch_table \in SwitchTables
      /\ (search = NoSearch \/ Searched(search)) /\ DOMAIN td = Fields
  BY DEF DriverInv, Driven, OnTrack
<1>2. ASSUME NEW o \in Orbits, OrbitCommand(o) PROVE DriverInv'
  BY <1>2, OrbitInv
<1>3. CASE Stay
  <2>1. Secretary(td) /\ mode # "parked"
    BY <1>3 DEF Stay, Secretary
  <2> QED BY <1>1, <2>1, SecretaryInv
<1>4. CASE Advance
  <2>1. PICK a : Secretary([td EXCEPT !.ahead_lm = a])
    BY <1>4 DEF Advance
  <2>2. mode # "parked"
    BY <2>1 DEF Secretary
  <2>3. Same(td, [td EXCEPT !.ahead_lm = a])
    BY <1>1, FieldsKept
  <2>4. Driven([td EXCEPT !.ahead_lm = a])
    BY <1>1, <2>2, <2>3, DrivenSame
  <2> QED BY <2>1, <2>2, <2>4, SecretaryInv
<1>5. CASE PassLandmark
  <2>1. Secretary(Passed(td)) /\ mode # "parked"
    BY <1>5 DEF PassLandmark, Secretary
  <2>2. Driven(Passed(td))
    BY <1>1, <2>1, PassedIs
  <2> QED BY <2>1, <2>2, SecretaryInv
<1>6. CASE SensorTimeout
  <2>1. Secretary([td EXCEPT !.action = "Off_Route"]) /\ mode # "parked"
    BY <1>6 DEF SensorTimeout, Secretary
  <2>2. Same(td, [td EXCEPT !.action = "Off_Route"])
    BY <1>1, FieldsKept
  <2>3. Driven([td EXCEPT !.action = "Off_Route"])
    BY <1>1, <2>1, <2>2, DrivenSame
  <2> QED BY <2>1, <2>3, SecretaryInv
<1>7. CASE Relocate
  <2>1. lost \in Nodes /\ mode # "parked" /\ LocationChange(lost) /\ lost' = NoNode /\ heading' = heading
    BY <1>1, <1>7 DEF Relocate
  <2>2. /\ Driven(td') /\ mode' # "parked" /\ switch_table' \in SwitchTables
        /\ search' = NoSearch \/ Searched(search')
    BY <2>1, LocationInv
  <2> QED BY <1>1, <2>1, <2>2 DEF DriverInv, Driven
<1>8. CASE Roll
  <2>1. heading' = Onward(switch_table, heading)
        /\ UNCHANGED <<mode, td, switch_table, lost, search, typed>>
    BY <1>8 DEF Roll, Moves
  <2>2. heading' \in Nodes
    BY <1>1, <2>1, OnwardIs
  <2> QED BY <2>1, <2>2 DEF DriverInv
<1>9. CASE HitSensor
  <2>1. heading' = Onward(switch_table, heading) /\ mode # "parked" /\ LocationChange(heading)
        /\ lost' = lost
    BY <1>9 DEF HitSensor, Moves
  <2>2. heading' \in Nodes
    BY <1>1, <2>1, OnwardIs
  <2>3. /\ Driven(td') /\ mode' # "parked" /\ switch_table' \in SwitchTables
        /\ search' = NoSearch \/ Searched(search')
    BY <1>1, <2>1, LocationInv
  <2> QED BY <1>1, <2>1, <2>2, <2>3 DEF DriverInv, Driven
<1>10. CASE LoseSensor
  <2>1. heading' = Onward(switch_table, heading) /\ lost' = heading
        /\ UNCHANGED <<mode, td, switch_table, search, typed>>
    BY <1>10 DEF LoseSensor, Moves
  <2>2. heading' \in Nodes
    BY <1>1, <2>1, OnwardIs
  <2> QED BY <1>1, <2>1, <2>2 DEF DriverInv
<1>11. CASE FailSensor
  <2>1. heading' = Onward(switch_table, heading)
        /\ UNCHANGED <<mode, td, switch_table, lost, search, typed>>
    BY <1>11 DEF FailSensor, Moves
  <2>2. heading' \in Nodes
    BY <1>1, <2>1, OnwardIs
  <2> QED BY <2>1, <2>2 DEF DriverInv
<1>12. CASE UNCHANGED vars
  BY <1>12 DEF DriverInv, vars
<1> QED
  BY <1>2, <1>3, <1>4, <1>5, <1>6, <1>7, <1>8, <1>9, <1>10, <1>11, <1>12 DEF Next

\* The train has its place on the track and its order; the switches have a
\* state each; what the driver has searched for is what dijkstra returns (train_driver.c).
THEOREM DriverInvariant == Spec => []DriverInv
  BY InitInv, StepInv, PTL DEF Spec

\* What dijkstra returns is a shortest route.
LEMMA InvIsShortest == DriverInv => RouteIsShortest
<1> SUFFICES ASSUME DriverInv, search # NoSearch PROVE RightResult(search)
  BY DEF RouteIsShortest, RightResult
<1>1. Searched(search)
  BY DEF DriverInv
<1> QED BY <1>1, DijkstraIs DEF Searched

\* dijkstra finds a shortest route, the penalty included, from wherever the train
\* may be when it is given an order or is found again, or there is none.
THEOREM RoutesAreShortest == Spec => []RouteIsShortest
  BY DriverInvariant, InvIsShortest, PTL

\* A route has fewer nodes than the array that dijkstra writes it to, from the end on,
\* with the landmark in front.
THEOREM RoutesFit == Spec => [](Len(search.route) <= TRACK_MAX)
<1>1. DriverInv => Len(search.route) <= TRACK_MAX
  <2> SUFFICES ASSUME DriverInv PROVE Len(search.route) <= TRACK_MAX
    OBVIOUS
  <2>1. CASE search = NoSearch
    BY <2>1 DEF NoSearch, TRACK_MAX
  <2>2. CASE Searched(search)
    <3>1. PICK landmark \in Nodes, src \in Nodes, o \in Orbits, avoid \in Avoids :
             search = dijkstra(landmark, src, orbits[o].start, avoid)
      BY <2>2 DEF Searched
    <3>2. Len(search.route) <= 141
      BY <3>1, DijkstraIs
    <3> QED BY <3>2 DEF TRACK_MAX
  <2> QED BY <2>1, <2>2 DEF DriverInv
<1> QED BY <1>1, DriverInvariant, PTL

\* deliverCmd makes of each name on the track the index of its node.
THEOREM LandmarksNamed == Spec => []LandmarkNamed
<1>1. DriverInv => LandmarkNamed
  BY DEF DriverInv, LandmarkNamed
<1> QED BY <1>1, DriverInvariant, PTL

-----------------------------------------------------------------------------
(* The orbits.  A train that goes round its orbit is followed along the    *)
(* nodes of the orbit from its landmark to the sensor it comes to next.    *)

\* The rows of the sensors, decoder by decoder.
LEMMA SensorRowsAre ==
  /\ \A i \in 1 .. 16 : SensorRows[i] = SensorsA[i]
  /\ \A i \in 17 .. 32 : SensorRows[i] = SensorsB[i - 16]
  /\ \A i \in 33 .. 48 : SensorRows[i] = SensorsC[i - 32]
  /\ \A i \in 49 .. 64 : SensorRows[i] = SensorsD[i - 48]
  /\ \A i \in 65 .. 80 : SensorRows[i] = SensorsE[i - 64]
<1> DEFINE ab   == Join(SensorsA, SensorsB)
           abc  == Join(ab, SensorsC)
           abcd == Join(abc, SensorsD)
<1>1. /\ SensorsA \in Seq(Edges) /\ Len(SensorsA) = 16
      /\ SensorsB \in Seq(Edges) /\ Len(SensorsB) = 16
      /\ SensorsC \in Seq(Edges) /\ Len(SensorsC) = 16
      /\ SensorsD \in Seq(Edges) /\ Len(SensorsD) = 16
      /\ SensorsE \in Seq(Edges) /\ Len(SensorsE) = 16
  <2>1. SensorsA \in Seq(Edges) /\ Len(SensorsA) = 16
    BY DEF SensorsA, Nodes, Edges
  <2>2. SensorsB \in Seq(Edges) /\ Len(SensorsB) = 16
    BY DEF SensorsB, Nodes, Edges
  <2>3. SensorsC \in Seq(Edges) /\ Len(SensorsC) = 16
    BY DEF SensorsC, Nodes, Edges
  <2>4. SensorsD \in Seq(Edges) /\ Len(SensorsD) = 16
    BY DEF SensorsD, Nodes, Edges
  <2>5. SensorsE \in Seq(Edges) /\ Len(SensorsE) = 16
    BY DEF SensorsE, Nodes, Edges
  <2> QED BY ONLY <2>1, <2>2, <2>3, <2>4, <2>5
<1>2. SensorRows = Join(abcd, SensorsE)
  BY DEF SensorRows, abcd, abc, ab, Join
<1>3. ab \in Seq(Edges) /\ Len(ab) = 32
      /\ \A i \in 1 .. 32 : ab[i] = IF i <= 16 THEN SensorsA[i] ELSE SensorsB[i - 16]
  <2>1. /\ ab \in Seq(Edges) /\ Len(ab) = Len(SensorsA) + Len(SensorsB)
        /\ \A i \in 1 .. Len(SensorsA) + Len(SensorsB) :
              ab[i] = IF i <= Len(SensorsA) THEN SensorsA[i] ELSE SensorsB[i - Len(SensorsA)]
    <3>1. SensorsA \in Seq(Edges) /\ SensorsB \in Seq(Edges)
      BY <1>1
    <3> QED BY ONLY <3>1, JoinLen, JoinItems
  <2> HIDE DEF ab
  <2> QED BY <1>1, <2>1
<1> HIDE DEF ab
<1>4. abc \in Seq(Edges) /\ Len(abc) = 48
      /\ \A i \in 1 .. 48 : abc[i] = IF i <= 32 THEN ab[i] ELSE SensorsC[i - 32]
  <2>1. /\ abc \in Seq(Edges) /\ Len(abc) = Len(ab) + Len(SensorsC)
        /\ \A i \in 1 .. Len(ab) + Len(SensorsC) :
              abc[i] = IF i <= Len(ab) THEN ab[i] ELSE SensorsC[i - Len(ab)]
    <3>1. ab \in Seq(Edges) /\ SensorsC \in Seq(Edges)
      BY <1>1, <1>3
    <3> QED BY ONLY <3>1, JoinLen, JoinItems
  <2> HIDE DEF abc
  <2> QED BY <1>1, <1>3, <2>1
<1> HIDE DEF abc
<1>5. abcd \in Seq(Edges) /\ Len(abcd) = 64
      /\ \A i \in 1 .. 64 : abcd[i] = IF i <= 48 THEN abc[i] ELSE SensorsD[i - 48]
  <2>1. /\ abcd \in Seq(Edges) /\ Len(abcd) = Len(abc) + Len(SensorsD)
        /\ \A i \in 1 .. Len(abc) + Len(SensorsD) :
              abcd[i] = IF i <= Len(abc) THEN abc[i] ELSE SensorsD[i - Len(abc)]
    <3>1. abc \in Seq(Edges) /\ SensorsD \in Seq(Edges)
      BY <1>1, <1>4
    <3> QED BY ONLY <3>1, JoinLen, JoinItems
  <2> HIDE DEF abcd
  <2> QED BY <1>1, <1>4, <2>1
<1> HIDE DEF abcd
<1> DEFINE all == Join(abcd, SensorsE)
<1>6. \A i \in 1 .. 80 : all[i] = IF i <= 64 THEN abcd[i] ELSE SensorsE[i - 64]
  <2>1. abcd \in Seq(Edges) /\ SensorsE \in Seq(Edges)
    BY <1>1, <1>5
  <2>2. \A i \in 1 .. Len(abcd) + Len(SensorsE) :
           all[i] = IF i <= Len(abcd) THEN abcd[i] ELSE SensorsE[i - Len(abcd)]
    BY ONLY <2>1, JoinItems
  <2>3. Len(abcd) = 64 /\ Len(SensorsE) = 16
    BY <1>1, <1>5
  <2> HIDE DEF all
  <2> QED BY ONLY <2>2, <2>3
<1>7. SensorRows = all
  BY <1>2
<1> HIDE DEF all
<1>8. \A i \in 1 .. 32 : ab[i] = IF i <= 16 THEN SensorsA[i] ELSE SensorsB[i - 16]
  BY ONLY <1>3
<1>9. \A i \in 1 .. 48 : abc[i] = IF i <= 32 THEN ab[i] ELSE SensorsC[i - 32]
  BY ONLY <1>4
<1>10. \A i \in 1 .. 64 : abcd[i] = IF i <= 48 THEN abc[i] ELSE SensorsD[i - 48]
  BY ONLY <1>5
<1>11. \A i \in 1 .. 64 : all[i] = abcd[i]
  BY ONLY <1>6
<1>12. \A i \in 1 .. 48 : abcd[i] = abc[i]
  BY ONLY <1>10
<1>13. \A i \in 1 .. 32 : abc[i] = ab[i]
  BY ONLY <1>9
<1>14. \A i \in 1 .. 16 : all[i] = SensorsA[i]
  <2>1. \A i \in 1 .. 16 : ab[i] = SensorsA[i]
    BY ONLY <1>8
  <2> QED BY ONLY <1>11, <1>12, <1>13, <2>1
<1>15. \A i \in 17 .. 32 : all[i] = SensorsB[i - 16]
  <2>1. \A i \in 17 .. 32 : ab[i] = SensorsB[i - 16]
    BY ONLY <1>8
  <2> QED BY ONLY <1>11, <1>12, <1>13, <2>1
<1>16. \A i \in 33 .. 48 : all[i] = SensorsC[i - 32]
  <2>1. \A i \in 33 .. 48 : abc[i] = SensorsC[i - 32]
    BY ONLY <1>9
  <2> QED BY ONLY <1>11, <1>12, <2>1
<1>17. \A i \in 49 .. 64 : all[i] = SensorsD[i - 48]
  <2>1. \A i \in 49 .. 64 : abcd[i] = SensorsD[i - 48]
    BY ONLY <1>10
  <2> QED BY ONLY <1>11, <2>1
<1>18. \A i \in 65 .. 80 : all[i] = SensorsE[i - 64]
  BY ONLY <1>6
<1> QED BY <1>7, <1>14, <1>15, <1>16, <1>17, <1>18

\* The rows of the switches.
LEMMA SwitchRowsAre ==
  /\ \A i \in 1 .. 7 : SwitchRows[i] = Switches1[i]
  /\ \A i \in 8 .. 14 : SwitchRows[i] = Switches2[i - 7]
  /\ \A i \in 15 .. 22 : SwitchRows[i] = Switches3[i - 14]
<1> DEFINE x == Join(Switches1, Switches2)
<1>1. /\ Switches1 \in Seq(Legs) /\ Len(Switches1) = 7
      /\ Switches2 \in Seq(Legs) /\ Len(Switches2) = 7
      /\ Switches3 \in Seq(Legs) /\ Len(Switches3) = 8
  <2>1. Switches1 \in Seq(Legs) /\ Len(Switches1) = 7
    BY DEF Switches1, Nodes, Legs
  <2>2. Switches2 \in Seq(Legs) /\ Len(Switches2) = 7
    BY DEF Switches2, Nodes, Legs
  <2>3. Switches3 \in Seq(Legs) /\ Len(Switches3) = 8
    BY DEF Switches3, Nodes, Legs
  <2> QED BY ONLY <2>1, <2>2, <2>3
<1>2. SwitchRows = Join(x, Switches3)
  BY DEF SwitchRows, x, Join
<1>3. x \in Seq(Legs) /\ Len(x) = 14
      /\ \A i \in 1 .. 14 : x[i] = IF i <= 7 THEN Switches1[i] ELSE Switches2[i - 7]
  <2>1. /\ x \in Seq(Legs) /\ Len(x) = Len(Switches1) + Len(Switches2)
        /\ \A i \in 1 .. Len(Switches1) + Len(Switches2) :
              x[i] = IF i <= Len(Switches1) THEN Switches1[i] ELSE Switches2[i - Len(Switches1)]
    <3>1. Switches1 \in Seq(Legs) /\ Switches2 \in Seq(Legs)
      BY <1>1
    <3> QED BY ONLY <3>1, JoinLen, JoinItems
  <2> HIDE DEF x
  <2> QED BY <1>1, <2>1
<1> HIDE DEF x
<1>4. \A i \in 1 .. 22 : SwitchRows[i] = IF i <= 14 THEN x[i] ELSE Switches3[i - 14]
  <2>1. \A i \in 1 .. Len(x) + Len(Switches3) :
           Join(x, Switches3)[i] = IF i <= Len(x) THEN x[i] ELSE Switches3[i - Len(x)]
    <3>1. x \in Seq(Legs) /\ Switches3 \in Seq(Legs)
      BY <1>1, <1>3
    <3> QED BY ONLY <3>1, JoinItems
  <2>2. Len(x) = 14 /\ Len(Switches3) = 8
    BY <1>1, <1>3
  <2> QED BY ONLY <1>2, <2>1, <2>2
<1>5. ASSUME NEW i \in 1 .. 22
      PROVE  SwitchRows[i] = IF i <= 7 THEN Switches1[i]
                             ELSE IF i <= 14 THEN Switches2[i - 7] ELSE Switches3[i - 14]
  <2>1. SwitchRows[i] = IF i <= 14 THEN x[i] ELSE Switches3[i - 14]
    BY ONLY <1>4
  <2>2. i <= 14 => x[i] = IF i <= 7 THEN Switches1[i] ELSE Switches2[i - 7]
    BY ONLY <1>3
  <2>3. i <= 7 => i <= 14
    OBVIOUS
  <2> QED BY ONLY <2>1, <2>2, <2>3
<1>6. \A i \in 1 .. 7 : i \in 1 .. 22 /\ i <= 7
  OBVIOUS
<1>7. \A i \in 8 .. 14 : i \in 1 .. 22 /\ ~ (i <= 7) /\ i <= 14
  OBVIOUS
<1>8. \A i \in 15 .. 22 : i \in 1 .. 22 /\ ~ (i <= 7) /\ ~ (i <= 14)
  OBVIOUS
<1> QED BY ONLY <1>5, <1>6, <1>7, <1>8

\* The edges of the nodes, by the rows.
LEMMA EdgesAre ==
  /\ \A n \in 0 .. 79 : Dest(n, 0) = SensorRows[n + 1][1]
  /\ \A n \in 80 .. 123 : LET r == SwitchRows[(n - 80) \div 2 + 1]
                          IN  /\ n % 2 = 0 => Dest(n, 0) = r[1] /\ Dest(n, 1) = r[3]
                              /\ n % 2 = 1 => Dest(n, 0) = r[5]
<1>1. ASSUME NEW n \in 0 .. 79 PROVE Dest(n, 0) = SensorRows[n + 1][1]
  <2>1. n \in Nodes /\ NodeType[n] = "sensor"
    BY DEF NodeType, Nodes, Sensors
  <2>2. EdgeRow[n] = SensorRows[n + 1]
    BY <2>1 DEF EdgeRow
  <2> QED BY <2>2 DEF Dest
<1>2. ASSUME NEW n \in 80 .. 123
      PROVE  LET r == SwitchRows[(n - 80) \div 2 + 1]
             IN  /\ n % 2 = 0 => Dest(n, 0) = r[1] /\ Dest(n, 1) = r[3]
                 /\ n % 2 = 1 => Dest(n, 0) = r[5]
  <2> DEFINE r == SwitchRows[(n - 80) \div 2 + 1]
             a == SubSeq(r, 1, 4)
             b == SubSeq(r, 5, 6)
  <2>1. n \in Nodes /\ NodeType[n] = IF n % 2 = 0 THEN "branch" ELSE "merge"
    BY DEF NodeType, Nodes, Sensors, SwitchNodes
  <2>2. r \in Legs
    <3>1. SwitchRows \in Seq(Legs) /\ (n - 80) \div 2 + 1 \in 1 .. Len(SwitchRows)
      <4>1. SwitchRows \in Seq(Legs) /\ Len(SwitchRows) = 22
        BY SwitchTable
      <4>2. (n - 80) \div 2 + 1 \in 1 .. 22
        OBVIOUS
      <4> QED BY ONLY <4>1, <4>2
    <3> QED BY ONLY <3>1, Item
  <2>3. EdgeRow[n] = IF n % 2 = 0 THEN a ELSE b
    BY <2>1 DEF EdgeRow
  <2> HIDE DEF r
  <2>4. a[1] = r[1] /\ a[3] = r[3] /\ b[1] = r[5]
    BY <2>2 DEF Legs
  <2> HIDE DEF a, b
  <2> QED BY <2>3, <2>4 DEF Dest, r
<1> QED BY <1>1, <1>2

\* The index of a switch in the tables is its place on the track.
LEMMA SwitchPlace ==
  ASSUME NEW n \in 80 .. 123
  PROVE  switchIdToIndex(SwitchNum(n)) = (n - 80) \div 2
<1> DEFINE k == (n - 80) \div 2
<1>1. k \in 0 .. 21
  OBVIOUS
<1>2. SwitchNum(n) = IF k < 18 THEN k + 1 ELSE k - 18 + 153
  BY DEF SwitchNum
<1> HIDE DEF k
<1>3. CASE k < 18
  <2>1. SwitchNum(n) = k + 1 /\ (k + 1) % 134 = k + 1
    BY <1>1, <1>2, <1>3
  <2> QED BY <1>1, <2>1 DEF switchIdToIndex, k
<1>4. CASE ~ (k < 18)
  <2>1. SwitchNum(n) = k + 135 /\ (k + 135) % 134 = k + 1
    BY <1>1, <1>2, <1>4
  <2> QED BY <1>1, <2>1 DEF switchIdToIndex, k
<1> QED BY <1>3, <1>4


\* The node that comes after n on orbit o, and how far it is.
Turned(o, n)  == Direction(orbits[o].switches, n)
NextOn(o, n)  == Dest(n, Turned(o, n))
DistOn(o, n)  == Dist(n, Turned(o, n))

\* The nodes of the orbits, in order.
Ring0 == << 14, 10, 81, 83, 85, 38, 115, 88, 93, 74, 57, 95, 96, 55, 71, 45, 100, 102, 86 >>
Ring1 == << 72, 95, 96, 52, 69, 98, 66, 48, 121, 123, 118, 29, 63, 113, 77 >>
Ring2 == << 3, 31, 108, 41, 110, 18, 33, 117, 119, 122, 65, 78, 105, 43, 107 >>
Ring == [o \in Orbits |-> IF o = 0 THEN Ring0 ELSE IF o = 1 THEN Ring1 ELSE Ring2]

\* The place after place i of a ring of n nodes.
After(n, i) == IF i = n THEN 1 ELSE i + 1

\* Each node of orbit 0 leads to the next.
LEMMA Ring0Next ==
  \A i \in 1 .. 19 : NextOn(0, Ring0[i]) = Ring0[After(19, i)]
<1>1. orbits[0].switches = CurvedBut({3, 8, 10})
  BY DEF orbits, Orbits, ORBIT_MAX, Orbit1
<1>2. NextOn(0, 14) = 10
  <2>1. Turned(0, 14) = 0
    BY DEF Turned, Direction, NodeType, Nodes, Sensors, DIR_AHEAD
  <2>2. SensorRows[15] = <<10, SensorsA[15][2]>>
    BY SensorRowsAre DEF SensorsA
  <2> QED BY <2>1, <2>2, EdgesAre DEF NextOn
<1>3. NextOn(0, 10) = 81
  <2>1. Turned(0, 10) = 0
    BY DEF Turned, Direction, NodeType, Nodes, Sensors, DIR_AHEAD
  <2>2. SensorRows[11] = <<81, SensorsA[11][2]>>
    BY SensorRowsAre DEF SensorsA
  <2> QED BY <2>1, <2>2, EdgesAre DEF NextOn
<1>4. NextOn(0, 81) = 83
  <2>1. Turned(0, 81) = 0
    BY DEF Turned, Direction, NodeType, Nodes, Sensors, SwitchNodes, DIR_AHEAD
  <2>2. SwitchRows[1][5] = 83
    BY SwitchRowsAre DEF Switches1
  <2> QED BY <2>1, <2>2, EdgesAre DEF NextOn
<1>5. NextOn(0, 83) = 85
  <2>1. Turned(0, 83) = 0
    BY DEF Turned, Direction, NodeType, Nodes, Sensors, SwitchNodes, DIR_AHEAD
  <2>2. SwitchRows[2][5] = 85
    BY SwitchRowsAre DEF Switches1
  <2> QED BY <2>1, <2>2, EdgesAre DEF NextOn
<1>6. NextOn(0, 85) = 38
  <2>1. Turned(0, 85) = 0
    BY DEF Turned, Direction, NodeType, Nodes, Sensors, SwitchNodes, DIR_AHEAD
  <2>2. SwitchRows[3][5] = 38
    BY SwitchRowsAre DEF Switches1
  <2> QED BY <2>1, <2>2, EdgesAre DEF NextOn
<1>7. NextOn(0, 38) = 115
  <2>1. Turned(0, 38) = 0
    BY DEF Turned, Direction, NodeType, Nodes, Sensors, DIR_AHEAD
  <2>2. SensorRows[39] = <<115, SensorsC[7][2]>>
    BY SensorRowsAre DEF SensorsC
  <2> QED BY <2>1, <2>2, EdgesAre DEF NextOn
<1>8. NextOn(0, 115) = 88
  <2>1. Turned(0, 115) = 0
    BY DEF Turned, Direction, NodeType, Nodes, Sensors, SwitchNodes, DIR_AHEAD
  <2>2. SwitchRows[18][5] = 88
    BY SwitchRowsAre DEF Switches3
  <2> QED BY <2>1, <2>2, EdgesAre DEF NextOn
<1>9. NextOn(0, 88) = 93
  <2>1. switchIdToIndex(SwitchNum(88)) = 4
    BY SwitchPlace
  <2>2. Turned(0, 88) = 1
    BY <1>1, <2>1 DEF Turned, Direction, NodeType, Nodes, Sensors, SwitchNodes, CurvedBut,
       SWITCH_STR, SWITCH_CUR
  <2>3. SwitchRows[5][3] = 93
    BY SwitchRowsAre DEF Switches1
  <2> QED BY <2>2, <2>3, EdgesAre DEF NextOn
<1>10. NextOn(0, 93) = 74
  <2>1. Turned(0, 93) = 0
    BY DEF Turned, Direction, NodeType, Nodes, Sensors, SwitchNodes, DIR_AHEAD
  <2>2. SwitchRows[7][5] = 74
    BY SwitchRowsAre DEF Switches1
  <2> QED BY <2>1, <2>2, EdgesAre DEF NextOn
<1>11. NextOn(0, 74) = 57
  <2>1. Turned(0, 74) = 0
    BY DEF Turned, Direction, NodeType, Nodes, Sensors, DIR_AHEAD
  <2>2. SensorRows[75] = <<57, SensorsE[11][2]>>
    BY SensorRowsAre DEF SensorsE
  <2> QED BY <2>1, <2>2, EdgesAre DEF NextOn
<1>12. NextOn(0, 57) = 95
  <2>1. Turned(0, 57) = 0
    BY DEF Turned, Direction, NodeType, Nodes, Sensors, DIR_AHEAD
  <2>2. SensorRows[58] = <<95, SensorsD[10][2]>>
    BY SensorRowsAre DEF SensorsD
  <2> QED BY <2>1, <2>2, EdgesAre DEF NextOn
<1>13. NextOn(0, 95) = 96
  <2>1. Turned(0, 95) = 0
    BY DEF Turned, Direction, NodeType, Nodes, Sensors, SwitchNodes, DIR_AHEAD
  <2>2. SwitchRows[8][5] = 96
    BY SwitchRowsAre DEF Switches2
  <2> QED BY <2>1, <2>2, EdgesAre DEF NextOn
<1>14. NextOn(0, 96) = 55
  <2>1. switchIdToIndex(SwitchNum(96)) = 8
    BY SwitchPlace
  <2>2. Turned(0, 96) = 0
    BY <1>1, <2>1 DEF Turned, Direction, NodeType, Nodes, Sensors, SwitchNodes, CurvedBut,
       SWITCH_STR, SWITCH_CUR
  <2>3. SwitchRows[9][1] = 55
    BY SwitchRowsAre DEF Switches2
  <2> QED BY <2>2, <2>3, EdgesAre DEF NextOn
<1>15. NextOn(0, 55) = 71
  <2>1. Turned(0, 55) = 0
    BY DEF Turned, Direction, NodeType, Nodes, Sensors, DIR_AHEAD
  <2>2. SensorRows[56] = <<71, SensorsD[8][2]>>
    BY SensorRowsAre DEF SensorsD
  <2> QED BY <2>1, <2>2, EdgesAre DEF NextOn
<1>16. NextOn(0, 71) = 45
  <2>1. Turned(0, 71) = 0
    BY DEF Turned, Direction, NodeType, Nodes, Sensors, DIR_AHEAD
  <2>2. SensorRows[72] = <<45, SensorsE[8][2]>>
    BY SensorRowsAre DEF SensorsE
  <2> QED BY <2>1, <2>2, EdgesAre DEF NextOn
<1>17. NextOn(0, 45) = 100
  <2>1. Turned(0, 45) = 0
    BY DEF Turned, Direction, NodeType, Nodes, Sensors, DIR_AHEAD
  <2>2. SensorRows[46] = <<100, SensorsC[14][2]>>
    BY SensorRowsAre DEF SensorsC
  <2> QED BY <2>1, <2>2, EdgesAre DEF NextOn
<1>18. NextOn(0, 100) = 102
  <2>1. switchIdToIndex(SwitchNum(100)) = 10
    BY SwitchPlace
  <2>2. Turned(0, 100) = 0
    BY <1>1, <2>1 DEF Turned, Direction, NodeType, Nodes, Sensors, SwitchNodes, CurvedBut,
       SWITCH_STR, SWITCH_CUR
  <2>3. SwitchRows[11][1] = 102
    BY SwitchRowsAre DEF Switches2
  <2> QED BY <2>2, <2>3, EdgesAre DEF NextOn
<1>19. NextOn(0, 102) = 86
  <2>1. switchIdToIndex(SwitchNum(102)) = 11
    BY SwitchPlace
  <2>2. Turned(0, 102) = 1
    BY <1>1, <2>1 DEF Turned, Direction, NodeType, Nodes, Sensors, SwitchNodes, CurvedBut,
       SWITCH_STR, SWITCH_CUR
  <2>3. SwitchRows[12][3] = 86
    BY SwitchRowsAre DEF Switches2
  <2> QED BY <2>2, <2>3, EdgesAre DEF NextOn
<1>20. NextOn(0, 86) = 14
  <2>1. switchIdToIndex(SwitchNum(86)) = 3
    BY SwitchPlace
  <2>2. Turned(0, 86) = 0
    BY <1>1, <2>1 DEF Turned, Direction, NodeType, Nodes, Sensors, SwitchNodes, CurvedBut,
       SWITCH_STR, SWITCH_CUR
  <2>3. SwitchRows[4][1] = 14
    BY SwitchRowsAre DEF Switches1
  <2> QED BY <2>2, <2>3, EdgesAre DEF NextOn
<1> QED
  BY <1>2, <1>3, <1>4, <1>5, <1>6, <1>7, <1>8, <1>9, <1>10, <1>11, <1>12, <1>13, <1>14,
     <1>15, <1>16, <1>17, <1>18, <1>19, <1>20
  DEF Ring0, After

\* Each node of orbit 1 leads to the next.
LEMMA Ring1Next ==
  \A i \in 1 .. 15 : NextOn(1, Ring1[i]) = Ring1[After(15, i)]
<1>1. orbits[1].switches = CurvedBut({})
  BY DEF orbits, Orbits, ORBIT_MAX, Orbit2
<1>2. NextOn(1, 72) = 95
  <2>1. Turned(1, 72) = 0
    BY DEF Turned, Direction, NodeType, Nodes, Sensors, DIR_AHEAD
  <2>2. SensorRows[73] = <<95, SensorsE[9][2]>>
    BY SensorRowsAre DEF SensorsE
  <2> QED BY <2>1, <2>2, EdgesAre DEF NextOn
<1>3. NextOn(1, 95) = 96
  <2>1. Turned(1, 95) = 0
    BY DEF Turned, Direction, NodeType, Nodes, Sensors, SwitchNodes, DIR_AHEAD
  <2>2. SwitchRows[8][5] = 96
    BY SwitchRowsAre DEF Switches2
  <2> QED BY <2>1, <2>2, EdgesAre DEF NextOn
<1>4. NextOn(1, 96) = 52
  <2>1. switchIdToIndex(SwitchNum(96)) = 8
    BY SwitchPlace
  <2>2. Turned(1, 96) = 1
    BY <1>1, <2>1 DEF Turned, Direction, NodeType, Nodes, Sensors, SwitchNodes, CurvedBut,
       SWITCH_STR, SWITCH_CUR
  <2>3. SwitchRows[9][3] = 52
    BY SwitchRowsAre DEF Switches2
  <2> QED BY <2>2, <2>3, EdgesAre DEF NextOn
<1>5. NextOn(1, 52) = 69
  <2>1. Turned(1, 52) = 0
    BY DEF Turned, Direction, NodeType, Nodes, Sensors, DIR_AHEAD
  <2>2. SensorRows[53] = <<69, SensorsD[5][2]>>
    BY SensorRowsAre DEF SensorsD
  <2> QED BY <2>1, <2>2, EdgesAre DEF NextOn
<1>6. NextOn(1, 69) = 98
  <2>1. Turned(1, 69) = 0
    BY DEF Turned, Direction, NodeType, Nodes, Sensors, DIR_AHEAD
  <2>2. SensorRows[70] = <<98, SensorsE[6][2]>>
    BY SensorRowsAre DEF SensorsE
  <2> QED BY <2>1, <2>2, EdgesAre DEF NextOn
<1>7. NextOn(1, 98) = 66
  <2>1. switchIdToIndex(SwitchNum(98)) = 9
    BY SwitchPlace
  <2>2. Turned(1, 98) = 1
    BY <1>1, <2>1 DEF Turned, Direction, NodeType, Nodes, Sensors, SwitchNodes, CurvedBut,
       SWITCH_STR, SWITCH_CUR
  <2>3. SwitchRows[10][3] = 66
    BY SwitchRowsAre DEF Switches2
  <2> QED BY <2>2, <2>3, EdgesAre DEF NextOn
<1>8. NextOn(1, 66) = 48
  <2>1. Turned(1, 66) = 0
    BY DEF Turned, Direction, NodeType, Nodes, Sensors, DIR_AHEAD
  <2>2. SensorRows[67] = <<48, SensorsE[3][2]>>
    BY SensorRowsAre DEF SensorsE
  <2> QED BY <2>1, <2>2, EdgesAre DEF NextOn
<1>9. NextOn(1, 48) = 121
  <2>1. Turned(1, 48) = 0
    BY DEF Turned, Direction, NodeType, Nodes, Sensors, DIR_AHEAD
  <2>2. SensorRows[49] = <<121, SensorsD[1][2]>>
    BY SensorRowsAre DEF SensorsD
  <2> QED BY <2>1, <2>2, EdgesAre DEF NextOn
<1>10. NextOn(1, 121) = 123
  <2>1. Turned(1, 121) = 0
    BY DEF Turned, Direction, NodeType, Nodes, Sensors, SwitchNodes, DIR_AHEAD
  <2>2. SwitchRows[21][5] = 123
    BY SwitchRowsAre DEF Switches3
  <2> QED BY <2>1, <2>2, EdgesAre DEF NextOn
<1>11. NextOn(1, 123) = 118
  <2>1. Turned(1, 123) = 0
    BY DEF Turned, Direction, NodeType, Nodes, Sensors, SwitchNodes, DIR_AHEAD
  <2>2. SwitchRows[22][5] = 118
    BY SwitchRowsAre DEF Switches3
  <2> QED BY <2>1, <2>2, EdgesAre DEF NextOn
<1>12. NextOn(1, 118) = 29
  <2>1. switchIdToIndex(SwitchNum(118)) = 19
    BY SwitchPlace
  <2>2. Turned(1, 118) = 1
    BY <1>1, <2>1 DEF Turned, Direction, NodeType, Nodes, Sensors, SwitchNodes, CurvedBut,
       SWITCH_STR, SWITCH_CUR
  <2>3. SwitchRows[20][3] = 29
    BY SwitchRowsAre DEF Switches3
  <2> QED BY <2>2, <2>3, EdgesAre DEF NextOn
<1>13. NextOn(1, 29) = 63
  <2>1. Turned(1, 29) = 0
    BY DEF Turned, Direction, NodeType, Nodes, Sensors, DIR_AHEAD
  <2>2. SensorRows[30] = <<63, SensorsB[14][2]>>
    BY SensorRowsAre DEF SensorsB
  <2> QED BY <2>1, <2>2, EdgesAre DEF NextOn
<1>14. NextOn(1, 63) = 113
  <2>1. Turned(1, 63) = 0
    BY DEF Turned, Direction, NodeType, Nodes, Sensors, DIR_AHEAD
  <2>2. SensorRows[64] = <<113, SensorsD[16][2]>>
    BY SensorRowsAre DEF SensorsD
  <2> QED BY <2>1, <2>2, EdgesAre DEF NextOn
<1>15. NextOn(1, 113) = 77
  <2>1. Turned(1, 113) = 0
    BY DEF Turned, Direction, NodeType, Nodes, Sensors, SwitchNodes, DIR_AHEAD
  <2>2. SwitchRows[17][5] = 77
    BY SwitchRowsAre DEF Switches3
  <2> QED BY <2>1, <2>2, EdgesAre DEF NextOn
<1>16. NextOn(1, 77) = 72
  <2>1. Turned(1, 77) = 0
    BY DEF Turned, Direction, NodeType, Nodes, Sensors, DIR_AHEAD
  <2>2. SensorRows[78] = <<72, SensorsE[14][2]>>
    BY SensorRowsAre DEF SensorsE
  <2> QED BY <2>1, <2>2, EdgesAre DEF NextOn
<1> QED
  BY <1>2, <1>3, <1>4, <1>5, <1>6, <1>7, <1>8, <1>9, <1>10, <1>11, <1>12, <1>13, <1>14, <1>15, <1>16
  DEF Ring1, After

\* Each node of orbit 2 leads to the next.
LEMMA Ring2Next ==
  \A i \in 1 .. 15 : NextOn(2, Ring2[i]) = Ring2[After(15, i)]
<1>1. orbits[2].switches = CurvedBut({})
  BY DEF orbits, Orbits, ORBIT_MAX, Orbit3
<1>2. NextOn(2, 3) = 31
  <2>1. Turned(2, 3) = 0
    BY DEF Turned, Direction, NodeType, Nodes, Sensors, DIR_AHEAD
  <2>2. SensorRows[4] = <<31, SensorsA[4][2]>>
    BY SensorRowsAre DEF SensorsA
  <2> QED BY <2>1, <2>2, EdgesAre DEF NextOn
<1>3. NextOn(2, 31) = 108
  <2>1. Turned(2, 31) = 0
    BY DEF Turned, Direction, NodeType, Nodes, Sensors, DIR_AHEAD
  <2>2. SensorRows[32] = <<108, SensorsB[16][2]>>
    BY SensorRowsAre DEF SensorsB
  <2> QED BY <2>1, <2>2, EdgesAre DEF NextOn
<1>4. NextOn(2, 108) = 41
  <2>1. switchIdToIndex(SwitchNum(108)) = 14
    BY SwitchPlace
  <2>2. Turned(2, 108) = 1
    BY <1>1, <2>1 DEF Turned, Direction, NodeType, Nodes, Sensors, SwitchNodes, CurvedBut,
       SWITCH_STR, SWITCH_CUR
  <2>3. SwitchRows[15][3] = 41
    BY SwitchRowsAre DEF Switches3
  <2> QED BY <2>2, <2>3, EdgesAre DEF NextOn
<1>5. NextOn(2, 41) = 110
  <2>1. Turned(2, 41) = 0
    BY DEF Turned, Direction, NodeType, Nodes, Sensors, DIR_AHEAD
  <2>2. SensorRows[42] = <<110, SensorsC[10][2]>>
    BY SensorRowsAre DEF SensorsC
  <2> QED BY <2>1, <2>2, EdgesAre DEF NextOn
<1>6. NextOn(2, 110) = 18
  <2>1. switchIdToIndex(SwitchNum(110)) = 15
    BY SwitchPlace
  <2>2. Turned(2, 110) = 1
    BY <1>1, <2>1 DEF Turned, Direction, NodeType, Nodes, Sensors, SwitchNodes, CurvedBut,
       SWITCH_STR, SWITCH_CUR
  <2>3. SwitchRows[16][3] = 18
    BY SwitchRowsAre DEF Switches3
  <2> QED BY <2>2, <2>3, EdgesAre DEF NextOn
<1>7. NextOn(2, 18) = 33
  <2>1. Turned(2, 18) = 0
    BY DEF Turned, Direction, NodeType, Nodes, Sensors, DIR_AHEAD
  <2>2. SensorRows[19] = <<33, SensorsB[3][2]>>
    BY SensorRowsAre DEF SensorsB
  <2> QED BY <2>1, <2>2, EdgesAre DEF NextOn
<1>8. NextOn(2, 33) = 117
  <2>1. Turned(2, 33) = 0
    BY DEF Turned, Direction, NodeType, Nodes, Sensors, DIR_AHEAD
  <2>2. SensorRows[34] = <<117, SensorsC[2][2]>>
    BY SensorRowsAre DEF SensorsC
  <2> QED BY <2>1, <2>2, EdgesAre DEF NextOn
<1>9. NextOn(2, 117) = 119
  <2>1. Turned(2, 117) = 0
    BY DEF Turned, Direction, NodeType, Nodes, Sensors, SwitchNodes, DIR_AHEAD
  <2>2. SwitchRows[19][5] = 119
    BY SwitchRowsAre DEF Switches3
  <2> QED BY <2>1, <2>2, EdgesAre DEF NextOn
<1>10. NextOn(2, 119) = 122
  <2>1. Turned(2, 119) = 0
    BY DEF Turned, Direction, NodeType, Nodes, Sensors, SwitchNodes, DIR_AHEAD
  <2>2. SwitchRows[20][5] = 122
    BY SwitchRowsAre DEF Switches3
  <2> QED BY <2>1, <2>2, EdgesAre DEF NextOn
<1>11. NextOn(2, 122) = 65
  <2>1. switchIdToIndex(SwitchNum(122)) = 21
    BY SwitchPlace
  <2>2. Turned(2, 122) = 1
    BY <1>1, <2>1 DEF Turned, Direction, NodeType, Nodes, Sensors, SwitchNodes, CurvedBut,
       SWITCH_STR, SWITCH_CUR
  <2>3. SwitchRows[22][3] = 65
    BY SwitchRowsAre DEF Switches3
  <2> QED BY <2>2, <2>3, EdgesAre DEF NextOn
<1>12. NextOn(2, 65) = 78
  <2>1. Turned(2, 65) = 0
    BY DEF Turned, Direction, NodeType, Nodes, Sensors, DIR_AHEAD
  <2>2. SensorRows[66] = <<78, SensorsE[2][2]>>
    BY SensorRowsAre DEF SensorsE
  <2> QED BY <2>1, <2>2, EdgesAre DEF NextOn
<1>13. NextOn(2, 78) = 105
  <2>1. Turned(2, 78) = 0
    BY DEF Turned, Direction, NodeType, Nodes, Sensors, DIR_AHEAD
  <2>2. SensorRows[79] = <<105, SensorsE[15][2]>>
    BY SensorRowsAre DEF SensorsE
  <2> QED BY <2>1, <2>2, EdgesAre DEF NextOn
<1>14. NextOn(2, 105) = 43
  <2>1. Turned(2, 105) = 0
    BY DEF Turned, Direction, NodeType, Nodes, Sensors, SwitchNodes, DIR_AHEAD
  <2>2. SwitchRows[13][5] = 43
    BY SwitchRowsAre DEF Switches2
  <2> QED BY <2>1, <2>2, EdgesAre DEF NextOn
<1>15. NextOn(2, 43) = 107
  <2>1. Turned(2, 43) = 0
    BY DEF Turned, Direction, NodeType, Nodes, Sensors, DIR_AHEAD
  <2>2. SensorRows[44] = <<107, SensorsC[12][2]>>
    BY SensorRowsAre DEF SensorsC
  <2> QED BY <2>1, <2>2, EdgesAre DEF NextOn
<1>16. NextOn(2, 107) = 3
  <2>1. Turned(2, 107) = 0
    BY DEF Turned, Direction, NodeType, Nodes, Sensors, SwitchNodes, DIR_AHEAD
  <2>2. SwitchRows[14][5] = 3
    BY SwitchRowsAre DEF Switches2
  <2> QED BY <2>1, <2>2, EdgesAre DEF NextOn
<1> QED
  BY <1>2, <1>3, <1>4, <1>5, <1>6, <1>7, <1>8, <1>9, <1>10, <1>11, <1>12, <1>13, <1>14, <1>15, <1>16
  DEF Ring2, After

\* So does each node of every orbit; the nodes of an orbit differ, none is an exit, and one
\* of any four that follow each other is a sensor.
LEMMA RingFacts ==
  ASSUME NEW o \in Orbits
  PROVE  LET r == Ring[o]
             n == Len(r)
         IN  /\ n \in {15, 19} /\ r \in Seq(0 .. 123)
             /\ \A i \in 1 .. n : NextOn(o, r[i]) = r[After(n, i)]
             /\ \A i, j \in 1 .. n : r[i] = r[j] => i = j
             /\ \A i \in 1 .. n :
                   \/ r[i] \in Sensors
                   \/ r[After(n, i)] \in Sensors
                   \/ r[After(n, After(n, i))] \in Sensors
                   \/ r[After(n, After(n, After(n, i)))] \in Sensors
             /\ r[1] = orbits[o].start
<1>1. o \in {0, 1, 2} /\ Ring[o] = IF o = 0 THEN Ring0 ELSE IF o = 1 THEN Ring1 ELSE Ring2
  BY DEF Ring, Orbits, ORBIT_MAX
<1>2. CASE o = 0
  <2>1. Ring[o] = Ring0
    BY <1>1, <1>2
  <2>2. Ring0 \in Seq(0 .. 123) /\ Len(Ring0) = 19
    BY DEF Ring0
  <2>3. \A i, j \in 1 .. 19 : Ring0[i] = Ring0[j] => i = j
    BY DEF Ring0
  <2>4. \A i \in 1 .. 19 :
           \/ Ring0[i] \in Sensors
           \/ Ring0[After(19, i)] \in Sensors
           \/ Ring0[After(19, After(19, i))] \in Sensors
           \/ Ring0[After(19, After(19, After(19, i)))] \in Sensors
    BY DEF Ring0, After, Sensors
  <2>5. Ring0[1] = orbits[0].start
    BY DEF Ring0, orbits, Orbits, ORBIT_MAX, Orbit1
  <2> QED BY <1>2, <2>1, <2>2, <2>3, <2>4, <2>5, Ring0Next
<1>3. CASE o = 1
  <2>1. Ring[o] = Ring1
    BY <1>1, <1>3
  <2>2. Ring1 \in Seq(0 .. 123) /\ Len(Ring1) = 15
    BY DEF Ring1
  <2>3. \A i, j \in 1 .. 15 : Ring1[i] = Ring1[j] => i = j
    BY DEF Ring1
  <2>4. \A i \in 1 .. 15 :
           \/ Ring1[i] \in Sensors
           \/ Ring1[After(15, i)] \in Sensors
           \/ Ring1[After(15, After(15, i))] \in Sensors
           \/ Ring1[After(15, After(15, After(15, i)))] \in Sensors
    BY DEF Ring1, After, Sensors
  <2>5. Ring1[1] = orbits[1].start
    BY DEF Ring1, orbits, Orbits, ORBIT_MAX, Orbit2
  <2> QED BY <1>3, <2>1, <2>2, <2>3, <2>4, <2>5, Ring1Next
<1>4. CASE o = 2
  <2>1. Ring[o] = Ring2
    BY <1>1, <1>4
  <2>2. Ring2 \in Seq(0 .. 123) /\ Len(Ring2) = 15
    BY DEF Ring2
  <2>3. \A i, j \in 1 .. 15 : Ring2[i] = Ring2[j] => i = j
    BY DEF Ring2
  <2>4. \A i \in 1 .. 15 :
           \/ Ring2[i] \in Sensors
           \/ Ring2[After(15, i)] \in Sensors
           \/ Ring2[After(15, After(15, i))] \in Sensors
           \/ Ring2[After(15, After(15, After(15, i)))] \in Sensors
    BY DEF Ring2, After, Sensors
  <2>5. Ring2[1] = orbits[2].start
    BY DEF Ring2, orbits, Orbits, ORBIT_MAX, Orbit3
  <2> QED BY <1>4, <2>1, <2>2, <2>3, <2>4, <2>5, Ring2Next
<1> QED BY <1>1, <1>2, <1>3, <1>4

\* init_orbit walks round the ring once.
LEMMA OrbitRouteIs ==
  ASSUME NEW o \in Orbits
  PROVE  OrbitRoute[o] = Ring[o]
<1> DEFINE r    == Ring[o]
           n    == Len(r)
           V(i) == r[(i % n) + 1]
           W    == CHOOSE w : w = [i \in 0 .. 139 |-> IF i = 0 THEN orbits[o].start
                                                     ELSE NextOn(o, w[i - 1])]
           num  == CHOOSE k \in 1 .. 139 :
                      /\ W[k] = orbits[o].start
                      /\ \A i \in 1 .. k - 1 : W[i] # orbits[o].start
<1>1. /\ n \in {15, 19} /\ r \in Seq(0 .. 123)
      /\ \A i \in 1 .. n : NextOn(o, r[i]) = r[After(n, i)]
      /\ \A i, j \in 1 .. n : r[i] = r[j] => i = j
      /\ r[1] = orbits[o].start
  BY RingFacts
<1>2. OrbitRoute[o] = SubSeq([i \in 1 .. num |-> W[i - 1]], 1, num)
  BY DEF OrbitRoute, NextOn, Turned
<1> HIDE DEF r
<1>3. \A i \in Nat : (i % n) + 1 \in 1 .. n /\ After(n, (i % n) + 1) = ((i + 1) % n) + 1
  <2>1. CASE n = 15
    <3> HIDE DEF n
    <3> QED BY <2>1 DEF After
  <2>2. CASE n = 19
    <3> HIDE DEF n
    <3> QED BY <2>2 DEF After
  <2> QED BY <1>1, <2>1, <2>2
<1>4. \A i \in Nat : NextOn(o, V(i)) = V(i + 1)
  BY <1>1, <1>3
<1>5. V(0) = orbits[o].start
  <2>1. 0 % n = 0
    <3> HIDE DEF n
    <3> QED BY <1>1
  <2> QED BY <1>1, <2>1
<1> HIDE DEF n
<1>6. W = [i \in 0 .. 139 |-> IF i = 0 THEN orbits[o].start ELSE NextOn(o, W[i - 1])]
  <2> DEFINE f == [i \in 0 .. 139 |-> V(i)]
             U(i) == IF i = 0 THEN orbits[o].start ELSE NextOn(o, f[i - 1])
  <2>1. ASSUME NEW i \in 0 .. 139 PROVE V(i) = U(i)
    <3>1. CASE i = 0
      BY <1>5, <3>1
    <3>2. CASE i # 0
      <4>1. i - 1 \in Nat /\ i - 1 \in 0 .. 139 /\ (i - 1) + 1 = i
        BY <3>2
      <4>2. f[i - 1] = V(i - 1)
        BY <4>1
      <4>3. NextOn(o, V(i - 1)) = V((i - 1) + 1)
        BY <1>4, <4>1
      <4> QED BY ONLY <3>2, <4>1, <4>2, <4>3
    <3> QED BY <3>1, <3>2
  <2>2. f = [i \in 0 .. 139 |-> U(i)]
    <3> HIDE DEF U, V
    <3> QED BY <2>1
  <2> QED BY <2>2
<1> HIDE DEF W
<1>7. \A i \in 0 .. 139 : W[i] = V(i)
  <2> DEFINE T == {i \in Nat : i \in 0 .. 139 => W[i] = V(i)}
  <2>1. 0 \in T
    BY <1>5, <1>6
  <2>2. ASSUME NEW i \in Nat, i \in T PROVE i + 1 \in T
    <3> SUFFICES ASSUME i + 1 \in 0 .. 139 PROVE W[i + 1] = V(i + 1)
      OBVIOUS
    <3>1. W[i] = V(i)
      BY <2>2
    <3>2. W[i + 1] = NextOn(o, W[i])
      <4> HIDE DEF V
      <4> QED BY <1>6
    <3> QED BY <1>4, <3>1, <3>2
  <2> HIDE DEF T
  <2>3. \A i \in Nat : i \in T
    BY <2>1, <2>2, Induction
  <2> QED BY <2>3 DEF T
<1>8. V(n) = orbits[o].start /\ \A i \in 1 .. n - 1 : V(i) = r[i + 1]
  <2>1. n % n = 0 /\ \A i \in 1 .. n - 1 : i % n = i
    <3>1. n \in {15, 19}
      BY <1>1
    <3>2. CASE n = 15
      BY ONLY <3>2
    <3>3. CASE n = 19
      BY ONLY <3>3
    <3> QED BY ONLY <3>1, <3>2, <3>3
  <2>2. r[1] = orbits[o].start
    BY <1>1
  <2>3. V(n) = r[1]
    BY ONLY <2>1
  <2>4. \A i \in 1 .. n - 1 : V(i) = r[i + 1]
    BY ONLY <2>1
  <2> QED BY ONLY <2>2, <2>3, <2>4
<1>9. W[n] = orbits[o].start /\ \A i \in 1 .. n - 1 : W[i] # orbits[o].start
  <2>1. W[n] = orbits[o].start
    <3>1. n \in 0 .. 139
      BY <1>1
    <3> HIDE DEF V
    <3> QED BY <1>7, <1>8, <3>1
  <2>2. ASSUME NEW i \in 1 .. n - 1 PROVE W[i] # orbits[o].start
    <3>1. i \in 0 .. 139 /\ i + 1 \in 1 .. n /\ 1 \in 1 .. n /\ i + 1 # 1
      BY <1>1
    <3>2. W[i] = r[i + 1]
      BY <1>7, <1>8, <3>1
    <3> QED BY <1>1, <3>1, <3>2
  <2> QED BY <2>1, <2>2
<1>10. num = n
  <2> DEFINE N(k) == /\ W[k] = orbits[o].start
                     /\ \A i \in 1 .. k - 1 : W[i] # orbits[o].start
  <2>1. n \in 1 .. 139 /\ N(n)
    BY <1>1, <1>9
  <2>2. num \in 1 .. 139 /\ N(num)
    <3>1. num = CHOOSE k \in 1 .. 139 : N(k)
      OBVIOUS
    <3> HIDE DEF N, num
    <3> QED BY <2>1, <3>1
  <2> HIDE DEF num
  <2>3. ~ (num < n)
    <3>1. num < n => num \in 1 .. n - 1
      BY <2>1, <2>2
    <3> QED BY <1>9, <2>2, <3>1
  <2>4. ~ (num > n)
    <3>1. num > n => n \in 1 .. num - 1
      BY <2>1, <2>2
    <3> QED BY <1>9, <2>2, <3>1
  <2>5. n \in Int /\ num \in Int
    BY <2>1, <2>2
  <2> QED BY ONLY <2>3, <2>4, <2>5
<1> HIDE DEF num
<1>11. [i \in 1 .. n |-> W[i - 1]] = r
  <2>1. ASSUME NEW i \in 1 .. n PROVE W[i - 1] = r[i]
    <3>1. CASE i = 1
      BY <1>1, <1>5, <1>7, <3>1
    <3>2. CASE i # 1
      <4>1. i - 1 \in 1 .. n - 1 /\ i - 1 \in 0 .. 139 /\ (i - 1) + 1 = i
        BY <1>1, <3>2
      <4>2. W[i - 1] = V(i - 1)
        BY <1>7, <4>1
      <4>3. V(i - 1) = r[(i - 1) + 1]
        BY <1>8, <4>1
      <4> QED BY ONLY <4>1, <4>2, <4>3
    <3> QED BY <3>1, <3>2
  <2>2. r = [i \in 1 .. n |-> r[i]]
    BY <1>1 DEF n
  <2> QED BY <2>1, <2>2
<1>12. SubSeq(r, 1, n) = r
  BY <1>1 DEF n
<1> QED BY <1>2, <1>10, <1>11, <1>12 DEF r

\* The nodes of an orbit.
OrbitNodes(o) == {Ring[o][i] : i \in 1 .. Len(Ring[o])}

\* From each of them the orbit's switches lead to another one, along one edge.
LEMMA OrbitNode ==
  ASSUME NEW o \in Orbits, NEW n \in OrbitNodes(o)
  PROVE  /\ n \in Nodes /\ n \in 0 .. 123
         /\ NodeType[n] \notin {"enter", "exit"}
         /\ NodeType[n] = "sensor" <=> n \in Sensors
         /\ Turned(o, n) \in Directions(n)
         /\ NextOn(o, n) \in OrbitNodes(o)
         /\ DistOn(o, n) \in Nat
         /\ TurnTo(n, NextOn(o, n)) = Turned(o, n)
<1> DEFINE r == Ring[o]
           k == Len(r)
<1>1. k \in {15, 19} /\ r \in Seq(0 .. 123) /\ \A i \in 1 .. k : NextOn(o, r[i]) = r[After(k, i)]
  BY RingFacts
<1>2. PICK i \in 1 .. k : n = r[i]
  BY DEF OrbitNodes
<1>3. OrbitNodes(o) = {r[x] : x \in 1 .. k}
  BY DEF OrbitNodes
<1> HIDE DEF r
<1>4. n \in 0 .. 123
  <2>1. r \in Seq(0 .. 123) /\ i \in 1 .. Len(r)
    BY <1>1, <1>2
  <2>2. r[i] \in 0 .. 123
    BY ONLY <2>1, Item
  <2> QED BY <1>2, <2>2
<1> HIDE DEF k
<1>5. After(k, i) \in 1 .. k
  BY <1>1, <1>2 DEF After
<1>6. NextOn(o, n) \in OrbitNodes(o)
  BY <1>1, <1>2, <1>3, <1>5
<1>7. /\ n \in Nodes /\ NodeType[n] \notin {"enter", "exit"}
      /\ NodeType[n] = "sensor" <=> n \in Sensors
  BY <1>4 DEF Nodes, NodeType, Sensors, SwitchNodes
<1>8. Turned(o, n) \in Directions(n)
  <2>1. orbits[o].switches \in SwitchTables
    BY OrbitTables
  <2> QED BY <1>7, <2>1, DirectionIs DEF Turned
<1>9. DistOn(o, n) \in Nat /\ Turned(o, n) \in {0, 1}
  BY <1>7, <1>8, EdgeTypes DEF DistOn
<1>10. TurnTo(n, NextOn(o, n)) = Turned(o, n)
  <2>1. CASE NodeType[n] # "branch"
    BY <1>8, <2>1 DEF TurnTo, Directions, DIR_STRAIGHT, DIR_AHEAD
  <2>2. CASE NodeType[n] = "branch" /\ Turned(o, n) = 0
    BY <2>2 DEF TurnTo, NextOn, DIR_STRAIGHT
  <2>3. CASE NodeType[n] = "branch" /\ Turned(o, n) = 1
    <3>1. 0 \in Directions(n) /\ 1 \in Directions(n)
      BY <2>3 DEF Directions, DIR_STRAIGHT, DIR_CURVED
    <3>2. Dest(n, 0) # Dest(n, 1)
      BY <1>7, <3>1, OneLeg
    <3> QED BY <2>3, <3>2 DEF TurnTo, NextOn, DIR_STRAIGHT, DIR_CURVED
  <2> QED BY <1>9, <2>1, <2>2, <2>3
<1> QED BY <1>4, <1>6, <1>7, <1>8, <1>9, <1>10

-----------------------------------------------------------------------------
(* How long the way over nodes is.                                         *)

SumOf(s, n, d) == s = [i \in 1 .. n |-> IF i = 1 THEN 0 ELSE s[i - 1] + d[i - 1]]

\* There are sums.
LEMMA SumExists ==
  ASSUME NEW d
  PROVE  \A n \in Nat : \E s : SumOf(s, n, d)
<1> DEFINE T == {n \in Nat : \E s : SumOf(s, n, d)}
<1>1. 0 \in T
  <2> DEFINE s == [i \in 1 .. 0 |-> 0]
  <2>1. s = [i \in 1 .. 0 |-> IF i = 1 THEN 0 ELSE s[i - 1] + d[i - 1]]
    OBVIOUS
  <2> HIDE DEF s
  <2>2. SumOf(s, 0, d)
    BY <2>1 DEF SumOf
  <2> QED BY <2>2
<1>2. ASSUME NEW n \in Nat, n \in T PROVE n + 1 \in T
  <2>1. PICK s : SumOf(s, n, d)
    BY <1>2
  <2> DEFINE V(i) == IF i = 1 THEN 0 ELSE s[i - 1] + d[i - 1]
             u == [i \in 1 .. n + 1 |-> V(i)]
             U(i) == IF i = 1 THEN 0 ELSE u[i - 1] + d[i - 1]
  <2>2. s = [i \in 1 .. n |-> V(i)]
    BY <2>1 DEF SumOf
  <2>3. ASSUME NEW i \in 1 .. n + 1 PROVE V(i) = U(i)
    <3>1. CASE i = 1
      BY <3>1
    <3>2. CASE i # 1
      <4>1. i - 1 \in 1 .. n /\ i - 1 \in 1 .. n + 1
        BY <3>2
      <4>2. s[i - 1] = V(i - 1) /\ u[i - 1] = V(i - 1)
        <5> HIDE DEF V
        <5> QED BY <2>2, <4>1
      <4> HIDE DEF u
      <4> QED BY <3>2, <4>2
    <3> QED BY <3>1, <3>2
  <2>4. u = [i \in 1 .. n + 1 |-> U(i)]
    <3> HIDE DEF U, V
    <3> QED BY <2>3
  <2> HIDE DEF u
  <2>5. SumOf(u, n + 1, d)
    BY <2>4 DEF SumOf
  <2> QED BY <2>5
<1> HIDE DEF T
<1>3. \A n \in Nat : n \in T
  BY <1>1, <1>2, Induction
<1> QED BY <1>3 DEF T

\* A way along an orbit.
Along(o, y) ==
  /\ y \in Seq(OrbitNodes(o))
  /\ \A i \in 1 .. Len(y) - 1 : y[i + 1] = NextOn(o, y[i])

\* Its length is the sum of the edges.
LEMMA LengthSums ==
  ASSUME NEW o \in Orbits, NEW y, Along(o, y)
  PROVE  \E s : /\ Length(y) = s[Len(y)]
                /\ Len(y) >= 1 => s[1] = 0
                /\ \A i \in 2 .. Len(y) : s[i] = s[i - 1] + DistOn(o, y[i - 1])
                /\ \A i \in 1 .. Len(y) : s[i] \in Nat
<1> DEFINE n == Len(y)
           D(i) == Dist(y[i - 1], TurnTo(y[i - 1], y[i]))
           d == [i \in 1 .. n |-> D(i + 1)]
           S == CHOOSE s : s = [i \in 1 .. n |-> IF i = 1 THEN 0 ELSE s[i - 1] + D(i)]
<1>1. y \in Seq(OrbitNodes(o)) /\ n \in Nat /\ \A i \in 1 .. n - 1 : y[i + 1] = NextOn(o, y[i])
  BY DEF Along
<1>2. Length(y) = S[n]
  BY DEF Length
<1>3. \A i \in 2 .. n : d[i - 1] = D(i) /\ D(i) = DistOn(o, y[i - 1]) /\ DistOn(o, y[i - 1]) \in Nat
  <2> SUFFICES ASSUME NEW i \in 2 .. n
               PROVE  d[i - 1] = D(i) /\ D(i) = DistOn(o, y[i - 1]) /\ DistOn(o, y[i - 1]) \in Nat
    OBVIOUS
  <2>1. i - 1 \in 1 .. n - 1 /\ i - 1 \in 1 .. n /\ (i - 1) + 1 = i
    BY <1>1
  <2>2. y[i - 1] \in OrbitNodes(o) /\ y[i] = NextOn(o, y[i - 1])
    BY <1>1, <2>1
  <2>3. TurnTo(y[i - 1], y[i]) = Turned(o, y[i - 1]) /\ DistOn(o, y[i - 1]) \in Nat
    BY <2>2, OrbitNode
  <2>4. D(i) = DistOn(o, y[i - 1])
    BY <2>3 DEF DistOn
  <2>5. d[i - 1] = D(i)
    <3> HIDE DEF D
    <3> QED BY <2>1
  <2> QED BY <2>3, <2>4, <2>5
<1> HIDE DEF d, D, n
<1>4. PICK u : SumOf(u, n, d)
  BY <1>1, SumExists
<1>5. u = [i \in 1 .. n |-> IF i = 1 THEN 0 ELSE u[i - 1] + D(i)]
  <2> DEFINE A(i) == IF i = 1 THEN 0 ELSE u[i - 1] + d[i - 1]
             B(i) == IF i = 1 THEN 0 ELSE u[i - 1] + D(i)
  <2>1. u = [i \in 1 .. n |-> A(i)]
    BY <1>4 DEF SumOf
  <2>2. \A i \in 1 .. n : A(i) = B(i)
    <3>1. \A i \in 1 .. n : i # 1 => i \in 2 .. n
      BY <1>1
    <3> QED BY <1>3, <3>1
  <2>3. u = [i \in 1 .. n |-> B(i)]
    <3> HIDE DEF A, B
    <3> QED BY <2>1, <2>2
  <2> QED BY <2>3
<1>6. S = [i \in 1 .. n |-> IF i = 1 THEN 0 ELSE S[i - 1] + D(i)]
  BY <1>5
<1> HIDE DEF S
<1>7. n >= 1 => S[1] = 0
  <2>1. n >= 1 => 1 \in 1 .. n
    BY <1>1
  <2> QED BY <1>6, <2>1
<1>8. \A i \in 2 .. n : S[i] = S[i - 1] + DistOn(o, y[i - 1])
  <2> SUFFICES ASSUME NEW i \in 2 .. n PROVE S[i] = S[i - 1] + DistOn(o, y[i - 1])
    OBVIOUS
  <2>1. i \in 1 .. n /\ i # 1
    BY <1>1
  <2>2. S[i] = S[i - 1] + D(i)
    BY ONLY <1>6, <2>1
  <2>3. D(i) = DistOn(o, y[i - 1])
    BY <1>3
  <2> QED BY ONLY <2>2, <2>3
<1>9. \A i \in 1 .. n : S[i] \in Nat
  <2> DEFINE T == {i \in Nat : i \in 1 .. n => S[i] \in Nat}
  <2>1. 0 \in T
    OBVIOUS
  <2>2. ASSUME NEW i \in Nat, i \in T PROVE i + 1 \in T
    <3> SUFFICES ASSUME i + 1 \in 1 .. n PROVE S[i + 1] \in Nat
      OBVIOUS
    <3>1. CASE i = 0
      BY <1>1, <1>7, <3>1
    <3>2. CASE i # 0
      <4>1. i + 1 \in 2 .. n /\ i \in 1 .. n /\ (i + 1) - 1 = i
        BY <1>1, <3>2
      <4>2. S[i] \in Nat
        BY <2>2, <4>1
      <4>3. S[i + 1] = S[i] + DistOn(o, y[i]) /\ DistOn(o, y[i]) \in Nat
        BY <1>3, <1>8, <4>1
      <4> QED BY <4>2, <4>3
    <3> QED BY <3>1, <3>2
  <2> HIDE DEF T
  <2>3. \A i \in Nat : i \in T
    BY <2>1, <2>2, Induction
  <2> QED BY <1>1, <2>3 DEF T
<1> QED BY <1>2, <1>7, <1>8, <1>9 DEF n

\* A way of one node has no length, and each further node adds an edge.
LEMMA LengthGrows ==
  ASSUME NEW o \in Orbits, NEW y, Along(o, y), NEW z, Along(o, z),
         Len(y) >= 1, Len(z) = Len(y) + 1, \A i \in 1 .. Len(y) : z[i] = y[i]
  PROVE  Length(z) = Length(y) + DistOn(o, y[Len(y)])
<1> DEFINE n == Len(y)
<1>1. PICK s : /\ Length(y) = s[Len(y)]
               /\ Len(y) >= 1 => s[1] = 0
               /\ \A i \in 2 .. Len(y) : s[i] = s[i - 1] + DistOn(o, y[i - 1])
               /\ \A i \in 1 .. Len(y) : s[i] \in Nat
  BY LengthSums
<1>2. PICK u : /\ Length(z) = u[Len(z)]
               /\ Len(z) >= 1 => u[1] = 0
               /\ \A i \in 2 .. Len(z) : u[i] = u[i - 1] + DistOn(o, z[i - 1])
               /\ \A i \in 1 .. Len(z) : u[i] \in Nat
  BY LengthSums
<1>3. n \in Nat /\ n >= 1 /\ Len(z) = n + 1
  BY DEF Along
<1>4. \A i \in 1 .. n : z[i] = y[i]
  OBVIOUS
<1>5. /\ s[1] = 0 /\ u[1] = 0
      /\ \A i \in 2 .. n : s[i] = s[i - 1] + DistOn(o, y[i - 1])
      /\ \A i \in 2 .. n + 1 : u[i] = u[i - 1] + DistOn(o, z[i - 1])
      /\ Length(y) = s[n] /\ Length(z) = u[n + 1]
  BY <1>1, <1>2, <1>3
<1> HIDE DEF n
<1>6. \A i \in 1 .. n : u[i] = s[i]
  <2> DEFINE T == {i \in Nat : i \in 1 .. n => u[i] = s[i]}
  <2>1. 0 \in T
    OBVIOUS
  <2>2. ASSUME NEW i \in Nat, i \in T PROVE i + 1 \in T
    <3> SUFFICES ASSUME i + 1 \in 1 .. n PROVE u[i + 1] = s[i + 1]
      OBVIOUS
    <3>1. CASE i = 0
      BY <1>5, <3>1
    <3>2. CASE i # 0
      <4>1. i + 1 \in 2 .. n /\ i + 1 \in 2 .. n + 1 /\ i \in 1 .. n /\ (i + 1) - 1 = i
        BY <1>3, <3>2
      <4>2. u[i] = s[i] /\ z[i] = y[i]
        BY <1>4, <2>2, <4>1
      <4> QED BY <1>5, <4>1, <4>2
    <3> QED BY <3>1, <3>2
  <2> HIDE DEF T
  <2>3. \A i \in Nat : i \in T
    BY <2>1, <2>2, Induction
  <2> QED BY <1>3, <2>3 DEF T
<1>7. n + 1 \in 2 .. n + 1 /\ (n + 1) - 1 = n /\ n \in 1 .. n
  BY <1>3
<1>8. u[n + 1] = u[n] + DistOn(o, z[n])
  BY <1>5, <1>7
<1>9. u[n] = s[n] /\ z[n] = y[n]
  BY <1>4, <1>6, <1>7
<1> QED BY <1>5, <1>8, <1>9 DEF n

-----------------------------------------------------------------------------
(* The way from a node of an orbit to the next sensor.                     *)

\* The m edges from n on to the nodes of w, at distances g, up to a sensor.
Stretch(o, n, w, g, m) ==
  /\ m \in 1 .. 4 /\ w[0] = n /\ g[0] = 0
  /\ \A j \in 0 .. m : w[j] \in OrbitNodes(o) /\ g[j] \in Nat
  /\ \A j \in 0 .. m - 1 : /\ w[j + 1] = NextOn(o, w[j])
                           /\ g[j + 1] = g[j] + DistOn(o, w[j])
  /\ w[m] \in Sensors /\ \A j \in 1 .. m - 1 : w[j] \notin Sensors

\* It exists, and leads to the sensor that predictNextSensor finds.
LEMMA StretchExists ==
  ASSUME NEW o \in Orbits, NEW n \in OrbitNodes(o), NEW t, t.orbit = o
  PROVE  \E w, g, m : Stretch(o, n, w, g, m) /\ w[m] = SensorAhead(t, NextOn(o, n))
<1> DEFINE F(x)  == NextOn(o, x)
           D(x)  == DistOn(o, x)
           a     == F(n)
           b     == F(a)
           c     == F(b)
           d     == F(c)
           m     == IF a \in Sensors THEN 1 ELSE IF b \in Sensors THEN 2
                    ELSE IF c \in Sensors THEN 3 ELSE 4
           w     == [j \in 0 .. 4 |-> IF j = 0 THEN n ELSE IF j = 1 THEN a ELSE IF j = 2 THEN b
                                      ELSE IF j = 3 THEN c ELSE d]
           g     == [j \in 0 .. 4 |-> IF j = 0 THEN 0 ELSE IF j = 1 THEN D(n)
                                      ELSE IF j = 2 THEN D(n) + D(a)
                                      ELSE IF j = 3 THEN D(n) + D(a) + D(b)
                                      ELSE D(n) + D(a) + D(b) + D(c)]
           Stops(x) == NodeType[x] \in {"sensor", "exit"}
           Step(x) == IF Stops(x) THEN x ELSE Dest(x, Direction(orbits[t.orbit].switches, x))
           WayOf(x) == CHOOSE f : f = [i \in 0 .. 12 |-> IF i = 0 THEN x ELSE Step(f[i - 1])]
           Steps(x) == IF Stops(x) THEN x ELSE WayOf(x)[12]
           Ways  == CHOOSE f : f = [k \in 0 .. 12 |-> IF k = 0 THEN a ELSE Steps(f[k - 1])]
           Way   == WayOf(a)
           X(i)  == IF i + 1 >= m THEN w[m] ELSE w[i + 1]
<1>1. \A x \in OrbitNodes(o) : F(x) \in OrbitNodes(o) /\ D(x) \in Nat
  BY OrbitNode
<1>2. a \in OrbitNodes(o) /\ b \in OrbitNodes(o) /\ c \in OrbitNodes(o) /\ d \in OrbitNodes(o)
  <2> HIDE DEF F
  <2> QED BY <1>1
<1>3. \A x \in OrbitNodes(o) : Step(x) = IF x \in Sensors THEN x ELSE F(x)
  BY OrbitNode DEF NextOn, Turned
<1>22. \A x \in OrbitNodes(o) : Stops(x) <=> x \in Sensors
  BY OrbitNode
<1>4. a \in Sensors \/ b \in Sensors \/ c \in Sensors \/ d \in Sensors
  <2> DEFINE r == Ring[o]
             k == Len(r)
  <2>1. /\ k \in {15, 19}
        /\ \A i \in 1 .. k : F(r[i]) = r[After(k, i)]
        /\ \A i \in 1 .. k :
              \/ r[i] \in Sensors
              \/ r[After(k, i)] \in Sensors
              \/ r[After(k, After(k, i))] \in Sensors
              \/ r[After(k, After(k, After(k, i)))] \in Sensors
    BY RingFacts
  <2>2. OrbitNodes(o) = {r[i] : i \in 1 .. k}
    BY DEF OrbitNodes
  <2> HIDE DEF r, k
  <2>3. \A i \in 1 .. k : After(k, i) \in 1 .. k
    BY <2>1 DEF After
  <2> HIDE DEF F
  <2>4. PICK i \in 1 .. k : a = r[i]
    BY <1>2, <2>2
  <2>5. b = r[After(k, i)] /\ After(k, i) \in 1 .. k
    BY <2>1, <2>3, <2>4
  <2>6. c = r[After(k, After(k, i))] /\ After(k, After(k, i)) \in 1 .. k
    BY <2>1, <2>3, <2>5
  <2>7. d = r[After(k, After(k, After(k, i)))]
    BY <2>1, <2>6
  <2> QED BY <2>1, <2>4, <2>5, <2>6, <2>7
<1>5. D(n) \in Nat /\ D(a) \in Nat /\ D(b) \in Nat /\ D(c) \in Nat
  <2> HIDE DEF D, F
  <2> QED BY <1>1, <1>2
<1>6. SensorAhead(t, a) = Ways[12]
  BY DEF SensorAhead
<1>7. b = F(a) /\ c = F(b) /\ d = F(c) /\ a = F(n)
  OBVIOUS
<1> HIDE DEF a, b, c, d, F, D, Step, Stops
<1>8. /\ m \in 1 .. 4 /\ w[0] = n /\ w[1] = a /\ w[2] = b /\ w[3] = c /\ w[4] = d
      /\ w[m] \in Sensors /\ \A j \in 1 .. m - 1 : w[j] \notin Sensors
  BY <1>4
<1>9. /\ g[0] = 0 /\ g[1] = D(n) /\ g[2] = D(n) + D(a) /\ g[3] = D(n) + D(a) + D(b)
      /\ g[4] = D(n) + D(a) + D(b) + D(c)
  OBVIOUS
<1> HIDE DEF m, w, g
<1>10. \A j \in 0 .. 4 : w[j] \in OrbitNodes(o) /\ g[j] \in Nat
  <2>1. \A j \in 0 .. 4 : j \in {0, 1, 2, 3, 4}
    OBVIOUS
  <2>2. g[0] \in Nat /\ g[1] \in Nat /\ g[2] \in Nat /\ g[3] \in Nat /\ g[4] \in Nat
    BY <1>5, <1>9
  <2> QED BY <1>2, <1>8, <2>1, <2>2
<1>11. \A j \in 0 .. 3 : w[j + 1] = F(w[j]) /\ g[j + 1] = g[j] + D(w[j])
  <2>1. \A j \in 0 .. 3 : j = 0 \/ j = 1 \/ j = 2 \/ j = 3
    OBVIOUS
  <2>2. w[1] = F(w[0]) /\ w[2] = F(w[1]) /\ w[3] = F(w[2]) /\ w[4] = F(w[3])
    BY <1>7, <1>8
  <2>3. /\ g[0 + 1] = g[0] + D(w[0]) /\ g[1 + 1] = g[1] + D(w[1])
        /\ g[2 + 1] = g[2] + D(w[2]) /\ g[3 + 1] = g[3] + D(w[3])
    BY <1>5, <1>8, <1>9
  <2> QED BY <2>1, <2>2, <2>3
<1>12. Stretch(o, n, w, g, m)
  <2>1. \A j \in 0 .. m : j \in 0 .. 4
    BY <1>8
  <2>2. \A j \in 0 .. m - 1 : j \in 0 .. 3
    BY <1>8
  <2> QED BY <1>8, <1>9, <1>10, <1>11, <2>1, <2>2 DEF Stretch, F, D
<1>13. X(0) = a
  BY <1>8
<1>14. ASSUME NEW i \in Nat PROVE X(i + 1) = Step(X(i))
  <2>1. CASE i + 1 >= m
    <3>1. X(i) = w[m] /\ X(i + 1) = w[m]
      BY <1>8, <2>1
    <3>2. w[m] \in OrbitNodes(o) /\ w[m] \in Sensors
      BY <1>8, <1>10
    <3> QED BY <1>3, <3>1, <3>2
  <2>2. CASE ~ (i + 1 >= m)
    <3>1. i + 1 \in 1 .. m - 1 /\ i + 1 \in 0 .. 3 /\ i + 1 \in 0 .. 4
      BY <1>8, <2>2
    <3>2. X(i) = w[i + 1] /\ w[i + 1] \notin Sensors /\ w[i + 1] \in OrbitNodes(o)
      BY <1>8, <1>10, <2>2, <3>1
    <3>3. X(i + 1) = w[(i + 1) + 1]
      BY <1>8, <3>1
    <3> HIDE DEF X
    <3> QED BY <1>3, <1>11, <3>1, <3>2, <3>3
  <2> QED BY <2>1, <2>2
<1> HIDE DEF X
<1>15. Way = [i \in 0 .. 12 |-> IF i = 0 THEN a ELSE Step(Way[i - 1])]
  <2> DEFINE f == [i \in 0 .. 12 |-> X(i)]
             U(i) == IF i = 0 THEN a ELSE Step(f[i - 1])
  <2>1. ASSUME NEW i \in 0 .. 12 PROVE X(i) = U(i)
    <3>1. CASE i = 0
      BY <1>13, <3>1
    <3>2. CASE i # 0
      <4>1. i - 1 \in Nat /\ i - 1 \in 0 .. 12 /\ (i - 1) + 1 = i
        BY <3>2
      <4>2. f[i - 1] = X(i - 1)
        BY <4>1
      <4>3. Step(X(i - 1)) = X((i - 1) + 1)
        BY <1>14, <4>1
      <4> QED BY ONLY <3>2, <4>1, <4>2, <4>3
    <3> QED BY <3>1, <3>2
  <2>2. f = [i \in 0 .. 12 |-> U(i)]
    <3> HIDE DEF U
    <3> QED BY <2>1
  <2> QED BY <2>2
<1> HIDE DEF Way, WayOf
<1>16. \A i \in 0 .. 12 : Way[i] = X(i)
  <2> DEFINE T == {i \in Nat : i \in 0 .. 12 => Way[i] = X(i)}
  <2>1. 0 \in T
    BY <1>13, <1>15
  <2>2. ASSUME NEW i \in Nat, i \in T PROVE i + 1 \in T
    <3> SUFFICES ASSUME i + 1 \in 0 .. 12 PROVE Way[i + 1] = X(i + 1)
      OBVIOUS
    <3>1. Way[i] = X(i)
      BY <2>2
    <3>2. Way[i + 1] = Step(Way[i])
      BY <1>15
    <3> QED BY <1>14, <3>1, <3>2
  <2> HIDE DEF T
  <2>3. \A i \in Nat : i \in T
    BY <2>1, <2>2, Induction
  <2> QED BY <2>3 DEF T
<1>17. X(12) = w[m]
  BY <1>8 DEF X
<1>18. Steps(a) = w[m] /\ Steps(w[m]) = w[m]
  <2>1. Way[12] = w[m]
    BY <1>16, <1>17
  <2>2. Steps(a) = IF Stops(a) THEN a ELSE Way[12]
    BY DEF Way
  <2>3. Stops(a) => a = w[m]
    <3>1. Stops(a) => w[1] \in Sensors
      BY <1>2, <1>8, <1>22
    <3>2. m # 1 => 1 \in 1 .. m - 1
      BY <1>8
    <3>3. m # 1 => w[1] \notin Sensors
      BY <1>8, <3>2
    <3> QED BY <1>8, <3>1, <3>3
  <2>4. Stops(w[m])
    <3>1. w[m] \in OrbitNodes(o) /\ w[m] \in Sensors
      BY <1>8, <1>10
    <3> QED BY <1>22, <3>1
  <2> QED BY <2>1, <2>2, <2>3, <2>4
<1> HIDE DEF Steps
<1>19. Ways = [k \in 0 .. 12 |-> IF k = 0 THEN a ELSE Steps(Ways[k - 1])]
  <2> DEFINE f == [k \in 0 .. 12 |-> IF k = 0 THEN a ELSE w[m]]
             U(k) == IF k = 0 THEN a ELSE Steps(f[k - 1])
  <2>1. ASSUME NEW k \in 0 .. 12 PROVE f[k] = U(k)
    <3>1. CASE k = 0
      BY <3>1
    <3>2. CASE k # 0
      <4>1. k - 1 \in 0 .. 12
        BY <3>2
      <4>2. f[k - 1] = a \/ f[k - 1] = w[m]
        BY <4>1
      <4> QED BY <1>18, <3>2, <4>2
    <3> QED BY <3>1, <3>2
  <2>2. f = [k \in 0 .. 12 |-> U(k)]
    <3> HIDE DEF U
    <3> QED BY <2>1
  <2> QED BY <2>2
<1> HIDE DEF Ways
<1>20. Ways[12] = w[m]
  <2>1. Ways[0] = a
    BY <1>19
  <2>2. Ways[1] = w[m]
    BY <1>18, <1>19, <2>1
  <2>3. \A k \in 2 .. 12 : Ways[k] = Steps(Ways[k - 1])
    BY <1>19
  <2>4. ASSUME NEW k \in 2 .. 12, Ways[k - 1] = w[m] PROVE Ways[k] = w[m]
    BY <1>18, <2>3, <2>4
  <2> QED BY <2>2, <2>4
<1>21. w[m] = SensorAhead(t, NextOn(o, n))
  BY <1>6, <1>7, <1>20 DEF F
<1> QED BY <1>12, <1>21

\* From the node after n it is one edge shorter.
LEMMA StretchShift ==
  ASSUME NEW o \in Orbits, NEW n, NEW w, NEW g, NEW m, Stretch(o, n, w, g, m), m # 1
  PROVE  Stretch(o, w[1], [j \in 0 .. m - 1 |-> w[j + 1]], [j \in 0 .. m - 1 |-> g[j + 1] - g[1]],
                 m - 1)
<1> DEFINE v == [j \in 0 .. m - 1 |-> w[j + 1]]
           h == [j \in 0 .. m - 1 |-> g[j + 1] - g[1]]
<1>1. /\ m \in 2 .. 4 /\ g[0] = 0
      /\ \A j \in 0 .. m : w[j] \in OrbitNodes(o) /\ g[j] \in Nat
      /\ \A j \in 0 .. m - 1 : w[j + 1] = NextOn(o, w[j]) /\ g[j + 1] = g[j] + DistOn(o, w[j])
      /\ w[m] \in Sensors /\ \A j \in 1 .. m - 1 : w[j] \notin Sensors
  BY DEF Stretch
<1>2. \A x \in OrbitNodes(o) : DistOn(o, x) \in Nat
  BY OrbitNode
<1>3. \A j \in 0 .. m - 1 : v[j] = w[j + 1] /\ h[j] = g[j + 1] - g[1]
  OBVIOUS
<1> HIDE DEF v, h
<1>4. \A j \in 0 .. m - 1 : j + 1 \in 0 .. m /\ (j # 0 => j + 1 \in 1 .. m)
  BY <1>1
<1>5. v[0] = w[1] /\ h[0] = 0
  BY <1>1, <1>3
<1>6. \A j \in 0 .. m - 2 : /\ v[j + 1] = NextOn(o, v[j])
                            /\ h[j + 1] = h[j] + DistOn(o, v[j])
  <2> SUFFICES ASSUME NEW j \in 0 .. m - 2
               PROVE  v[j + 1] = NextOn(o, v[j]) /\ h[j + 1] = h[j] + DistOn(o, v[j])
    OBVIOUS
  <2>1. j \in 0 .. m - 1 /\ j + 1 \in 0 .. m - 1 /\ j + 1 \in 0 .. m /\ (j + 1) + 1 \in 0 .. m
        /\ 1 \in 0 .. m
    BY <1>1
  <2>2. v[j] = w[j + 1] /\ v[j + 1] = w[(j + 1) + 1]
    BY <1>3, <2>1
  <2>3. h[j] = g[j + 1] - g[1] /\ h[j + 1] = g[(j + 1) + 1] - g[1]
    BY <1>3, <2>1
  <2>4. /\ g[(j + 1) + 1] = g[j + 1] + DistOn(o, w[j + 1]) /\ w[(j + 1) + 1] = NextOn(o, w[j + 1])
        /\ g[1] \in Nat /\ g[j + 1] \in Nat /\ DistOn(o, w[j + 1]) \in Nat
    BY <1>1, <1>2, <2>1
  <2> QED BY <2>2, <2>3, <2>4
<1>7. \A j \in 0 .. m - 1 : v[j] \in OrbitNodes(o) /\ h[j] \in Nat
  <2>1. \A j \in 0 .. m - 1 : v[j] \in OrbitNodes(o)
    BY <1>1, <1>3, <1>4
  <2>2. \A j \in 0 .. m - 2 : DistOn(o, v[j]) \in Nat
    BY <1>1, <1>2, <2>1
  <2>3. \A j \in 0 .. m - 1 : j = 0 \/ j = 1 \/ j = 2 \/ j = 3
    BY <1>1
  <2>4. h[0] \in Nat
    BY <1>5
  <2>5. 1 <= m - 1 => h[1] \in Nat
    <3>1. 1 <= m - 1 => 0 \in 0 .. m - 2
      BY <1>1
    <3> QED BY <1>5, <1>6, <2>2, <3>1
  <2>6. 2 <= m - 1 => h[2] \in Nat
    <3>1. 2 <= m - 1 => 1 \in 0 .. m - 2 /\ 1 <= m - 1
      BY <1>1
    <3>2. 2 <= m - 1 => h[1 + 1] = h[1] + DistOn(o, v[1])
      BY <1>6, <3>1
    <3> QED BY <2>2, <2>5, <3>1, <3>2
  <2>7. 3 <= m - 1 => h[3] \in Nat
    <3>1. 3 <= m - 1 => 2 \in 0 .. m - 2 /\ 2 <= m - 1
      BY <1>1
    <3>2. 3 <= m - 1 => h[2 + 1] = h[2] + DistOn(o, v[2])
      BY <1>6, <3>1
    <3> QED BY <2>2, <2>6, <3>1, <3>2
  <2> QED BY <1>1, <2>1, <2>3, <2>4, <2>5, <2>6, <2>7
<1>8. v[m - 1] \in Sensors /\ \A j \in 1 .. (m - 1) - 1 : v[j] \notin Sensors
  <2>1. m - 1 \in 0 .. m - 1 /\ (m - 1) + 1 = m
    BY <1>1
  <2>2. \A j \in 1 .. (m - 1) - 1 : j \in 0 .. m - 1 /\ j + 1 \in 1 .. m - 1
    BY <1>1
  <2> QED BY <1>1, <1>3, <2>1, <2>2
<1>9. m - 1 \in 1 .. 4 /\ (m - 1) - 1 = m - 2
  BY <1>1
<1> QED BY <1>5, <1>6, <1>7, <1>8, <1>9 DEF Stretch, v, h

\* Its distances do not shrink.
LEMMA StretchGrows ==
  ASSUME NEW o \in Orbits, NEW n, NEW w, NEW g, NEW m, Stretch(o, n, w, g, m),
         NEW i \in 0 .. m, NEW j \in 0 .. m, i <= j
  PROVE  g[i] <= g[j]
<1>1. /\ m \in 1 .. 4
      /\ \A k \in 0 .. m : w[k] \in OrbitNodes(o) /\ g[k] \in Nat
      /\ \A k \in 0 .. m - 1 : g[k + 1] = g[k] + DistOn(o, w[k])
  BY DEF Stretch
<1>2. \A k \in 0 .. m - 1 : g[k] <= g[k + 1] /\ g[k] \in Nat /\ g[k + 1] \in Nat
  <2> SUFFICES ASSUME NEW k \in 0 .. m - 1
               PROVE  g[k] <= g[k + 1] /\ g[k] \in Nat /\ g[k + 1] \in Nat
    OBVIOUS
  <2>1. k \in 0 .. m /\ k + 1 \in 0 .. m
    BY <1>1
  <2>2. DistOn(o, w[k]) \in Nat
    BY <1>1, <2>1, OrbitNode
  <2> QED BY <1>1, <2>1, <2>2
<1>3. /\ g[0] <= g[1]
      /\ m >= 2 => g[1] <= g[2]
      /\ m >= 3 => g[2] <= g[3]
      /\ m >= 4 => g[3] <= g[4]
  <2>1. 0 \in 0 .. m - 1 /\ (m >= 2 => 1 \in 0 .. m - 1) /\ (m >= 3 => 2 \in 0 .. m - 1)
        /\ (m >= 4 => 3 \in 0 .. m - 1)
    BY <1>1
  <2>2. g[0] <= g[0 + 1]
    BY <1>2, <2>1
  <2>3. m >= 2 => g[1] <= g[1 + 1]
    BY <1>2, <2>1
  <2>4. m >= 3 => g[2] <= g[2 + 1]
    BY <1>2, <2>1
  <2>5. m >= 4 => g[3] <= g[3 + 1]
    BY <1>2, <2>1
  <2> QED BY <2>2, <2>3, <2>4, <2>5
<1>4. i \in {0, 1, 2, 3, 4} /\ j \in {0, 1, 2, 3, 4} /\ i <= m /\ j <= m
  BY <1>1
<1>5. \A k \in 0 .. 4 : k <= m => g[k] \in Nat
  BY <1>1
<1> QED BY <1>1, <1>3, <1>4, <1>5

-----------------------------------------------------------------------------
(* What changeNextSwitch throws on an orbit.                               *)

\* A part of a way along an orbit is one.
LEMMA AlongPart ==
  ASSUME NEW o \in Orbits, NEW y, Along(o, y), NEW a \in 1 .. Len(y), NEW b \in a .. Len(y)
  PROVE  LET z == SubSeq(y, a, b)
         IN  /\ Along(o, z) /\ Len(z) = b - a + 1
             /\ \A i \in 1 .. b - a + 1 : z[i] = y[i + a - 1]
<1> DEFINE z == SubSeq(y, a, b)
<1>1. y \in Seq(OrbitNodes(o)) /\ \A i \in 1 .. Len(y) - 1 : y[i + 1] = NextOn(o, y[i])
  BY DEF Along
<1>2. Len(y) \in Nat /\ a \in Nat /\ b \in Nat /\ 1 <= a /\ a <= b /\ b <= Len(y)
  BY <1>1
<1>3. Len(z) = b - a + 1 /\ \A i \in 1 .. b - a + 1 : z[i] = y[i + a - 1]
  BY <1>1, <1>2
<1>4. z \in Seq(OrbitNodes(o))
  BY <1>1, <1>2
<1> HIDE DEF z
<1>5. ASSUME NEW i \in 1 .. Len(z) - 1 PROVE z[i + 1] = NextOn(o, z[i])
  <2>1. i \in 1 .. b - a + 1 /\ i + 1 \in 1 .. b - a + 1 /\ i + a - 1 \in 1 .. Len(y) - 1
        /\ (i + a - 1) + 1 = i + 1 + a - 1
    BY <1>2, <1>3
  <2>2. z[i] = y[i + a - 1] /\ z[i + 1] = y[i + 1 + a - 1]
    BY <1>3, <2>1
  <2> QED BY <1>1, <2>1, <2>2
<1> QED BY <1>3, <1>4, <1>5 DEF Along, z

\* The nodes that changeNextSwitch goes over go twice round.
LEMMA TwiceRound ==
  ASSUME NEW o \in Orbits
  PROVE  LET r == Ring[o]
             n == Len(r)
             y == r \o r
         IN  /\ n \in {15, 19} /\ Len(y) = n + n /\ Along(o, y)
             /\ \A i \in 1 .. n : y[i] = r[i] /\ y[n + i] = r[i]
<1> DEFINE r == Ring[o]
           n == Len(r)
           y == r \o r
<1>1. n \in {15, 19} /\ r \in Seq(0 .. 123) /\ \A i \in 1 .. n : NextOn(o, r[i]) = r[After(n, i)]
  BY RingFacts
<1>2. OrbitNodes(o) = {r[i] : i \in 1 .. n}
  BY DEF OrbitNodes
<1>3. y = Join(r, r)
  BY DEF Join
<1> HIDE DEF y, r
<1>4. y \in Seq(0 .. 123) /\ Len(y) = n + n
  BY <1>1, <1>3, JoinLen
<1>5. \A i \in 1 .. n + n : y[i] = IF i <= n THEN r[i] ELSE r[i - n]
  BY <1>1, <1>3, JoinItems
<1> HIDE DEF n
<1>6. \A i \in 1 .. n : y[i] = r[i] /\ y[n + i] = r[i]
  <2> SUFFICES ASSUME NEW i \in 1 .. n PROVE y[i] = r[i] /\ y[n + i] = r[i]
    OBVIOUS
  <2>1. /\ i \in 1 .. n + n /\ i <= n
        /\ n + i \in 1 .. n + n /\ ~ (n + i <= n) /\ (n + i) - n = i
    BY <1>1
  <2> QED BY <1>5, <2>1
<1>7. \A i \in 1 .. n + n : y[i] \in OrbitNodes(o)
  <2> SUFFICES ASSUME NEW i \in 1 .. n + n PROVE y[i] \in OrbitNodes(o)
    OBVIOUS
  <2>1. i \in 1 .. n \/ (i - n \in 1 .. n /\ ~ (i <= n))
    BY <1>1
  <2> QED BY <1>2, <1>5, <2>1
<1>8. y \in Seq(OrbitNodes(o))
  BY <1>4, <1>7
<1>9. ASSUME NEW i \in 1 .. Len(y) - 1 PROVE y[i + 1] = NextOn(o, y[i])
  <2>1. CASE i <= n - 1
    <3>1. i \in 1 .. n /\ i + 1 \in 1 .. n /\ After(n, i) = i + 1
      BY <1>1, <2>1 DEF After
    <3> QED BY <1>1, <1>6, <3>1
  <2>2. CASE i = n
    <3>1. i \in 1 .. n /\ 1 \in 1 .. n /\ After(n, i) = 1
      BY <1>1, <2>2 DEF After
    <3> QED BY <1>1, <1>6, <2>2, <3>1
  <2>3. CASE i >= n + 1
    <3> DEFINE k == i - n
    <3>1. /\ k \in 1 .. n /\ k + 1 \in 1 .. n /\ After(n, k) = k + 1
          /\ i = n + k /\ i + 1 = n + (k + 1)
      BY <1>1, <1>4, <2>3 DEF After
    <3> QED BY <1>1, <1>6, <3>1
  <2> QED BY <1>1, <1>4, <2>1, <2>2, <2>3
<1>10. Along(o, y)
  BY <1>8, <1>9 DEF Along
<1> QED BY <1>1, <1>4, <1>6, <1>10 DEF n, y, r

\* The way to the next sensor is there from every node of the orbit, with its distances.
LEMMA StretchIsThere ==
  ASSUME NEW o \in Orbits, NEW y, Along(o, y), NEW c \in Nat, NEW n, n = y[c + 1],
         NEW w, NEW g, NEW m, Stretch(o, n, w, g, m), c + m + 1 <= Len(y)
  PROVE  /\ \A j \in 0 .. m : y[c + j + 1] = w[j]
         /\ \A j \in 1 .. m : Length(SubSeq(y, c + 2, c + j + 1)) = g[j] - g[1]
<1>1. /\ m \in 1 .. 4 /\ w[0] = y[c + 1]
      /\ \A j \in 0 .. m : w[j] \in OrbitNodes(o) /\ g[j] \in Nat
      /\ \A j \in 0 .. m - 1 : w[j + 1] = NextOn(o, w[j]) /\ g[j + 1] = g[j] + DistOn(o, w[j])
  BY DEF Stretch
<1>2. /\ y \in Seq(OrbitNodes(o)) /\ Len(y) \in Nat
      /\ \A i \in 1 .. Len(y) - 1 : y[i + 1] = NextOn(o, y[i])
  BY DEF Along
<1>12. c \in Nat /\ c + m + 1 <= Len(y)
  OBVIOUS
<1>3. \A j \in 0 .. m : y[c + j + 1] = w[j]
  <2> DEFINE T == {j \in Nat : j \in 0 .. m => y[c + j + 1] = w[j]}
  <2>1. 0 \in T
    BY <1>1
  <2>2. ASSUME NEW j \in Nat, j \in T PROVE j + 1 \in T
    <3> SUFFICES ASSUME j + 1 \in 0 .. m PROVE y[c + (j + 1) + 1] = w[j + 1]
      OBVIOUS
    <3>1. j \in 0 .. m - 1 /\ j \in 0 .. m /\ c + j + 1 \in 1 .. Len(y) - 1
          /\ (c + j + 1) + 1 = c + (j + 1) + 1
      <4>1. m \in 1 .. 4 /\ Len(y) \in Nat /\ c \in Nat /\ j \in Nat /\ j + 1 \in 0 .. m
            /\ c + m + 1 <= Len(y)
        <5>1. m \in 1 .. 4
          BY <1>1
        <5>2. Len(y) \in Nat
          BY <1>2
        <5> QED BY ONLY <1>12, <5>1, <5>2, j \in Nat, j + 1 \in 0 .. m
      <4> QED BY ONLY <4>1
    <3>2. y[c + j + 1] = w[j]
      BY <2>2, <3>1
    <3> QED BY <1>1, <1>2, <3>1, <3>2
  <2> HIDE DEF T
  <2>3. \A j \in Nat : j \in T
    BY <2>1, <2>2, Induction
  <2> QED BY <1>1, <2>3 DEF T
<1> DEFINE Part(j) == SubSeq(y, c + 2, c + j + 1)
<1>4. ASSUME NEW j \in 1 .. m
      PROVE  /\ Along(o, Part(j)) /\ Len(Part(j)) = j
             /\ \A i \in 1 .. j : Part(j)[i] = y[c + i + 1]
  <2> DEFINE a == c + 2
             b == c + j + 1
  <2>1. a \in 1 .. Len(y) /\ b \in a .. Len(y) /\ b - a + 1 = j
        /\ \A i \in 1 .. j : i + a - 1 = c + i + 1
    <3>1. m \in 1 .. 4
      BY <1>1
    <3>2. Len(y) \in Nat
      BY <1>2
    <3> QED BY ONLY <1>12, <3>1, <3>2, j \in 1 .. m
  <2> HIDE DEF a, b
  <2>2. /\ Along(o, SubSeq(y, a, b)) /\ Len(SubSeq(y, a, b)) = j
        /\ \A i \in 1 .. j : SubSeq(y, a, b)[i] = y[i + a - 1]
    BY <2>1, AlongPart
  <2> QED BY <2>1, <2>2 DEF a, b
<1>9. \A j \in 1 .. m : Along(o, Part(j))
  BY <1>4
<1>10. \A j \in 1 .. m : Len(Part(j)) = j
  BY <1>4
<1>11. \A j \in 1 .. m : \A i \in 1 .. j : Part(j)[i] = y[c + i + 1]
  BY <1>4
<1> HIDE DEF Part
<1>5. \A j \in 1 .. m : Length(Part(j)) = g[j] - g[1]
  <2> DEFINE T == {j \in Nat : j \in 1 .. m => Length(Part(j)) = g[j] - g[1]}
  <2>1. 0 \in T
    OBVIOUS
  <2>2. ASSUME NEW j \in Nat, j \in T PROVE j + 1 \in T
    <3> SUFFICES ASSUME j + 1 \in 1 .. m PROVE Length(Part(j + 1)) = g[j + 1] - g[1]
      OBVIOUS
    <3>1. CASE j = 0
      <4>4. 1 \in 1 .. m /\ 1 \in 0 .. m
        BY <1>1
      <4>1. Along(o, Part(1)) /\ Len(Part(1)) = 1 /\ 1 \in 0 .. m
        BY <1>9, <1>10, <4>4
      <4>2. PICK s : Length(Part(1)) = s[Len(Part(1))] /\ (Len(Part(1)) >= 1 => s[1] = 0)
        BY ONLY o \in Orbits, <4>1, LengthSums
      <4>5. 1 >= 1
        OBVIOUS
      <4>3. Length(Part(1)) = 0 /\ g[1] \in Nat
        BY <1>1, <4>1, <4>2, <4>5
      <4> QED BY <3>1, <4>3
    <3>2. CASE j # 0
      <4>1. j \in 1 .. m /\ j \in 0 .. m - 1 /\ j \in 0 .. m /\ 1 \in 0 .. m /\ j + 1 \in 0 .. m
        BY <1>1, <3>2
      <4>2. /\ Along(o, Part(j)) /\ Len(Part(j)) = j
            /\ \A i \in 1 .. j : Part(j)[i] = y[c + i + 1]
        BY <1>9, <1>10, <1>11, <4>1
      <4>3. /\ Along(o, Part(j + 1)) /\ Len(Part(j + 1)) = j + 1
            /\ \A i \in 1 .. j + 1 : Part(j + 1)[i] = y[c + i + 1]
        BY <1>9, <1>10, <1>11
      <4>4. \A i \in 1 .. j : Part(j + 1)[i] = Part(j)[i]
        <5>1. \A i \in 1 .. j : i \in 1 .. j + 1
          BY <4>1
        <5> QED BY ONLY <4>2, <4>3, <5>1
      <4>5. Length(Part(j + 1)) = Length(Part(j)) + DistOn(o, Part(j)[j])
        <5>1. Along(o, Part(j)) /\ Along(o, Part(j + 1))
          BY <4>2, <4>3
        <5>2. /\ Len(Part(j)) >= 1 /\ Len(Part(j + 1)) = Len(Part(j)) + 1
              /\ \A i \in 1 .. Len(Part(j)) : Part(j + 1)[i] = Part(j)[i]
          BY <4>1, <4>2, <4>3, <4>4
        <5>3. Length(Part(j + 1)) = Length(Part(j)) + DistOn(o, Part(j)[Len(Part(j))])
          BY <5>1, <5>2, LengthGrows
        <5> QED BY <4>2, <5>3
      <4>6. Part(j)[j] = w[j] /\ w[j] \in OrbitNodes(o)
        BY <1>1, <1>3, <4>1, <4>2
      <4>7. DistOn(o, w[j]) \in Nat
        BY <4>6, OrbitNode
      <4>8. Length(Part(j)) = g[j] - g[1]
        BY <2>2, <4>1
      <4>9. g[j + 1] = g[j] + DistOn(o, w[j]) /\ g[j] \in Nat /\ g[1] \in Nat /\ g[j + 1] \in Nat
        BY <1>1, <4>1
      <4> QED BY <4>5, <4>6, <4>7, <4>8, <4>9
    <3> QED BY <3>1, <3>2
  <2> HIDE DEF T
  <2>3. \A j \in Nat : j \in T
    BY <2>1, <2>2, Induction
  <2> QED BY <1>1, <2>3 DEF T
<1> QED BY <1>3, <1>5 DEF Part

\* Two branches of a table's entry are one.
LEMMA OneBranch ==
  ASSUME NEW u \in 0 .. 123, NEW v \in 0 .. 123, NodeType[u] = "branch", NodeType[v] = "branch",
         switchIdToIndex(SwitchNum(u)) = switchIdToIndex(SwitchNum(v))
  PROVE  u = v
<1>1. u \in 80 .. 123 /\ v \in 80 .. 123 /\ u % 2 = 0 /\ v % 2 = 0
  BY DEF NodeType, Nodes, Sensors, SwitchNodes
<1>2. (u - 80) \div 2 = (v - 80) \div 2
  BY <1>1, SwitchPlace
<1> QED BY <1>1, <1>2

\* A set of integers between two bounds has a greatest one.
LEMMA GreatestBetween ==
  ASSUME NEW a \in Int, NEW b \in Int, NEW T, T \subseteq a .. b, T # {}
  PROVE  \E x \in T : \A z \in T : z <= x
<1> DEFINE U == {b - x : x \in T}
<1>1. U \subseteq Nat /\ U # {}
  <2>1. \A x \in T : x \in a .. b
    OBVIOUS
  <2>2. \A x \in a .. b : b - x \in Nat
    OBVIOUS
  <2>3. U \subseteq Nat
    BY ONLY <2>1, <2>2
  <2>4. U # {}
    BY ONLY T # {}
  <2> QED BY <2>3, <2>4
<1> HIDE DEF U
<1>2. PICK u \in U : \A z \in U : u <= z
  BY <1>1, LeastElement
<1>3. PICK x \in T : u = b - x
  BY DEF U
<1>4. ASSUME NEW z \in T PROVE z <= x
  <2>1. b - z \in U
    BY DEF U
  <2>2. u <= b - z /\ z \in Int /\ x \in Int
    BY <1>2, <2>1
  <2> QED BY <1>3, <2>2
<1> QED BY <1>4

\* The branches that begin less than SWITCH_THRESHOLD ahead are set as the orbit takes them.
LEMMA Throws ==
  ASSUME NEW o \in Orbits, NEW table \in SwitchTables, NEW y, Along(o, y),
         NEW i \in Nat, NEW distance, NEW k \in i .. Len(y) - 2,
         \A j \in i .. k : ~ (distance + Length(SubSeq(y, i + 1, j + 1)) >= SWITCH_THRESHOLD),
         \A j \in i .. Len(y) - 1 :
            (distance + Length(SubSeq(y, i + 1, j + 1)) < SWITCH_THRESHOLD)
               = ~ (distance + Length(SubSeq(y, i + 1, j + 1)) >= SWITCH_THRESHOLD)
  PROVE  Direction(ThrowAhead(table, y, i, distance), y[k + 1]) = Turned(o, y[k + 1])
<1> DEFINE Begins(j) == distance + Length(SubSeq(y, i + 1, j + 1))
           Ends(j) == j + 1 = Len(y) \/ Begins(j) >= SWITCH_THRESHOLD
           P(j) == /\ Ends(j)
                   /\ \A x \in i .. j - 1 : Begins(x) < SWITCH_THRESHOLD
           end == CHOOSE j \in i .. Len(y) - 1 : P(j)
           Thrown(s) == {j \in i .. end - 1 :
                           /\ NodeType[y[j + 1]] = "branch"
                           /\ switchIdToIndex(SwitchNum(y[j + 1])) = s}
           last(s) == CHOOSE j \in Thrown(s) : \A x \in Thrown(s) : x <= j
           V(s) == IF Thrown(s) = {} THEN table[s]
                   ELSE 33 + TurnTo(y[last(s) + 1], y[last(s) + 2])
<1>1. /\ y \in Seq(OrbitNodes(o)) /\ Len(y) \in Nat
      /\ \A j \in 1 .. Len(y) - 1 : y[j + 1] = NextOn(o, y[j])
  BY DEF Along
<1>2. k \in Int /\ i <= k /\ k + 2 <= Len(y)
  BY <1>1
<1>3. /\ \A j \in i .. k : ~ (Begins(j) >= SWITCH_THRESHOLD)
      /\ \A j \in i .. Len(y) - 1 :
            (Begins(j) < SWITCH_THRESHOLD) = ~ (Begins(j) >= SWITCH_THRESHOLD)
  OBVIOUS
<1>4. ThrowAhead(table, y, i, distance) =
         IF i + 1 >= Len(y) THEN table ELSE [s \in DOMAIN table |-> V(s)]
  BY DEF ThrowAhead
<1> HIDE DEF Begins
<1>5. end \in i .. Len(y) - 1 /\ P(end)
  <2> DEFINE T == {j \in i .. Len(y) - 1 : Ends(j)}
  <2>1. Len(y) - 1 \in T /\ T \subseteq Nat
    BY <1>1, <1>2
  <2>2. PICK j \in T : \A x \in T : j <= x
    <3> HIDE DEF T
    <3> QED BY <2>1, LeastElement
  <2>3. ASSUME NEW x \in i .. j - 1 PROVE Begins(x) < SWITCH_THRESHOLD
    <3>1. x \in i .. Len(y) - 1 /\ ~ (j <= x)
      BY <1>1, <1>2
    <3>2. x \notin T
      BY <2>2, <3>1
    <3>3. ~ (Begins(x) >= SWITCH_THRESHOLD)
      BY <3>1, <3>2
    <3> QED BY <1>3, <3>1, <3>3
  <2>4. \E z \in i .. Len(y) - 1 : P(z)
    BY <2>3
  <2> HIDE DEF P
  <2> QED BY <2>4
<1> HIDE DEF end
<1>6. k < end
  <2>1. end \in Int /\ i <= end
    BY <1>1, <1>5
  <2>2. ASSUME end <= k PROVE FALSE
    <3>1. end \in i .. k /\ end + 1 # Len(y)
      BY <1>2, <2>1, <2>2
    <3>2. ~ (Begins(end) >= SWITCH_THRESHOLD)
      BY <1>3, <3>1
    <3> QED BY <1>5, <3>1, <3>2
  <2> QED BY <1>2, <2>1, <2>2
<1> DEFINE n == y[k + 1]
<1>7. n \in OrbitNodes(o)
  <2>1. k + 1 \in 1 .. Len(y)
    BY <1>1, <1>2
  <2> QED BY <1>1, <2>1
<1>8. CASE NodeType[n] # "branch"
  BY <1>8 DEF Direction, Turned
<1>9. CASE NodeType[n] = "branch"
  <2> DEFINE s == switchIdToIndex(SwitchNum(n))
  <2>1. s \in 0 .. 21 /\ DOMAIN table = 0 .. 21
    BY <1>7, <1>9, OrbitNode, SwitchIndex DEF SwitchTables
  <2>2. k \in Thrown(s)
    BY <1>1, <1>2, <1>5, <1>6, <1>9
  <2>3. Thrown(s) \subseteq i .. end - 1 /\ i \in Int /\ end - 1 \in Int
    BY <1>1, <1>5
  <2>4. last(s) \in Thrown(s)
    <3> HIDE DEF Thrown, s
    <3>1. \E x \in Thrown(s) : \A z \in Thrown(s) : z <= x
      BY <2>2, <2>3, GreatestBetween
    <3> QED BY <3>1
  <2>5. V(s) = 33 + TurnTo(y[last(s) + 1], y[last(s) + 2])
    <3> HIDE DEF Thrown, last, s
    <3> QED BY <2>2
  <2>6. PICK j : j = last(s)
    OBVIOUS
  <2>7. /\ j \in i .. end - 1 /\ NodeType[y[j + 1]] = "branch"
        /\ switchIdToIndex(SwitchNum(y[j + 1])) = s
    BY <2>4, <2>6
  <2>8. j + 1 \in 1 .. Len(y) - 1 /\ j + 1 \in 1 .. Len(y) /\ (j + 1) + 1 = j + 2
    BY <1>1, <1>5, <2>7
  <2>9. y[j + 1] \in OrbitNodes(o) /\ y[j + 2] = NextOn(o, y[j + 1])
    BY <1>1, <2>8
  <2>10. y[j + 1] = n
    BY <1>7, <1>9, <2>7, <2>9, OneBranch, OrbitNode
  <2>11. TurnTo(y[j + 1], y[j + 2]) = Turned(o, n)
    BY <1>7, <2>9, <2>10, OrbitNode
  <2>12. ~ (i + 1 >= Len(y))
    BY <1>1, <1>2
  <2>13. V(s) = 33 + Turned(o, n)
    <3> HIDE DEF V, last, s, n
    <3> QED BY <2>5, <2>6, <2>11
  <2>14. ThrowAhead(table, y, i, distance)[s] = 33 + Turned(o, n)
    <3> HIDE DEF V, s, n
    <3> QED BY <1>4, <2>1, <2>12, <2>13
  <2>15. Turned(o, n) \in {0, 1}
    BY <1>7, OrbitNode DEF Directions, DIR_STRAIGHT, DIR_CURVED, DIR_AHEAD
  <2>16. Direction(ThrowAhead(table, y, i, distance), n)
           = ThrowAhead(table, y, i, distance)[s] - 33
    <3> HIDE DEF n
    <3> QED BY <1>9 DEF Direction, n
  <2> HIDE DEF s
  <2> QED BY <2>14, <2>15, <2>16
<1> QED BY <1>8, <1>9

Twice(o) == Ring[o] \o Ring[o]

\* The branches that are to be set: those near enough to a train a after its landmark.
AreSet(o, a, w, g, m, table) ==
  \A j \in 1 .. m : g[j] - a < SWITCH_THRESHOLD => Direction(table, w[j]) = Turned(o, w[j])

\* What is nearer than something near is near.
LEMMA StillNear ==
  ASSUME NEW f \in Nat, NEW u \in Nat, NEW v \in Nat, u <= v, NEW a \in Nat,
         v - a < SWITCH_THRESHOLD, NEW d, d = f - a, NEW e, e = d + (u - f)
  PROVE  e < SWITCH_THRESHOLD /\ e \in Int
  BY DEF SWITCH_THRESHOLD

\* So all that are near enough on the way to the next sensor are set.
LEMMA ThrowsOnOrbit ==
  ASSUME NEW o \in Orbits, NEW table \in SwitchTables, NEW c \in 0 .. Len(Ring[o]) - 1,
         NEW n, n = Ring[o][c + 1],
         NEW w, NEW g, NEW m, Stretch(o, n, w, g, m), NEW a \in Nat,
         NEW d, d = g[1] - a
  PROVE  AreSet(o, a, w, g, m, ThrowAhead(table, Twice(o), c + 1, d))
<1> SUFFICES ASSUME NEW j \in 1 .. m, g[j] - a < SWITCH_THRESHOLD
             PROVE  Direction(ThrowAhead(table, Twice(o), c + 1, d), w[j])
                      = Turned(o, w[j])
  BY DEF AreSet
<1> DEFINE r == Ring[o]
           len == Len(r)
           y == r \o r
           i == c + 1
           k == c + j
<1>1. len \in {15, 19} /\ Len(y) = len + len /\ Along(o, y) /\ \A x \in 1 .. len : y[x] = r[x]
  BY TwiceRound
<1>17. d = g[1] - a
  OBVIOUS
<1>2. m \in 1 .. 4 /\ \A x \in 0 .. m : g[x] \in Nat
  BY DEF Stretch
<1> HIDE DEF y, r
<1>12. c \in 0 .. len - 1 /\ Stretch(o, r[c + 1], w, g, m)
  BY DEF r
<1> HIDE DEF len
<1>14. m \in 1 .. 4
  BY <1>2
<1>15. len \in {15, 19} /\ Len(y) = len + len
  BY <1>1
<1>16. c \in 0 .. len - 1
  BY <1>12
<1>3. c \in Nat /\ c + 1 \in 1 .. len /\ c + m + 1 <= Len(y) /\ Stretch(o, y[c + 1], w, g, m)
  <2>1. c \in Nat /\ c + 1 \in 1 .. len /\ c + m + 1 <= Len(y)
    BY ONLY <1>14, <1>15, <1>16
  <2>2. y[c + 1] = r[c + 1]
    BY ONLY <1>1, <2>1
  <2> QED BY <1>12, <2>1, <2>2
<1>4. /\ \A x \in 0 .. m : y[c + x + 1] = w[x]
      /\ \A x \in 1 .. m : Length(SubSeq(y, c + 2, c + x + 1)) = g[x] - g[1]
  <2> DEFINE u == y[c + 1]
  <2>1. c \in Nat /\ c + m + 1 <= Len(y) /\ Stretch(o, u, w, g, m) /\ Along(o, y) /\ u = y[c + 1]
    BY <1>1, <1>3
  <2> HIDE DEF u
  <2> QED BY ONLY o \in Orbits, <2>1, StretchIsThere
<1>5. \A x \in 1 .. j : g[x] <= g[j]
  <2>1. \A x \in 1 .. j : x \in 0 .. m /\ j \in 0 .. m /\ x <= j
    BY <1>2
  <2> QED BY <2>1, StretchGrows
<1> DEFINE B(x) == d + Length(SubSeq(y, i + 1, x + 1))
<1>6. \A x \in i .. k : ~ (B(x) >= SWITCH_THRESHOLD)
  <2> SUFFICES ASSUME NEW x \in i .. k PROVE ~ (B(x) >= SWITCH_THRESHOLD)
    OBVIOUS
  <2> DEFINE z == x - c
  <2>1. z \in 1 .. j /\ z \in 1 .. m /\ z \in 0 .. m /\ 1 \in 0 .. m /\ x = c + z /\ j \in 0 .. m
    BY <1>2, <1>3
  <2> HIDE DEF z
  <2>2. Length(SubSeq(y, c + 2, c + z + 1)) = g[z] - g[1]
    BY <1>4, <2>1
  <2>3. g[z] \in Nat /\ g[1] \in Nat /\ g[j] \in Nat /\ g[z] <= g[j]
    BY <1>2, <1>5, <2>1
  <2>4. i + 1 = c + 2 /\ x + 1 = c + z + 1
    BY <1>3, <2>1
  <2>5. B(x) = d + (g[z] - g[1])
    BY <2>2, <2>4
  <2>6. a \in Nat /\ g[j] - a < SWITCH_THRESHOLD
    OBVIOUS
  <2> HIDE DEF B
  <2>7. B(x) < SWITCH_THRESHOLD /\ B(x) \in Int
    BY ONLY <1>17, <2>3, <2>5, <2>6, StillNear
  <2> QED BY ONLY <2>7 DEF SWITCH_THRESHOLD
<1>7. \A x \in i .. Len(y) - 1 : (B(x) < SWITCH_THRESHOLD) = ~ (B(x) >= SWITCH_THRESHOLD)
  <2> SUFFICES ASSUME NEW x \in i .. Len(y) - 1
               PROVE  (B(x) < SWITCH_THRESHOLD) = ~ (B(x) >= SWITCH_THRESHOLD)
    OBVIOUS
  <2> DEFINE z == SubSeq(y, i + 1, x + 1)
             b1 == i + 1
             b2 == x + 1
  <2>1. b1 \in 1 .. Len(y) /\ b2 \in b1 .. Len(y)
    BY <1>1, <1>3
  <2>2. Along(o, z) /\ Len(z) \in Nat /\ Len(z) >= 1
    <3>1. /\ Along(o, SubSeq(y, b1, b2)) /\ Len(SubSeq(y, b1, b2)) = b2 - b1 + 1
      <4> HIDE DEF b1, b2
      <4>1. Along(o, y)
        BY <1>1
      <4> QED BY ONLY o \in Orbits, <4>1, <2>1, AlongPart
    <3>2. b2 - b1 + 1 \in Nat /\ b2 - b1 + 1 >= 1
      <4> HIDE DEF b1, b2
      <4> QED BY ONLY <1>1, <2>1
    <3> QED BY <3>1, <3>2
  <2> HIDE DEF z
  <2>3. Length(z) \in Nat
    <3>1. PICK s : Length(z) = s[Len(z)] /\ \A v \in 1 .. Len(z) : s[v] \in Nat
      BY <2>2, LengthSums
    <3>2. Len(z) \in 1 .. Len(z)
      BY <2>2
    <3> QED BY <3>1, <3>2
  <2>4. g[1] \in Nat
    BY <1>2
  <2>5. B(x) \in Int
    BY <1>17, <2>3, <2>4 DEF z
  <2> HIDE DEF B
  <2> QED BY <2>5 DEF SWITCH_THRESHOLD
<1>8. i \in Nat /\ k \in i .. Len(y) - 2
  <2> QED BY ONLY <1>14, <1>15, <1>16, j \in 1 .. m
<1>13. /\ \A x \in i .. k : ~ (d + Length(SubSeq(y, i + 1, x + 1)) >= SWITCH_THRESHOLD)
       /\ \A x \in i .. Len(y) - 1 :
            (d + Length(SubSeq(y, i + 1, x + 1)) < SWITCH_THRESHOLD)
               = ~ (d + Length(SubSeq(y, i + 1, x + 1)) >= SWITCH_THRESHOLD)
  BY <1>6, <1>7
<1> HIDE DEF i, k
<1>9. Direction(ThrowAhead(table, y, i, d), y[k + 1]) = Turned(o, y[k + 1])
  <2>1. Along(o, y)
    BY <1>1
  <2> QED BY ONLY o \in Orbits, table \in SwitchTables, <1>8, <1>13, <2>1, Throws
<1>10. y[k + 1] = w[j]
  <2>1. j \in 0 .. m /\ k + 1 = c + j + 1
    BY <1>2, <1>3 DEF k
  <2> QED BY <1>4, <2>1
<1> QED BY <1>9, <1>10 DEF y, r, i, Twice

-----------------------------------------------------------------------------
(* A train on its orbit.                                                   *)

\* The record of a train that goes round its orbit.
OnOrbit(t) ==
  LET o == t.orbit
  IN  /\ o \in Orbits
      /\ t.check_point \in 0 .. Len(Ring[o]) - 1 /\ Ring[o][t.check_point + 1] = t.landmark
      /\ t.predict_dest = NextOn(o, t.landmark) /\ t.forward_distance = DistOn(o, t.landmark)
      /\ t.ahead_lm \in Nat /\ t.ahead_lm <= t.forward_distance

\* The way from its landmark to the sensor that is predicted.
Expects(t, w, g, m) == Stretch(t.orbit, t.landmark, w, g, m) /\ w[m] = t.next_sensor

\* The train itself: it is on that way, d ahead of the landmark.
OnTheWay(t, w, g, m, p, h, d) ==
  /\ Expects(t, w, g, m)
  /\ \E k \in 0 .. m - 1 : p = w[k] /\ h = w[k + 1] /\ d = g[k + 1]

\* What a train may be at.
Actions == {"Off_Route", "To_Orbit", "On_Orbit", "Halted"}

\* The strengthening: what has been thrown leads a train round its orbit to the sensor
\* that is predicted, and there it is, unless a sensor has failed.
RoundInv ==
  /\ td.action \in Actions
  /\ td.next_sensor \in Sensors \cup {NoNode} /\ td.route_nodes_num \in Nat
  /\ lost # NoNode => lost \in Sensors /\ pos = lost /\ heading = Dest(lost, DIR_AHEAD)
  /\ td.action = "On_Orbit" =>
        /\ OnOrbit(td) /\ ~ requested /\ (~ failed => lost = NoNode)
        /\ \E w, g, m : /\ Expects(td, w, g, m)
                        /\ ~ failed => OnTheWay(td, w, g, m, pos, heading, gap)
                        /\ ~ tick => AreSet(td.orbit, td.ahead_lm, w, g, m, switch_table)

\* The check point is the place of the landmark on the orbit, if it has one.
LEMMA PointIs ==
  ASSUME NEW t, t.orbit \in Orbits, NEW c
  PROVE  LET p == updateCheckPoint(t, orbit_route(t), c)
             r == Ring[t.orbit]
         IN  /\ p # -1 => p \in 0 .. Len(r) - 1 /\ r[p + 1] = t.landmark
             /\ t.landmark \in OrbitNodes(t.orbit) => p # -1
<1> DEFINE r == Ring[t.orbit]
           n == Len(r)
           places == {i \in 0 .. n - 1 : Entry(r, i) = t.landmark}
           first  == CHOOSE i \in places : \A j \in places : i <= j
           p == updateCheckPoint(t, orbit_route(t), c)
<1>1. n \in {15, 19}
  BY RingFacts
<1>2. p = IF c + 1 \in places THEN c + 1 ELSE IF places = {} THEN -1 ELSE first
  <2>1. orbit_route(t) = r
    BY OrbitRouteIs DEF orbit_route
  <2> QED BY <2>1 DEF updateCheckPoint, CheckPointBound, nodes_num
<1>3. OrbitNodes(t.orbit) = {r[i] : i \in 1 .. n}
  BY DEF OrbitNodes
<1> HIDE DEF r, p
<1>4. \A i \in 0 .. n - 1 : Entry(r, i) = r[i + 1]
  BY DEF Entry
<1> HIDE DEF n
<1>5. places \subseteq Nat /\ \A i \in places : i \in 0 .. n - 1 /\ r[i + 1] = t.landmark
  BY <1>1, <1>4
<1>6. t.landmark \in OrbitNodes(t.orbit) => places # {}
  <2> SUFFICES ASSUME t.landmark \in OrbitNodes(t.orbit) PROVE places # {}
    OBVIOUS
  <2>1. PICK i \in 1 .. n : r[i] = t.landmark
    BY <1>3
  <2>2. i - 1 \in 0 .. n - 1 /\ (i - 1) + 1 = i
    BY <1>1
  <2>3. Entry(r, i - 1) = t.landmark
    BY <1>4, <2>1, <2>2
  <2> QED BY <2>2, <2>3
<1> HIDE DEF places
<1>7. places # {} => first \in places
  BY <1>5, LeastElement
<1> HIDE DEF first
<1>8. \A i \in places : i # -1
  BY <1>5
<1> QED BY <1>2, <1>5, <1>6, <1>7, <1>8 DEF p, r, n

\* Whatever the route, it is an index or none.
LEMMA PointIsIndex ==
  ASSUME NEW t, t.orbit \in Orbits, NEW route, NEW c
  PROVE  updateCheckPoint(t, route, c) \in Nat \cup {-1}
<1> DEFINE places == {i \in 0 .. CheckPointBound(t) - 1 : Entry(route, i) = t.landmark}
           first  == CHOOSE i \in places : \A j \in places : i <= j
           p == updateCheckPoint(t, route, c)
<1>1. p = IF c + 1 \in places THEN c + 1 ELSE IF places = {} THEN -1 ELSE first
  BY DEF updateCheckPoint
<1>2. CheckPointBound(t) \in Nat
  <2>1. Len(Ring[t.orbit]) \in {15, 19}
    BY RingFacts
  <2>2. CheckPointBound(t) = Len(Ring[t.orbit])
    BY OrbitRouteIs DEF CheckPointBound, nodes_num, orbit_route
  <2> QED BY <2>1, <2>2
<1> HIDE DEF p
<1>3. places \subseteq Nat
  BY <1>2
<1> HIDE DEF places
<1>4. places # {} => first \in places
  BY <1>3, LeastElement
<1> HIDE DEF first
<1> QED BY <1>1, <1>3, <1>4 DEF p

\* A record that has its landmark from a sensor.
LEMMA AtSensorIs ==
  ASSUME NEW t, OnTrack(t), NEW sensor \in Sensors, NEW table
  PROVE  LET u == updateCurrentLandmark(t, sensor, table)
         IN  /\ DOMAIN u = Fields /\ u.orbit = t.orbit
             /\ u.next_sensor = t.next_sensor /\ u.route_nodes_num = t.route_nodes_num
             /\ NodeType[t.landmark] = "exit" => u.action = "Halted"
             /\ NodeType[t.landmark] # "exit" =>
                  /\ u.action = t.action /\ u.landmark = sensor /\ u.ahead_lm = 0
                  /\ u.predict_dest = Dest(sensor, DIR_AHEAD)
                  /\ u.forward_distance = Dist(sensor, DIR_AHEAD)
<1>1. sensor # NoNode /\ NodeType[sensor] = "sensor"
  BY DEF Sensors, NoNode, NodeType, Nodes
<1>2. \A tb : Direction(tb, sensor) = DIR_AHEAD
  BY <1>1 DEF Direction
<1> DEFINE a == Dest(sensor, DIR_AHEAD)
           b == Dist(sensor, DIR_AHEAD)
<1>3. updateCurrentLandmark(t, sensor, table) =
        IF NodeType[t.landmark] = "exit" THEN [t EXCEPT !.action = "Halted"]
        ELSE [[t EXCEPT !.landmark = sensor, !.ahead_lm = 0] EXCEPT
                 !.forward_distance = b, !.predict_dest = a]
  BY <1>1, <1>2 DEF updateCurrentLandmark, Halted
<1> HIDE DEF a, b
<1>4. DOMAIN t = Fields
  BY DEF OnTrack
<1> QED BY <1>3, <1>4 DEF a, b, Fields

\* predictNextSensor, on the orbit and on the way to it.
LEMMA PredictIs ==
  ASSUME NEW t, DOMAIN t = Fields, t.orbit \in Orbits,
         t.next_sensor \in Sensors \cup {NoNode}, t.route_nodes_num \in Nat,
         t.action = "To_Orbit" => t.check_point \in Nat,
         t.action = "On_Orbit" => t.landmark \in Sensors \cap OrbitNodes(t.orbit),
         t.action \in {"To_Orbit", "On_Orbit", "Halted"}
  PROVE  LET u == predictNextSensor(t)
         IN  /\ u.next_sensor \in Sensors \cup {NoNode} /\ u.route_nodes_num \in Nat
             /\ t.action # "On_Orbit" => u.action # "On_Orbit"
             /\ t.action = "On_Orbit" =>
                  \E w, g, m : /\ Stretch(t.orbit, t.landmark, w, g, m)
                               /\ u = [t EXCEPT !.next_sensor = w[m]]
<1> DEFINE u == predictNextSensor(t)
<1>1. CASE t.action = "Halted"
  BY <1>1 DEF predictNextSensor
<1>2. CASE t.action = "To_Orbit"
  <2> DEFINE sensors == {i \in t.check_point + 1 .. t.route_nodes_num - 1 :
                            Entry(t.route, i) \in Sensors}
             first == CHOOSE i \in sensors : \A j \in sensors : i <= j
             s == IF sensors = {} THEN NoNode ELSE Entry(t.route, first)
  <2>1. u = IF t.landmark # Entry(t.route, t.check_point) THEN [t EXCEPT !.action = "Halted"]
            ELSE [t EXCEPT !.next_sensor = s]
    BY <1>2 DEF predictNextSensor, Halted
  <2>2. s \in Sensors \cup {NoNode}
    <3>1. sensors \subseteq Nat
      BY <1>2
    <3>2. \A i \in sensors : Entry(t.route, i) \in Sensors
      OBVIOUS
    <3> HIDE DEF sensors
    <3>3. sensors # {} => first \in sensors
      BY <3>1, LeastElement
    <3> HIDE DEF first
    <3> QED BY <3>2, <3>3
  <2> HIDE DEF u, s
  <2>3. /\ u.next_sensor \in Sensors \cup {NoNode} /\ u.route_nodes_num \in Nat
        /\ u.action # "On_Orbit"
    BY <1>2, <2>1, <2>2 DEF Fields
  <2> QED BY <1>2, <2>3 DEF u
<1>3. CASE t.action = "On_Orbit"
  <2> DEFINE l == t.landmark
             n == SensorAhead(t, Dest(l, DIR_AHEAD))
  <2>1. l \in OrbitNodes(t.orbit) /\ NodeType[l] = "sensor"
    BY <1>3, OrbitNode
  <2>2. u = IF NodeType[n] = "exit" THEN [t EXCEPT !.action = "Halted"]
            ELSE [t EXCEPT !.next_sensor = n]
    BY <1>3, <2>1 DEF predictNextSensor, Halted
  <2>3. NextOn(t.orbit, l) = Dest(l, DIR_AHEAD)
    BY <2>1 DEF NextOn, Turned, Direction
  <2>4. PICK w, g, m : /\ Stretch(t.orbit, l, w, g, m)
                       /\ w[m] = SensorAhead(t, NextOn(t.orbit, l))
    BY <2>1, StretchExists
  <2>5. w[m] = n /\ w[m] \in Sensors
    BY <2>3, <2>4 DEF Stretch
  <2>6. NodeType[n] # "exit"
    BY <2>5 DEF NodeType, Nodes, Sensors
  <2>7. u = [t EXCEPT !.next_sensor = w[m]]
    BY <2>2, <2>5, <2>6
  <2> HIDE DEF u, n
  <2>8. u.next_sensor = w[m] /\ u.route_nodes_num = t.route_nodes_num
    BY <2>7 DEF Fields
  <2> QED BY <1>3, <2>4, <2>5, <2>7, <2>8 DEF u
<1> QED BY <1>1, <1>2, <1>3

\* The records that the parts of LOCATION_CHANGE hand on have the same place and way.
Kept(t, u) ==
  /\ DOMAIN u = Fields
  /\ u.landmark = t.landmark /\ u.predict_dest = t.predict_dest /\ u.orbit = t.orbit
  /\ u.forward_distance = t.forward_distance /\ u.ahead_lm = t.ahead_lm
  /\ u.next_sensor = t.next_sensor

\* The train is looked for on its orbit and on its route.
LEMMA ComeToIs ==
  ASSUME NEW t, DOMAIN t = Fields, t.orbit \in Orbits, t.action \in Actions,
         t.route_nodes_num \in Nat
  PROVE  LET u == ComeTo(t)
         IN  /\ Kept(t, u) /\ u.action \in Actions /\ u.route_nodes_num \in Nat
             /\ u.action = "To_Orbit" => u.check_point \in Nat
             /\ t.action \in {"On_Orbit", "Halted"} => u = t
<1> DEFINE p == updateCheckPoint(t, t.route, t.check_point)
           q == updateCheckPoint(t, orbit_route(t), 0)
           u == ComeTo(t)
<1>1. p \in Nat \cup {-1}
  BY PointIsIndex
<1>2. \/ t.action \in {"On_Orbit", "Halted"} /\ u = t
      \/ t.action \notin {"On_Orbit", "Halted"} /\ u = [t EXCEPT !.action = "Halted"]
      \/ /\ t.action \notin {"On_Orbit", "Halted"}
         /\ u = [t EXCEPT !.action = "On_Orbit", !.check_point = q]
      \/ t.action = "To_Orbit" /\ u = [t EXCEPT !.action = "Off_Route"]
      \/ t.action = "To_Orbit" /\ p # -1 /\ u = [t EXCEPT !.check_point = p]
      \/ t.action = "Off_Route" /\ u = t
  BY DEF ComeTo, JoinOrbit, Halted, Actions
<1> HIDE DEF p, q, u
<1>3. CASE t.action \in {"On_Orbit", "Halted"} /\ u = t
  BY <1>3 DEF Kept, u
<1>4. CASE t.action \notin {"On_Orbit", "Halted"} /\ u = [t EXCEPT !.action = "Halted"]
  BY <1>4 DEF Kept, Fields, u, Actions
<1>5. CASE /\ t.action \notin {"On_Orbit", "Halted"}
           /\ u = [t EXCEPT !.action = "On_Orbit", !.check_point = q]
  BY <1>5 DEF Kept, Fields, u, Actions
<1>6. CASE t.action = "To_Orbit" /\ u = [t EXCEPT !.action = "Off_Route"]
  BY <1>6 DEF Kept, Fields, u, Actions
<1>7. CASE t.action = "To_Orbit" /\ p # -1 /\ u = [t EXCEPT !.check_point = p]
  BY <1>1, <1>7 DEF Kept, Fields, u, Actions
<1>8. CASE t.action = "Off_Route" /\ u = t
  BY <1>8 DEF Kept, u
<1> QED BY <1>2, <1>3, <1>4, <1>5, <1>6, <1>7, <1>8

\* The route that a train takes which is on none.
LEMMA TakeRouteIs ==
  ASSUME NEW t, DOMAIN t = Fields, NEW x, x.found => Len(x.route) \in Nat
  PROVE  LET u == TakeRoute(t, x)
         IN  /\ Kept(t, u) /\ u.action = "To_Orbit" /\ u.check_point = 0
             /\ u.route_nodes_num \in Nat
<1> DEFINE r == IF x.found THEN x.route \o SubSeq(t.route, Len(x.route) + 1, Len(t.route)) ELSE t.route
           n == IF x.found THEN Len(x.route) ELSE TRACK_MAX
<1>1. TakeRoute(t, x) = [t EXCEPT !.route = r, !.route_nodes_num = n, !.check_point = 0,
                                  !.action = "To_Orbit"]
  BY DEF TakeRoute
<1>2. n \in Nat
  BY DEF TRACK_MAX
<1> HIDE DEF r, n
<1> QED BY <1>1, <1>2 DEF Kept, Fields

\* What the searches find has a length.
LEMMA SearchedLen ==
  ASSUME NEW x, Searched(x)
  PROVE  Len(x.route) \in Nat
<1>1. PICK landmark \in Nodes, src \in Nodes, o \in Orbits, avoid \in Avoids :
         x = dijkstra(landmark, src, orbits[o].start, avoid)
  BY DEF Searched
<1> QED BY <1>1, DijkstraIs

\* The place on the orbit.
LEMMA GoRoundIs ==
  ASSUME NEW t, DOMAIN t = Fields, t.orbit \in Orbits, t.action \in Actions
  PROVE  LET u == GoRound(t)
         IN  /\ t.action # "On_Orbit" => u = t
             /\ t.action = "On_Orbit" =>
                  /\ Kept(t, u) /\ u.route_nodes_num = t.route_nodes_num
                  /\ u.action \in {"On_Orbit", "Halted"}
                  /\ u.action = "On_Orbit" =>
                       /\ u.check_point \in 0 .. Len(Ring[t.orbit]) - 1
                       /\ Ring[t.orbit][u.check_point + 1] = t.landmark
                  /\ t.landmark \in OrbitNodes(t.orbit) => u.action = "On_Orbit"
<1> DEFINE p == updateCheckPoint(t, orbit_route(t), t.check_point)
           u == GoRound(t)
<1>1. /\ p # -1 => p \in 0 .. Len(Ring[t.orbit]) - 1 /\ Ring[t.orbit][p + 1] = t.landmark
      /\ t.landmark \in OrbitNodes(t.orbit) => p # -1
  BY PointIs
<1>2. /\ t.action # "On_Orbit" => u = t
      /\ t.action = "On_Orbit" /\ p = -1 => u = [t EXCEPT !.action = "Halted"]
      /\ t.action = "On_Orbit" /\ p # -1 => u = [t EXCEPT !.check_point = p]
  BY DEF GoRound, Halted
<1> HIDE DEF p
<1>3. CASE t.action # "On_Orbit"
  BY <1>2, <1>3
<1>4. CASE t.action = "On_Orbit" /\ p = -1
  <2> HIDE DEF u
  <2>1. /\ Kept(t, u) /\ u.route_nodes_num = t.route_nodes_num /\ u.action = "Halted"
    BY <1>2, <1>4 DEF Kept, Fields
  <2> QED BY <1>1, <1>4, <2>1 DEF u
<1>5. CASE t.action = "On_Orbit" /\ p # -1
  <2> HIDE DEF u
  <2>1. /\ Kept(t, u) /\ u.route_nodes_num = t.route_nodes_num /\ u.action = "On_Orbit"
        /\ u.check_point = p
    BY <1>2, <1>5 DEF Kept, Fields
  <2> QED BY <1>1, <1>5, <2>1 DEF u
<1> QED BY <1>3, <1>4, <1>5

\* LOCATION_CHANGE: a train that comes out of it on its orbit is at the sensor, and the
\* one that was on its orbit stays there.
LEMMA LocationRound ==
  ASSUME DriverInv, RoundInv, mode # "parked", NEW sensor \in Sensors, LocationChange(sensor)
  PROVE  /\ td'.action \in Actions
         /\ td'.next_sensor \in Sensors \cup {NoNode} /\ td'.route_nodes_num \in Nat
         /\ td'.action = "On_Orbit" =>
              /\ OnOrbit(td')
              /\ \E w, g, m : OnTheWay(td', w, g, m, sensor, Dest(sensor, DIR_AHEAD),
                                       Dist(sensor, DIR_AHEAD))
         /\ td.action = "On_Orbit" /\ sensor \in OrbitNodes(td.orbit) => td'.action = "On_Orbit"
<1>1. /\ OnTrack(td) /\ td.orbit \in Orbits /\ switch_table \in SwitchTables
      /\ (search = NoSearch \/ Searched(search))
  BY DEF DriverInv
<1>2. /\ td.action \in Actions
      /\ td.next_sensor \in Sensors \cup {NoNode} /\ td.route_nodes_num \in Nat
  BY DEF RoundInv
<1> DEFINE at == updateCurrentLandmark(td, sensor, switch_table)
           here == ComeTo(at)
           result == IF here.action = "Off_Route" THEN FindRoute(here, here.orbit, AvoidMap[0])
                     ELSE search
           a == IF here.action = "Off_Route" THEN TakeRoute(here, result) ELSE here
           there == GoRound(a)
           t == predictNextSensor(there)
<1>3. td' = t
  <2>1. Conclude(t)
    BY DEF LocationChange
  <2> HIDE DEF t
  <2> QED BY <2>1, ConcludeIs
<1>4. /\ DOMAIN at = Fields /\ at.orbit = td.orbit
      /\ at.next_sensor = td.next_sensor /\ at.route_nodes_num = td.route_nodes_num
      /\ NodeType[td.landmark] = "exit" => at.action = "Halted"
      /\ NodeType[td.landmark] # "exit" =>
           /\ at.action = td.action /\ at.landmark = sensor /\ at.ahead_lm = 0
           /\ at.predict_dest = Dest(sensor, DIR_AHEAD)
           /\ at.forward_distance = Dist(sensor, DIR_AHEAD)
  BY <1>1, AtSensorIs
<1>5. Driven(at)
  <2>1. TableOf(td, switch_table) \in SwitchTables
    BY <1>1, TableOfIs
  <2>2. OnTrack(at)
    BY <1>1, <2>1, UpdateLandmark DEF Sensors, Nodes
  <2> QED BY <1>1, <1>4, <2>2 DEF Driven
<1> HIDE DEF at
<1>6. /\ Kept(at, here) /\ here.action \in Actions /\ here.route_nodes_num \in Nat
      /\ here.action = "To_Orbit" => here.check_point \in Nat
      /\ at.action \in {"On_Orbit", "Halted"} => here = at
  <2>1. at.action \in Actions /\ at.orbit \in Orbits /\ at.route_nodes_num \in Nat
    BY <1>1, <1>2, <1>4 DEF Actions
  <2> QED BY <1>4, <2>1, ComeToIs
<1>7. Driven(here)
  BY <1>5, <1>6 DEF Driven, OnTrack, Kept
<1> HIDE DEF here
<1>8. here.action = "Off_Route" => Searched(result)
  BY <1>7, FindIs, AvoidIs DEF Driven
<1> HIDE DEF result
<1>9. /\ Kept(at, a) /\ a.action \in {"To_Orbit", "On_Orbit", "Halted"}
      /\ a.route_nodes_num \in Nat
      /\ a.action = "To_Orbit" => a.check_point \in Nat
      /\ at.action \in {"On_Orbit", "Halted"} => a = at
      /\ a.action = "On_Orbit" => here.action = "On_Orbit"
  <2>1. CASE here.action = "Off_Route"
    <3> DEFINE b == TakeRoute(here, result)
    <3>1. DOMAIN here = Fields /\ Len(result.route) \in Nat
      BY <1>6, <1>8, <2>1, SearchedLen DEF Kept
    <3>2. Kept(here, b) /\ b.action = "To_Orbit" /\ b.check_point = 0 /\ b.route_nodes_num \in Nat
      BY <3>1, TakeRouteIs
    <3>3. a = b
      BY <2>1
    <3> HIDE DEF b, a
    <3>4. Kept(at, a)
      BY <1>6, <3>2, <3>3 DEF Kept
    <3> QED BY <1>6, <2>1, <3>2, <3>3, <3>4
  <2>2. CASE here.action # "Off_Route"
    BY <1>6, <2>2 DEF Actions
  <2> QED BY <2>1, <2>2
<1> HIDE DEF a
<1>10. /\ a.action # "On_Orbit" => there = a
       /\ a.action = "On_Orbit" =>
            /\ Kept(a, there) /\ there.route_nodes_num = a.route_nodes_num
            /\ there.action \in {"On_Orbit", "Halted"}
            /\ there.action = "On_Orbit" =>
                 /\ there.check_point \in 0 .. Len(Ring[a.orbit]) - 1
                 /\ Ring[a.orbit][there.check_point + 1] = a.landmark
            /\ a.landmark \in OrbitNodes(a.orbit) => there.action = "On_Orbit"
  <2>1. DOMAIN a = Fields /\ a.orbit \in Orbits /\ a.action \in Actions
    BY <1>1, <1>4, <1>9 DEF Kept, Actions
  <2> QED BY <2>1, GoRoundIs
<1> HIDE DEF there
<1>11. Kept(at, there)
  BY <1>9, <1>10 DEF Kept
<1>12. there.action = "On_Orbit" =>
         /\ there.landmark = sensor /\ there.ahead_lm = 0 /\ there.orbit = td.orbit
         /\ there.predict_dest = Dest(sensor, DIR_AHEAD)
         /\ there.forward_distance = Dist(sensor, DIR_AHEAD)
         /\ there.check_point \in 0 .. Len(Ring[td.orbit]) - 1
         /\ Ring[td.orbit][there.check_point + 1] = sensor
         /\ sensor \in OrbitNodes(td.orbit)
  <2> SUFFICES ASSUME there.action = "On_Orbit"
               PROVE  /\ there.landmark = sensor /\ there.ahead_lm = 0 /\ there.orbit = td.orbit
                      /\ there.predict_dest = Dest(sensor, DIR_AHEAD)
                      /\ there.forward_distance = Dist(sensor, DIR_AHEAD)
                      /\ there.check_point \in 0 .. Len(Ring[td.orbit]) - 1
                      /\ Ring[td.orbit][there.check_point + 1] = sensor
                      /\ sensor \in OrbitNodes(td.orbit)
    OBVIOUS
  <2>1. a.action = "On_Orbit"
    BY <1>10
  <2>2. at.action # "Halted"
    BY <1>9, <2>1
  <2>3. NodeType[td.landmark] # "exit"
    BY <1>4, <2>2
  <2>4. /\ there.landmark = sensor /\ there.ahead_lm = 0 /\ there.orbit = td.orbit
        /\ there.predict_dest = Dest(sensor, DIR_AHEAD)
        /\ there.forward_distance = Dist(sensor, DIR_AHEAD)
    BY <1>4, <1>11, <2>3 DEF Kept
  <2>5. a.orbit = td.orbit /\ a.landmark = sensor
    BY <1>4, <1>9, <2>3 DEF Kept
  <2>6. /\ there.check_point \in 0 .. Len(Ring[td.orbit]) - 1
        /\ Ring[td.orbit][there.check_point + 1] = sensor
    BY <1>10, <2>1, <2>5
  <2>7. Len(Ring[td.orbit]) \in {15, 19}
    BY <1>1, RingFacts
  <2>8. there.check_point + 1 \in 1 .. Len(Ring[td.orbit])
    BY <2>6, <2>7
  <2>9. sensor \in OrbitNodes(td.orbit)
    BY <2>6, <2>8 DEF OrbitNodes
  <2> QED BY <2>4, <2>6, <2>9
<1>13. /\ t.next_sensor \in Sensors \cup {NoNode} /\ t.route_nodes_num \in Nat
       /\ there.action # "On_Orbit" => t.action # "On_Orbit"
       /\ there.action = "On_Orbit" =>
            \E w, g, m : /\ Stretch(there.orbit, there.landmark, w, g, m)
                         /\ t = [there EXCEPT !.next_sensor = w[m]]
  <2>1. DOMAIN there = Fields /\ there.orbit \in Orbits
        /\ there.next_sensor \in Sensors \cup {NoNode}
    BY <1>1, <1>2, <1>4, <1>11 DEF Kept
  <2>2. there.action \in {"To_Orbit", "On_Orbit", "Halted"} /\ there.route_nodes_num \in Nat
        /\ (there.action = "To_Orbit" => there.check_point \in Nat)
    BY <1>9, <1>10
  <2>3. there.action = "On_Orbit" => there.landmark \in Sensors \cap OrbitNodes(there.orbit)
    BY <1>12
  <2> QED BY <2>1, <2>2, <2>3, PredictIs
<1>14. t.action \in Actions
  <2>1. \/ t = there
        \/ t = [there EXCEPT !.action = "Halted"]
        \/ \E n : t = [there EXCEPT !.next_sensor = n]
    BY DEF predictNextSensor, Halted
  <2>2. there.action \in Actions /\ DOMAIN there = Fields
    BY <1>9, <1>10, <1>11 DEF Actions, Kept
  <2> HIDE DEF t
  <2>3. CASE t = [there EXCEPT !.action = "Halted"]
    BY <2>2, <2>3 DEF Actions, Fields
  <2>4. ASSUME NEW n, t = [there EXCEPT !.next_sensor = n] PROVE t.action \in Actions
    <3>1. t.action = there.action
      BY <2>2, <2>4 DEF Fields
    <3> QED BY <2>2, <3>1
  <2> QED BY <2>1, <2>2, <2>3, <2>4
<1> HIDE DEF t
<1>15. ASSUME there.action = "On_Orbit"
       PROVE  /\ OnOrbit(t) /\ t.action = "On_Orbit"
              /\ \E w, g, m : OnTheWay(t, w, g, m, sensor, Dest(sensor, DIR_AHEAD),
                                       Dist(sensor, DIR_AHEAD))
  <2> DEFINE o == td.orbit
  <2>1. PICK w, g, m : /\ Stretch(there.orbit, there.landmark, w, g, m)
                       /\ t = [there EXCEPT !.next_sensor = w[m]]
    BY <1>13, <1>15
  <2>2. DOMAIN there = Fields
    BY <1>11 DEF Kept
  <2>3. /\ t.landmark = sensor /\ t.ahead_lm = 0 /\ t.orbit = o
        /\ t.predict_dest = Dest(sensor, DIR_AHEAD)
        /\ t.forward_distance = Dist(sensor, DIR_AHEAD)
        /\ t.check_point = there.check_point /\ t.next_sensor = w[m] /\ t.action = "On_Orbit"
    BY <1>12, <1>15, <2>1, <2>2 DEF Fields
  <2>4. /\ Stretch(o, sensor, w, g, m) /\ sensor \in OrbitNodes(o)
        /\ there.check_point \in 0 .. Len(Ring[o]) - 1
        /\ Ring[o][there.check_point + 1] = sensor
    BY <1>12, <1>15, <2>1
  <2>5. NextOn(o, sensor) = Dest(sensor, DIR_AHEAD) /\ DistOn(o, sensor) = Dist(sensor, DIR_AHEAD)
    <3>1. NodeType[sensor] = "sensor"
      BY DEF NodeType, Nodes, Sensors
    <3> QED BY <3>1 DEF NextOn, DistOn, Turned, Direction
  <2>6. DistOn(o, sensor) \in Nat
    BY <1>1, <2>4, OrbitNode
  <2>7. OnOrbit(t)
    <3>1. t.check_point \in 0 .. Len(Ring[o]) - 1 /\ Ring[o][t.check_point + 1] = t.landmark
      BY <2>3, <2>4
    <3>2. t.predict_dest = NextOn(o, t.landmark) /\ t.forward_distance = DistOn(o, t.landmark)
      BY <2>3, <2>5
    <3>3. t.ahead_lm \in Nat /\ t.ahead_lm <= t.forward_distance
      BY <2>3, <2>5, <2>6
    <3> QED BY <1>1, <2>3, <3>1, <3>2, <3>3 DEF OnOrbit
  <2>8. /\ m \in 1 .. 4 /\ w[0] = sensor /\ g[0] = 0
        /\ w[0 + 1] = NextOn(o, w[0]) /\ g[0 + 1] = g[0] + DistOn(o, w[0])
    <3>1. m \in 1 .. 4
      BY <2>4 DEF Stretch
    <3>2. 0 \in 0 .. m - 1
      BY <3>1
    <3> QED BY <2>4, <3>1, <3>2 DEF Stretch
  <2>9. 0 \in 0 .. m - 1
    BY <2>8
  <2>10. sensor = w[0] /\ Dest(sensor, DIR_AHEAD) = w[0 + 1] /\ Dist(sensor, DIR_AHEAD) = g[0 + 1]
    BY <2>5, <2>6, <2>8
  <2>11. OnTheWay(t, w, g, m, sensor, Dest(sensor, DIR_AHEAD), Dist(sensor, DIR_AHEAD))
    BY <2>3, <2>4, <2>9, <2>10 DEF OnTheWay, Expects
  <2> QED BY <2>3, <2>7, <2>11
<1>16. ASSUME td.action = "On_Orbit", sensor \in OrbitNodes(td.orbit)
       PROVE  there.action = "On_Orbit"
  <2>1. NodeType[td.landmark] # "exit"
    <3> DEFINE o == td.orbit
               c == td.check_point
    <3>1. c \in 0 .. Len(Ring[o]) - 1 /\ Ring[o][c + 1] = td.landmark
      BY <1>16 DEF RoundInv, OnOrbit
    <3>2. Len(Ring[o]) \in {15, 19}
      BY <1>1, RingFacts
    <3>3. c + 1 \in 1 .. Len(Ring[o])
      BY <3>1, <3>2
    <3>4. td.landmark \in OrbitNodes(o)
      BY <3>1, <3>3 DEF OrbitNodes
    <3> QED BY <1>1, <3>4, OrbitNode
  <2>2. at.action = "On_Orbit" /\ at.landmark = sensor /\ at.orbit = td.orbit
    BY <1>4, <1>16, <2>1
  <2>3. a.action = "On_Orbit" /\ a.landmark = sensor /\ a.orbit = td.orbit
    BY <1>9, <2>2
  <2> QED BY <1>10, <1>16, <2>3
<1> QED BY <1>3, <1>13, <1>14, <1>15, <1>16

\* A message of the secretary has the branches set that are near enough.
LEMMA SecretaryThrows ==
  ASSUME DriverInv, NEW t, t.action = "On_Orbit", OnOrbit(t), Secretary(t),
         NEW w, NEW g, NEW m, Stretch(t.orbit, t.landmark, w, g, m)
  PROVE  AreSet(t.orbit, t.ahead_lm, w, g, m, switch_table')
<1> DEFINE o == t.orbit
           c == t.check_point
           a == t.ahead_lm
           d == t.forward_distance - a
<1>1. /\ o \in Orbits /\ c \in 0 .. Len(Ring[o]) - 1 /\ Ring[o][c + 1] = t.landmark
      /\ t.forward_distance = DistOn(o, t.landmark) /\ a \in Nat
  BY DEF OnOrbit
<1>2. switch_table \in SwitchTables
  BY DEF DriverInv
<1>3. switch_table' = ThrowAhead(switch_table, Twice(o), c + 1, d)
  <2>1. switch_table' = changeNextSwitch(t, switch_table)
    BY DEF Secretary
  <2>2. orbit_route(t) = Ring[o]
    BY <1>1, OrbitRouteIs DEF orbit_route
  <2>3. changeNextSwitch(t, switch_table)
          = ThrowAhead(switch_table, orbit_route(t) \o orbit_route(t), c + 1, d)
    BY DEF changeNextSwitch
  <2> QED BY <2>1, <2>2, <2>3 DEF Twice
<1>4. g[1] = t.forward_distance
  <2>1. m \in 1 .. 4 /\ w[0] = t.landmark /\ g[0] = 0
    BY DEF Stretch
  <2>2. 0 \in 0 .. m - 1
    BY <2>1
  <2>3. g[0 + 1] = g[0] + DistOn(o, w[0])
    BY <2>2 DEF Stretch
  <2>4. DistOn(o, t.landmark) \in Nat
    <3>1. w[0] \in OrbitNodes(o)
      <4>1. 0 \in 0 .. m
        BY <2>1
      <4> QED BY <4>1 DEF Stretch
    <3> QED BY <1>1, <2>1, <3>1, OrbitNode
  <2> QED BY <1>1, <2>1, <2>3, <2>4
<1>5. AreSet(o, a, w, g, m, ThrowAhead(switch_table, Twice(o), c + 1, d))
  <2> DEFINE n == t.landmark
  <2>1. Stretch(o, n, w, g, m) /\ n = Ring[o][c + 1] /\ d = g[1] - a
    BY <1>1, <1>4
  <2> HIDE DEF o, c, a, d, n
  <2> QED BY ONLY <1>1, <1>2, <2>1, ThrowsOnOrbit
<1> QED BY <1>3, <1>5

\* So it keeps the invariant, if the train is on the way of the record it leaves.
LEMMA MessageRound ==
  ASSUME DriverInv, RoundInv, NEW t, Secretary(t),
         t.action \in Actions, t.next_sensor \in Sensors \cup {NoNode}, t.route_nodes_num \in Nat,
         t.action = "On_Orbit" =>
            /\ OnOrbit(t) /\ ~ requested' /\ (~ failed => lost = NoNode)
            /\ \E w, g, m : /\ Expects(t, w, g, m)
                            /\ ~ failed => OnTheWay(t, w, g, m, pos, heading, gap')
  PROVE  RoundInv' /\ td' = t
<1>1. td' = t
  BY ConcludeIs DEF Secretary
<1>2. UNCHANGED <<pos, heading, lost, failed>>
  BY DEF Secretary
<1>3. ASSUME t.action = "On_Orbit"
      PROVE  /\ OnOrbit(t) /\ ~ requested' /\ (~ failed' => lost' = NoNode)
             /\ \E w, g, m : /\ Expects(t, w, g, m)
                             /\ ~ failed' => OnTheWay(t, w, g, m, pos', heading', gap')
                             /\ AreSet(t.orbit, t.ahead_lm, w, g, m, switch_table')
  <2>1. PICK w, g, m : /\ Expects(t, w, g, m)
                       /\ ~ failed => OnTheWay(t, w, g, m, pos, heading, gap')
    BY <1>3
  <2>2. Stretch(t.orbit, t.landmark, w, g, m)
    BY <2>1 DEF Expects
  <2>3. AreSet(t.orbit, t.ahead_lm, w, g, m, switch_table')
    BY <1>3, <2>2, SecretaryThrows
  <2> QED BY <1>2, <1>3, <2>1, <2>3
<1> QED BY <1>1, <1>2, <1>3 DEF RoundInv

\* The first node of the way of a train on its orbit, and the last.
LEMMA ExpectsIs ==
  ASSUME NEW t, OnOrbit(t), NEW w, NEW g, NEW m, Expects(t, w, g, m)
  PROVE  /\ m \in 1 .. 4 /\ w[0] = t.landmark /\ w[1] = t.predict_dest
         /\ g[1] = t.forward_distance /\ w[m] = t.next_sensor /\ w[m] \in Sensors
         /\ w[m] \in OrbitNodes(t.orbit)
<1> DEFINE o == t.orbit
<1>1. Stretch(o, t.landmark, w, g, m) /\ w[m] = t.next_sensor
  BY DEF Expects
<1>2. /\ m \in 1 .. 4 /\ w[0] = t.landmark /\ g[0] = 0 /\ w[m] \in Sensors
      /\ \A j \in 0 .. m : w[j] \in OrbitNodes(o)
      /\ \A j \in 0 .. m - 1 : w[j + 1] = NextOn(o, w[j]) /\ g[j + 1] = g[j] + DistOn(o, w[j])
  BY <1>1 DEF Stretch
<1>3. o \in Orbits /\ t.predict_dest = NextOn(o, t.landmark)
      /\ t.forward_distance = DistOn(o, t.landmark)
  BY DEF OnOrbit
<1>4. 0 \in 0 .. m - 1 /\ 0 \in 0 .. m /\ m \in 0 .. m
  BY <1>2
<1>5. w[0 + 1] = NextOn(o, w[0]) /\ g[0 + 1] = g[0] + DistOn(o, w[0]) /\ w[0] \in OrbitNodes(o)
  BY <1>2, <1>4
<1>6. DistOn(o, w[0]) \in Nat
  BY <1>3, <1>5, OrbitNode
<1> QED BY <1>1, <1>2, <1>3, <1>4, <1>5, <1>6

\* A train on its orbit, and the node it comes to.
LEMMA OnTheWayIs ==
  ASSUME NEW t, OnOrbit(t), NEW w, NEW g, NEW m, NEW p, NEW h, NEW d, OnTheWay(t, w, g, m, p, h, d)
  PROVE  \E k \in 0 .. m - 1 :
            /\ m \in 1 .. 4 /\ k \in 0 .. 3 /\ k + 1 \in 1 .. m
            /\ p = w[k] /\ h = w[k + 1] /\ d = g[k + 1]
            /\ w[0] = t.landmark /\ w[1] = t.predict_dest /\ g[1] = t.forward_distance
            /\ w[k] \in OrbitNodes(t.orbit) /\ w[k + 1] \in OrbitNodes(t.orbit)
            /\ g[k + 1] \in Nat /\ w[k + 1] = NextOn(t.orbit, w[k])
            /\ w[m] = t.next_sensor /\ w[m] \in Sensors
            /\ h \in Sensors <=> k + 1 = m
<1> DEFINE o == t.orbit
<1>1. PICK k \in 0 .. m - 1 : p = w[k] /\ h = w[k + 1] /\ d = g[k + 1]
  BY DEF OnTheWay
<1>2. Stretch(o, t.landmark, w, g, m) /\ w[m] = t.next_sensor
  BY DEF OnTheWay, Expects
<1>3. /\ m \in 1 .. 4 /\ w[0] = t.landmark /\ g[0] = 0
      /\ \A j \in 0 .. m : w[j] \in OrbitNodes(o) /\ g[j] \in Nat
      /\ \A j \in 0 .. m - 1 : w[j + 1] = NextOn(o, w[j]) /\ g[j + 1] = g[j] + DistOn(o, w[j])
      /\ w[m] \in Sensors /\ \A j \in 1 .. m - 1 : w[j] \notin Sensors
  BY <1>2 DEF Stretch
<1>4. o \in Orbits /\ t.predict_dest = NextOn(o, t.landmark)
      /\ t.forward_distance = DistOn(o, t.landmark)
  BY DEF OnOrbit
<1>5. k \in 0 .. 3 /\ k + 1 \in 1 .. m /\ k \in 0 .. m /\ k + 1 \in 0 .. m /\ 0 \in 0 .. m - 1
      /\ 0 \in 0 .. m
  BY <1>3
<1>6. w[0 + 1] = NextOn(o, w[0]) /\ g[0 + 1] = g[0] + DistOn(o, w[0]) /\ w[0] \in OrbitNodes(o)
  BY <1>3, <1>5
<1>7. DistOn(o, w[0]) \in Nat
  BY <1>4, <1>6, OrbitNode
<1>8. w[1] = t.predict_dest /\ g[1] = t.forward_distance
  BY <1>3, <1>4, <1>6, <1>7
<1>9. h \in Sensors <=> k + 1 = m
  <2>1. k + 1 # m => k + 1 \in 1 .. m - 1
    <3>1. m \in 1 .. 4
      BY <1>3
    <3> QED BY <1>5, <3>1
  <2> QED BY <1>1, <1>3, <2>1
<1>10. /\ w[k] \in OrbitNodes(o) /\ w[k + 1] \in OrbitNodes(o) /\ g[k + 1] \in Nat
       /\ w[k + 1] = NextOn(o, w[k])
  BY <1>3, <1>5
<1> QED BY <1>1, <1>2, <1>3, <1>5, <1>8, <1>9, <1>10

\* The train comes to a node that is no sensor: it takes the orbit's leg of it, since the
\* estimate is not so far behind that the branch would not have been thrown.
LEMMA RollRound ==
  ASSUME DriverInv, RoundInv, Roll
  PROVE  RoundInv'
<1>1. /\ ~ tick /\ lost = NoNode /\ (gap - td.ahead_lm <= Lag \/ (AtSensor /\ ToPass))
      /\ pos' = heading /\ heading' = Onward(switch_table, heading) /\ heading \notin Sensors
      /\ gap' = gap + EdgeFrom(switch_table, heading)
      /\ UNCHANGED <<td, switch_table, tick, lost, requested, failed>>
  BY DEF Roll, Moves, faults
<1>2. ASSUME td.action = "On_Orbit", ~ failed,
             NEW w, NEW g, NEW m, OnTheWay(td, w, g, m, pos, heading, gap),
             AreSet(td.orbit, td.ahead_lm, w, g, m, switch_table)
      PROVE  OnTheWay(td, w, g, m, pos', heading', gap')
  <2> DEFINE o == td.orbit
  <2>1. OnOrbit(td)
    BY <1>2 DEF RoundInv
  <2>3. PICK k \in 0 .. m - 1 :
            /\ m \in 1 .. 4 /\ k \in 0 .. 3 /\ k + 1 \in 1 .. m
            /\ pos = w[k] /\ heading = w[k + 1] /\ gap = g[k + 1]
            /\ w[0] = td.landmark /\ w[1] = td.predict_dest
            /\ w[k + 1] \in OrbitNodes(o) /\ g[k + 1] \in Nat
            /\ heading \in Sensors <=> k + 1 = m
    BY <1>2, <2>1, OnTheWayIs
  <2>4. k + 1 \in 0 .. m - 1
    BY <1>1, <2>3
  <2>5. Stretch(o, td.landmark, w, g, m) /\ w[m] = td.next_sensor
    BY <1>2 DEF OnTheWay, Expects
  <2>6. w[(k + 1) + 1] = NextOn(o, w[k + 1]) /\ g[(k + 1) + 1] = g[k + 1] + DistOn(o, w[k + 1])
    BY <2>4, <2>5 DEF Stretch
  <2>7. Direction(switch_table, w[k + 1]) = Turned(o, w[k + 1])
    <3>1. ~ (AtSensor /\ ToPass)
      <4>1. 1 \in 1 .. m - 1
        BY <2>3, <2>4
      <4>2. w[1] \notin Sensors
        BY <2>5, <4>1 DEF Stretch
      <4> QED BY <2>3, <4>2 DEF AtSensor
    <3>2. g[k + 1] - td.ahead_lm < SWITCH_THRESHOLD
      <4>1. td.ahead_lm \in Nat
        BY <2>1 DEF OnOrbit
      <4>2. Lag \in 0 .. 334
        BY DriverAssumption
      <4> QED BY <1>1, <2>3, <3>1, <4>1, <4>2 DEF SWITCH_THRESHOLD
    <3> QED BY <1>2, <2>3, <3>2 DEF AreSet
  <2>8. NodeType[heading] # "exit"
    BY <2>1, <2>3, OrbitNode DEF OnOrbit
  <2>9. heading' = w[(k + 1) + 1]
    BY <1>1, <2>3, <2>6, <2>7, <2>8 DEF Onward, NextOn
  <2>10. gap' = g[(k + 1) + 1]
    BY <1>1, <2>3, <2>6, <2>7, <2>8 DEF EdgeFrom, DistOn
  <2>11. pos' = w[k + 1]
    BY <1>1, <2>3
  <2>12. Expects(td, w, g, m)
    BY <1>2 DEF OnTheWay
  <2> QED BY <2>4, <2>9, <2>10, <2>11, <2>12 DEF OnTheWay
<1>3. ASSUME td.action = "On_Orbit"
      PROVE  \E w, g, m : /\ Expects(td, w, g, m)
                          /\ ~ failed => OnTheWay(td, w, g, m, pos', heading', gap')
                          /\ AreSet(td.orbit, td.ahead_lm, w, g, m, switch_table)
  <2>1. PICK w, g, m : /\ Expects(td, w, g, m)
                       /\ ~ failed => OnTheWay(td, w, g, m, pos, heading, gap)
                       /\ AreSet(td.orbit, td.ahead_lm, w, g, m, switch_table)
    BY <1>1, <1>3 DEF RoundInv
  <2>2. ~ failed => OnTheWay(td, w, g, m, pos', heading', gap')
    BY <1>2, <1>3, <2>1
  <2> QED BY <2>1, <2>2
<1> QED BY <1>1, <1>3 DEF RoundInv

\* On its orbit a train never comes to a sensor that its driver does not wait for, unless
\* a sensor has failed.
LEMMA LoseRound ==
  ASSUME DriverInv, RoundInv, LoseSensor
  PROVE  RoundInv'
<1>1. /\ lost = NoNode /\ pos' = heading /\ heading' = Onward(switch_table, heading)
      /\ heading \in Sensors /\ heading # td.next_sensor /\ lost' = heading
      /\ UNCHANGED <<td, switch_table, tick, requested, failed>>
  BY DEF LoseSensor, Moves, faults
<1>2. td.action # "On_Orbit" \/ failed
  <2> SUFFICES ASSUME td.action = "On_Orbit", ~ failed PROVE FALSE
    OBVIOUS
  <2>1. OnOrbit(td)
    BY DEF RoundInv
  <2>2. PICK w, g, m : OnTheWay(td, w, g, m, pos, heading, gap)
    BY DEF RoundInv
  <2>3. PICK k \in 0 .. m - 1 :
            /\ heading = w[k + 1] /\ w[m] = td.next_sensor
            /\ heading \in Sensors <=> k + 1 = m
    BY <2>1, <2>2, OnTheWayIs
  <2> QED BY <1>1, <2>3
<1>3. heading' = Dest(heading, DIR_AHEAD)
  <2>1. NodeType[heading] = "sensor"
    BY <1>1 DEF NodeType, Nodes, Sensors
  <2> QED BY <1>1, <2>1 DEF Onward, Direction
<1> QED BY <1>1, <1>2, <1>3 DEF RoundInv

\* A sensor fails: from then on nothing is said of where the train is.
LEMMA FailRound ==
  ASSUME RoundInv, FailSensor
  PROVE  RoundInv'
<1>1. /\ lost = NoNode /\ failed'
      /\ UNCHANGED <<td, switch_table, tick, requested, lost>>
  BY DEF FailSensor, Moves
<1> QED BY <1>1 DEF RoundInv

\* Dead reckoning past a node leaves the order and the predicted sensor, and brings no train
\* on its orbit.
LEMMA PassedKeeps ==
  ASSUME NEW t, DOMAIN t = Fields, t.action \in Actions
  PROVE  LET u == Passed(t)
         IN  /\ u.action \in Actions /\ u.next_sensor = t.next_sensor
             /\ u.route_nodes_num = t.route_nodes_num
             /\ t.action # "On_Orbit" => u.action # "On_Orbit"
<1> DEFINE at == updateCurrentLandmark(t, NoNode, switch_table)
           u  == Passed(t)
<1>1. /\ DOMAIN at = Fields /\ at.next_sensor = t.next_sensor
      /\ at.route_nodes_num = t.route_nodes_num /\ at.action \in {t.action, "Halted"}
  <2> DEFINE l == findNextNode(t, switch_table)
             d == Direction(TableOf(t, switch_table), l)
             b == Dist(l, d)
             e == Dest(l, d)
  <2>1. at = IF NodeType[t.landmark] = "exit" THEN [t EXCEPT !.action = "Halted"]
             ELSE IF NodeType[l] = "exit"
             THEN [[t EXCEPT !.landmark = l, !.ahead_lm = 0] EXCEPT !.forward_distance = -1]
             ELSE [[t EXCEPT !.landmark = l, !.ahead_lm = 0] EXCEPT !.forward_distance = b,
                                                                   !.predict_dest = e]
    BY DEF updateCurrentLandmark, Halted, NoNode
  <2> HIDE DEF at, l, b, e
  <2> QED BY <2>1 DEF Fields
<1>2. \/ u = at /\ at.action \in {"Halted", "Off_Route"}
      \/ u = [at EXCEPT !.action = "Halted"]
      \/ u = [at EXCEPT !.action = "Off_Route"]
      \/ at.action # "Halted" /\ \E c : u = [at EXCEPT !.check_point = c]
  BY DEF Passed, Halted
<1> HIDE DEF at, u
<1>3. CASE u = at /\ at.action \in {"Halted", "Off_Route"}
  BY <1>1, <1>3 DEF u, Actions
<1>4. CASE u = [at EXCEPT !.action = "Halted"]
  BY <1>1, <1>4 DEF u, Actions, Fields
<1>5. CASE u = [at EXCEPT !.action = "Off_Route"]
  BY <1>1, <1>5 DEF u, Actions, Fields
<1>6. ASSUME at.action # "Halted", NEW c, u = [at EXCEPT !.check_point = c]
      PROVE  /\ u.action = t.action /\ u.next_sensor = t.next_sensor
             /\ u.route_nodes_num = t.route_nodes_num
  BY <1>1, <1>6 DEF Fields
<1> QED BY <1>2, <1>3, <1>4, <1>5, <1>6 DEF u

\* On its orbit the landmark moves on along the orbit, and the train is ahead of it.
LEMMA PassRound ==
  ASSUME DriverInv, RoundInv, PassLandmark, td.action = "On_Orbit"
  PROVE  LET t == Passed(td)
         IN  /\ t.action = "On_Orbit" /\ OnOrbit(t)
             /\ \E w, g, m : /\ Expects(t, w, g, m)
                             /\ ~ failed => OnTheWay(t, w, g, m, pos, heading, gap')
<1> DEFINE o  == td.orbit
           l  == td.predict_dest
           at == updateCurrentLandmark(td, NoNode, switch_table)
           t  == Passed(td)
<1>1. /\ OnOrbit(td) /\ (~ failed => lost = NoNode) /\ DOMAIN td = Fields
      /\ td.landmark \in Nodes /\ o \in Orbits
  BY DEF RoundInv, DriverInv, OnTrack, OnOrbit
<1>2. /\ l \notin Sensors /\ (~ failed => ~ (pos = td.landmark /\ heading = l))
      /\ gap' = gap - td.forward_distance
  BY <1>1 DEF PassLandmark, ToPass
<1>3. PICK w, g, m : /\ Expects(td, w, g, m)
                     /\ ~ failed => OnTheWay(td, w, g, m, pos, heading, gap)
  BY DEF RoundInv
<1>4. /\ m \in 1 .. 4 /\ w[0] = td.landmark /\ w[1] = l /\ g[1] = td.forward_distance
      /\ w[m] = td.next_sensor /\ w[m] \in Sensors
  BY <1>1, <1>3, ExpectsIs
<1>5. Stretch(o, td.landmark, w, g, m)
  BY <1>3 DEF Expects
<1>6. m # 1
  BY <1>2, <1>4
<1>7. m \in 2 .. 4
  BY <1>4, <1>6
<1>8. /\ td.landmark \in OrbitNodes(o) /\ l = NextOn(o, td.landmark) /\ l \in OrbitNodes(o)
  <2>1. w[0] \in OrbitNodes(o)
    <3>1. 0 \in 0 .. m
      BY <1>7
    <3> QED BY <1>5, <3>1 DEF Stretch
  <2>2. l = NextOn(o, td.landmark)
    BY <1>1 DEF OnOrbit
  <2> QED BY <1>1, <1>4, <2>1, <2>2, OrbitNode
<1>9. /\ NodeType[td.landmark] # "exit" /\ NodeType[l] # "exit" /\ DistOn(o, l) \in Nat
  BY <1>1, <1>8, OrbitNode
<1>10. at = [[td EXCEPT !.landmark = l, !.ahead_lm = 0] EXCEPT
                !.forward_distance = DistOn(o, l), !.predict_dest = NextOn(o, l)]
  <2>1. TableOf(td, switch_table) = orbits[o].switches
    BY DEF TableOf
  <2>2. findNextNode(td, switch_table) = l
    BY <1>8, <1>9, <2>1 DEF findNextNode, NextOn, Turned
  <2> QED BY <1>9, <2>1, <2>2 DEF updateCurrentLandmark, DistOn, NextOn, Turned
<1> HIDE DEF at
<1>11. /\ DOMAIN at = Fields /\ at.landmark = l /\ at.ahead_lm = 0 /\ at.orbit = o
       /\ at.forward_distance = DistOn(o, l) /\ at.predict_dest = NextOn(o, l)
       /\ at.action = "On_Orbit" /\ at.next_sensor = td.next_sensor
  BY <1>1, <1>10 DEF Fields
<1> DEFINE p == updateCheckPoint(at, orbit_route(at), at.check_point)
<1>12. p # -1 /\ p \in 0 .. Len(Ring[o]) - 1 /\ Ring[o][p + 1] = l
  BY <1>1, <1>8, <1>11, PointIs
<1>13. t = [at EXCEPT !.check_point = p]
  BY <1>11, <1>12 DEF Passed, at
<1> HIDE DEF p, t
<1>14. /\ t.landmark = l /\ t.ahead_lm = 0 /\ t.orbit = o /\ t.check_point = p
       /\ t.forward_distance = DistOn(o, l) /\ t.predict_dest = NextOn(o, l)
       /\ t.action = "On_Orbit" /\ t.next_sensor = td.next_sensor
  BY <1>11, <1>13 DEF Fields
<1>15. OnOrbit(t)
  <2>1. t.ahead_lm \in Nat /\ t.ahead_lm <= t.forward_distance
    BY <1>9, <1>14
  <2> QED BY <1>1, <1>12, <1>14, <2>1 DEF OnOrbit
<1> DEFINE v == [j \in 0 .. m - 1 |-> w[j + 1]]
           h == [j \in 0 .. m - 1 |-> g[j + 1] - g[1]]
<1>16. Stretch(o, l, v, h, m - 1)
  BY <1>1, <1>4, <1>5, <1>6, StretchShift
<1>17. Expects(t, v, h, m - 1)
  <2>1. m - 1 \in 0 .. m - 1 /\ (m - 1) + 1 = m
    BY <1>7
  <2>2. v[m - 1] = w[m]
    BY <2>1
  <2> HIDE DEF v, h
  <2> QED BY <1>4, <1>14, <1>16, <2>2 DEF Expects
<1>18. ASSUME ~ failed PROVE OnTheWay(t, v, h, m - 1, pos, heading, gap')
  <2>1. PICK k \in 0 .. m - 1 :
            /\ k \in 0 .. 3 /\ pos = w[k] /\ heading = w[k + 1] /\ gap = g[k + 1]
    BY <1>1, <1>3, <1>18, OnTheWayIs
  <2>2. k # 0
    BY <1>2, <1>4, <1>18, <2>1
  <2>3. k - 1 \in 0 .. (m - 1) - 1
    BY <1>7, <2>1, <2>2
  <2>4. k - 1 \in 0 .. m - 1 /\ (k - 1) + 1 \in 0 .. m - 1 /\ (k - 1) + 1 = k
    BY <1>7, <2>1, <2>2
  <2>5. v[k - 1] = w[k] /\ v[(k - 1) + 1] = w[k + 1] /\ h[(k - 1) + 1] = g[k + 1] - g[1]
    BY <2>4
  <2> HIDE DEF v, h
  <2>6. pos = v[k - 1] /\ heading = v[(k - 1) + 1] /\ gap' = h[(k - 1) + 1]
    BY <1>2, <1>4, <2>1, <2>5
  <2> QED BY <1>17, <2>3, <2>6 DEF OnTheWay
<1> HIDE DEF v, h
<1> QED BY <1>14, <1>15, <1>17, <1>18 DEF t

\* A message of the secretary, of a train that stays or comes nearer to the next node.
LEMMA AdvanceRound ==
  ASSUME DriverInv, RoundInv, Stay \/ Advance
  PROVE  RoundInv' /\ td'.action = td.action
<1>1. PICK t, a :
         /\ Secretary(t) /\ gap' = gap /\ requested' = requested
         /\ \/ a = td.ahead_lm
            \/ a \in {td.forward_distance - Lag, td.forward_distance} /\ a > td.ahead_lm
         /\ \/ t = td /\ a = td.ahead_lm
            \/ t = [td EXCEPT !.ahead_lm = a]
  <2>1. CASE Stay
    BY <2>1 DEF Stay
  <2>2. CASE Advance
    BY <2>2 DEF Advance
  <2> QED BY <2>1, <2>2
<1>2. /\ td.action \in Actions /\ td.next_sensor \in Sensors \cup {NoNode}
      /\ td.route_nodes_num \in Nat /\ DOMAIN td = Fields
  BY DEF RoundInv, DriverInv, OnTrack
<1>3. /\ t.action = td.action /\ t.next_sensor = td.next_sensor
      /\ t.route_nodes_num = td.route_nodes_num /\ t.orbit = td.orbit /\ t.landmark = td.landmark
      /\ t.check_point = td.check_point /\ t.predict_dest = td.predict_dest
      /\ t.forward_distance = td.forward_distance /\ t.ahead_lm = a
  BY <1>1, <1>2 DEF Fields
<1>4. ASSUME t.action = "On_Orbit"
      PROVE  /\ OnOrbit(t) /\ ~ requested' /\ (~ failed => lost = NoNode)
             /\ \E w, g, m : /\ Expects(t, w, g, m)
                             /\ ~ failed => OnTheWay(t, w, g, m, pos, heading, gap')
  <2>1. OnOrbit(td) /\ ~ requested /\ (~ failed => lost = NoNode)
    BY <1>3, <1>4 DEF RoundInv
  <2>2. PICK w, g, m : /\ Expects(td, w, g, m)
                       /\ ~ failed => OnTheWay(td, w, g, m, pos, heading, gap)
    BY <1>3, <1>4 DEF RoundInv
  <2>3. td.ahead_lm \in Nat /\ td.ahead_lm <= td.forward_distance /\ td.forward_distance \in Nat
    <3> DEFINE o == td.orbit
               c == td.check_point
    <3>1. /\ o \in Orbits /\ c \in 0 .. Len(Ring[o]) - 1 /\ Ring[o][c + 1] = td.landmark
          /\ td.forward_distance = DistOn(o, td.landmark)
          /\ td.ahead_lm \in Nat /\ td.ahead_lm <= td.forward_distance
      BY <2>1 DEF OnOrbit
    <3>2. Len(Ring[o]) \in {15, 19}
      BY <3>1, RingFacts
    <3>3. c + 1 \in 1 .. Len(Ring[o])
      BY <3>1, <3>2
    <3>4. td.landmark \in OrbitNodes(o)
      BY <3>1, <3>3 DEF OrbitNodes
    <3> QED BY <3>1, <3>4, OrbitNode
  <2>4. a \in Nat /\ a <= td.forward_distance
    <3>1. Lag \in 0 .. 334
      BY DriverAssumption
    <3> QED BY <1>1, <2>3, <3>1
  <2>5. OnOrbit(t)
    BY <1>3, <2>1, <2>4 DEF OnOrbit
  <2>6. Expects(t, w, g, m)
    BY <1>3, <2>2 DEF Expects
  <2>7. ~ failed => OnTheWay(t, w, g, m, pos, heading, gap')
    BY <1>1, <2>2, <2>6 DEF OnTheWay
  <2> QED BY <1>1, <2>1, <2>5, <2>6, <2>7
<1>5. RoundInv' /\ td' = t
  BY <1>1, <1>2, <1>3, <1>4, MessageRound
<1> QED BY <1>3, <1>5

\* An order leaves the train on its way to the orbit, or stops it.
LEMMA OrderRound ==
  ASSUME DriverInv, RoundInv, NEW o \in Orbits, OrbitCommand(o)
  PROVE  RoundInv'
<1>1. OnTrack(td) /\ DOMAIN td = Fields /\ td.orbit \in Orbits \cup {NoOrbit}
  BY DEF DriverInv, OnTrack
<1> DEFINE result == FindRoute(td, o, AvoidMap[AvoidIndex(td.orbit, o)])
           take == TakeRoute(td, result)
           u == [take EXCEPT !.orbit = o]
           t == predictNextSensor(u)
<1>2. Conclude(t) /\ UNCHANGED <<pos, heading, lost>>
  BY DEF OrbitCommand
<1>3. Searched(result)
  BY <1>1, AvoidIs, FindIs
<1>4. Len(result.route) \in Nat
  <2> HIDE DEF result
  <2> QED BY <1>3, SearchedLen
<1> HIDE DEF result
<1>5. /\ Kept(td, take) /\ take.action = "To_Orbit" /\ take.check_point = 0
      /\ take.route_nodes_num \in Nat
  BY <1>1, <1>4, TakeRouteIs
<1> HIDE DEF take
<1>6. /\ DOMAIN u = Fields /\ u.orbit = o /\ u.action = "To_Orbit" /\ u.check_point = 0
      /\ u.route_nodes_num \in Nat /\ u.next_sensor = td.next_sensor
  BY <1>5 DEF Kept, Fields
<1>7. td.next_sensor \in Sensors \cup {NoNode}
  BY DEF RoundInv
<1> HIDE DEF u
<1>8. /\ t.next_sensor \in Sensors \cup {NoNode} /\ t.route_nodes_num \in Nat
      /\ t.action # "On_Orbit"
  BY <1>6, <1>7, PredictIs
<1>9. t.action \in Actions
  <2>1. \/ t = u
        \/ t = [u EXCEPT !.action = "Halted"]
        \/ \E n : t = [u EXCEPT !.next_sensor = n]
    BY DEF predictNextSensor, Halted
  <2> HIDE DEF t
  <2>2. CASE t = [u EXCEPT !.action = "Halted"]
    BY <1>6, <2>2 DEF Actions, Fields
  <2>3. ASSUME NEW n, t = [u EXCEPT !.next_sensor = n] PROVE t.action \in Actions
    <3>1. t.action = u.action
      BY <1>6, <2>3 DEF Fields
    <3> QED BY <1>6, <3>1 DEF Actions
  <2> QED BY <1>6, <2>1, <2>2, <2>3 DEF Actions
<1> HIDE DEF t
<1>10. td' = t
  BY <1>2, ConcludeIs
<1> QED BY <1>2, <1>8, <1>9, <1>10 DEF RoundInv

\* A sensor, reported as it is reached or later: the train is at it.
LEMMA SensorRound ==
  ASSUME DriverInv, RoundInv, HitSensor \/ Relocate
  PROVE  RoundInv' /\ (td.action = "On_Orbit" => td'.action = "On_Orbit")
<1>1. PICK sensor \in Sensors :
         /\ mode # "parked" /\ LocationChange(sensor) /\ tick' = TRUE /\ lost' = NoNode
         /\ pos' = sensor /\ heading' = Dest(sensor, DIR_AHEAD)
         /\ gap' = Dist(sensor, DIR_AHEAD)
         /\ td.action = "On_Orbit" => sensor = td.next_sensor
         /\ ~ requested' /\ ~ failed'
  <2>1. \A table, n : n \in Sensors => /\ Onward(table, n) = Dest(n, DIR_AHEAD)
                                       /\ EdgeFrom(table, n) = Dist(n, DIR_AHEAD)
    <3> SUFFICES ASSUME NEW table, NEW n \in Sensors
                 PROVE  /\ Onward(table, n) = Dest(n, DIR_AHEAD)
                        /\ EdgeFrom(table, n) = Dist(n, DIR_AHEAD)
      OBVIOUS
    <3>1. NodeType[n] = "sensor"
      BY DEF NodeType, Nodes, Sensors
    <3> QED BY <3>1 DEF Onward, EdgeFrom, Direction
  <2>2. CASE HitSensor
    <3>1. /\ mode = "running" /\ lost = NoNode /\ pos' = heading
          /\ heading' = Onward(switch_table, heading) /\ heading = td.next_sensor
          /\ LocationChange(heading) /\ gap' = EdgeFrom(switch_table, heading) /\ lost' = lost
      BY <2>2 DEF HitSensor, Moves
    <3>2. heading \in Sensors
      <4>1. heading \in Nodes /\ td.next_sensor \in Sensors \cup {NoNode}
        BY DEF DriverInv, RoundInv
      <4> QED BY <3>1, <4>1 DEF Nodes, NoNode
    <3>3. tick' = TRUE /\ ~ requested' /\ ~ failed'
      BY <3>1 DEF LocationChange
    <3> QED BY <2>1, <3>1, <3>2, <3>3
  <2>3. CASE Relocate
    <3>1. /\ mode = "running" /\ lost # NoNode /\ lost' = NoNode /\ LocationChange(lost)
          /\ requested /\ gap' = EdgeFrom(switch_table, pos) /\ UNCHANGED <<pos, heading>>
      BY <2>3 DEF Relocate
    <3>2. lost \in Sensors /\ pos = lost /\ heading = Dest(lost, DIR_AHEAD)
          /\ td.action # "On_Orbit"
      BY <3>1 DEF RoundInv
    <3>3. tick' = TRUE /\ ~ requested' /\ ~ failed'
      BY <3>1 DEF LocationChange
    <3> QED BY <2>1, <3>1, <3>2, <3>3
  <2> QED BY <2>2, <2>3
<1>2. /\ td'.action \in Actions
      /\ td'.next_sensor \in Sensors \cup {NoNode} /\ td'.route_nodes_num \in Nat
      /\ td'.action = "On_Orbit" =>
           /\ OnOrbit(td')
           /\ \E w, g, m : OnTheWay(td', w, g, m, sensor, Dest(sensor, DIR_AHEAD),
                                    Dist(sensor, DIR_AHEAD))
      /\ td.action = "On_Orbit" /\ sensor \in OrbitNodes(td.orbit) => td'.action = "On_Orbit"
  BY <1>1, LocationRound
<1>3. ASSUME td.action = "On_Orbit" PROVE sensor \in OrbitNodes(td.orbit)
  <2>1. OnOrbit(td)
    BY <1>3 DEF RoundInv
  <2>2. PICK w, g, m : Expects(td, w, g, m)
    BY <1>3 DEF RoundInv
  <2>3. td.next_sensor \in OrbitNodes(td.orbit)
    BY <2>1, <2>2, ExpectsIs
  <2> QED BY <1>1, <1>3, <2>3
<1>4. ASSUME td'.action = "On_Orbit"
      PROVE  \E w, g, m : /\ Expects(td', w, g, m)
                          /\ OnTheWay(td', w, g, m, pos', heading', gap')
  <2>1. PICK w, g, m : OnTheWay(td', w, g, m, pos', heading', gap')
    BY <1>1, <1>2, <1>4
  <2>2. Expects(td', w, g, m)
    BY <2>1 DEF OnTheWay
  <2> QED BY <2>1, <2>2
<1> QED BY <1>1, <1>2, <1>3, <1>4 DEF RoundInv

\* The estimate passes a node that is no sensor.
LEMMA PassLandmarkRound ==
  ASSUME DriverInv, RoundInv, PassLandmark
  PROVE  RoundInv' /\ (td.action = "On_Orbit" => td'.action = "On_Orbit")
<1> DEFINE t == Passed(td)
<1>1. DOMAIN td = Fields
  BY DEF DriverInv, OnTrack
<1>2. /\ td.action \in Actions /\ td.next_sensor \in Sensors \cup {NoNode}
      /\ td.route_nodes_num \in Nat
      /\ td.action = "On_Orbit" => ~ requested /\ (~ failed => lost = NoNode)
  BY DEF RoundInv
<1>3. /\ t.action \in Actions /\ t.next_sensor = td.next_sensor
      /\ t.route_nodes_num = td.route_nodes_num
      /\ td.action # "On_Orbit" => t.action # "On_Orbit"
  BY <1>1, <1>2, PassedKeeps
<1>4. td.action = "On_Orbit" =>
         /\ t.action = "On_Orbit" /\ OnOrbit(t)
         /\ \E w, g, m : /\ Expects(t, w, g, m)
                         /\ ~ failed => OnTheWay(t, w, g, m, pos, heading, gap')
  BY PassRound
<1>5. Secretary(t) /\ requested' = requested
  BY DEF PassLandmark
<1> HIDE DEF t
<1>6. RoundInv' /\ td' = t
  BY <1>2, <1>3, <1>4, <1>5, MessageRound
<1> QED BY <1>4, <1>6

\* The time-out makes the train Off_Route.
LEMMA TimeoutRound ==
  ASSUME DriverInv, RoundInv, SensorTimeout
  PROVE  RoundInv'
<1> DEFINE t == [td EXCEPT !.action = "Off_Route"]
<1>1. Secretary(t)
  BY DEF SensorTimeout
<1>2. /\ td.next_sensor \in Sensors \cup {NoNode} /\ td.route_nodes_num \in Nat
      /\ DOMAIN td = Fields
  BY DEF RoundInv, DriverInv, OnTrack
<1>3. /\ t.action = "Off_Route" /\ t.next_sensor = td.next_sensor
      /\ t.route_nodes_num = td.route_nodes_num
  BY <1>2 DEF Fields
<1> HIDE DEF t
<1>4. t.action \in Actions /\ t.action # "On_Orbit"
  BY <1>3 DEF Actions
<1> QED BY <1>1, <1>2, <1>3, <1>4, MessageRound

\* A train is parked on no orbit.
LEMMA InitRound == Init => RoundInv
<1> SUFFICES ASSUME Init PROVE RoundInv
  OBVIOUS
<1>1. PICK n \in Nodes :
         td = updateCurrentLandmark(Parked, deliverCmd(<<"set", 44, Name(n)>>).value, switch_table)
  BY DEF Init
<1>2. td = updateCurrentLandmark(Parked, n, switch_table) /\ lost = NoNode
  BY <1>1, SetIs DEF Init
<1>3. /\ DOMAIN Parked = Fields /\ Parked.landmark = 22 /\ Parked.action = "Off_Route"
      /\ Parked.next_sensor = 9 /\ Parked.route_nodes_num = 0
  BY DEF Parked, Fields
<1> DEFINE p == Parked
           d == Direction(TableOf(p, switch_table), n)
           b == Dist(n, d)
           e == Dest(n, d)
<1>4. NodeType[22] # "exit" /\ n # NoNode
  BY DEF NodeType, Nodes, Sensors, NoNode
<1>5. td = IF NodeType[n] = "exit"
           THEN [[p EXCEPT !.landmark = n, !.ahead_lm = 0] EXCEPT !.forward_distance = -1]
           ELSE [[p EXCEPT !.landmark = n, !.ahead_lm = 0] EXCEPT !.forward_distance = b,
                                                                  !.predict_dest = e]
  BY <1>2, <1>3, <1>4 DEF updateCurrentLandmark
<1> HIDE DEF p, b, e
<1>6. DOMAIN p = Fields /\ p.action = "Off_Route" /\ p.next_sensor = 9 /\ p.route_nodes_num = 0
  BY <1>3 DEF p
<1>7. td.action = "Off_Route" /\ td.next_sensor = 9 /\ td.route_nodes_num = 0
  BY <1>5, <1>6 DEF Fields
<1>8. 9 \in Sensors
  BY DEF Sensors
<1> QED BY <1>2, <1>7, <1>8 DEF RoundInv, Actions

\* Every step keeps it, and no step but an order or a time-out takes a train off its orbit.
LEMMA StepRound ==
  ASSUME DriverInv, RoundInv, [Next]_vars
  PROVE  /\ RoundInv'
         /\ \/ td.action = "On_Orbit" => td'.action = "On_Orbit"
            \/ SensorTimeout \/ \E o \in Orbits : OrbitCommand(o)
<1>1. CASE \E o \in Orbits : OrbitCommand(o)
  BY <1>1, OrderRound
<1>2. CASE Stay \/ Advance
  BY <1>2, AdvanceRound
<1>3. CASE PassLandmark
  BY <1>3, PassLandmarkRound
<1>4. CASE SensorTimeout
  BY <1>4, TimeoutRound
<1>5. CASE HitSensor \/ Relocate
  BY <1>5, SensorRound
<1>6. CASE Roll
  <2>1. td' = td
    BY <1>6 DEF Roll
  <2> QED BY <1>6, <2>1, RollRound
<1>7. CASE LoseSensor
  <2>1. td' = td
    BY <1>7 DEF LoseSensor
  <2> QED BY <1>7, <2>1, LoseRound
<1>8. CASE FailSensor
  <2>1. td' = td
    BY <1>8 DEF FailSensor
  <2> QED BY <1>8, <2>1, FailRound
<1>9. CASE UNCHANGED vars
  <2>1. UNCHANGED <<td, lost, pos, heading, gap, tick, switch_table, requested, failed>>
    BY <1>9 DEF vars, faults
  <2> QED BY <2>1 DEF RoundInv
<1> QED BY <1>1, <1>2, <1>3, <1>4, <1>5, <1>6, <1>7, <1>8, <1>9 DEF Next

\* The invariant says where on its orbit the train is.
LEMMA InvKeeps == DriverInv /\ RoundInv => KeepsToOrbit
<1> SUFFICES ASSUME DriverInv, RoundInv, ~ failed, td.action = "On_Orbit"
             PROVE  /\ td.landmark = Entry(orbit_route(td), td.check_point)
                    /\ Leads(Append(orbit_route(td), orbits[td.orbit].start), pos, heading)
                    /\ heading \in Sensors => heading = td.next_sensor
  BY DEF KeepsToOrbit
<1> DEFINE o == td.orbit
           r == Ring[o]
           n == Len(r)
           c == td.check_point
           start == orbits[o].start
<1>1. OnOrbit(td)
  BY DEF RoundInv
<1>2. PICK w, g, m : OnTheWay(td, w, g, m, pos, heading, gap)
  BY DEF RoundInv
<1>3. PICK k \in 0 .. m - 1 :
         /\ pos = w[k] /\ heading = w[k + 1]
         /\ w[k] \in OrbitNodes(o) /\ w[k + 1] = NextOn(o, w[k]) /\ w[m] = td.next_sensor
         /\ heading \in Sensors <=> k + 1 = m
  BY <1>1, <1>2, OnTheWayIs
<1>4. o \in Orbits /\ c \in 0 .. n - 1 /\ r[c + 1] = td.landmark
  BY <1>1 DEF OnOrbit
<1>5. /\ n \in {15, 19} /\ r \in Seq(0 .. 123) /\ r[1] = start
      /\ \A i \in 1 .. n : NextOn(o, r[i]) = r[After(n, i)]
  BY <1>4, RingFacts
<1>6. orbit_route(td) = r
  BY <1>4, OrbitRouteIs DEF orbit_route
<1>7. PICK i \in 1 .. n : pos = r[i]
  BY <1>3 DEF OrbitNodes
<1>8. heading = r[After(n, i)]
  BY <1>3, <1>5, <1>7
<1> HIDE DEF r, n, start, c
<1>9. td.landmark = Entry(r, c)
  BY <1>4 DEF Entry, n
<1>10. Leads(Append(r, start), pos, heading)
  <2> DEFINE a == Append(r, start)
  <2>1. /\ Len(a) = n + 1 /\ \A j \in 1 .. n : a[j] = r[j]
        /\ a[n + 1] = start
    BY <1>5 DEF n
  <2> HIDE DEF a
  <2>2. i \in 1 .. Len(a) /\ a[i] = pos
    BY <1>5, <1>7, <2>1
  <2>3. a[i + 1] = heading
    <3>1. CASE i = n
      BY <1>5, <1>8, <2>1, <3>1 DEF After
    <3>2. CASE i # n
      <4>1. i + 1 \in 1 .. n
        BY <1>5, <1>7, <3>2
      <4> QED BY <1>8, <2>1, <3>2, <4>1 DEF After
    <3> QED BY <3>1, <3>2
  <2> QED BY <2>2, <2>3 DEF Leads, a
<1>11. heading \in Sensors => heading = td.next_sensor
  BY <1>3
<1> QED BY <1>6, <1>9, <1>10, <1>11 DEF start, c

\* A train that goes round its orbit, of which every sensor has reported it since the last
\* that did, is on it, takes the orbit's leg of every branch, and comes to the sensor that
\* its driver waits for: for every estimate that is less than SWITCH_THRESHOLD behind, however
\* often the train has been ordered to other orbits, has come late and has been lost.
THEOREM KeptToOrbit == Spec => []KeepsToOrbit
<1>1. Init => RoundInv
  BY InitRound
<1>2. DriverInv /\ RoundInv /\ [Next]_vars => RoundInv'
  BY StepRound
<1> QED BY <1>1, <1>2, DriverInvariant, InvKeeps, PTL DEF Spec

\* Only an order, or the time-out of the sensor that it waits for, takes a train off its
\* orbit: no sensor that reports it, early or after others have failed, and no dead reckoning
\* makes it Off_Route or stops it there.
THEOREM OrbitLeftByOrder ==
  Spec => [][ td.action = "On_Orbit" /\ td'.action # "On_Orbit" =>
                SensorTimeout \/ \E o \in Orbits : OrbitCommand(o) ]_vars
<1> DEFINE Left == td.action = "On_Orbit" /\ td'.action # "On_Orbit" =>
                     SensorTimeout \/ \E o \in Orbits : OrbitCommand(o)
<1>1. Init => RoundInv
  BY InitRound
<1>2. DriverInv /\ RoundInv /\ [Next]_vars => RoundInv'
  BY StepRound
<1>3. DriverInv /\ RoundInv /\ [Next]_vars => [Left]_vars
  BY StepRound
<1> QED BY <1>1, <1>2, <1>3, DriverInvariant, PTL DEF Spec
=============================================================================
