-------------------------- MODULE TaskListsProofs --------------------------
(***************************************************************************)
(* The lists and the heap of task.c, as they are in memory, stand for the  *)
(* lists of Kernel: the theorem MemoryIsLinked, for every number of        *)
(* descriptors and priorities.                                             *)
(***************************************************************************)
EXTENDS TaskLists, KernelProofs, SequenceLemmas

\* The heap's array, in the words of Kernel.
LEMMA InHeap ==
  /\ \A x, data : Holds(x, data) <=> In(x, data)
  /\ \A data : Distinct(data) <=> NoRepeat(data)
BY DEF Holds, In, Distinct, NoRepeat

-----------------------------------------------------------------------------
(* One list in memory.                                                     *)

\* The pointers of list l link the tasks of the sequence list (Links).
LinkedAs(m, l, list) ==
  /\ list = << >> => m.head[l] = NoTask
  /\ list # << >> =>
       /\ m.head[l] = list[1]
       /\ m.tail[l] = list[Len(list)]
       /\ \A i \in 1 .. Len(list) - 1 : m.next[list[i]] = list[i + 1]
       /\ m.next[list[Len(list)]] = NoTask

\* The items of a sequence of tasks.
LEMMA Items ==
  ASSUME NEW list \in Seq(Slots)
  PROVE  /\ Len(list) \in Nat
         /\ list = << >> <=> Len(list) = 0
         /\ \A i \in 1 .. Len(list) : list[i] \in Slots /\ In(list[i], list)
         /\ list # << >> => 1 \in 1 .. Len(list) /\ Len(list) \in 1 .. Len(list)
<1>1. Len(list) \in Nat /\ (list = << >> <=> Len(list) = 0)
  OBVIOUS
<1>2. \A i \in 1 .. Len(list) : list[i] \in Slots
  OBVIOUS
<1>3. \A i \in 1 .. Len(list) : In(list[i], list)
  BY DEF In
<1> QED BY <1>1, <1>2, <1>3

\* NoTask is no task.
LEMMA NoTaskIsNone == NoTask \notin Slots
BY KernelAssumption DEF NoTask, Slots

\* A list is as it was when its head, its tail and the next fields of its
\* tasks are.
LEMMA LinkedFrame ==
  ASSUME NEW list \in Seq(Slots), NEW m, NEW n, NEW l, LinkedAs(m, l, list),
         n.head[l] = m.head[l], n.tail[l] = m.tail[l],
         \A x \in Slots : In(x, list) => n.next[x] = m.next[x]
  PROVE  LinkedAs(n, l, list)
<1>1. /\ Len(list) \in Nat
      /\ \A i \in 1 .. Len(list) : list[i] \in Slots /\ In(list[i], list)
      /\ list # << >> => Len(list) \in 1 .. Len(list)
  BY Items
<1>2. \A i \in 1 .. Len(list) : n.next[list[i]] = m.next[list[i]]
  BY <1>1
<1> HIDE DEF In
<1>3. ASSUME list # << >>, NEW i \in 1 .. Len(list) - 1
      PROVE  n.next[list[i]] = list[i + 1]
  <2>1. i \in 1 .. Len(list)
    BY <1>1
  <2> QED BY <1>2, <1>3, <2>1 DEF LinkedAs
<1> QED BY <1>1, <1>2, <1>3 DEF LinkedAs

\* A task at the end.
LEMMA LinkedAppend ==
  ASSUME NEW list \in Seq(Slots), NoRepeat(list), NEW s \in Slots, ~ In(s, list),
         NEW m, NEW n, NEW l, LinkedAs(m, l, list),
         n.head[l] = (IF list = << >> THEN s ELSE m.head[l]), n.tail[l] = s,
         n.next[s] = NoTask, list # << >> => n.next[m.tail[l]] = s,
         \A x \in Slots : In(x, list) /\ x # m.tail[l] => n.next[x] = m.next[x]
  PROVE  LinkedAs(n, l, Append(list, s))
<1> DEFINE a == Append(list, s)
           k == Len(list)
<1>1. /\ k \in Nat /\ (list = << >> <=> k = 0)
      /\ \A i \in 1 .. k : list[i] \in Slots /\ In(list[i], list)
  BY Items
<1>2. /\ Len(a) = k + 1 /\ a # << >>
      /\ \A i \in 1 .. k : a[i] = list[i]
      /\ a[k + 1] = s
  BY <1>1
<1> HIDE DEF a
<1>3. k # 0 => m.tail[l] = list[k] /\ m.head[l] = list[1]
  BY <1>1 DEF LinkedAs
<1> HIDE DEF k
<1>4. n.head[l] = a[1]
  <2>1. CASE k = 0
    <3>1. a[1] = s
      BY <1>2, <2>1
    <3> QED BY <1>1, <2>1, <3>1
  <2>2. CASE k # 0
    <3>1. 1 \in 1 .. k
      BY <1>1, <2>2
    <3> QED BY <1>1, <1>2, <1>3, <2>2, <3>1
  <2> QED BY <2>1, <2>2
<1>5. ASSUME NEW i \in 1 .. k PROVE n.next[a[i]] = a[i + 1]
  <2>0. k # 0 /\ list # << >>
    BY <1>1
  <2>1. CASE i = k
    BY <1>2, <1>3, <2>0, <2>1
  <2>2. CASE i # k
    <3>1. i \in 1 .. k - 1 /\ i + 1 \in 1 .. k /\ k \in 1 .. k
      BY <1>1, <2>2
    <3>2. m.next[list[i]] = list[i + 1]
      BY <2>0, <3>1 DEF LinkedAs, k
    <3>3. list[i] # m.tail[l]
      BY <1>3, <2>0, <2>2, <3>1 DEF NoRepeat, k
    <3>4. n.next[list[i]] = m.next[list[i]]
      BY <1>1, <3>3
    <3> QED BY <1>2, <3>1, <3>2, <3>4
  <2> QED BY <2>1, <2>2
<1>6. (k + 1) - 1 = k
  BY <1>1
<1> QED BY <1>2, <1>4, <1>5, <1>6 DEF LinkedAs, a

\* The tasks of a list but its head keep their next fields.
TailKept(n, m, l, list) ==
  \A x \in Slots : In(x, list) /\ x # m.head[l] => n.next[x] = m.next[x]

\* The head leaves.
LEMMA LinkedTail ==
  ASSUME NEW list \in Seq(Slots), NoRepeat(list), list # << >>,
         NEW m, NEW n, NEW l, LinkedAs(m, l, list),
         n.head[l] = m.next[m.head[l]], n.tail[l] = m.tail[l] \/ n.head[l] = NoTask,
         TailKept(n, m, l, list)
  PROVE  /\ LinkedAs(n, l, Tail(list))
         /\ m.head[l] = Head(list)
         /\ m.next[m.head[l]] = NoTask <=> Tail(list) = << >>
         /\ m.head[l] = m.tail[l] <=> Tail(list) = << >>
<1> DEFINE t == Tail(list)
           k == Len(list)
<1>1. /\ k \in Nat /\ k # 0 /\ 1 \in 1 .. k /\ k \in 1 .. k
      /\ \A i \in 1 .. k : list[i] \in Slots /\ In(list[i], list)
  BY Items
<1>2. /\ Len(t) = k - 1 /\ Head(list) = list[1]
      /\ \A i \in 1 .. k - 1 : t[i] = list[i + 1]
      /\ t = << >> <=> k = 1
  <2>1. t \in Seq(Slots) /\ Len(t) = k - 1 /\ Head(list) = list[1]
        /\ \A i \in 1 .. k - 1 : t[i] = list[i + 1]
    BY HeadTail
  <2> HIDE DEF t
  <2>2. t = << >> <=> Len(t) = 0
    BY <2>1, Items
  <2> QED BY <1>1, <2>1, <2>2
<1> HIDE DEF t
<1>3. /\ m.head[l] = list[1] /\ m.tail[l] = list[k]
      /\ \A i \in 1 .. k - 1 : m.next[list[i]] = list[i + 1]
      /\ m.next[list[k]] = NoTask
  BY DEF LinkedAs
<1>4. CASE k = 1
  <2>1. t = << >> /\ n.head[l] = NoTask
    BY <1>2, <1>3, <1>4
  <2> QED BY <1>2, <1>3, <1>4, <2>1 DEF LinkedAs, t
<1>5. CASE k # 1
  <2> HIDE DEF k
  <2>1. 1 \in 1 .. k - 1 /\ 1 + 1 \in 1 .. k /\ k - 1 \in 1 .. k - 1 /\ (k - 1) + 1 = k
    BY <1>1, <1>5
  <2>2. n.head[l] = t[1] /\ n.head[l] # NoTask /\ t # << >>
    <3>1. m.next[list[1]] = list[1 + 1] /\ t[1] = list[1 + 1]
      BY <1>2, <1>3, <2>1
    <3>2. list[1 + 1] \in Slots
      BY <1>1, <2>1
    <3> QED BY <1>2, <1>3, <1>5, <3>1, <3>2, NoTaskIsNone
  <2>3. \A i \in 1 .. k - 1 :
          t[i] = list[i + 1] /\ n.next[list[i + 1]] = m.next[list[i + 1]]
    <3>1. ASSUME NEW i \in 1 .. k - 1 PROVE list[i + 1] # m.head[l] /\ i + 1 \in 1 .. k
      <4>1. i + 1 \in 1 .. k /\ i + 1 # 1 /\ 1 \in 1 .. k
        BY <1>1
      <4> QED BY <1>3, <4>1 DEF NoRepeat, k
    <3> QED BY <1>1, <1>2, <3>1 DEF TailKept
  <2>4. n.tail[l] = t[k - 1] /\ n.next[t[k - 1]] = NoTask
    BY <1>3, <2>1, <2>2, <2>3
  <2>5. ASSUME NEW i \in 1 .. (k - 1) - 1 PROVE n.next[t[i]] = t[i + 1]
    <3>1. i \in 1 .. k - 1 /\ i + 1 \in 1 .. k - 1
      BY <1>1
    <3> QED BY <1>3, <2>3, <3>1
  <2>6. list[1] # list[k]
    BY <1>1, <1>5 DEF NoRepeat, k
  <2>7. LinkedAs(n, l, t)
    BY <1>2, <2>2, <2>4, <2>5 DEF LinkedAs
  <2> QED BY <1>2, <1>3, <2>2, <2>6, <2>7 DEF t
<1> QED BY <1>4, <1>5

-----------------------------------------------------------------------------
(* All lists in memory: C gives the sequence of each.                      *)

\* The fields of the memory.
Memory(m) ==
  /\ m = [next |-> m.next, head |-> m.head, tail |-> m.tail, heap |-> m.heap,
          first |-> m.first]
  /\ m.next \in [Slots -> Slots \cup {NoTask}]
  /\ m.head \in [Lists -> Slots \cup {NoTask}]
  /\ m.tail \in [Lists -> Slots \cup {NoTask}]

\* A task is in one list only, and once.
Apart(C) ==
  /\ C \in [Lists -> Seq(Slots)]
  /\ \A l \in Lists : NoRepeat(C[l])
  /\ \A l, k \in Lists : \A s \in Slots : In(s, C[l]) /\ In(s, C[k]) => l = k

Stands(m, C) ==
  /\ Memory(m) /\ Apart(C)
  /\ \A l \in Lists : LinkedAs(m, l, C[l])

Unlisted(s, C) == \A l \in Lists : ~ In(s, C[l])

\* C with list l replaced.
With(C, l, list) == [C EXCEPT ![l] = list]

\* Replacing a list by one with other tasks of no other list.
LEMMA ApartWith ==
  ASSUME NEW C, Apart(C), NEW l \in Lists, NEW list \in Seq(Slots), NoRepeat(list),
         \A s \in Slots : In(s, list) => In(s, C[l]) \/ Unlisted(s, C)
  PROVE  /\ Apart(With(C, l, list))
         /\ \A k \in Lists : With(C, l, list)[k] = IF k = l THEN list ELSE C[k]
<1> DEFINE D == With(C, l, list)
<1>1. C \in [Lists -> Seq(Slots)]
  BY DEF Apart
<1>2. D \in [Lists -> Seq(Slots)] /\ \A k \in Lists : D[k] = IF k = l THEN list ELSE C[k]
  BY <1>1 DEF With
<1> HIDE DEF D
<1>3. \A k \in Lists : NoRepeat(D[k])
  BY <1>2 DEF Apart
<1>4. ASSUME NEW j \in Lists, NEW k \in Lists, NEW s \in Slots, In(s, D[j]), In(s, D[k])
      PROVE  j = k
  <2>1. CASE j = l /\ k # l
    <3>1. In(s, list) /\ In(s, C[k])
      BY <1>2, <1>4, <2>1
    <3>2. In(s, C[l])
      BY <3>1 DEF Unlisted
    <3> QED BY <3>1, <3>2, <2>1 DEF Apart
  <2>2. CASE j # l /\ k = l
    <3>1. In(s, list) /\ In(s, C[j])
      BY <1>2, <1>4, <2>2
    <3>2. In(s, C[l])
      BY <3>1 DEF Unlisted
    <3> QED BY <3>1, <3>2, <2>2 DEF Apart
  <2>3. CASE j # l /\ k # l
    BY <1>2, <1>4, <2>3 DEF Apart
  <2> QED BY <2>1, <2>2, <2>3
<1> QED BY <1>2, <1>3, <1>4 DEF Apart, D

\* The head of a list, from memory.
LEMMA HeadIs ==
  ASSUME NEW m, NEW C, Stands(m, C), NEW l \in Lists
  PROVE  /\ C[l] \in Seq(Slots) /\ NoRepeat(C[l]) /\ LinkedAs(m, l, C[l])
         /\ m.head[l] = NoTask <=> C[l] = << >>
         /\ C[l] # << >> => /\ m.head[l] = Head(C[l]) /\ m.head[l] \in Slots /\ In(m.head[l], C[l])
                            /\ m.tail[l] \in Slots /\ In(m.tail[l], C[l])
<1>1. C[l] \in Seq(Slots) /\ NoRepeat(C[l]) /\ LinkedAs(m, l, C[l])
  BY DEF Stands, Apart
<1>2. /\ \A i \in 1 .. Len(C[l]) : C[l][i] \in Slots /\ In(C[l][i], C[l])
      /\ C[l] # << >> => 1 \in 1 .. Len(C[l]) /\ Len(C[l]) \in 1 .. Len(C[l])
  BY <1>1, Items
<1>3. C[l] # << >> => Head(C[l]) = C[l][1]
  BY <1>1
<1> QED BY <1>1, <1>2, <1>3, NoTaskIsNone DEF LinkedAs

\* Enqueue puts a task of no list at the end of one.
LEMMA EnqueueStands ==
  ASSUME NEW m, NEW C, Stands(m, C), NEW l \in Lists, NEW s \in Slots, Unlisted(s, C)
  PROVE  LET n == Enqueue(m, l, s)
         IN  Stands(n, With(C, l, Append(C[l], s))) /\ n.heap = m.heap /\ n.first = m.first
<1> DEFINE n == Enqueue(m, l, s)
           D == With(C, l, Append(C[l], s))
           free == m.head[l] = NoTask
           f == [m.next EXCEPT ![s] = NoTask]
           g == [f EXCEPT ![m.tail[l]] = s]
           N == IF free THEN f ELSE g
           H == IF free THEN [m.head EXCEPT ![l] = s] ELSE m.head
           T == [m.tail EXCEPT ![l] = s]
<1>1. /\ C[l] \in Seq(Slots) /\ NoRepeat(C[l]) /\ LinkedAs(m, l, C[l])
      /\ free <=> C[l] = << >>
      /\ C[l] # << >> => m.tail[l] \in Slots /\ In(m.tail[l], C[l])
  BY HeadIs
<1>2. /\ m = [next |-> m.next, head |-> m.head, tail |-> m.tail, heap |-> m.heap,
              first |-> m.first]
      /\ m.next \in [Slots -> Slots \cup {NoTask}]
      /\ m.head \in [Lists -> Slots \cup {NoTask}]
      /\ m.tail \in [Lists -> Slots \cup {NoTask}]
      /\ Apart(C) /\ \A k \in Lists : LinkedAs(m, k, C[k])
  BY DEF Stands, Memory
<1>3. n = [next |-> N, head |-> H, tail |-> T, heap |-> m.heap, first |-> m.first]
  <2>1. CASE free
    <3>1. n = [m EXCEPT !.next = f, !.head = H, !.tail = T]
      BY <1>2, <2>1 DEF Enqueue
    <3> HIDE DEF n, f, H, T
    <3>2. N = f
      BY <2>1
    <3> HIDE DEF N
    <3> QED BY <1>2, <3>1, <3>2
  <2>2. CASE ~ free
    <3>1. n = [m EXCEPT !.next = g, !.tail = T]
      BY <1>2, <2>2 DEF Enqueue
    <3>2. N = g /\ H = m.head
      BY <2>2
    <3> HIDE DEF n, g, T, N, H
    <3> QED BY <1>2, <3>1, <3>2
  <2> QED BY <2>1, <2>2
<1> HIDE DEF n
<1>4. /\ N \in [Slots -> Slots \cup {NoTask}] /\ H \in [Lists -> Slots \cup {NoTask}]
      /\ T \in [Lists -> Slots \cup {NoTask}]
  BY <1>2
<1>5. /\ \A k \in Lists : k # l => H[k] = m.head[k] /\ T[k] = m.tail[k]
      /\ H[l] = (IF C[l] = << >> THEN s ELSE m.head[l]) /\ T[l] = s
  BY <1>1, <1>2
<1>6. /\ N[s] = NoTask
      /\ C[l] # << >> => N[m.tail[l]] = s
      /\ \A x \in Slots : x # s /\ (free \/ x # m.tail[l]) => N[x] = m.next[x]
  <2>1. ~ In(s, C[l])
    BY DEF Unlisted
  <2>2. CASE free
    BY <1>1, <1>2, <2>2
  <2>3. CASE ~ free
    <3>1. m.tail[l] # s /\ m.tail[l] \in Slots
      BY <1>1, <2>1, <2>3
    <3> QED BY <1>1, <1>2, <2>3, <3>1
  <2> QED BY <2>2, <2>3
<1>7. Memory(n) /\ n.next = N /\ n.head = H /\ n.tail = T /\ n.heap = m.heap /\ n.first = m.first
  <2> HIDE DEF N, H, T
  <2> QED BY <1>3, <1>4 DEF Memory
<1> HIDE DEF N, H, T
<1>8. /\ Append(C[l], s) \in Seq(Slots) /\ NoRepeat(Append(C[l], s))
      /\ \A x \in Slots : In(x, Append(C[l], s)) <=> In(x, C[l]) \/ x = s
  BY <1>1, AppendTask DEF Unlisted
<1>9. Apart(D) /\ \A k \in Lists : D[k] = IF k = l THEN Append(C[l], s) ELSE C[k]
  <2> DEFINE a == Append(C[l], s)
  <2>1. /\ a \in Seq(Slots) /\ NoRepeat(a)
        /\ \A x \in Slots : In(x, a) => In(x, C[l]) \/ Unlisted(x, C)
    BY <1>8
  <2> HIDE DEF a
  <2>2. Apart(With(C, l, a)) /\ \A k \in Lists : With(C, l, a)[k] = IF k = l THEN a ELSE C[k]
    BY <1>2, <2>1, ApartWith
  <2> QED BY <2>2 DEF a
<1> HIDE DEF D
<1>10. LinkedAs(n, l, Append(C[l], s))
  <2>1. ~ In(s, C[l])
    BY DEF Unlisted
  <2>2. ASSUME NEW x \in Slots, In(x, C[l]), x # m.tail[l] PROVE n.next[x] = m.next[x]
    BY <1>6, <1>7, <2>1, <2>2
  <2>3. n.head[l] = (IF C[l] = << >> THEN s ELSE m.head[l]) /\ n.tail[l] = s
    BY <1>5, <1>7
  <2>4. n.next[s] = NoTask /\ (C[l] # << >> => n.next[m.tail[l]] = s)
    BY <1>6, <1>7
  <2> QED BY <1>1, <2>1, <2>2, <2>3, <2>4, LinkedAppend
<1>11. ASSUME NEW k \in Lists, k # l PROVE LinkedAs(n, k, C[k])
  <2>1. C[k] \in Seq(Slots) /\ LinkedAs(m, k, C[k])
    BY <1>2 DEF Apart
  <2>2. ASSUME NEW x \in Slots, In(x, C[k]) PROVE n.next[x] = m.next[x]
    <3>1. x # s /\ ~ In(x, C[l])
      BY <1>2, <1>11, <2>2 DEF Apart, Unlisted
    <3>2. free \/ x # m.tail[l]
      BY <1>1, <3>1
    <3> QED BY <1>6, <1>7, <3>1, <3>2
  <2>3. n.head[k] = m.head[k] /\ n.tail[k] = m.tail[k]
    BY <1>5, <1>7, <1>11
  <2> QED BY <2>1, <2>2, <2>3, LinkedFrame
<1>12. Stands(n, D)
  BY <1>7, <1>9, <1>10, <1>11 DEF Stands
<1> QED BY <1>7, <1>12 DEF n, D

\* n is m after the head of list l has left it.
Drops(n, m, l) ==
  /\ Memory(n)
  /\ n.head = [m.head EXCEPT ![l] = m.next[m.head[l]]]
  /\ \A x \in Slots : x # m.head[l] => n.next[x] = m.next[x]
  /\ \A k \in Lists : k # l => n.tail[k] = m.tail[k]
  /\ n.tail[l] = m.tail[l] \/ n.head[l] = NoTask

\* The head of a list leaves it, and is then in no list; whether it was alone
\* can be told from its next field, and from the tail.
LEMMA DropStands ==
  ASSUME NEW m, NEW C, Stands(m, C), NEW l \in Lists, C[l] # << >>, NEW n, Drops(n, m, l)
  PROVE  LET D == With(C, l, Tail(C[l]))
         IN  /\ Stands(n, D) /\ m.head[l] = Head(C[l]) /\ m.head[l] \in Slots
             /\ Unlisted(m.head[l], D)
             /\ m.next[m.head[l]] = NoTask <=> Tail(C[l]) = << >>
             /\ m.head[l] = m.tail[l] <=> Tail(C[l]) = << >>
<1> DEFINE D == With(C, l, Tail(C[l]))
           h == m.head[l]
<1>0. /\ Memory(n) /\ n.head = [m.head EXCEPT ![l] = m.next[h]]
      /\ \A x \in Slots : x # h => n.next[x] = m.next[x]
      /\ \A k \in Lists : k # l => n.tail[k] = m.tail[k]
      /\ n.tail[l] = m.tail[l] \/ n.head[l] = NoTask
  BY DEF Drops
<1>1. /\ C[l] \in Seq(Slots) /\ NoRepeat(C[l]) /\ LinkedAs(m, l, C[l])
      /\ h = Head(C[l]) /\ h \in Slots /\ In(h, C[l])
  BY HeadIs
<1>2. /\ m.head \in [Lists -> Slots \cup {NoTask}]
      /\ Apart(C) /\ \A k \in Lists : LinkedAs(m, k, C[k])
  BY DEF Stands, Memory
<1>3. n.head[l] = m.next[h] /\ \A k \in Lists : k # l => n.head[k] = m.head[k]
  BY <1>0, <1>2
<1>4. /\ Tail(C[l]) \in Seq(Slots) /\ NoRepeat(Tail(C[l]))
      /\ \A x \in Slots : In(x, Tail(C[l])) <=> In(x, C[l]) /\ x # h
  BY <1>1, TailTask
<1>5. Apart(D) /\ \A k \in Lists : D[k] = IF k = l THEN Tail(C[l]) ELSE C[k]
  <2> DEFINE a == Tail(C[l])
  <2>1. /\ a \in Seq(Slots) /\ NoRepeat(a)
        /\ \A x \in Slots : In(x, a) => In(x, C[l]) \/ Unlisted(x, C)
    BY <1>4
  <2> HIDE DEF a
  <2>2. Apart(With(C, l, a)) /\ \A k \in Lists : With(C, l, a)[k] = IF k = l THEN a ELSE C[k]
    BY <1>2, <2>1, ApartWith
  <2> QED BY <2>2 DEF a
<1> HIDE DEF D
<1>6. /\ LinkedAs(n, l, Tail(C[l]))
      /\ m.next[h] = NoTask <=> Tail(C[l]) = << >>
      /\ h = m.tail[l] <=> Tail(C[l]) = << >>
  <2>1. \A x \in Slots : In(x, C[l]) /\ x # m.head[l] => n.next[x] = m.next[x]
    BY <1>0
  <2>2. n.head[l] = m.next[m.head[l]]
    BY <1>3
  <2> DEFINE list == C[l]
  <2>3. /\ list \in Seq(Slots) /\ NoRepeat(list) /\ list # << >> /\ LinkedAs(m, l, list)
        /\ n.tail[l] = m.tail[l] \/ n.head[l] = NoTask
        /\ TailKept(n, m, l, list)
    BY <1>0, <1>1, <2>1 DEF TailKept
  <2> HIDE DEF list
  <2>4. /\ LinkedAs(n, l, Tail(list))
        /\ m.head[l] = Head(list)
        /\ m.next[m.head[l]] = NoTask <=> Tail(list) = << >>
        /\ m.head[l] = m.tail[l] <=> Tail(list) = << >>
    BY ONLY <2>2, <2>3, LinkedTail
  <2> QED BY <2>4 DEF list
<1>7. ASSUME NEW k \in Lists, k # l PROVE LinkedAs(n, k, C[k])
  <2>1. C[k] \in Seq(Slots) /\ LinkedAs(m, k, C[k])
    BY <1>2 DEF Apart
  <2>2. ASSUME NEW x \in Slots, In(x, C[k]) PROVE n.next[x] = m.next[x]
    <3>1. x # m.head[l]
      BY <1>1, <1>2, <1>7, <2>2 DEF Apart
    <3> QED BY <1>0, <3>1
  <2>3. n.head[k] = m.head[k] /\ n.tail[k] = m.tail[k]
    BY <1>0, <1>3, <1>7
  <2> QED BY <2>1, <2>2, <2>3, LinkedFrame
<1>8. Unlisted(h, D)
  BY <1>1, <1>2, <1>4, <1>5 DEF Unlisted, Apart
<1>9. Stands(n, D)
  BY <1>0, <1>5, <1>6, <1>7 DEF Stands
<1> QED BY <1>1, <1>6, <1>8, <1>9 DEF D

-----------------------------------------------------------------------------
(* The memory stands for the lists: all pointers, the heap and the head of *)
(* the ready queue.                                                        *)

\* The lists have different names.
LEMMA ListNames ==
  /\ FreeList \in Lists
  /\ \A p \in Priorities : ReadyList(p) \in Lists /\ ReadyList(p) # FreeList
  /\ \A s \in Slots : ReceiveList(s) \in Lists /\ ReceiveList(s) # FreeList
  /\ \A e \in Events : EventList(e) \in Lists /\ EventList(e) # FreeList
  /\ \A p, q : ReadyList(p) = ReadyList(q) => p = q
  /\ \A p, q : ReceiveList(p) = ReceiveList(q) => p = q
  /\ \A p, q : EventList(p) = EventList(q) => p = q
  /\ \A p, s : ReadyList(p) # ReceiveList(s) /\ ReadyList(p) # EventList(s)
               /\ ReceiveList(p) # EventList(s)
  /\ \A l \in Lists : \/ l = FreeList \/ \E p \in Priorities : l = ReadyList(p)
                      \/ \E s \in Slots : l = ReceiveList(s)
                      \/ \E e \in Events : l = EventList(e)
BY DEF Lists, FreeList, ReadyList, ReceiveList, EventList

\* The heap has the priorities with a task.
HeapRep(m, C) ==
  /\ HeapOf(m.heap, Priorities) /\ Ordered(m.heap)
  /\ m.heap.key = [p \in Priorities |-> p]
  /\ \A p \in Priorities : In(p, m.heap.data) <=> C[ReadyList(p)] # << >>

\* p is the highest priority with a task.
Highest(C, p) ==
  /\ C[ReadyList(p)] # << >>
  /\ \A q \in Priorities : q < p => C[ReadyList(q)] = << >>

FirstOK(m, C) ==
  \A p \in Priorities : Highest(C, p) => m.first = Head(C[ReadyList(p)])

Rep(m, C) == Stands(m, C) /\ HeapRep(m, C) /\ FirstOK(m, C)

\* The root of the heap is the highest priority with a task.
LEMMA RootIs ==
  ASSUME NEW m, NEW C, HeapRep(m, C), NEW p \in Priorities, Highest(C, p)
  PROVE  /\ m.heap.data # << >> /\ m.heap.data[1] = p
         /\ HeapSize(m.heap) # 0 /\ At(m.heap, 0) = p
<1> DEFINE h == m.heap
<1>1. /\ HeapOf(h, Priorities) /\ Ordered(h) /\ h.key = [q \in Priorities |-> q]
      /\ \A q \in Priorities : In(q, h.data) <=> C[ReadyList(q)] # << >>
  BY DEF HeapRep
<1> HIDE DEF h
<1>2. /\ Size(h) \in Nat /\ Size(h) = Len(h.data)
      /\ \A i \in 0 .. Size(h) - 1 :
           h.data[i + 1] \in Priorities /\ At(h, i) = h.data[i + 1] /\ K(h, i) = h.key[h.data[i + 1]]
  BY <1>1, HeapTypes DEF Size, HeapSize
<1>3. PICK j \in 1 .. Len(h.data) : h.data[j] = p
  BY <1>1 DEF Highest, In
<1>4. /\ j - 1 \in 0 .. Size(h) - 1 /\ 0 \in 0 .. Size(h) - 1
      /\ (j - 1) + 1 = j /\ 0 + 1 = 1 /\ Size(h) # 0 /\ 1 \in 1 .. Len(h.data)
  BY <1>2, <1>3
<1>5. K(h, 0) <= K(h, j - 1)
  BY <1>1, <1>4, RootIsLeast
<1>6. /\ h.data[1] \in Priorities /\ K(h, 0) = h.data[1] /\ K(h, j - 1) = p
      /\ At(h, 0) = h.data[1]
  <2>1. \A i \in 0 .. Size(h) - 1 : K(h, i) = h.data[i + 1]
    BY <1>1, <1>2
  <2>2. K(h, 0) = h.data[0 + 1] /\ h.data[0 + 1] \in Priorities /\ At(h, 0) = h.data[0 + 1]
    BY <1>2, <1>4, <2>1
  <2>3. K(h, j - 1) = h.data[(j - 1) + 1]
    BY <1>4, <2>1
  <2> QED BY <1>3, <1>4, <2>2, <2>3
<1>7. In(h.data[1], h.data)
  BY <1>4 DEF In
<1>8. C[ReadyList(h.data[1])] # << >>
  BY <1>1, <1>6, <1>7
<1>9. h.data[1] = p
  <2>1. ~ (h.data[1] < p)
    BY <1>6, <1>8 DEF Highest
  <2>2. h.data[1] \in Int /\ p \in Int
    BY <1>6, KernelAssumption DEF Priorities
  <2> QED BY <1>5, <1>6, <2>1, <2>2
<1>10. h.data # << >>
  BY <1>7 DEF In
<1> QED BY <1>4, <1>6, <1>9, <1>10 DEF h, Size

\* Memory with the same lists.
LEMMA SameLists ==
  ASSUME NEW m, NEW C, Stands(m, C), NEW n, Memory(n),
         n.next = m.next, n.head = m.head, n.tail = m.tail
  PROVE  Stands(n, C)
<1>1. Apart(C) /\ \A l \in Lists : LinkedAs(m, l, C[l])
  BY DEF Stands
<1>2. ASSUME NEW l \in Lists PROVE LinkedAs(n, l, C[l])
  BY <1>1 DEF LinkedAs
<1> QED BY <1>1, <1>2 DEF Stands

\* The head is updated from the root.
LEMMA UpdateHeadOK ==
  ASSUME NEW m, NEW C, Stands(m, C), HeapRep(m, C)
  PROVE  Rep(UpdateHead(m), C)
<1> DEFINE n == UpdateHead(m)
           x == IF HeapSize(m.heap) = 0 THEN NoTask
                ELSE m.head[ReadyList(At(m.heap, 0))]
<1>1. Memory(m)
  BY DEF Stands
<1>2. n = [m EXCEPT !.first = x]
  BY DEF UpdateHead
<1> HIDE DEF n, x
<1>3. n = [next |-> m.next, head |-> m.head, tail |-> m.tail, heap |-> m.heap, first |-> x]
  BY <1>1, <1>2 DEF Memory
<1>4. n.next = m.next /\ n.head = m.head /\ n.tail = m.tail /\ n.heap = m.heap /\ n.first = x
  BY <1>3
<1>5. Memory(n)
  BY <1>1, <1>3, <1>4 DEF Memory
<1>6. Stands(n, C)
  BY <1>4, <1>5, SameLists
<1>7. HeapRep(n, C)
  BY <1>4 DEF HeapRep
<1>8. FirstOK(n, C)
  <2> SUFFICES ASSUME NEW p \in Priorities, Highest(C, p)
               PROVE  n.first = Head(C[ReadyList(p)])
    BY DEF FirstOK
  <2>1. HeapSize(m.heap) # 0 /\ At(m.heap, 0) = p
    BY RootIs
  <2>2. x = m.head[ReadyList(p)]
    BY <2>1 DEF x
  <2>3. ReadyList(p) \in Lists /\ C[ReadyList(p)] # << >>
    BY ListNames DEF Highest
  <2>4. m.head[ReadyList(p)] = Head(C[ReadyList(p)])
    BY <2>3, HeadIs
  <2> QED BY <1>4, <2>2, <2>4
<1> QED BY <1>6, <1>7, <1>8 DEF Rep, n

\* Lists that are not of the ready queue change, and nothing else.
LEMMA SameReady ==
  ASSUME NEW m, NEW C, Rep(m, C), NEW n, NEW D, Stands(n, D),
         n.heap = m.heap, n.first = m.first,
         \A p \in Priorities : D[ReadyList(p)] = C[ReadyList(p)]
  PROVE  Rep(n, D)
<1>1. HeapRep(n, D)
  BY DEF Rep, HeapRep
<1>2. FirstOK(n, D)
  BY DEF Rep, FirstOK, Highest
<1> QED BY <1>1, <1>2 DEF Rep

\* A list with another name is as it was.
LEMMA WithIs ==
  ASSUME NEW C, C \in [Lists -> Seq(Slots)], NEW l \in Lists, NEW list
  PROVE  \A k \in Lists : With(C, l, list)[k] = IF k = l THEN list ELSE C[k]
BY DEF With

\* insertTask: the task is the last of its priority.
LEMMA InsertOK ==
  ASSUME NEW m, NEW C, Rep(m, C), NEW s \in Slots, Unlisted(s, C), NEW p \in Priorities
  PROVE  Rep(insertTask(m, s, p), With(C, ReadyList(p), Append(C[ReadyList(p)], s)))
<1> DEFINE l == ReadyList(p)
           D == With(C, l, Append(C[l], s))
           a == Enqueue(m, l, s)
           h == IF m.head[l] = NoTask THEN minHeapInsert(m.heap, p) ELSE m.heap
           n == [a EXCEPT !.heap = h]
<1>1. l \in Lists
  BY ListNames
<1>2. Stands(m, C) /\ HeapRep(m, C) /\ C \in [Lists -> Seq(Slots)]
  BY DEF Rep, Stands, Apart
<1>3. Stands(a, D) /\ a.heap = m.heap
  BY <1>1, <1>2, EnqueueStands
<1>4. insertTask(m, s, p) = UpdateHead(n)
  BY DEF insertTask
<1>5. Memory(a)
  BY <1>3 DEF Stands
<1> HIDE DEF a, h
<1>6. n = [next |-> a.next, head |-> a.head, tail |-> a.tail, heap |-> h, first |-> a.first]
  BY <1>5 DEF Memory
<1> HIDE DEF n
<1>7. /\ n.next = a.next /\ n.head = a.head /\ n.tail = a.tail /\ n.heap = h
      /\ Memory(n)
  BY <1>5, <1>6 DEF Memory
<1>8. Stands(n, D)
  <2> HIDE DEF D
  <2> QED BY <1>3, <1>7, SameLists
<1>9. C[l] \in Seq(Slots) /\ (m.head[l] = NoTask <=> C[l] = << >>)
  BY <1>1, <1>2, HeadIs
<1>10. \A q \in Priorities :
         D[ReadyList(q)] = IF q = p THEN Append(C[l], s) ELSE C[ReadyList(q)]
  <2>1. \A k \in Lists : D[k] = IF k = l THEN Append(C[l], s) ELSE C[k]
    BY <1>1, <1>2, WithIs
  <2> QED BY <2>1, ListNames
<1>11. Append(C[l], s) # << >>
  BY <1>9
<1> HIDE DEF D
<1>12. /\ HeapOf(m.heap, Priorities) /\ Ordered(m.heap) /\ m.heap.key = [q \in Priorities |-> q]
       /\ \A q \in Priorities : In(q, m.heap.data) <=> C[ReadyList(q)] # << >>
  BY <1>2 DEF HeapRep
<1>13. HeapRep(n, D)
  <2>1. CASE m.head[l] = NoTask
    <3>1. ~ In(p, m.heap.data)
      BY <1>9, <1>12, <2>1
    <3>2. /\ HeapOf(h, Priorities) /\ Ordered(h) /\ h.key = m.heap.key
          /\ \A x : In(x, h.data) <=> In(x, m.heap.data) \/ x = p
      <4>1. h = minHeapInsert(m.heap, p)
        BY <2>1 DEF h
      <4>2. ~ Holds(p, m.heap.data)
        BY <3>1, InHeap
      <4>3. /\ HeapOf(h, Priorities) /\ Ordered(h) /\ h.key = m.heap.key
            /\ \A x : Holds(x, h.data) <=> Holds(x, m.heap.data) \/ x = p
        BY <1>12, <4>1, <4>2, HeapInsert
      <4> QED BY <4>3, InHeap
    <3> QED BY <1>7, <1>10, <1>11, <1>12, <3>2 DEF HeapRep
  <2>2. CASE m.head[l] # NoTask
    <3>1. h = m.heap /\ C[l] # << >>
      BY <1>9, <2>2 DEF h
    <3> QED BY <1>7, <1>10, <1>11, <1>12, <3>1 DEF HeapRep
  <2> QED BY <2>1, <2>2
<1>14. Rep(UpdateHead(n), D)
  BY <1>8, <1>13, UpdateHeadOK
<1> QED BY <1>4, <1>14 DEF D

\* enqueueBlockedList and the end of removeCurrentTask: a list that is not of
\* the ready queue.
LEMMA EnqueueOK ==
  ASSUME NEW m, NEW C, Rep(m, C), NEW s \in Slots, Unlisted(s, C),
         NEW l \in Lists, \A p \in Priorities : ReadyList(p) # l
  PROVE  Rep(Enqueue(m, l, s), With(C, l, Append(C[l], s)))
<1> DEFINE D == With(C, l, Append(C[l], s))
           n == Enqueue(m, l, s)
<1>1. Stands(m, C) /\ C \in [Lists -> Seq(Slots)]
  BY DEF Rep, Stands, Apart
<1>2. Stands(n, D) /\ n.heap = m.heap /\ n.first = m.first
  BY <1>1, EnqueueStands
<1>3. \A p \in Priorities : D[ReadyList(p)] = C[ReadyList(p)]
  <2>1. \A k \in Lists : D[k] = IF k = l THEN Append(C[l], s) ELSE C[k]
    BY <1>1, WithIs
  <2> QED BY <2>1, ListNames
<1> HIDE DEF n, D
<1>4. Rep(n, D)
  BY <1>2, <1>3, SameReady
<1> QED BY <1>4 DEF n, D

\* createTask: the first descriptor leaves the free list.
LEMMA CreateOK ==
  ASSUME NEW m, NEW C, Rep(m, C), C[FreeList] # << >>
  PROVE  LET D == With(C, FreeList, Tail(C[FreeList]))
             s == m.head[FreeList]
         IN  Rep(createTask(m), D) /\ s = Head(C[FreeList]) /\ s \in Slots /\ Unlisted(s, D)
<1> DEFINE l == FreeList
           D == With(C, l, Tail(C[l]))
           s == m.head[l]
           n == createTask(m)
           H == [m.head EXCEPT ![l] = m.next[s]]
           N == [m.next EXCEPT ![s] = NoTask]
<1>1. l \in Lists
  BY ListNames
<1>2. Stands(m, C) /\ Memory(m) /\ C \in [Lists -> Seq(Slots)]
  BY DEF Rep, Stands, Apart
<1>3. s \in Slots
  BY <1>1, <1>2, HeadIs
<1>4. n = [next |-> N, head |-> H, tail |-> m.tail, heap |-> m.heap, first |-> m.first]
  <2>1. n = [m EXCEPT !.head = H, !.next = N]
    BY <1>2 DEF createTask, Memory
  <2> HIDE DEF n, H, N
  <2> QED BY <1>2, <2>1 DEF Memory
<1>5. N \in [Slots -> Slots \cup {NoTask}] /\ H \in [Lists -> Slots \cup {NoTask}]
      /\ \A x \in Slots : x # s => N[x] = m.next[x]
  BY <1>1, <1>2, <1>3 DEF Memory
<1> HIDE DEF n, N
<1>6. /\ Memory(n) /\ n.next = N /\ n.head = H /\ n.tail = m.tail
      /\ n.heap = m.heap /\ n.first = m.first
  <2> HIDE DEF H
  <2> QED BY <1>2, <1>4, <1>5 DEF Memory
<1>d. Drops(n, m, l)
  <2> HIDE DEF l
  <2> QED BY <1>2, <1>5, <1>6 DEF Drops
<1>c. C[l] # << >>
  OBVIOUS
<1>7. Stands(n, D) /\ s = Head(C[l]) /\ Unlisted(s, D)
  BY ONLY <1>1, <1>2, <1>c, <1>d, DropStands
<1>8. \A p \in Priorities : D[ReadyList(p)] = C[ReadyList(p)]
  <2>1. \A k \in Lists : D[k] = IF k = l THEN Tail(C[l]) ELSE C[k]
    BY <1>1, <1>2, WithIs
  <2> QED BY <2>1, ListNames
<1> HIDE DEF D, s
<1>9. Rep(n, D)
  BY <1>6, <1>7, <1>8, SameReady
<1> QED BY <1>3, <1>7, <1>9 DEF n, D, s

\* dequeueBlockedList: the first task leaves a list that is not of the ready
\* queue.
LEMMA DequeueOK ==
  ASSUME NEW m, NEW C, Rep(m, C), NEW l \in Lists, C[l] # << >>,
         \A p \in Priorities : ReadyList(p) # l
  PROVE  LET D == With(C, l, Tail(C[l]))
             s == m.head[l]
         IN  Rep(dequeueBlockedList(m, l), D) /\ s = Head(C[l]) /\ s \in Slots /\ Unlisted(s, D)
<1> DEFINE D == With(C, l, Tail(C[l]))
           s == m.head[l]
           n == dequeueBlockedList(m, l)
           H == [m.head EXCEPT ![l] = m.next[s]]
           T == [m.tail EXCEPT ![l] = IF m.next[s] = NoTask THEN NoTask ELSE @]
<1>2. Stands(m, C) /\ Memory(m) /\ C \in [Lists -> Seq(Slots)]
  BY DEF Rep, Stands, Apart
<1>3. s \in Slots
  BY <1>2, HeadIs
<1>4. n = [next |-> m.next, head |-> H, tail |-> T, heap |-> m.heap, first |-> m.first]
  <2>1. n = [m EXCEPT !.head = H, !.tail = T]
    BY <1>2 DEF dequeueBlockedList, Memory
  <2> HIDE DEF n, H, T
  <2> QED BY <1>2, <2>1 DEF Memory
<1>5. /\ T \in [Lists -> Slots \cup {NoTask}]
      /\ H \in [Lists -> Slots \cup {NoTask}]
      /\ \A k \in Lists : k # l => T[k] = m.tail[k]
      /\ H[l] = m.next[s] /\ (T[l] = m.tail[l] \/ m.next[s] = NoTask)
  BY <1>2, <1>3 DEF Memory
<1> HIDE DEF n, T
<1>6. /\ Memory(n) /\ n.next = m.next /\ n.head = H /\ n.tail = T
      /\ n.heap = m.heap /\ n.first = m.first
  <2> HIDE DEF H
  <2> QED BY <1>2, <1>4, <1>5 DEF Memory
<1>d. Drops(n, m, l)
  <2> HIDE DEF H
  <2>1. n.next = m.next /\ n.head = H /\ n.tail = T /\ Memory(n)
    BY <1>6
  <2>2. n.head[l] = m.next[s] /\ (n.tail[l] = m.tail[l] \/ n.head[l] = NoTask)
    BY ONLY <1>5, <2>1
  <2>3. \A k \in Lists : k # l => n.tail[k] = m.tail[k]
    BY ONLY <1>5, <2>1
  <2> QED BY ONLY <2>1, <2>2, <2>3 DEF Drops, H
<1>7. Stands(n, D) /\ s = Head(C[l]) /\ Unlisted(s, D)
  BY <1>2, <1>d, DropStands
<1>8. \A p \in Priorities : D[ReadyList(p)] = C[ReadyList(p)]
  <2>1. \A k \in Lists : D[k] = IF k = l THEN Tail(C[l]) ELSE C[k]
    BY <1>2, WithIs
  <2> QED BY <2>1, ListNames
<1> HIDE DEF D, s
<1>9. Rep(n, D)
  BY <1>6, <1>7, <1>8, SameReady
<1> QED BY <1>3, <1>7, <1>9 DEF n, D, s

\* curtask heads the list of the highest priority.
CurtaskFirst(C) ==
  /\ curtask \in Slots /\ priority[curtask] \in Priorities
  /\ Highest(C, priority[curtask])
  /\ curtask = Head(C[ReadyList(priority[curtask])])

\* blockCurrentTask: curtask leaves its list, and with the last task of the
\* list its priority leaves the heap.
LEMMA BlockOK ==
  ASSUME NEW m, NEW C, Rep(m, C), CurtaskFirst(C)
  PROVE  LET l == ReadyList(priority[curtask])
             D == With(C, l, Tail(C[l]))
         IN  Rep(blockCurrentTask(m), D) /\ Unlisted(curtask, D)
<1> DEFINE p == priority[curtask]
           l == ReadyList(p)
           D == With(C, l, Tail(C[l]))
           s == m.head[l]
           n == LeaveReadyList(m)
           alone == m.next[s] = NoTask
           H == [m.head EXCEPT ![l] = m.next[s]]
           T == IF alone THEN [m.tail EXCEPT ![l] = NoTask] ELSE m.tail
           P == IF alone THEN minHeapPop(m.heap) ELSE m.heap
<1>1. /\ p \in Priorities /\ Highest(C, p) /\ C[l] # << >> /\ curtask = Head(C[l]) /\ l \in Lists
      /\ curtask \in Slots
  BY ListNames DEF CurtaskFirst, Highest
<1>2. Stands(m, C) /\ Memory(m) /\ HeapRep(m, C) /\ C \in [Lists -> Seq(Slots)]
  BY DEF Rep, Stands, Apart
<1>3. s = curtask /\ s \in Slots
  BY <1>1, <1>2, HeadIs
<1>4. n = [next |-> m.next, head |-> H, tail |-> T, heap |-> P, first |-> m.first]
  <2>1. CASE alone
    <3>1. n = [m EXCEPT !.head = [m.head EXCEPT ![l] = NoTask], !.tail = [m.tail EXCEPT ![l] = NoTask],
                        !.heap = minHeapPop(m.heap)]
      BY <1>2, <1>3, <2>1 DEF LeaveReadyList, Memory
    <3>2. H = [m.head EXCEPT ![l] = NoTask] /\ T = [m.tail EXCEPT ![l] = NoTask]
          /\ P = minHeapPop(m.heap)
      BY <2>1
    <3> HIDE DEF n, H, T, P
    <3>3. n = [m EXCEPT !.head = H, !.tail = T, !.heap = P]
      BY <3>1, <3>2
    <3> QED BY <1>2, <3>3 DEF Memory
  <2>2. CASE ~ alone
    <3>1. n = [m EXCEPT !.head = H]
      BY <1>2, <1>3, <2>2 DEF LeaveReadyList, Memory
    <3>2. T = m.tail /\ P = m.heap
      BY <2>2
    <3> HIDE DEF n, H, T, P
    <3> QED BY <1>2, <3>1, <3>2 DEF Memory
  <2> QED BY <2>1, <2>2
<1>5. /\ T \in [Lists -> Slots \cup {NoTask}]
      /\ H \in [Lists -> Slots \cup {NoTask}]
      /\ \A k \in Lists : k # l => T[k] = m.tail[k]
      /\ H[l] = m.next[s] /\ (T[l] = m.tail[l] \/ H[l] = NoTask)
  <2>1. H \in [Lists -> Slots \cup {NoTask}] /\ H[l] = m.next[s]
    BY <1>1, <1>2, <1>3 DEF Memory
  <2>2. CASE alone
    BY <1>1, <1>2, <2>1, <2>2 DEF Memory
  <2>3. CASE ~ alone
    <3>1. T = m.tail
      BY <2>3
    <3> QED BY <1>2, <2>1, <3>1 DEF Memory
  <2> QED BY <2>2, <2>3
<1> HIDE DEF n, T, P
<1>6. /\ Memory(n) /\ n.next = m.next /\ n.head = H /\ n.tail = T /\ n.heap = P
  <2> HIDE DEF H
  <2> QED BY <1>2, <1>4, <1>5 DEF Memory
<1>7. Stands(n, D) /\ s = Head(C[l]) /\ Unlisted(s, D) /\ (alone <=> Tail(C[l]) = << >>)
  <2>1. Drops(n, m, l)
    <3> HIDE DEF H
    <3>1. n.next = m.next /\ n.head = H /\ n.tail = T /\ Memory(n)
      BY <1>6
    <3>2. n.head[l] = m.next[s] /\ (n.tail[l] = m.tail[l] \/ n.head[l] = NoTask)
      BY ONLY <1>5, <3>1
    <3>3. \A k \in Lists : k # l => n.tail[k] = m.tail[k]
      BY ONLY <1>5, <3>1
    <3> QED BY ONLY <3>1, <3>2, <3>3 DEF Drops, H
  <2> QED BY ONLY <1>1, <1>2, <2>1, DropStands
<1>8. \A q \in Priorities :
        D[ReadyList(q)] = IF q = p THEN Tail(C[l]) ELSE C[ReadyList(q)]
  <2>1. \A k \in Lists : D[k] = IF k = l THEN Tail(C[l]) ELSE C[k]
    BY <1>1, <1>2, WithIs
  <2> QED BY <2>1, ListNames
<1>9. /\ HeapOf(m.heap, Priorities) /\ Ordered(m.heap) /\ m.heap.key = [q \in Priorities |-> q]
      /\ \A q \in Priorities : In(q, m.heap.data) <=> C[ReadyList(q)] # << >>
  BY <1>2 DEF HeapRep
<1>10. HeapRep(n, D)
  <2>1. CASE alone
    <3>1. m.heap.data # << >> /\ m.heap.data[1] = p
      BY <1>1, <1>2, RootIs
    <3>2. /\ HeapOf(P, Priorities) /\ Ordered(P) /\ P.key = m.heap.key
          /\ \A x : In(x, P.data) <=> In(x, m.heap.data) /\ x # p
      <4>1. P = minHeapPop(m.heap)
        BY <2>1 DEF P
      <4> DEFINE h == m.heap
      <4>2. HeapOf(h, Priorities) /\ Ordered(h) /\ h.data # << >> /\ h.data[1] = p
        BY <1>9, <3>1
      <4>3. P = minHeapPop(h)
        BY <4>1
      <4> HIDE DEF h
      <4>4. /\ HeapOf(P, Priorities) /\ Ordered(P) /\ P.key = h.key
            /\ \A x : Holds(x, P.data) <=> Holds(x, h.data) /\ x # h.data[1]
        BY ONLY <4>2, <4>3, HeapPop
      <4> QED BY <4>2, <4>4, InHeap DEF h
    <3>3. Tail(C[l]) = << >>
      BY <1>7, <2>1
    <3> HIDE DEF D
    <3> QED BY <1>6, <1>8, <1>9, <3>2, <3>3 DEF HeapRep
  <2>2. CASE ~ alone
    <3>1. P = m.heap /\ Tail(C[l]) # << >>
      BY <1>7, <2>2 DEF P
    <3> HIDE DEF D
    <3> QED BY <1>1, <1>6, <1>8, <1>9, <3>1 DEF HeapRep
  <2> QED BY <2>1, <2>2
<1>11. Rep(UpdateHead(n), D)
  <2> HIDE DEF D
  <2> QED BY <1>7, <1>10, UpdateHeadOK
<1> QED BY <1>3, <1>7, <1>11 DEF blockCurrentTask, n

\* moveCurrentTaskToEnd: the list of curtask is rotated.
LEMMA MoveOK ==
  ASSUME NEW m, NEW C, Rep(m, C), NEW l, l = ReadyList(priority[curtask]),
         priority[curtask] \in Priorities, C[l] # << >>, curtask = Head(C[l])
  PROVE  Rep(moveCurrentTaskToEnd(m), With(C, l, Append(Tail(C[l]), Head(C[l]))))
<1> DEFINE a == [m EXCEPT !.head[l] = m.next[@]]
           D == With(C, l, Tail(C[l]))
           s == m.head[l]
           E == With(C, l, Append(Tail(C[l]), Head(C[l])))
           H == [m.head EXCEPT ![l] = m.next[s]]
<1>1. l \in Lists
  BY ListNames
<1>2. Stands(m, C) /\ Memory(m) /\ HeapRep(m, C) /\ C \in [Lists -> Seq(Slots)] /\ C[l] \in Seq(Slots)
  BY <1>1 DEF Rep, Stands, Apart
<1>3. s = curtask /\ s \in Slots
  BY <1>1, <1>2, HeadIs
<1>4. a = [next |-> m.next, head |-> H, tail |-> m.tail, heap |-> m.heap, first |-> m.first]
  <2>1. a = [m EXCEPT !.head = H]
    BY <1>2 DEF Memory
  <2> HIDE DEF a, H
  <2> QED BY <1>2, <2>1 DEF Memory
<1>5. H \in [Lists -> Slots \cup {NoTask}]
  BY <1>1, <1>2, <1>3 DEF Memory
<1> HIDE DEF a
<1>6. /\ Memory(a) /\ a.next = m.next /\ a.head = H /\ a.tail = m.tail /\ a.heap = m.heap
      /\ a.first = m.first
  <2> HIDE DEF H
  <2> QED BY <1>2, <1>4, <1>5 DEF Memory
<1>7. /\ Stands(a, D) /\ s = Head(C[l]) /\ Unlisted(s, D)
      /\ s = m.tail[l] <=> Tail(C[l]) = << >>
  <2>1. Drops(a, m, l)
    BY <1>2, <1>6 DEF Drops
  <2>2. C[l] # << >>
    OBVIOUS
  <2> QED BY ONLY <1>1, <1>2, <2>1, <2>2, DropStands
<1>8. \A k \in Lists : E[k] = IF k = l THEN Append(Tail(C[l]), Head(C[l])) ELSE C[k]
  BY <1>1, <1>2, WithIs
<1>9. \A q \in Priorities : E[ReadyList(q)] # << >> <=> C[ReadyList(q)] # << >>
  <2> DEFINE list == C[l]
  <2>2. list \in Seq(Slots) /\ list # << >>
    BY <1>2
  <2> HIDE DEF list
  <2> DEFINE t == Tail(list)
             h == Head(list)
  <2>3. t \in Seq(Slots) /\ h \in Slots
    BY <2>2, HeadTail
  <2> HIDE DEF t, h
  <2>4. Append(t, h) # << >>
    BY <2>3
  <2>1. Append(Tail(C[l]), Head(C[l])) # << >>
    BY <2>4 DEF list, t, h
  <2> QED BY <1>8, <2>1, ListNames
<1>10. CASE s = m.tail[l]
  <2>1. moveCurrentTaskToEnd(m) = UpdateHead(m)
    BY <1>10 DEF moveCurrentTaskToEnd
  <2>2. Append(Tail(C[l]), Head(C[l])) = C[l]
    <3>1. Tail(C[l]) = << >>
      BY <1>7, <1>10
    <3> DEFINE list == C[l]
    <3>2. list \in Seq(Slots) /\ list # << >> /\ Tail(list) = << >>
      BY <1>2, <3>1
    <3> HIDE DEF list
    <3>3. Append(Tail(list), Head(list)) = list
      <4>1. Len(list) = 1 /\ Head(list) = list[1] /\ Head(list) \in Slots
        <5>1. Len(Tail(list)) = Len(list) - 1 /\ Len(list) \in Nat /\ Head(list) \in Slots
          BY ONLY <3>2, HeadTail
        <5>2. Len(Tail(list)) = 0
          <6> DEFINE t == Tail(list)
          <6>1. t = << >>
            BY <3>2
          <6> HIDE DEF t
          <6>2. Len(t) = 0
            BY <6>1
          <6> QED BY <6>2 DEF t
        <5>3. Len(list) = 1
          BY <5>1, <5>2
        <5> QED BY <3>2, <5>1, <5>3
      <4> DEFINE w == Append(<< >>, Head(list))
      <4>2. w \in Seq(Slots) /\ Len(w) = 1 /\ w[1] = list[1]
        BY <4>1
      <4> HIDE DEF w
      <4>3. w = list
        BY <3>2, <4>1, <4>2, SameItems
      <4> QED BY <3>2, <4>3 DEF w
    <3> QED BY <3>3 DEF list
  <2>3. E = C
    BY <1>1, <1>2, <2>2 DEF With
  <2>4. Rep(UpdateHead(m), C)
    BY <1>2, UpdateHeadOK
  <2> QED BY <2>1, <2>3, <2>4
<1>11. CASE s # m.tail[l]
  <2> DEFINE n == Enqueue(a, l, s)
             F == With(D, l, Append(D[l], s))
             b == [m EXCEPT !.head[l] = m.next[@], !.next[m.tail[l]] = curtask,
                            !.next[curtask] = NoTask, !.tail[l] = curtask]
             M == [[m.next EXCEPT ![m.tail[l]] = curtask] EXCEPT ![curtask] = NoTask]
             L == [[m.next EXCEPT ![s] = NoTask] EXCEPT ![m.tail[l]] = s]
             T == [m.tail EXCEPT ![l] = s]
  <2>1. moveCurrentTaskToEnd(m) = UpdateHead(b)
    BY <1>11 DEF moveCurrentTaskToEnd
  <2>2. D[l] = Tail(C[l]) /\ D[l] # << >> /\ a.head[l] # NoTask
    <3>1. D[l] = Tail(C[l])
      BY <1>1, <1>2 DEF With
    <3>2. D[l] # << >>
      BY <1>7, <1>11, <3>1
    <3> HIDE DEF D
    <3> QED BY <1>1, <1>7, <3>1, <3>2, HeadIs
  <2>3. n = [next |-> L, head |-> H, tail |-> T, heap |-> m.heap, first |-> m.first]
    <3>1. n = [a EXCEPT !.next = [[a.next EXCEPT ![s] = NoTask] EXCEPT ![a.tail[l]] = s],
                        !.tail = [a.tail EXCEPT ![l] = s]]
      BY <1>6, <2>2 DEF Enqueue, Memory
    <3>2. n = [a EXCEPT !.next = L, !.tail = T]
      BY <1>6, <3>1
    <3> HIDE DEF n, L, T, H
    <3> QED BY <1>4, <3>2
  <2>4. b = [next |-> M, head |-> H, tail |-> T, heap |-> m.heap, first |-> m.first]
    <3>1. b = [m EXCEPT !.head = H, !.next = M, !.tail = T]
      BY <1>2, <1>3 DEF Memory
    <3> HIDE DEF b, M, T, H
    <3> QED BY <1>2, <3>1 DEF Memory
  <2>5. M = L
    BY <1>2, <1>3, <1>11 DEF Memory
  <2>6. n = b
    BY <2>3, <2>4, <2>5
  <2>7. Stands(n, F) /\ n.heap = m.heap
    <3>1. Stands(a, D) /\ Unlisted(s, D) /\ s \in Slots /\ l \in Lists /\ a.heap = m.heap
      BY <1>1, <1>3, <1>6, <1>7
    <3> HIDE DEF D, s
    <3> QED BY ONLY <3>1, EnqueueStands
  <2>8. F = E
    BY <1>1, <1>2, <1>3, <1>7, <2>2 DEF With
  <2> HIDE DEF n, b, E, F
  <2>9. HeapRep(n, E)
    BY <1>2, <1>9, <2>7 DEF HeapRep
  <2>10. Rep(UpdateHead(n), E)
    BY <2>7, <2>8, <2>9, UpdateHeadOK
  <2> QED BY <2>1, <2>6, <2>10 DEF E
<1> QED BY <1>10, <1>11

-----------------------------------------------------------------------------
(* The lists of Kernel, by name.                                           *)

NamesOf(C, fl, rl, rc, ev) ==
  /\ C \in [Lists -> Seq(Slots)]
  /\ rl \in [Priorities -> Seq(Slots)]
  /\ rc \in [Slots -> Seq(Slots)]
  /\ ev \in [Events -> Seq(Slots)]
  /\ C[FreeList] = fl
  /\ \A p \in Priorities : C[ReadyList(p)] = rl[p]
  /\ \A s \in Slots : C[ReceiveList(s)] = rc[s]
  /\ \A e \in Events : C[EventList(e)] = ev[e]

Names(C) == NamesOf(C, free_list, ready_list, receive_blocked_lists, event_blocked_lists)

\* One list changes.
LEMMA NamesWith ==
  ASSUME NEW C, NEW fl, NEW rl, NEW rc, NEW ev, NamesOf(C, fl, rl, rc, ev),
         NEW list \in Seq(Slots)
  PROVE  /\ NamesOf(With(C, FreeList, list), list, rl, rc, ev)
         /\ \A p \in Priorities :
              NamesOf(With(C, ReadyList(p), list), fl, [rl EXCEPT ![p] = list], rc, ev)
         /\ \A s \in Slots :
              NamesOf(With(C, ReceiveList(s), list), fl, rl, [rc EXCEPT ![s] = list], ev)
         /\ \A e \in Events :
              NamesOf(With(C, EventList(e), list), fl, rl, rc, [ev EXCEPT ![e] = list])
<1>1. /\ C \in [Lists -> Seq(Slots)] /\ rl \in [Priorities -> Seq(Slots)]
      /\ rc \in [Slots -> Seq(Slots)] /\ ev \in [Events -> Seq(Slots)]
      /\ C[FreeList] = fl
      /\ \A p \in Priorities : C[ReadyList(p)] = rl[p]
      /\ \A s \in Slots : C[ReceiveList(s)] = rc[s]
      /\ \A e \in Events : C[EventList(e)] = ev[e]
  BY DEF NamesOf
<1>2. ASSUME NEW l \in Lists
      PROVE  /\ With(C, l, list) \in [Lists -> Seq(Slots)]
             /\ \A k \in Lists : With(C, l, list)[k] = IF k = l THEN list ELSE C[k]
  BY <1>1 DEF With
<1>3. NamesOf(With(C, FreeList, list), list, rl, rc, ev)
  <2> DEFINE D == With(C, FreeList, list)
  <2>1. /\ D \in [Lists -> Seq(Slots)]
        /\ \A k \in Lists : D[k] = IF k = FreeList THEN list ELSE C[k]
    BY <1>2, ListNames
  <2> HIDE DEF D
  <2>2. D[FreeList] = list
    BY <2>1, ListNames
  <2>3. \A p \in Priorities : D[ReadyList(p)] = rl[p]
    BY <1>1, <2>1, ListNames
  <2>4. \A s \in Slots : D[ReceiveList(s)] = rc[s]
    BY <1>1, <2>1, ListNames
  <2>5. \A e \in Events : D[EventList(e)] = ev[e]
    BY <1>1, <2>1, ListNames
  <2>6. NamesOf(D, list, rl, rc, ev)
    BY <1>1, <2>1, <2>2, <2>3, <2>4, <2>5 DEF NamesOf
  <2> QED BY <2>6 DEF D
<1>4. ASSUME NEW p \in Priorities
      PROVE  NamesOf(With(C, ReadyList(p), list), fl, [rl EXCEPT ![p] = list], rc, ev)
  <2> DEFINE D == With(C, ReadyList(p), list)
             r == [rl EXCEPT ![p] = list]
  <2>1. /\ D \in [Lists -> Seq(Slots)]
        /\ \A k \in Lists : D[k] = IF k = ReadyList(p) THEN list ELSE C[k]
    BY <1>2, ListNames
  <2>2. r \in [Priorities -> Seq(Slots)] /\ \A q \in Priorities : r[q] = IF q = p THEN list ELSE rl[q]
    BY <1>1
  <2> HIDE DEF D, r
  <2>3. D[FreeList] = fl
    BY <1>1, <2>1, ListNames
  <2>4. \A q \in Priorities : D[ReadyList(q)] = r[q]
    <3>1. \A q \in Priorities : ReadyList(q) \in Lists /\ (ReadyList(q) = ReadyList(p) <=> q = p)
      BY ListNames
    <3> QED BY <1>1, <2>1, <2>2, <3>1
  <2>5. \A s \in Slots : D[ReceiveList(s)] = rc[s]
    <3>1. \A s \in Slots : ReceiveList(s) \in Lists /\ (ReceiveList(s) = ReadyList(p) <=> FALSE)
      BY ListNames
    <3> QED BY <1>1, <2>1, <3>1
  <2>6. \A e \in Events : D[EventList(e)] = ev[e]
    <3>1. \A e \in Events : EventList(e) \in Lists /\ (EventList(e) = ReadyList(p) <=> FALSE)
      BY ListNames
    <3> QED BY <1>1, <2>1, <3>1
  <2>7. NamesOf(D, fl, r, rc, ev)
    BY <1>1, <2>1, <2>2, <2>3, <2>4, <2>5, <2>6 DEF NamesOf
  <2> QED BY <2>7 DEF D, r
<1>5. ASSUME NEW t \in Slots
      PROVE  NamesOf(With(C, ReceiveList(t), list), fl, rl, [rc EXCEPT ![t] = list], ev)
  <2> DEFINE D == With(C, ReceiveList(t), list)
             r == [rc EXCEPT ![t] = list]
  <2>1. /\ D \in [Lists -> Seq(Slots)]
        /\ \A k \in Lists : D[k] = IF k = ReceiveList(t) THEN list ELSE C[k]
    BY <1>2, ListNames
  <2>2. r \in [Slots -> Seq(Slots)] /\ \A s \in Slots : r[s] = IF s = t THEN list ELSE rc[s]
    BY <1>1
  <2> HIDE DEF D, r
  <2>3. D[FreeList] = fl
    BY <1>1, <2>1, ListNames
  <2>4. \A q \in Priorities : D[ReadyList(q)] = rl[q]
    <3>1. \A q \in Priorities : ReadyList(q) \in Lists /\ (ReadyList(q) = ReceiveList(t) <=> FALSE)
      BY ListNames
    <3> QED BY <1>1, <2>1, <3>1
  <2>5. \A s \in Slots : D[ReceiveList(s)] = r[s]
    <3>1. \A s \in Slots : ReceiveList(s) \in Lists /\ (ReceiveList(s) = ReceiveList(t) <=> s = t)
      BY ListNames
    <3> QED BY <1>1, <2>1, <2>2, <3>1
  <2>6. \A e \in Events : D[EventList(e)] = ev[e]
    <3>1. \A e \in Events : EventList(e) \in Lists /\ (EventList(e) = ReceiveList(t) <=> FALSE)
      BY ListNames
    <3> QED BY <1>1, <2>1, <3>1
  <2>7. NamesOf(D, fl, rl, r, ev)
    BY <1>1, <2>1, <2>2, <2>3, <2>4, <2>5, <2>6 DEF NamesOf
  <2> QED BY <2>7 DEF D, r
<1>6. ASSUME NEW f \in Events
      PROVE  NamesOf(With(C, EventList(f), list), fl, rl, rc, [ev EXCEPT ![f] = list])
  <2> DEFINE D == With(C, EventList(f), list)
             r == [ev EXCEPT ![f] = list]
  <2>1. /\ D \in [Lists -> Seq(Slots)]
        /\ \A k \in Lists : D[k] = IF k = EventList(f) THEN list ELSE C[k]
    BY <1>2, ListNames
  <2>2. r \in [Events -> Seq(Slots)] /\ \A e \in Events : r[e] = IF e = f THEN list ELSE ev[e]
    BY <1>1
  <2> HIDE DEF D, r
  <2>3. D[FreeList] = fl
    BY <1>1, <2>1, ListNames
  <2>4. \A q \in Priorities : D[ReadyList(q)] = rl[q]
    <3>1. \A q \in Priorities : ReadyList(q) \in Lists /\ (ReadyList(q) = EventList(f) <=> FALSE)
      BY ListNames
    <3> QED BY <1>1, <2>1, <3>1
  <2>5. \A s \in Slots : D[ReceiveList(s)] = rc[s]
    <3>1. \A s \in Slots : ReceiveList(s) \in Lists /\ (ReceiveList(s) = EventList(f) <=> FALSE)
      BY ListNames
    <3> QED BY <1>1, <2>1, <3>1
  <2>6. \A e \in Events : D[EventList(e)] = r[e]
    <3>1. \A e \in Events : EventList(e) \in Lists /\ (EventList(e) = EventList(f) <=> e = f)
      BY ListNames
    <3> QED BY <1>1, <2>1, <2>2, <3>1
  <2>7. NamesOf(D, fl, rl, rc, r)
    BY <1>1, <2>1, <2>2, <2>3, <2>4, <2>5, <2>6 DEF NamesOf
  <2> QED BY <2>7 DEF D, r
<1> QED BY <1>3, <1>4, <1>5, <1>6

\* While a task runs, it heads the list of the highest priority.
LEMMA CurtaskIsFirst ==
  ASSUME KernelInv, mode = "user", NEW C, Names(C)
  PROVE  CurtaskFirst(C)
<1> DEFINE p == priority[curtask]
<1>1. /\ curtask \in Slots /\ p \in Priorities
      /\ ready_list[p] # << >> /\ curtask = Head(ready_list[p])
  BY Running
<1>2. \A q \in Priorities : C[ReadyList(q)] = ready_list[q] /\ ready_list[q] \in Seq(Slots)
  BY DEF Names, NamesOf
<1>3. ASSUME NEW q \in Priorities, q < p, ready_list[q] # << >> PROVE FALSE
  <2> DEFINE s == Head(ready_list[q])
  <2>1. NoRepeat(ready_list[q])
    BY DEF KernelInv, ListsMatchStates, ReadyListsOK
  <2>2. s \in Slots /\ In(s, ready_list[q])
    BY <1>2, <1>3, <2>1, TailTask
  <2> HIDE DEF s
  <2>3. state[s] \in {"Ready", "Active"} /\ priority[s] = q
    BY <2>2 DEF KernelInv, ListsMatchStates, ReadyListsOK
  <2>4. state[s] = "Ready" => priority[s] >= p
    BY <2>2 DEF KernelInv, RunningIsHighest
  <2>5. state[s] = "Active" => s = curtask
    BY <2>2 DEF KernelInv, RunningIsHighest
  <2>6. p \in Int /\ q \in Int
    BY <1>1, KernelAssumption DEF Priorities
  <2> HIDE DEF p
  <2>7. CASE state[s] = "Ready"
    BY <1>3, <2>3, <2>4, <2>6, <2>7
  <2>8. CASE state[s] = "Active"
    BY <1>3, <2>3, <2>5, <2>6, <2>8 DEF p
  <2> QED BY <2>3, <2>7, <2>8
<1>4. Highest(C, p)
  BY <1>1, <1>2, <1>3 DEF Highest
<1> QED BY <1>1, <1>2, <1>4 DEF CurtaskFirst

\* A task that waits in Receive, or for a reply, is in no list.
LEMMA WaiterUnlisted ==
  ASSUME KernelInv, NEW C, Names(C), NEW s \in Slots,
         state[s] = "SendBlocked" \/ state[s] = "ReplyBlocked"
  PROVE  Unlisted(s, C)
<1>1. /\ C[FreeList] = free_list
      /\ \A p \in Priorities : C[ReadyList(p)] = ready_list[p]
      /\ \A r \in Slots : C[ReceiveList(r)] = receive_blocked_lists[r]
      /\ \A e \in Events : C[EventList(e)] = event_blocked_lists[e]
  BY DEF Names, NamesOf
<1>2. ~ In(s, free_list) /\ \A p \in Priorities : ~ In(s, ready_list[p])
  BY DEF KernelInv, ListsMatchStates, FreeListOK, ReadyListsOK
<1>3. /\ \A r \in Slots : ~ In(s, receive_blocked_lists[r])
      /\ \A e \in Events : ~ In(s, event_blocked_lists[e])
  BY DEF KernelInv, ListsMatchStates, ReceiveListsOK, EventListsOK
<1> QED BY <1>1, <1>2, <1>3, ListNames DEF Unlisted

\* insertTask, for the lists by name.
LEMMA InsertNames ==
  ASSUME NEW C, NEW fl, NEW rl, NEW rc, NEW ev, NamesOf(C, fl, rl, rc, ev),
         NEW m, Rep(m, C), NEW s \in Slots, Unlisted(s, C), NEW p \in Priorities
  PROVE  \E D : /\ NamesOf(D, fl, [rl EXCEPT ![p] = Append(@, s)], rc, ev)
                /\ Rep(insertTask(m, s, p), D)
<1> DEFINE list == Append(C[ReadyList(p)], s)
           D == With(C, ReadyList(p), list)
<1>1. C[ReadyList(p)] = rl[p] /\ rl[p] \in Seq(Slots)
  BY DEF NamesOf
<1>2. list \in Seq(Slots) /\ list = Append(rl[p], s)
  BY <1>1
<1>3. Rep(insertTask(m, s, p), D)
  BY InsertOK
<1> HIDE DEF list
<1>4. NamesOf(D, fl, [rl EXCEPT ![p] = list], rc, ev)
  BY <1>2, NamesWith
<1>5. [rl EXCEPT ![p] = list] = [rl EXCEPT ![p] = Append(@, s)]
  BY <1>2
<1> QED BY <1>3, <1>4, <1>5

\* blockCurrentTask, for the lists by name.
LEMMA BlockNames ==
  ASSUME KernelInv, mode = "user", NEW C, Names(C), Rep(linked, C)
  PROVE  \E D : /\ NamesOf(D, free_list, DropCurtask, receive_blocked_lists, event_blocked_lists)
                /\ Rep(blockCurrentTask(linked), D)
                /\ Unlisted(curtask, D)
                /\ \A s \in Slots : Unlisted(s, C) => Unlisted(s, D)
<1> DEFINE p == priority[curtask]
           l == ReadyList(p)
           list == Tail(C[l])
           D == With(C, l, list)
<1>1. CurtaskFirst(C) /\ p \in Priorities /\ l \in Lists
  BY CurtaskIsFirst, ListNames DEF CurtaskFirst
<1>2. Rep(blockCurrentTask(linked), D) /\ Unlisted(curtask, D)
  BY <1>1, BlockOK
<1>3. /\ C[l] = ready_list[p] /\ ready_list[p] \in Seq(Slots) /\ ready_list[p] # << >>
      /\ NoRepeat(ready_list[p]) /\ C \in [Lists -> Seq(Slots)]
  BY <1>1, Running DEF Names, NamesOf, KernelInv, ListsMatchStates, ReadyListsOK
<1>4. /\ list \in Seq(Slots) /\ list = Tail(ready_list[p])
      /\ \A x \in Slots : In(x, list) => In(x, C[l])
  BY <1>3, TailTask
<1> HIDE DEF list
<1>5. NamesOf(D, free_list, [ready_list EXCEPT ![p] = list], receive_blocked_lists, event_blocked_lists)
  BY <1>1, <1>4, NamesWith DEF Names
<1>6. [ready_list EXCEPT ![p] = list] = DropCurtask
  BY <1>4 DEF DropCurtask
<1>7. ASSUME NEW s \in Slots, Unlisted(s, C) PROVE Unlisted(s, D)
  <2>1. \A k \in Lists : D[k] = IF k = l THEN list ELSE C[k]
    BY <1>1, <1>3, WithIs
  <2> QED BY <1>1, <1>4, <1>7, <2>1 DEF Unlisted
<1> QED BY <1>2, <1>5, <1>6, <1>7

-----------------------------------------------------------------------------
(* The inductive invariant: Kernel's, curtask heads its list until the     *)
(* next scheduling (moveCurrentTaskToEnd moves the head, and clears the    *)
(* next field of curtask), and the memory stands for the lists.            *)

CurtaskHeads ==
  curtask \in Slots =>
    /\ ready_list[priority[curtask]] # << >>
    /\ curtask = Head(ready_list[priority[curtask]])

LinkedRep == \E C : Names(C) /\ Rep(linked, C)

LinkedInv == KernelInv /\ CurtaskHeads /\ (mode # "stopped" => LinkedRep)

\* curtask stays the head while tasks are appended to ready lists.
LEMMA HeadAppend ==
  ASSUME NEW list \in Seq(Slots), list # << >>, NEW s \in Slots
  PROVE  Append(list, s) # << >> /\ Head(Append(list, s)) = Head(list)
<1> DEFINE a == Append(list, s)
<1>1. /\ Len(list) \in Nat \ {0} /\ Len(a) = Len(list) + 1 /\ a[1] = list[1]
      /\ a \in Seq(Slots) /\ Head(list) = list[1]
  OBVIOUS
<1> HIDE DEF a
<1>2. a # << >> /\ Head(a) = a[1]
  BY <1>1
<1> QED BY <1>1, <1>2 DEF a

LEMMA InsertKeepsHead ==
  ASSUME KernelInv, CurtaskHeads, NEW s \in Slots, NEW p \in Priorities,
         ready_list' = [ready_list EXCEPT ![p] = Append(@, s)], curtask' = curtask,
         curtask \in Slots => priority'[curtask] = priority[curtask]
  PROVE  CurtaskHeads'
<1> SUFFICES ASSUME curtask \in Slots
             PROVE  /\ ready_list'[priority[curtask]] # << >>
                    /\ curtask = Head(ready_list'[priority[curtask]])
  BY DEF CurtaskHeads
<1> DEFINE q == priority[curtask]
           list == ready_list[q]
<1>1. q \in Priorities /\ ready_list \in [Priorities -> Seq(Slots)]
  BY DEF KernelInv, TypeOK
<1>2. list \in Seq(Slots) /\ list # << >> /\ curtask = Head(list)
  BY <1>1 DEF CurtaskHeads
<1>3. ready_list'[q] = IF q = p THEN Append(list, s) ELSE list
  BY <1>1
<1> HIDE DEF list, q
<1>4. Append(list, s) # << >> /\ Head(Append(list, s)) = Head(list)
  BY <1>2, HeadAppend
<1> QED BY <1>2, <1>3, <1>4 DEF q

\* Waking a task.
LEMMA WakeKeepsHead ==
  ASSUME KernelInv, CurtaskHeads, NEW e \in Events, event_blocked_lists[e] # << >>,
         WakeFirst(e), curtask' = curtask, priority' = priority
  PROVE  CurtaskHeads'
<1> DEFINE h == Head(event_blocked_lists[e])
<1>1. h \in Slots /\ Slot(tid[h]) = h
  BY PopFirstOK
<1>2. priority[h] \in Priorities
  BY <1>1 DEF KernelInv, TypeOK
<1>3. ready_list' = [ready_list EXCEPT ![priority[h]] = Append(@, h)]
  BY <1>1 DEF WakeFirst, InsertTask
<1> QED BY <1>1, <1>2, <1>3, InsertKeepsHead

LEMMA CurtaskHeadsStep == KernelInv /\ CurtaskHeads /\ Next /\ KernelInv' => CurtaskHeads'
<1> SUFFICES ASSUME KernelInv, CurtaskHeads, Next, KernelInv' PROVE CurtaskHeads'
  OBVIOUS
<1>1. CASE curtask' = NoTask
  BY <1>1, NoTaskIsNone DEF CurtaskHeads
<1>2. CASE UNCHANGED <<priority, ready_list, curtask>>
  BY <1>2 DEF CurtaskHeads
<1>3. CASE mode' = "user"
  BY <1>3 DEF KernelInv, RunningIsHighest, CurtaskHeads
<1>4. CASE \E p \in Priorities : SysCreate(p)
  <2>1. PICK p \in Priorities : SysCreate(p)
    BY <1>4
  <2> DEFINE s == Head(free_list)
  <2>2. s \in Slots /\ state[s] = "Zombie"
    <3>1. free_list \in Seq(Slots) /\ free_list # << >> /\ NoRepeat(free_list)
      BY <2>1 DEF SysCreate, KernelInv, TypeOK, ListsMatchStates, FreeListOK
    <3>2. s \in Slots /\ In(s, free_list)
      BY <3>1, TailTask
    <3> QED BY <3>2 DEF KernelInv, ListsMatchStates, FreeListOK
  <2>3. /\ mode = "user" /\ ready_list' = [ready_list EXCEPT ![p] = Append(@, s)]
        /\ curtask' = curtask /\ priority' = [priority EXCEPT ![s] = p]
    BY <2>1 DEF SysCreate
  <2> HIDE DEF s
  <2>4. state[curtask] = "Active" /\ curtask \in Slots
    BY <2>3, Running
  <2>5. priority'[curtask] = priority[curtask]
    BY <2>2, <2>3, <2>4 DEF KernelInv, TypeOK
  <2> QED BY <2>2, <2>3, <2>5, InsertKeepsHead
<1>5. CASE \E t \in TidArgs : SysReply(t)
  <2>1. PICK t \in TidArgs : SysReply(t)
    BY <1>5
  <2>2. Slot(t) \in Slots
    BY KernelAssumption DEF Slot, Slots, TidArgs
  <2>3. priority[Slot(t)] \in Priorities
    BY <2>2 DEF KernelInv, TypeOK
  <2>4. /\ ready_list' = [ready_list EXCEPT ![priority[Slot(t)]] = Append(@, Slot(t))]
        /\ curtask' = curtask /\ priority' = priority
    BY <2>1 DEF SysReply, InsertTask, tasks
  <2> HIDE DEF Slot
  <2> QED BY <2>2, <2>3, <2>4, InsertKeepsHead
<1>6. CASE TimerLoop \/ \E u \in Connected : RxIrq(u) \/ TxIrq(u)
  <2>1. /\ EVENT_TIME_ELAP \in Events
        /\ \A u \in Connected : RxEvent(u) \in Events /\ TxEvent(u) \in Events
    BY DEF Events, EVENT_MAX, RxEvent, TxEvent, EVENT_TIME_ELAP, EVENT_COM1_TX,
           EVENT_COM1_RX, EVENT_COM2_TX, EVENT_COM2_RX
  <2>2. PICK e \in Events : event_blocked_lists[e] # <<>> /\ WakeFirst(e)
    BY <1>6, <2>1 DEF TimerLoop, RxIrq, TxIrq
  <2>3. curtask' = curtask /\ priority' = priority
    BY <1>6 DEF TimerLoop, RxIrq, TxIrq, tasks
  <2> QED BY <2>2, <2>3, WakeKeepsHead
<1>7. CASE ScheduleNextTask
  BY <1>1, <1>3, <1>7 DEF ScheduleNextTask
<1>8. CASE Syscall
  <2>1. \/ curtask' = NoTask \/ UNCHANGED <<priority, ready_list, curtask>>
        \/ \E p \in Priorities : SysCreate(p)
        \/ \E t \in TidArgs : SysReply(t)
    BY <1>8 DEF Syscall, Pass, SysHalt, SysExit, CreateOutOfDescriptors, CreateTidOverflows, SendRejected, SendDelivered,
           SendQueued, ReplyRejected, ReceiveBlocks, ReceiveTakes, SysAwaitEvent,
           AwaitEventAssertFails, ReturnToLoop, StopSystem, tasks
  <2> QED BY <1>1, <1>2, <1>4, <1>5, <2>1
<1>9. CASE Irq
  <2>1. \/ curtask' = NoTask \/ UNCHANGED <<priority, ready_list, curtask>>
        \/ TimerLoop \/ \E u \in Connected : RxIrq(u) \/ TxIrq(u)
    BY <1>9 DEF Irq, CtsIrq, TimerIrq, TimerDone, TxIrqWaitingCts, ModemIrq, RxIrqNoWaiter,
           UartAssertFails, tasks
  <2> QED BY <1>1, <1>2, <1>6, <2>1
<1>10. CASE Stopped
  BY <1>2, <1>10 DEF Stopped, vars, tasks
<1> QED BY <1>7, <1>8, <1>9, <1>10 DEF Next

-----------------------------------------------------------------------------
(* The initial memory.                                                     *)

\* task.c's taskListInitial: all descriptors in the free list.
LEMMA BootOK ==
  LET list == [i \in 1 .. TASK_MAX |-> i - 1]
      C    == [l \in Lists |-> IF l = FreeList THEN list ELSE << >>]
  IN  /\ list \in Seq(Slots) /\ list # << >> /\ Head(list) = 0
      /\ Tail(list) = [i \in 1 .. TASK_MAX - 1 |-> i]
      /\ NamesOf(C, list, [p \in Priorities |-> << >>], [s \in Slots |-> << >>],
                 [e \in Events |-> << >>])
      /\ Rep(Boot, C)
<1> DEFINE list == [i \in 1 .. TASK_MAX |-> i - 1]
           C    == [l \in Lists |-> IF l = FreeList THEN list ELSE << >>]
           last == TASK_MAX - 1
<1>1. /\ TASK_MAX \in Nat /\ TASK_MAX # 0 /\ last \in Nat /\ TASK_MAX = last + 1
      /\ 1 \in 1 .. TASK_MAX /\ TASK_MAX \in 1 .. TASK_MAX
      /\ \A i \in 1 .. TASK_MAX : i - 1 \in Slots
      /\ \A s \in Slots : s + 1 \in 1 .. TASK_MAX /\ (s # last => s + 1 \in Slots)
      /\ 0 \in Slots /\ last \in Slots
  BY KernelAssumption DEF Slots
<1>2. /\ list \in Seq(Slots) /\ Len(list) = TASK_MAX
      /\ \A i \in 1 .. TASK_MAX : list[i] = i - 1
  BY <1>1
<1> HIDE DEF list
<1>3. list # << >> /\ Head(list) = 0
  <2>1. list # << >>
    BY <1>1, <1>2
  <2>2. Head(list) = list[1]
    BY <1>2, <2>1
  <2> QED BY <1>1, <1>2, <2>1, <2>2
<1>4. Tail(list) = [i \in 1 .. TASK_MAX - 1 |-> i]
  <2> DEFINE t == [i \in 1 .. TASK_MAX - 1 |-> i]
             u == Tail(list)
  <2>1. t \in Seq(Slots) /\ Len(t) = last /\ \A i \in 1 .. last : t[i] = i
    <3>1. \A i \in 1 .. last : i \in Slots
      BY <1>1 DEF Slots
    <3> QED BY <1>1, <3>1
  <2>2. u \in Seq(Slots) /\ Len(u) = last /\ \A i \in 1 .. last : u[i] = list[i + 1]
    BY <1>1, <1>2, <1>3, HeadTail
  <2> HIDE DEF t, u
  <2>4. \A i \in 1 .. last : u[i] = t[i]
    <3> SUFFICES ASSUME NEW i \in 1 .. last PROVE u[i] = t[i]
      OBVIOUS
    <3>1. i + 1 \in 1 .. TASK_MAX /\ (i + 1) - 1 = i
      BY <1>1
    <3> QED BY <1>2, <2>1, <2>2, <3>1
  <2>5. u = t
    BY <1>1, <2>1, <2>2, <2>4, SameItems
  <2> QED BY <2>5 DEF t, u
<1>5. NoRepeat(list)
  BY <1>1, <1>2 DEF NoRepeat
<1>6. /\ C \in [Lists -> Seq(Slots)] /\ C[FreeList] = list
      /\ \A l \in Lists : l # FreeList => C[l] = << >>
  BY <1>2, EmptyList, ListNames
<1> HIDE DEF C
<1>7. NamesOf(C, list, [p \in Priorities |-> << >>], [s \in Slots |-> << >>],
              [e \in Events |-> << >>])
  <2>1. /\ [p \in Priorities |-> << >>] \in [Priorities -> Seq(Slots)]
        /\ [s \in Slots |-> << >>] \in [Slots -> Seq(Slots)]
        /\ [e \in Events |-> << >>] \in [Events -> Seq(Slots)]
    BY EmptyList
  <2>2. /\ \A p \in Priorities : C[ReadyList(p)] = << >>
        /\ \A s \in Slots : C[ReceiveList(s)] = << >>
        /\ \A e \in Events : C[EventList(e)] = << >>
    BY <1>6, ListNames
  <2> QED BY <1>6, <2>1, <2>2 DEF NamesOf
<1>8. Apart(C)
  <2>1. \A l \in Lists : NoRepeat(C[l]) /\ \A s : In(s, C[l]) => l = FreeList
    BY <1>5, <1>6, EmptyList
  <2> QED BY <1>6, <2>1 DEF Apart
<1> DEFINE N == [s \in Slots |-> IF s = last THEN NoTask ELSE s + 1]
           H == [l \in Lists |-> IF l = FreeList THEN 0 ELSE NoTask]
           T == [l \in Lists |-> IF l = FreeList THEN last ELSE NoTask]
           k == [p \in Priorities |-> p]
           h == [data |-> << >>, key |-> k, index |-> << >>, lost |-> {}]
<1>9. Boot = [next |-> N, head |-> H, tail |-> T, heap |-> h, first |-> NoTask]
  <2>1. [heapInitial EXCEPT !.key = k] = h
    <3> HIDE DEF k
    <3> QED BY DEF heapInitial
  <2>2. Boot = [next |-> N, head |-> H, tail |-> T,
                heap |-> [heapInitial EXCEPT !.key = k], first |-> NoTask]
    BY Zenon DEF Boot
  <2> HIDE DEF N, H, T, k, h
  <2> QED BY <2>1, <2>2
<1>10. Memory(Boot) /\ Boot.next = N /\ Boot.head = H /\ Boot.tail = T /\ Boot.heap = h
  <2>1. /\ N \in [Slots -> Slots \cup {NoTask}] /\ H \in [Lists -> Slots \cup {NoTask}]
        /\ T \in [Lists -> Slots \cup {NoTask}]
    BY <1>1
  <2> HIDE DEF N, H, T, h
  <2> QED BY <1>9, <2>1 DEF Memory
<1>11. ASSUME NEW l \in Lists PROVE LinkedAs(Boot, l, C[l])
  <2>1. CASE l = FreeList
    <3>1. Boot.head[l] = 0 /\ Boot.tail[l] = last
      BY <1>10, <2>1
    <3>2. list[1] = 0 /\ list[TASK_MAX] = last
      BY <1>1, <1>2
    <3>3. ASSUME NEW i \in 1 .. TASK_MAX - 1 PROVE Boot.next[list[i]] = list[i + 1]
      <4>1. /\ i \in 1 .. TASK_MAX /\ i + 1 \in 1 .. TASK_MAX /\ i - 1 \in Slots
            /\ i - 1 # last /\ (i - 1) + 1 = i /\ (i + 1) - 1 = i
        BY <1>1
      <4>2. list[i] = i - 1 /\ list[i + 1] = i
        BY <1>2, <4>1
      <4>3. N[i - 1] = (i - 1) + 1
        BY <4>1
      <4> QED BY <1>10, <4>1, <4>2, <4>3
    <3>4. Boot.next[last] = NoTask
      BY <1>1, <1>10
    <3> HIDE DEF N, H, T, last
    <3>5. LinkedAs(Boot, l, list)
      BY <1>2, <1>3, <3>1, <3>2, <3>3, <3>4 DEF LinkedAs
    <3> QED BY <1>6, <2>1, <3>5
  <2>2. CASE l # FreeList
    BY <1>6, <1>10, <2>2 DEF LinkedAs
  <2> QED BY <2>1, <2>2
<1>12. Stands(Boot, C)
  BY <1>8, <1>10, <1>11 DEF Stands
<1>13. \A p \in Priorities : C[ReadyList(p)] = << >>
  BY <1>6, ListNames
<1>14. HeapRep(Boot, C)
  <2>1. h.data = << >> /\ h.key = k
        /\ h \in [data : {<< >>}, key : {k}, index : {h.index}, lost : {h.lost}]
    OBVIOUS
  <2>2. k \in [Priorities -> Int]
    BY KernelAssumption DEF Priorities
  <2> HIDE DEF h
  <2>3. << >> \in Seq(Priorities) /\ NoRepeat(<< >>) /\ Len(<< >>) = 0
    BY EmptyList
  <2>4. h \in [data : Seq(Priorities), key : [Priorities -> Int], index : {h.index}, lost : {h.lost}]
    <3> HIDE DEF k
    <3> QED BY <2>1, <2>2, <2>3
  <2>5. HeapOf(h, Priorities)
    BY <2>1, <2>3, <2>4, InHeap DEF HeapOf
  <2>6. Ordered(h)
    <3>1. Size(h) = 0
      BY <2>1, <2>3 DEF Size, HeapSize
    <3> QED BY <3>1 DEF Ordered
  <2>7. \A p \in Priorities : In(p, h.data) <=> C[ReadyList(p)] # << >>
    BY <1>13, <2>1, EmptyList
  <2> QED BY <1>10, <2>1, <2>5, <2>6, <2>7 DEF HeapRep
<1>15. FirstOK(Boot, C)
  BY <1>13 DEF FirstOK, Highest
<1> QED BY <1>2, <1>3, <1>4, <1>7, <1>12, <1>14, <1>15 DEF Rep, C, list

LEMMA LinkedInitOK == LinkedInit => LinkedInv
<1> SUFFICES ASSUME LinkedInit PROVE LinkedInv
  OBVIOUS
<1>1. KernelInv /\ CurtaskHeads
  BY KernelInit, NoTaskIsNone DEF LinkedInit, Init, CurtaskHeads
<1> DEFINE list == [i \in 1 .. TASK_MAX |-> i - 1]
           C    == [l \in Lists |-> IF l = FreeList THEN list ELSE << >>]
           rl   == [p \in Priorities |-> << >>]
           rc   == [s \in Slots |-> << >>]
           ev   == [e \in Events |-> << >>]
           D    == With(C, FreeList, Tail(C[FreeList]))
<1>2. /\ list \in Seq(Slots) /\ list # << >> /\ Head(list) = 0
      /\ Tail(list) = [i \in 1 .. TASK_MAX - 1 |-> i]
      /\ NamesOf(C, list, rl, rc, ev) /\ Rep(Boot, C)
  BY BootOK
<1> HIDE DEF list, C, rl, rc, ev
<1>3. C[FreeList] = list
  BY <1>2 DEF NamesOf
<1>4. Rep(createTask(Boot), D) /\ Boot.head[FreeList] = 0 /\ 0 \in Slots /\ Unlisted(0, D)
  BY <1>2, <1>3, CreateOK
<1>5. NamesOf(D, Tail(list), rl, rc, ev)
  <2>1. Tail(list) \in Seq(Slots)
    BY <1>2
  <2> QED BY <1>2, <1>3, <2>1, NamesWith
<1>6. 0 \in Priorities
  BY KernelAssumption DEF Priorities
<1> HIDE DEF D
<1>7. PICK E : /\ NamesOf(E, Tail(list), [rl EXCEPT ![0] = Append(@, 0)], rc, ev)
               /\ Rep(insertTask(createTask(Boot), 0, 0), E)
  BY <1>4, <1>5, <1>6, InsertNames
<1>8. [rl EXCEPT ![0] = Append(@, 0)] = ready_list
  <2>1. ready_list = [p \in Priorities |-> IF p = 0 THEN <<0>> ELSE << >>]
    BY DEF LinkedInit, Init
  <2>2. Append(<< >>, 0) = <<0>>
    OBVIOUS
  <2>3. [rl EXCEPT ![0] = Append(@, 0)] = [p \in Priorities |-> IF p = 0 THEN Append(<< >>, 0) ELSE << >>]
    BY DEF rl
  <2> QED BY <2>1, <2>2, <2>3
<1>9. /\ Tail(list) = free_list /\ rc = receive_blocked_lists /\ ev = event_blocked_lists
      /\ linked = insertTask(createTask(Boot), 0, 0)
  BY <1>2 DEF LinkedInit, Init, rc, ev
<1>10. Names(E) /\ Rep(linked, E)
  BY <1>7, <1>8, <1>9 DEF Names
<1> QED BY <1>1, <1>10 DEF LinkedInv, LinkedRep

-----------------------------------------------------------------------------
(* A step.  The lists of Kernel after it, by name, are what the memory     *)
(* after it stands for.                                                    *)

NamesNext(D) ==
  NamesOf(D, free_list', ready_list', receive_blocked_lists', event_blocked_lists')

\* NamesOf has no state of its own but the lists.
LEMMA RepNow == ASSUME NEW D, NamesNext(D), Rep(linked', D) PROVE LinkedRep'
BY DEF NamesNext, LinkedRep, Names

\* A step that moves no task.
LEMMA StaysRep ==
  LinkedRep /\ UNCHANGED <<free_list, ready_list, receive_blocked_lists, event_blocked_lists, linked>>
    => LinkedRep'
<1> SUFFICES ASSUME LinkedRep,
                    UNCHANGED <<free_list, ready_list, receive_blocked_lists, event_blocked_lists, linked>>
             PROVE  LinkedRep'
  OBVIOUS
<1>1. PICK C : Names(C) /\ Rep(linked, C)
  BY DEF LinkedRep
<1>2. NamesNext(C) /\ Rep(linked', C)
  BY <1>1 DEF Names, NamesNext
<1> QED BY <1>2, RepNow

\* moveCurrentTaskToEnd rotates the list of curtask.
LEMMA SchedulesRep == KernelInv /\ CurtaskHeads /\ LinkedRep /\ Schedules => LinkedRep'
<1> SUFFICES ASSUME KernelInv, CurtaskHeads, LinkedRep, Schedules PROVE LinkedRep'
  OBVIOUS
<1>1. /\ ready_list' = MoveCurrentTaskToEnd
      /\ linked' = IF curtask = NoTask THEN linked ELSE moveCurrentTaskToEnd(linked)
      /\ free_list' = free_list /\ receive_blocked_lists' = receive_blocked_lists
      /\ event_blocked_lists' = event_blocked_lists
  BY DEF Schedules, ScheduleNextTask, tasks, ipc, events
<1>2. CASE curtask = NoTask
  BY <1>1, <1>2, StaysRep DEF MoveCurrentTaskToEnd
<1>3. CASE curtask # NoTask
  <2> DEFINE p    == priority[curtask]
             l    == ReadyList(p)
             list == Append(Tail(ready_list[p]), Head(ready_list[p]))
  <2>1. PICK C : Names(C) /\ Rep(linked, C)
    BY DEF LinkedRep
  <2>2. /\ curtask \in Slots /\ p \in Priorities
        /\ ready_list[p] \in Seq(Slots) /\ ready_list[p] # << >> /\ curtask = Head(ready_list[p])
    BY <1>3 DEF KernelInv, TypeOK, CurtaskHeads
  <2>3. list \in Seq(Slots)
    <3>1. Tail(ready_list[p]) \in Seq(Slots) /\ Head(ready_list[p]) \in Slots
      BY <2>2
    <3> QED BY <3>1
  <2>4. C[l] = ready_list[p]
    BY <2>1, <2>2 DEF Names, NamesOf
  <2>5. MoveCurrentTaskToEnd = [ready_list EXCEPT ![p] = list]
    BY <1>3 DEF MoveCurrentTaskToEnd
  <2> HIDE DEF list
  <2>6. NamesNext(With(C, l, list))
    <3>1. NamesOf(With(C, l, list), free_list, [ready_list EXCEPT ![p] = list],
                  receive_blocked_lists, event_blocked_lists)
      BY <2>1, <2>2, <2>3, NamesWith DEF Names
    <3> QED BY <1>1, <2>5, <3>1 DEF NamesNext
  <2>7. Rep(moveCurrentTaskToEnd(linked), With(C, l, list))
    BY <2>1, <2>2, <2>4, MoveOK DEF list
  <2>8. linked' = moveCurrentTaskToEnd(linked)
    BY <1>1, <1>3
  <2> QED BY <2>6, <2>7, <2>8, RepNow
<1> QED BY <1>2, <1>3

\* createTask takes the head of the free list, insertTask links it.
LEMMA CreatesRep == KernelInv /\ LinkedRep /\ Creates => LinkedRep'
<1> SUFFICES ASSUME KernelInv, LinkedRep, Creates PROVE LinkedRep'
  OBVIOUS
<1>1. PICK p \in Priorities :
        SysCreate(p) /\ linked' = insertTask(createTask(linked), linked.head[FreeList], p)
  BY DEF Creates
<1>2. PICK C : Names(C) /\ Rep(linked, C)
  BY DEF LinkedRep
<1> DEFINE s == Head(free_list)
           D == With(C, FreeList, Tail(C[FreeList]))
<1>3. /\ free_list # << >> /\ free_list' = Tail(free_list)
      /\ ready_list' = [ready_list EXCEPT ![p] = Append(@, s)]
      /\ receive_blocked_lists' = receive_blocked_lists
      /\ event_blocked_lists' = event_blocked_lists
  BY <1>1 DEF SysCreate, ipc, events
<1>4. C[FreeList] = free_list /\ Tail(free_list) \in Seq(Slots)
  BY <1>2, <1>3 DEF Names, NamesOf, KernelInv, TypeOK
<1>5. /\ Rep(createTask(linked), D) /\ linked.head[FreeList] = s
      /\ s \in Slots /\ Unlisted(s, D)
  BY <1>2, <1>3, <1>4, CreateOK
<1>6. NamesOf(D, Tail(free_list), ready_list, receive_blocked_lists, event_blocked_lists)
  BY <1>2, <1>4, NamesWith DEF Names
<1> HIDE DEF D, s
<1>7. PICK E : /\ NamesOf(E, Tail(free_list), [ready_list EXCEPT ![p] = Append(@, s)],
                          receive_blocked_lists, event_blocked_lists)
               /\ Rep(insertTask(createTask(linked), s, p), E)
  BY <1>5, <1>6, InsertNames
<1>8. NamesNext(E) /\ Rep(linked', E)
  BY <1>1, <1>3, <1>5, <1>7 DEF NamesNext
<1> QED BY <1>8, RepNow

\* blockCurrentTask, and a list to whose end curtask is linked.
LEMMA BlockedOn ==
  ASSUME KernelInv, mode = "user", LinkedRep,
         NEW l \in Lists, \A p \in Priorities : ReadyList(p) # l
  PROVE  \E D, E :
           /\ NamesOf(D, free_list, DropCurtask, receive_blocked_lists, event_blocked_lists)
           /\ E = With(D, l, Append(D[l], curtask)) /\ Append(D[l], curtask) \in Seq(Slots)
           /\ Rep(Enqueue(blockCurrentTask(linked), l, curtask), E)
<1>1. PICK C : Names(C) /\ Rep(linked, C)
  BY DEF LinkedRep
<1>2. PICK D : /\ NamesOf(D, free_list, DropCurtask, receive_blocked_lists, event_blocked_lists)
               /\ Rep(blockCurrentTask(linked), D) /\ Unlisted(curtask, D)
  BY <1>1, BlockNames
<1>3. curtask \in Slots
  BY Running
<1>4. Rep(Enqueue(blockCurrentTask(linked), l, curtask), With(D, l, Append(D[l], curtask)))
  BY <1>2, <1>3, EnqueueOK
<1>5. Append(D[l], curtask) \in Seq(Slots)
  <2>1. D[l] \in Seq(Slots)
    BY <1>2 DEF NamesOf
  <2> QED BY <1>3, <2>1
<1> QED BY <1>2, <1>4, <1>5

\* removeCurrentTask links curtask to the end of the free list.
LEMMA ExitsRep == KernelInv /\ LinkedRep /\ Exits => LinkedRep'
<1> SUFFICES ASSUME KernelInv, LinkedRep, Exits PROVE LinkedRep'
  OBVIOUS
<1>1. /\ mode = "user" /\ ready_list' = DropCurtask /\ free_list' = Append(free_list, curtask)
      /\ receive_blocked_lists' = receive_blocked_lists
      /\ event_blocked_lists' = event_blocked_lists
      /\ linked' = Enqueue(blockCurrentTask(linked), FreeList, curtask)
  BY DEF Exits, SysExit, removeCurrentTask, ipc, events
<1>2. FreeList \in Lists /\ \A p \in Priorities : ReadyList(p) # FreeList
  BY ListNames
<1>3. PICK D, E :
        /\ NamesOf(D, free_list, DropCurtask, receive_blocked_lists, event_blocked_lists)
        /\ E = With(D, FreeList, Append(D[FreeList], curtask))
        /\ Append(D[FreeList], curtask) \in Seq(Slots)
        /\ Rep(Enqueue(blockCurrentTask(linked), FreeList, curtask), E)
  BY <1>1, <1>2, BlockedOn
<1>4. D[FreeList] = free_list
  BY <1>3 DEF NamesOf
<1>5. NamesOf(E, Append(free_list, curtask), DropCurtask, receive_blocked_lists, event_blocked_lists)
  BY <1>3, <1>4, NamesWith
<1>6. NamesNext(E) /\ Rep(linked', E)
  BY <1>1, <1>3, <1>5 DEF NamesNext
<1> QED BY <1>6, RepNow

\* sysSend: the receiver becomes ready, or curtask queues up behind it.
LEMMA SendsRep == KernelInv /\ LinkedRep /\ Sends => LinkedRep'
<1> SUFFICES ASSUME KernelInv, LinkedRep, Sends PROVE LinkedRep'
  OBVIOUS
<1>1. PICK t \in TidArgs :
        \/ /\ SendDelivered(t)
           /\ linked' = insertTask(blockCurrentTask(linked), Slot(t), priority[Slot(t)])
        \/ /\ SendQueued(t)
           /\ linked' = Enqueue(blockCurrentTask(linked), ReceiveList(Slot(t)), curtask)
  BY DEF Sends
<1> DEFINE dst == Slot(t)
<1>2. dst \in Slots
  BY KernelAssumption DEF Slot, Slots, TidArgs
<1>3. CASE /\ SendDelivered(t)
           /\ linked' = insertTask(blockCurrentTask(linked), dst, priority[dst])
  <2>1. /\ mode = "user" /\ ReceiverWaits(dst) /\ ready_list' = InsertTask(DropCurtask, dst)
        /\ free_list' = free_list /\ receive_blocked_lists' = receive_blocked_lists
        /\ event_blocked_lists' = event_blocked_lists
    BY <1>3 DEF SendDelivered, tasks, events
  <2> HIDE DEF dst
  <2>2. PICK C : Names(C) /\ Rep(linked, C)
    BY DEF LinkedRep
  <2>3. Unlisted(dst, C)
    BY <1>2, <2>1, <2>2, WaiterUnlisted DEF ReceiverWaits
  <2>4. PICK D : /\ NamesOf(D, free_list, DropCurtask, receive_blocked_lists, event_blocked_lists)
                 /\ Rep(blockCurrentTask(linked), D) /\ Unlisted(dst, D)
    BY <1>2, <2>1, <2>2, <2>3, BlockNames
  <2>5. priority[dst] \in Priorities
    BY <1>2 DEF KernelInv, TypeOK
  <2>6. PICK E : /\ NamesOf(E, free_list, [DropCurtask EXCEPT ![priority[dst]] = Append(@, dst)],
                            receive_blocked_lists, event_blocked_lists)
                 /\ Rep(insertTask(blockCurrentTask(linked), dst, priority[dst]), E)
    BY <1>2, <2>4, <2>5, InsertNames
  <2>7. NamesNext(E) /\ Rep(linked', E)
    BY <1>3, <2>1, <2>6 DEF NamesNext, InsertTask
  <2> QED BY <2>7, RepNow
<1>4. CASE /\ SendQueued(t)
           /\ linked' = Enqueue(blockCurrentTask(linked), ReceiveList(dst), curtask)
  <2> DEFINE l == ReceiveList(dst)
  <2>1. /\ mode = "user" /\ ready_list' = DropCurtask /\ free_list' = free_list
        /\ receive_blocked_lists' = [receive_blocked_lists EXCEPT ![dst] = Append(@, curtask)]
        /\ event_blocked_lists' = event_blocked_lists
    BY <1>4 DEF SendQueued, tasks, events
  <2> HIDE DEF dst
  <2>2. l \in Lists /\ \A p \in Priorities : ReadyList(p) # l
    BY <1>2, ListNames
  <2> HIDE DEF l
  <2>3. PICK D, E :
          /\ NamesOf(D, free_list, DropCurtask, receive_blocked_lists, event_blocked_lists)
          /\ E = With(D, l, Append(D[l], curtask))
          /\ Append(D[l], curtask) \in Seq(Slots)
          /\ Rep(Enqueue(blockCurrentTask(linked), l, curtask), E)
    BY <2>1, <2>2, BlockedOn
  <2>4. D[l] = receive_blocked_lists[dst]
    BY <1>2, <2>3 DEF NamesOf, l
  <2> DEFINE list == Append(D[l], curtask)
  <2> HIDE DEF list
  <2>5. NamesOf(With(D, l, list), free_list, DropCurtask, [receive_blocked_lists EXCEPT ![dst] = list],
                event_blocked_lists)
    BY <1>2, <2>3, NamesWith DEF l, list
  <2>6. receive_blocked_lists' = [receive_blocked_lists EXCEPT ![dst] = list]
    BY <2>1, <2>4 DEF list
  <2>7. NamesNext(E) /\ Rep(linked', E)
    BY <1>4, <2>1, <2>3, <2>5, <2>6 DEF NamesNext, list, l
  <2> QED BY <2>7, RepNow
<1> QED BY <1>1, <1>3, <1>4

\* sysReceive: curtask blocks, or the first sender leaves its list.
LEMMA ReceivesRep == KernelInv /\ LinkedRep /\ Receives => LinkedRep'
<1> SUFFICES ASSUME KernelInv, LinkedRep, Receives PROVE LinkedRep'
  OBVIOUS
<1>1. PICK C : Names(C) /\ Rep(linked, C)
  BY DEF LinkedRep
<1>2. CASE ReceiveBlocks /\ linked' = blockCurrentTask(linked)
  <2>1. /\ mode = "user" /\ ready_list' = DropCurtask /\ free_list' = free_list
        /\ receive_blocked_lists' = receive_blocked_lists
        /\ event_blocked_lists' = event_blocked_lists
    BY <1>2 DEF ReceiveBlocks, tasks, ipc, events
  <2>2. PICK D : /\ NamesOf(D, free_list, DropCurtask, receive_blocked_lists, event_blocked_lists)
                 /\ Rep(blockCurrentTask(linked), D)
    BY <1>1, <2>1, BlockNames
  <2>3. NamesNext(D) /\ Rep(linked', D)
    BY <1>2, <2>1, <2>2 DEF NamesNext
  <2> QED BY <2>3, RepNow
<1>3. CASE ReceiveTakes /\ linked' = dequeueBlockedList(linked, ReceiveList(curtask))
  <2> DEFINE list == Tail(receive_blocked_lists[curtask])
             l    == ReceiveList(curtask)
  <2>1. mode = "user"
    BY <1>3 DEF ReceiveTakes
  <2>2. curtask \in Slots /\ Slot(tid[curtask]) = curtask
    BY <2>1, Running
  <2>3. /\ receive_blocked_lists[curtask] # << >>
        /\ receive_blocked_lists' = [receive_blocked_lists EXCEPT ![curtask] = list]
        /\ free_list' = free_list /\ ready_list' = ready_list
        /\ event_blocked_lists' = event_blocked_lists
    BY <1>3, <2>2 DEF ReceiveTakes, tasks, events
  <2>4. receive_blocked_lists[curtask] \in Seq(Slots) /\ list \in Seq(Slots)
    <3>1. receive_blocked_lists[curtask] \in Seq(Slots)
      BY <2>2 DEF KernelInv, TypeOK
    <3> QED BY <2>3, <3>1
  <2>5. l \in Lists /\ \A p \in Priorities : ReadyList(p) # l
    BY <2>2, ListNames
  <2>6. C[l] = receive_blocked_lists[curtask]
    BY <1>1, <2>2 DEF Names, NamesOf
  <2>7. Rep(dequeueBlockedList(linked, l), With(C, l, list))
    <3> HIDE DEF l
    <3> QED BY <1>1, <2>3, <2>5, <2>6, DequeueOK
  <2> HIDE DEF list
  <2>8. NamesOf(With(C, l, list), free_list, ready_list,
                [receive_blocked_lists EXCEPT ![curtask] = list], event_blocked_lists)
    BY <1>1, <2>2, <2>4, NamesWith DEF Names
  <2>9. NamesNext(With(C, l, list)) /\ Rep(linked', With(C, l, list))
    BY <1>3, <2>3, <2>7, <2>8 DEF NamesNext
  <2> QED BY <2>9, RepNow
<1> QED BY <1>2, <1>3 DEF Receives

\* sysReply: the sender is in no list, and becomes ready.
LEMMA RepliesRep == KernelInv /\ LinkedRep /\ Replies => LinkedRep'
<1> SUFFICES ASSUME KernelInv, LinkedRep, Replies PROVE LinkedRep'
  OBVIOUS
<1>1. PICK t \in TidArgs :
        SysReply(t) /\ linked' = insertTask(linked, Slot(t), priority[Slot(t)])
  BY DEF Replies
<1>2. PICK C : Names(C) /\ Rep(linked, C)
  BY DEF LinkedRep
<1> DEFINE dst == Slot(t)
<1>3. dst \in Slots
  BY KernelAssumption DEF Slot, Slots, TidArgs
<1>4. /\ AwaitsReply(dst) /\ ready_list' = InsertTask(ready_list, dst)
      /\ free_list' = free_list /\ receive_blocked_lists' = receive_blocked_lists
      /\ event_blocked_lists' = event_blocked_lists
      /\ linked' = insertTask(linked, dst, priority[dst])
  BY <1>1 DEF SysReply, tasks, events
<1> HIDE DEF dst
<1>5. Unlisted(dst, C)
  BY <1>2, <1>3, <1>4, WaiterUnlisted DEF AwaitsReply
<1>6. priority[dst] \in Priorities
  BY <1>3 DEF KernelInv, TypeOK
<1>7. PICK E : /\ NamesOf(E, free_list, [ready_list EXCEPT ![priority[dst]] = Append(@, dst)],
                          receive_blocked_lists, event_blocked_lists)
               /\ Rep(insertTask(linked, dst, priority[dst]), E)
  BY <1>2, <1>3, <1>5, <1>6, InsertNames DEF Names
<1>8. NamesNext(E) /\ Rep(linked', E)
  BY <1>4, <1>7 DEF NamesNext, InsertTask
<1> QED BY <1>8, RepNow

\* sysAwaitEvent: curtask is linked to the end of the event's list.
LEMMA AwaitsRep == KernelInv /\ LinkedRep /\ Awaits => LinkedRep'
<1> SUFFICES ASSUME KernelInv, LinkedRep, Awaits PROVE LinkedRep'
  OBVIOUS
<1>1. PICK e \in Awaited, buf \in UNION {Buffers(f) : f \in Awaited} :
        /\ SysAwaitEvent(e, buf)
        /\ linked' = Enqueue(blockCurrentTask(linked), EventList(e), curtask)
  BY DEF Awaits
<1> DEFINE l == EventList(e)
<1>2. e \in Events
  BY KernelAssumption DEF Events
<1>3. /\ mode = "user" /\ ready_list' = DropCurtask /\ free_list' = free_list
      /\ event_blocked_lists' = [event_blocked_lists EXCEPT ![e] = Append(@, curtask)]
      /\ receive_blocked_lists' = receive_blocked_lists
  BY <1>1 DEF SysAwaitEvent, tasks, ipc
<1>4. l \in Lists /\ \A p \in Priorities : ReadyList(p) # l
  BY <1>2, ListNames
<1> HIDE DEF l
<1>5. PICK D, E :
        /\ NamesOf(D, free_list, DropCurtask, receive_blocked_lists, event_blocked_lists)
        /\ E = With(D, l, Append(D[l], curtask))
        /\ Append(D[l], curtask) \in Seq(Slots)
        /\ Rep(Enqueue(blockCurrentTask(linked), l, curtask), E)
  BY <1>3, <1>4, BlockedOn
<1>6. D[l] = event_blocked_lists[e]
  BY <1>2, <1>5 DEF NamesOf, l
<1> DEFINE list == Append(D[l], curtask)
<1> HIDE DEF list
<1>7. NamesOf(With(D, l, list), free_list, DropCurtask, receive_blocked_lists,
              [event_blocked_lists EXCEPT ![e] = list])
  BY <1>2, <1>5, NamesWith DEF l, list
<1>8. event_blocked_lists' = [event_blocked_lists EXCEPT ![e] = list]
  BY <1>3, <1>6 DEF list
<1>9. NamesNext(E) /\ Rep(linked', E)
  BY <1>1, <1>3, <1>5, <1>7, <1>8 DEF NamesNext, list, l
<1> QED BY <1>9, RepNow

\* An interrupt: the first task leaves the event's list and becomes ready.
LEMMA WakeRep ==
  ASSUME KernelInv, LinkedRep, NEW e \in Events, event_blocked_lists[e] # << >>,
         WakeFirst(e), Wake(e),
         UNCHANGED <<free_list, receive_blocked_lists>>
  PROVE  LinkedRep'
<1> DEFINE h    == Head(event_blocked_lists[e])
           l    == EventList(e)
           list == Tail(event_blocked_lists[e])
<1>1. PICK C : Names(C) /\ Rep(linked, C)
  BY DEF LinkedRep
<1>2. h \in Slots /\ Slot(tid[h]) = h
  BY PopFirstOK
<1>3. /\ event_blocked_lists' = [event_blocked_lists EXCEPT ![e] = list]
      /\ ready_list' = [ready_list EXCEPT ![priority[h]] = Append(@, h)]
  BY <1>2 DEF WakeFirst, PopFirst, InsertTask
<1>4. l \in Lists /\ \A p \in Priorities : ReadyList(p) # l
  BY ListNames
<1>5. C[l] = event_blocked_lists[e]
  BY <1>1 DEF Names, NamesOf
<1>6. list \in Seq(Slots)
  <2>1. event_blocked_lists[e] \in Seq(Slots)
    BY DEF KernelInv, TypeOK
  <2> QED BY <2>1
<1>7. /\ Rep(dequeueBlockedList(linked, l), With(C, l, list)) /\ linked.head[l] = h
      /\ Unlisted(h, With(C, l, list))
  <2> HIDE DEF l
  <2> QED BY <1>1, <1>4, <1>5, DequeueOK
<1> HIDE DEF list, h
<1>8. NamesOf(With(C, l, list), free_list, ready_list, receive_blocked_lists,
              [event_blocked_lists EXCEPT ![e] = list])
  BY <1>1, <1>6, NamesWith DEF Names
<1>9. priority[h] \in Priorities
  BY <1>2 DEF KernelInv, TypeOK
<1>10. PICK E : /\ NamesOf(E, free_list, [ready_list EXCEPT ![priority[h]] = Append(@, h)],
                           receive_blocked_lists, [event_blocked_lists EXCEPT ![e] = list])
                /\ Rep(insertTask(dequeueBlockedList(linked, l), h, priority[h]), E)
  BY <1>2, <1>7, <1>8, <1>9, InsertNames
<1>11. linked' = insertTask(dequeueBlockedList(linked, l), h, priority[h])
  BY <1>7 DEF Wake
<1>12. NamesNext(E) /\ Rep(linked', E)
  BY <1>3, <1>10, <1>11 DEF NamesNext
<1> QED BY <1>12, RepNow

LEMMA InterruptsRep == KernelInv /\ LinkedRep /\ Interrupts => LinkedRep'
<1> SUFFICES ASSUME KernelInv, LinkedRep, Interrupts PROVE LinkedRep'
  OBVIOUS
<1>1. /\ EVENT_TIME_ELAP \in Events
      /\ \A u \in Connected : RxEvent(u) \in Events /\ TxEvent(u) \in Events
  BY DEF Events, EVENT_MAX, RxEvent, TxEvent, EVENT_TIME_ELAP, EVENT_COM1_TX,
         EVENT_COM1_RX, EVENT_COM2_TX, EVENT_COM2_RX
<1>2. PICK e \in Events : event_blocked_lists[e] # << >> /\ WakeFirst(e) /\ Wake(e)
  BY <1>1 DEF Interrupts, TimerLoop, RxIrq, TxIrq
<1>3. UNCHANGED <<free_list, receive_blocked_lists>>
  BY DEF Interrupts, TimerLoop, RxIrq, TxIrq, tasks, ipc
<1> QED BY <1>2, <1>3, WakeRep

\* The other steps move no task, or stop the system.
LEMMA OthersRep == LinkedRep /\ Others /\ mode' # "stopped" => LinkedRep'
<1> SUFFICES ASSUME LinkedRep, Others, mode' # "stopped" PROVE LinkedRep'
  OBVIOUS
<1>1. UNCHANGED <<free_list, ready_list, receive_blocked_lists, event_blocked_lists, linked>>
  BY DEF Others, Stays, Pass, SysHalt, CreateOutOfDescriptors, CreateTidOverflows, AwaitEventAssertFails,
         SendRejected, ReplyRejected, TimerIrq, TimerDone, Stopped, CtsIrq, TxIrqWaitingCts,
         ModemIrq, RxIrqNoWaiter, UartAssertFails, ReturnToLoop, StopSystem, vars, tasks,
         ipc, events
<1> QED BY <1>1, StaysRep

-----------------------------------------------------------------------------
(* The invariant.                                                          *)

\* The handlers of LinkedNext are Kernel's.
LEMMA LinkedIsKernel == LinkedNext => Next
<1> SUFFICES ASSUME LinkedNext PROVE Next
  OBVIOUS
<1>1. CASE Schedules \/ Interrupts
  BY <1>1 DEF Schedules, Interrupts, Next, Irq
<1>2. CASE Creates \/ Exits \/ Sends \/ Receives \/ Replies \/ Awaits
  BY <1>2 DEF Creates, Exits, Sends, Receives, Replies, Awaits, Next, Syscall
<1>3. CASE Others
  BY <1>3 DEF Others, Stays, Next, Syscall, Irq
<1> QED BY <1>1, <1>2, <1>3 DEF LinkedNext

LEMMA LinkedStep == LinkedInv /\ [LinkedNext]_linked_vars => LinkedInv'
<1> SUFFICES ASSUME LinkedInv, [LinkedNext]_linked_vars PROVE LinkedInv'
  OBVIOUS
<1>1. KernelInv /\ CurtaskHeads /\ (mode # "stopped" => LinkedRep)
  BY DEF LinkedInv
<1>2. CASE UNCHANGED linked_vars
  <2>1. KernelInv'
    BY <1>1, <1>2, KernelNext DEF linked_vars
  <2>2. CurtaskHeads'
    BY <1>1, <1>2 DEF linked_vars, vars, tasks, CurtaskHeads
  <2>3. (mode # "stopped" => LinkedRep)'
    BY <1>1, <1>2, StaysRep DEF linked_vars, vars, tasks, ipc, events
  <2> QED BY <2>1, <2>2, <2>3 DEF LinkedInv
<1>3. CASE LinkedNext
  <2>1. Next
    BY <1>3, LinkedIsKernel
  <2>2. KernelInv'
    BY <1>1, <2>1, KernelNext
  <2>3. CurtaskHeads'
    BY <1>1, <2>1, <2>2, CurtaskHeadsStep
  <2>4. ASSUME mode' # "stopped" PROVE LinkedRep'
    <3>1. mode # "stopped"
      <4>1. Stopped => mode' = mode
        BY DEF Stopped, vars
      <4>2. mode = "stopped" => Stopped
        BY <2>1 DEF Next, ScheduleNextTask, Syscall, Irq, Pass, SysHalt, SysExit, SysCreate,
               CreateOutOfDescriptors, CreateTidOverflows, SendRejected, SendDelivered, SendQueued, ReplyRejected,
               SysReply, ReceiveBlocks, ReceiveTakes, SysAwaitEvent, AwaitEventAssertFails,
               ReturnToLoop, TimerIrq, TimerLoop, TimerDone, CtsIrq, TxIrqWaitingCts, ModemIrq,
               RxIrqNoWaiter, RxIrq, TxIrq, UartAssertFails
      <4> QED BY <2>4, <4>1, <4>2
    <3>2. LinkedRep
      BY <1>1, <3>1
    <3> QED BY <1>1, <1>3, <2>4, <3>2, SchedulesRep, CreatesRep, ExitsRep, SendsRep, ReceivesRep,
               RepliesRep, AwaitsRep, InterruptsRep, OthersRep DEF LinkedNext
  <2>5. (mode # "stopped" => LinkedRep)'
    BY <2>4
  <2> QED BY <2>2, <2>3, <2>5 DEF LinkedInv
<1> QED BY <1>2, <1>3

LEMMA LinkedInvIsEnough == LinkedInv => ListsAreLinked
<1> SUFFICES ASSUME LinkedInv, mode # "stopped"
             PROVE  /\ \A l \in Lists : Links(l)
                    /\ HeapOfPriorities
                    /\ mode = "user" => linked.first = curtask
  BY DEF ListsAreLinked
<1>1. PICK C : Names(C) /\ Rep(linked, C)
  BY DEF LinkedInv, LinkedRep
<1>2. ASSUME NEW l \in Lists PROVE Links(l)
  <2>1. Contents(l) = C[l]
    <3>1. CASE l = FreeList
      <4>1. l[1] = "free"
        BY <3>1 DEF FreeList
      <4> QED BY <1>1, <3>1, <4>1 DEF Contents, Names, NamesOf
    <3>2. ASSUME NEW p \in Priorities, l = ReadyList(p) PROVE Contents(l) = C[l]
      <4>1. l[1] = "ready" /\ l[2] = p /\ l # FreeList
        BY <3>2, ListNames DEF ReadyList
      <4> QED BY <1>1, <3>2, <4>1 DEF Contents, Names, NamesOf
    <3>3. ASSUME NEW s \in Slots, l = ReceiveList(s) PROVE Contents(l) = C[l]
      <4>1. l[1] = "receive" /\ l[2] = s /\ l # FreeList
        BY <3>3, ListNames DEF ReceiveList
      <4> QED BY <1>1, <3>3, <4>1 DEF Contents, Names, NamesOf
    <3>4. ASSUME NEW e \in Events, l = EventList(e) PROVE Contents(l) = C[l]
      <4>1. l[1] = "event" /\ l[2] = e /\ l # FreeList
        BY <3>4, ListNames DEF EventList
      <4> QED BY <1>1, <3>4, <4>1 DEF Contents, Names, NamesOf
    <3> QED BY <3>1, <3>2, <3>3, <3>4, ListNames
  <2>2. LinkedAs(linked, l, C[l])
    BY <1>1 DEF Rep, Stands
  <2> QED BY <2>1, <2>2 DEF Links, LinkedAs
<1>3. HeapOfPriorities
  BY <1>1, InHeap DEF HeapOfPriorities, Rep, HeapRep, HeapOf, Names, NamesOf
<1>4. ASSUME mode = "user" PROVE linked.first = curtask
  <2>1. CurtaskFirst(C)
    BY <1>1, <1>4, CurtaskIsFirst DEF LinkedInv
  <2> QED BY <1>1, <2>1 DEF CurtaskFirst, Rep, FirstOK
<1> QED BY <1>2, <1>3, <1>4

\* The next fields, heads, tails and heap of task.c stand for Kernel's lists in
\* every state, and ready_queue.head is the task that runs.
THEOREM MemoryIsLinked == LinkedSpec => []ListsAreLinked
<1>1. LinkedInit => LinkedInv
  BY LinkedInitOK
<1>2. LinkedInv /\ [LinkedNext]_linked_vars => LinkedInv'
  BY LinkedStep
<1>3. LinkedInv => ListsAreLinked
  BY LinkedInvIsEnough
<1> QED BY <1>1, <1>2, <1>3, PTL DEF LinkedSpec
=============================================================================
