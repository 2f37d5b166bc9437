-------------------------------- MODULE Heap --------------------------------
(***************************************************************************)
(* The min heap of klib/heap.c.  A heap is a record:                       *)
(*   data  - the nodes in data[0 .. heapsize - 1], in order                *)
(*   key   - node -> its key, of the nodes that have one                   *)
(*   index - node -> the index it caches, -1 after it has left the heap    *)
(*   lost  - the nodes that were resorted from an index that is not theirs *)
(* A node is removed at the root by minHeapPop; what it leaves in the      *)
(* cached indices matters to minHeapResortNode only.                       *)
(***************************************************************************)
EXTENDS Integers, Sequences

heapInitial == [data |-> << >>, key |-> << >>, index |-> << >>, lost |-> {}]

\* A function f that is also defined at x, with the value y.
SetAt(f, x, y) == [z \in DOMAIN f \cup {x} |-> IF z = x THEN y ELSE f[z]]

\* Keys and indices are -1 until they are set.
Key(h, n)         == IF n \in DOMAIN h.key THEN h.key[n] ELSE -1
SetKey(h, n, key) == [h EXCEPT !.key = SetAt(@, n, key)]

HeapSize(h) == Len(h.data)
At(h, i)    == h.data[i + 1]
KeyAt(h, i) == h.key[At(h, i)]

getParent(i)     == IF i = 0 THEN 0 ELSE (i - 1) \div 2     \* C rounds to zero
getLeftChild(i)  == (i + 1) * 2 - 1
getRightChild(i) == (i + 1) * 2

\* Mutant: the nodes keep the indices they had cached.
SwapData(h, i, j) ==
    [h EXCEPT !.data[i + 1] = At(h, j), !.data[j + 1] = At(h, i)]

\* swap: the two nodes change places and exchange the indices they cache.
Swap(h, i, j) ==
    LET a == At(h, i)
        b == At(h, j)
    IN  [h EXCEPT !.data[i + 1] = b, !.data[j + 1] = a,
                  !.index[a] = h.index[b], !.index[b] = h.index[a]]

\* One turn of the loop that moves the node at index m.at towards the root, and
\* the loop, which needs fewer turns than the index.
TurnUp(m) ==
    LET parent == getParent(m.at)
    IN  IF m.at > 0 /\ KeyAt(m.heap, parent) > KeyAt(m.heap, m.at)
        THEN [heap |-> Swap(m.heap, parent, m.at), at |-> parent]
        ELSE m

MoveUp(h, i) ==
    LET turns[k \in 0 .. i] ==
            IF k = 0 THEN [heap |-> h, at |-> i] ELSE TurnUp(turns[k - 1])
    IN  turns[i].heap

\* The child that minHeapPop compares with its parent: the smaller one.
SmallerChild(h, i) ==
    IF /\ getRightChild(i) <= HeapSize(h) - 1
       /\ ~ (KeyAt(h, getLeftChild(i)) < KeyAt(h, getRightChild(i)))
    THEN getRightChild(i)
    ELSE getLeftChild(i)

\* The same away from the root.
TurnDown(m) ==
    LET child == SmallerChild(m.heap, m.at)
    IN  IF /\ getLeftChild(m.at) <= HeapSize(m.heap) - 1
           /\ KeyAt(m.heap, m.at) > KeyAt(m.heap, child)
        THEN [heap |-> Swap(m.heap, m.at, child), at |-> child]
        ELSE m

MoveDown(h) ==
    LET turns[k \in 0 .. HeapSize(h)] ==
            IF k = 0 THEN [heap |-> h, at |-> 0] ELSE TurnDown(turns[k - 1])
    IN  turns[HeapSize(h)].heap

minHeapInsert(h, n) ==
    LET i == HeapSize(h)
    IN  MoveUp([h EXCEPT !.data = Append(@, n), !.index = SetAt(@, n, i)], i)

\* The last node moves to the root, and keeps the index it had.
minHeapPop(h) ==
    LET last == HeapSize(h) - 1
        rest == SubSeq([h.data EXCEPT ![1] = At(h, last)], 1, last)
    IN  MoveDown([h EXCEPT !.data = rest, !.index[At(h, 0)] = -1])

\* The key of a node of the heap has become smaller.  From an index that is
\* not the node's, the code goes through NULL or moves another node; such a
\* node is recorded in lost.
minHeapResortNode(h, n) ==
    IF h.index[n] \in 0 .. HeapSize(h) - 1 /\ At(h, h.index[n]) = n
    THEN MoveUp(h, h.index[n])
    ELSE [h EXCEPT !.lost = @ \cup {n}]
=============================================================================
