----------------------------- MODULE LinkedList -----------------------------
(***************************************************************************)
(* The doubly linked lists of linkedlist.c.  A memory m has the head and   *)
(* the tail of every list and the previous and next node of every node.    *)
(***************************************************************************)
EXTENDS Integers, Sequences, FiniteSets

CONSTANT NULL

\* A field of node n set to value: no field if n is NULL.
Set(field, n, value) == [x \in DOMAIN field |-> IF x = n THEN value ELSE field[x]]

listInitial(Lists, Nodes) ==
    [head |-> [l \in Lists |-> NULL], tail |-> [l \in Lists |-> NULL],
     previous |-> [n \in Nodes |-> NULL], next |-> [n \in Nodes |-> NULL]]

listPush(m, l, n) ==
    [head |-> Set(m.head, l, n),
     tail |-> Set(m.tail, l, IF m.tail[l] = NULL THEN n ELSE m.tail[l]),
     previous |-> Set(Set(m.previous, n, NULL), m.head[l], n),
     next |-> Set(m.next, n, m.head[l])]

listAppend(m, l, n) ==
    [head |-> Set(m.head, l, IF m.head[l] = NULL THEN n ELSE m.head[l]),
     tail |-> Set(m.tail, l, n),
     previous |-> Set(m.previous, n, m.tail[l]),
     next |-> Set(Set(m.next, m.tail[l], n), n, NULL)]

\* The nodes that a loop from the head finds, as long as it finds new ones.
Walk(m, l) ==
    LET N == Cardinality(DOMAIN m.next)
        at[i \in 1 .. N + 1] ==
            IF i = 1 THEN m.head[l]
            ELSE IF at[i - 1] = NULL THEN NULL
            ELSE m.next[at[i - 1]]
    IN  SubSeq(at, 1, Cardinality({i \in 1 .. N : at[i] # NULL}))

IsIn(m, l, n) == \E i \in 1 .. Len(Walk(m, l)) : Walk(m, l)[i] = n

Removed(m, l, n, tail) ==
    [head |-> Set(m.head, l, IF n = m.head[l] THEN m.next[n] ELSE m.head[l]),
     tail |-> Set(m.tail, l, tail),
     previous |-> Set(Set(m.previous, m.next[n], m.previous[n]), n, NULL),
     next |-> Set(Set(m.next, m.previous[n], m.next[n]), n, NULL)]

\* (Mutant: the tail is left alone.)
RemoveNotTail(m, l, n) == IF IsIn(m, l, n) THEN Removed(m, l, n, m.tail[l]) ELSE m

listRemove(m, l, n) ==
    IF ~ IsIn(m, l, n) THEN m
    ELSE Removed(m, l, n, IF n = m.tail[l] THEN m.previous[n] ELSE m.tail[l])
=============================================================================
