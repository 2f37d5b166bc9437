----------------------------- MODULE Satellites -----------------------------
(***************************************************************************)
(* The hierarchy of the satellites: the lists of trains that               *)
(* train_driver.c keeps for each orbit, and each train's parent, which an  *)
(* order for an orbit changes.  Orbit 0 is the outermost.                  *)
(*                                                                         *)
(* Every driver writes to the lists and to the other trains' parents.      *)
(* Orders come from one keyboard: one has been dealt with when the next    *)
(* has been typed.                                                         *)
(***************************************************************************)
EXTENDS LinkedList

CONSTANTS TRAIN_MAX, ORBIT_MAX

\* What the constants have to be.
SatellitesAssumption ==
    /\ TRAIN_MAX \in Nat \ {0}
    /\ ORBIT_MAX \in Nat \ {0}
    /\ NULL \notin 0 .. TRAIN_MAX - 1
    /\ NULL \notin 0 .. ORBIT_MAX - 1

Trains == 0 .. TRAIN_MAX - 1
Orbits == 0 .. ORBIT_MAX - 1

VARIABLES
    satellite_lists, \* a memory of LinkedList: a list for each orbit
    orbit,           \* the orbit that each train was ordered to
    parent_train

vars == <<satellite_lists, orbit, parent_train>>

\* All the satellites, as the loops over the orbits and their lists find them.
InOrder(m) ==
    LET upTo[o \in 0 .. ORBIT_MAX] == IF o = 0 THEN << >> ELSE upTo[o - 1] \o Walk(m, o - 1)
    IN  upTo[ORBIT_MAX]

\* A train comes in front of the others from the orbit outside (from the
\* innermost orbit to the outermost one).
Moved(m, t, old, new) ==
    IF old = NULL THEN listAppend(m, new, t)
    ELSE LET left == listRemove(m, old, t)
         IN  IF (new + ORBIT_MAX - old) % ORBIT_MAX = 1 THEN listPush(left, new, t)
             ELSE listAppend(left, new, t)

\* The parent of the i-th of the trains in order, and found_first before it.
Parent(m, order, i) ==
    LET previous    == m.previous[order[i]]
        found_first == \E j \in 1 .. i - 1 : m.previous[order[j]] = NULL
    IN  IF previous # NULL THEN previous
        ELSE IF found_first THEN order[i - 1]
        ELSE NULL

\* CMD_ORBIT.
OrderOrbit(t, new) ==
    /\ orbit[t] # new
    /\ orbit' = [orbit EXCEPT ![t] = new]
    /\ \E m \in {Moved(satellite_lists, t, orbit[t], new)} :
       \E order \in {InOrder(m)} :
          /\ satellite_lists' = m
          /\ parent_train' = [u \in Trains |->
                IF \E i \in 1 .. Len(order) : order[i] = u
                THEN Parent(m, order, CHOOSE i \in 1 .. Len(order) : order[i] = u)
                ELSE parent_train[u]]

Init ==
    /\ satellite_lists = listInitial(Orbits, Trains)
    /\ orbit = [t \in Trains |-> NULL]
    /\ parent_train = [t \in Trains |-> NULL]

Next == \E t \in Trains, o \in Orbits : OrderOrbit(t, o)

Spec == Init /\ [][Next]_vars

-----------------------------------------------------------------------------
(* Properties                                                              *)

\* Except the first satellite on the outermost orbit, each satellite has a
\* parent: the one in front of it, or the last one of the nearest orbit
\* outside that has any.  The lists have every train that was ordered, once,
\* and in the list of its orbit.
Ranked ==
    LET order  == InOrder(satellite_lists)
        placed == {t \in Trains : orbit[t] # NULL}
    IN  /\ Len(order) = Cardinality(placed)
        /\ \A t \in placed : IsIn(satellite_lists, orbit[t], t)
        /\ \A i \in 1 .. Len(order) :
              parent_train[order[i]] = IF i = 1 THEN NULL ELSE order[i - 1]

\* A train that changes its orbit goes in front of those of the next orbit or
\* behind those of another; the others keep their order.
OrderKept ==
    \A o \in Orbits :
        LET now     == Walk(satellite_lists, o)
            after   == Walk(satellite_lists, o)'
            outside == (o + ORBIT_MAX - 1) % ORBIT_MAX
        IN  \/ after = now
            \/ \E i \in 1 .. Len(now) :
                  /\ orbit[now[i]] = o
                  /\ after = SubSeq(now, 1, i - 1) \o SubSeq(now, i + 1, Len(now))
            \/ \E t \in Trains :
                  \/ orbit[t] = outside /\ after = <<t>> \o now
                  \/ orbit[t] # outside /\ after = Append(now, t)

\* However orders follow one another, the linked lists (linkedlist.c) hold the
\* hierarchy that the drivers keep their distance by.
HierarchyKept == [][OrderKept /\ Ranked']_vars
=============================================================================
