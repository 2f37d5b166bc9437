----------------------------- MODULE RouteSearch -----------------------------
(***************************************************************************)
(* dijkstra of train_driver.c: the route from a landmark to the start of   *)
(* an orbit.  A search is a record of its heap, of the predecessors it has *)
(* recorded, and of u, the node it has popped last.  The result has the    *)
(* route, whether there is one (the code returns TRACK_MAX when there is   *)
(* none), its cost, and the nodes that the heap could not find when their  *)
(* keys were reduced.                                                      *)
(***************************************************************************)
EXTENDS Heap, Track

AVOID_PENALTY == 5000

EdgeCost(u, d, avoid) ==
    Dist(u, d) + IF u = avoid.branch /\ d = avoid.state THEN AVOID_PENALTY ELSE 0

\* Mutant: the first way found to a node is kept.
FirstUpdate(s, u, d, avoid) ==
    LET neighbour == Dest(u, d)
    IN  IF Key(s.heap, neighbour) # -1 THEN s
        ELSE [s EXCEPT !.heap = minHeapInsert(SetKey(@, neighbour,
                                                     @.key[u] + EdgeCost(u, d, avoid)), neighbour),
                       !.previous = SetAt(@, neighbour, u)]

dijkstraUpdate(s, u, d, avoid) ==
    LET neighbour  == Dest(u, d)
        old_dist   == Key(s.heap, neighbour)
        alter_dist == s.heap.key[u] + EdgeCost(u, d, avoid)
        heap       == SetKey(s.heap, neighbour, alter_dist)
    IN  IF old_dist = -1 \/ alter_dist < old_dist
        THEN [s EXCEPT !.heap = IF old_dist = -1 THEN minHeapInsert(heap, neighbour)
                                ELSE minHeapResortNode(heap, neighbour),
                       !.previous = SetAt(@, neighbour, u)]
        ELSE s

\* The edges of u in the order of the code: straight, then curved.
Expand(s, u, avoid) ==
    IF NodeType[u] = "exit" THEN s
    ELSE LET ahead == dijkstraUpdate(s, u, DIR_AHEAD, avoid)
         IN  IF NodeType[u] = "branch" THEN dijkstraUpdate(ahead, u, DIR_CURVED, avoid)
             ELSE ahead

\* The loop ends when the heap is empty, or dest has been popped.
Ended(s, dest) == HeapSize(s.heap) = 0 \/ s.u = dest

\* One turn of the loop.
Turn(s, dest, avoid) ==
    LET u      == At(s.heap, 0)
        popped == [s EXCEPT !.heap = minHeapPop(@), !.u = u]
    IN  IF Ended(s, dest) THEN s
        ELSE IF u = dest THEN popped
        ELSE Expand(popped, u, avoid)

\* A dozen turns, and the search after its loop, a dozen dozens: each turn
\* pops a node, and none comes back.
Turns(s, dest, avoid) ==
    LET turn[k \in 0 .. 12] == IF k = 0 THEN s ELSE Turn(turn[k - 1], dest, avoid)
    IN  IF Ended(s, dest) THEN s ELSE turn[12]

Search(s, dest, avoid) ==
    LET dozen[k \in 0 .. 12] == IF k = 0 THEN s ELSE Turns(dozen[k - 1], dest, avoid)
    IN  dozen[12]

StartSearch(src) ==
    [heap |-> minHeapInsert(SetKey(heapInitial, src, 0), src), previous |-> << >>, u |-> NoNode]

\* The nodes that lead to dest, from a node that has no predecessor.
RouteBack(previous, dest) ==
    LET back[v \in Nodes] ==
            IF v \in DOMAIN previous THEN Append(back[previous[v]], v) ELSE <<v>>
    IN  back[dest]

\* What is read off a search that has ended.
Outcome(s, landmark, src, dest, avoid) ==
    LET found == s.u = dest
        route == RouteBack(s.previous, dest)
    IN  [src |-> src, dest |-> dest, avoid |-> avoid,
         found |-> found,
         cost  |-> Key(s.heap, dest),
         route |-> IF ~ found THEN << >>
                   ELSE IF src # landmark THEN <<landmark>> \o route
                   ELSE route,
         lost  |-> s.heap.lost]

dijkstra(landmark, src, dest, avoid) ==
    Outcome(Search(StartSearch(src), dest, avoid), landmark, src, dest, avoid)

-----------------------------------------------------------------------------
(* The reference: the least costs to dest, of the nodes from which a way   *)
(* to it is known, become known to one more node of each way in every      *)
(* round; a dozen dozens of rounds are more than there are nodes.          *)
Offers(costs, n, avoid) ==
    {costs[m] : m \in {n} \cap DOMAIN costs} \cup
    {EdgeCost(n, d, avoid) + costs[Dest(n, d)] :
        d \in {e \in Directions(n) : Dest(n, e) \in DOMAIN costs}}

Least(S) == CHOOSE c \in S : \A x \in S : c <= x

\* The table itself: to compare it with the last one TLC works it out, once.
WorkedOut(table, last) == IF table = last THEN last ELSE table

Relax(costs, avoid) ==
    WorkedOut([n \in {m \in Nodes : Offers(costs, m, avoid) # {}} |-> Least(Offers(costs, n, avoid))],
              costs)

Settle(costs, avoid) ==
    LET round[k \in 0 .. 12] == IF k = 0 THEN costs ELSE Relax(round[k - 1], avoid)
    IN  IF Relax(costs, avoid) = costs THEN costs ELSE round[12]

CostsTo(dest, avoid) ==
    LET dozen[k \in 0 .. 12] == IF k = 0 THEN [n \in {dest} |-> 0]
                                ELSE Settle(dozen[k - 1], avoid)
    IN  dozen[12]

Avoids == {AvoidMap[i] : i \in DOMAIN AvoidMap}

ShortestCost == [o \in Orbits |-> [avoid \in Avoids |-> CostsTo(orbits[o].start, avoid)]]

\* The direction in which a route goes from u to v, and what a route costs.
LegTo(u, v) == CHOOSE d \in Directions(u) : Dest(u, d) = v

RouteCost(route, avoid) ==
    LET cost[i \in 1 .. Len(route)] ==
            IF i = 1 THEN 0
            ELSE cost[i - 1] + EdgeCost(route[i - 1], LegTo(route[i - 1], route[i]), avoid)
    IN  cost[Len(route)]
=============================================================================
