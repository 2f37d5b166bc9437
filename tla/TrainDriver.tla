---------------------------- MODULE TrainDriver ----------------------------
(***************************************************************************)
(* One train driver and its train on the track of init_trackb: from the    *)
(* place given by "set" to an orbit given by "ob", along the shortest      *)
(* route, and round the orbit.  The driver follows the train by dead       *)
(* reckoning (updateTrainStatus, at every message of its secretary), is    *)
(* corrected by the sensor it predicts, and has the switches ahead thrown. *)
(*                                                                         *)
(* The train is where pos and heading say; td has the driver's TrainData.  *)
(* Distances are in mm, on the track's own tables.                         *)
(***************************************************************************)
EXTENDS RouteSearch, TrainCmd

CONSTANTS
    Lag,            \* how far the estimate may be behind the train
    MaxCommands,    \* orders "ob" given to the train
    MaxFailures,    \* sensors that fail to report it, or to report it in time
    Homes           \* where a train may be put that gets more than one order and
                    \* that a sensor may fail

ASSUME DriverAssumption ==
    /\ Lag \in 0 .. 334
    /\ MaxCommands \in Nat \ {0} /\ MaxFailures \in Nat
    /\ Homes \subseteq Nodes

\* Mutant: the switches are thrown half as far ahead.
ThresholdShort == 167

SWITCH_THRESHOLD == 335

VARIABLES
    mode,           \* "parked", "running", or "stopped" by an assertion or Halt
    td,             \* the driver's record of its train
    switch_table,   \* train_global->switch_table, which the switches obey
    tick,           \* no message of the secretary since td or the order changed
    pos, heading,   \* the node the train passed last, and the next one
    gap,            \* from td.landmark, by the driver's odometer, to heading
    lost,           \* a sensor that was attributed to no train
    late,           \* the last order came when the train had left its new route
    requested,      \* the driver has asked the center where the train is, since it
                    \* heard of a sensor last
    failed,         \* a sensor has not reported the train since the last that did
    failures,       \* the number of sensors that have not, or not in time
    search,         \* the last result of dijkstra
    typed,          \* the word of "set"
    commands        \* the number of orders

faults == <<failed, failures>>
vars   == <<mode, td, switch_table, tick, pos, heading, gap, lost, late, requested,
            faults, search, typed, commands>>

Halted(t) == [t EXCEPT !.action = "Halted"]

-----------------------------------------------------------------------------
(* The driver's helpers, on its record t of the train.                     *)

orbit_route(t) == OrbitRoute[t.orbit]
nodes_num(t)   == Len(orbit_route(t))

\* Of the arrays of nodes, index 0 first: what lies past the entries that
\* have been written is no node.
Entry(route, i) == IF i \in 0 .. Len(route) - 1 THEN route[i + 1] ELSE NoNode

\* The table that an update by dead reckoning goes by.
TableOf(t, table) == IF t.action = "On_Orbit" THEN orbits[t.orbit].switches ELSE table

findNextNode(t, table) ==
    IF NodeType[t.landmark] = "exit" THEN t.landmark
    ELSE Dest(t.landmark, Direction(TableOf(t, table), t.landmark))

\* From an exit there is no next node: predict_dest stays.
updateCurrentLandmark(t, sensor_node, table) ==
    LET landmark  == IF sensor_node # NoNode THEN sensor_node ELSE findNextNode(t, table)
        direction == Direction(TableOf(t, table), landmark)
        at        == [t EXCEPT !.landmark = landmark, !.ahead_lm = 0]
    IN  IF NodeType[t.landmark] = "exit" THEN Halted(t)
        ELSE IF NodeType[landmark] = "exit" THEN [at EXCEPT !.forward_distance = -1]
        ELSE [at EXCEPT !.forward_distance = Dist(landmark, direction),
                        !.predict_dest = Dest(landmark, direction)]

\* The bound is nodes_num of the orbit, whichever array it is called with.
CheckPointBound(t) == nodes_num(t)

\* Mutant: the check point moves on without looking at the landmark.
NextCheckPoint(t, route, check_point) == (check_point + 1) % nodes_num(t)

updateCheckPoint(t, route, check_point) ==
    LET places == {i \in 0 .. CheckPointBound(t) - 1 : Entry(route, i) = t.landmark}
    IN  IF check_point + 1 \in places THEN check_point + 1
        ELSE IF places = {} THEN -1
        ELSE CHOOSE i \in places : \A j \in places : i <= j

isOnOrbit(t) == \E i \in 1 .. nodes_num(t) : orbit_route(t)[i] = t.landmark

\* The first sensor on the way that orbit_switches show, at most a dozen
\* dozens of nodes on, more than there are.
SensorAhead(t, from) ==
    LET Stops(n) == NodeType[n] \in {"sensor", "exit"}
        Step(n)  == IF Stops(n) THEN n ELSE Dest(n, Direction(orbits[t.orbit].switches, n))
        Steps(n) == LET Way[i \in 0 .. 12] == IF i = 0 THEN n ELSE Step(Way[i - 1])
                    IN  IF Stops(n) THEN n ELSE Way[12]
        Ways[k \in 0 .. 12] == IF k = 0 THEN from ELSE Steps(Ways[k - 1])
    IN  Ways[12]

predictNextSensor(t) ==
    IF t.action = "Halted" THEN t
    ELSE IF t.action = "To_Orbit"
    THEN LET sensors == {i \in t.check_point + 1 .. t.route_nodes_num - 1 :
                            Entry(t.route, i) \in Sensors}
             first   == CHOOSE i \in sensors : \A j \in sensors : i <= j
         IN  IF t.landmark # Entry(t.route, t.check_point) THEN Halted(t)
             ELSE [t EXCEPT !.next_sensor =
                                IF sensors = {} THEN NoNode ELSE Entry(t.route, first)]
    ELSE LET n == IF NodeType[t.landmark] = "exit" THEN t.landmark
                  ELSE SensorAhead(t, Dest(t.landmark, DIR_AHEAD))
         IN  IF NodeType[n] = "exit" THEN Halted(t) ELSE [t EXCEPT !.next_sensor = n]

\* The direction in which a route leaves its node u for v.
TurnTo(u, v) ==
    IF NodeType[u] # "branch" \/ v = Dest(u, DIR_STRAIGHT) THEN DIR_STRAIGHT ELSE DIR_CURVED

\* How long the way over nodes is.
Length(nodes) ==
    LET Sum[i \in 1 .. Len(nodes)] ==
            IF i = 1 THEN 0
            ELSE Sum[i - 1] + Dist(nodes[i - 1], TurnTo(nodes[i - 1], nodes[i]))
    IN  Sum[Len(nodes)]

\* The loop of changeNextSwitch, from the node at index i of a route, which
\* begins at distance ahead of the train: it ends at the last node, or the
\* first that begins SWITCH_THRESHOLD ahead or more.  switchChanger sets the
\* entry of each branch on the way.
ThrowAhead(table, nodes, i, distance) ==
    LET Begins(j) == distance + Length(SubSeq(nodes, i + 1, j + 1))
        end == CHOOSE j \in i .. Len(nodes) - 1 :
                  /\ j + 1 = Len(nodes) \/ Begins(j) >= SWITCH_THRESHOLD
                  /\ \A k \in i .. j - 1 : Begins(k) < SWITCH_THRESHOLD
        Thrown(s) == {j \in i .. end - 1 :
                        /\ NodeType[nodes[j + 1]] = "branch"
                        /\ switchIdToIndex(SwitchNum(nodes[j + 1])) = s}
        last(s) == CHOOSE j \in Thrown(s) : \A k \in Thrown(s) : k <= j
    IN  IF i + 1 >= Len(nodes) THEN table
        ELSE [s \in DOMAIN table |->
                IF Thrown(s) = {} THEN table[s]
                ELSE 33 + TurnTo(nodes[last(s) + 1], nodes[last(s) + 2])]

changeNextSwitch(t, table) ==
    LET distance == t.forward_distance - t.ahead_lm
    IN  CASE t.action = "On_Orbit" ->
                ThrowAhead(table, orbit_route(t) \o orbit_route(t), t.check_point + 1, distance)
          [] t.action = "To_Orbit" ->
                ThrowAhead(table, SubSeq(t.route, 1, t.route_nodes_num), t.check_point + 1, distance)
          [] OTHER -> table

\* How far round its orbit a train on it is, and how far it still has to go
\* to the start of its orbit.
PlaceOnOrbit(t) == CHOOSE i \in 1 .. nodes_num(t) : orbit_route(t)[i] = t.landmark

measureDist(t) == Length(SubSeq(orbit_route(t), 1, PlaceOnOrbit(t))) + t.ahead_lm


\* The loop takes in the edge that leaves the last node of the route.
measureRemainDist(t) ==
    LET last == t.route[t.route_nodes_num]
    IN  Length(SubSeq(t.route, t.check_point + 1, t.route_nodes_num)) + Dist(last, DIR_AHEAD)
        - t.ahead_lm

-----------------------------------------------------------------------------
\* As init_train44 and the driver's first update leave it.
Parked ==
    [landmark |-> 22, predict_dest |-> 9, ahead_lm |-> 0, forward_distance |-> 289,
     action |-> "Off_Route", orbit |-> NoOrbit, route |-> << >>, route_nodes_num |-> 0,
     check_point |-> -1, next_sensor |-> 9]

NoSearch == [src |-> NoNode, dest |-> NoNode, avoid |-> NoAvoid, found |-> FALSE,
             cost |-> -1, route |-> << >>, lost |-> {}]

\* Where the track leads from n.
Onward(table, n) == IF NodeType[n] = "exit" THEN n ELSE Dest(n, Direction(table, n))
EdgeFrom(table, n) == IF NodeType[n] = "exit" THEN 0 ELSE Dist(n, Direction(table, n))

\* A train at the landmark that the operator types.
Init ==
    \E n \in Nodes :
        LET set == deliverCmd(<<"set", 44, Name(n)>>)
        IN  /\ typed = Name(n)
            /\ switch_table = CurvedBut({})
            /\ td = updateCurrentLandmark(Parked, set.value, switch_table)
            /\ pos = n
            /\ heading = Onward(switch_table, n)
            /\ gap = EdgeFrom(switch_table, n)
            /\ mode = "parked"
            /\ tick = FALSE
            /\ lost = NoNode
            /\ late = FALSE
            /\ requested = FALSE
            /\ failed = FALSE /\ failures = 0
            /\ search = NoSearch
            /\ commands = 0

\* The handlers end in a new record of the train, or in Halt.
Conclude(t) ==
    /\ td' = t
    /\ mode' = IF t.action = "Halted" THEN "stopped" ELSE "running"

\* Whether the train was put at one of Homes.
AtHome == typed \in {Name(n) : n \in Homes}

-----------------------------------------------------------------------------
\* The search for a route to orbit o, from the node after the branch that
\* the train is on, and its outcome.  TRACK_MAX, the result if there is no
\* route, counts as the number of its nodes.
FindRoute(t, o, avoid) ==
    dijkstra(t.landmark, IF NodeType[t.landmark] # "branch" THEN t.landmark ELSE t.predict_dest,
             orbits[o].start, avoid)

\* Mutant: the check point of the former route stays.
TakeRouteOnly(t, result) ==
    [t EXCEPT !.route = result.route, !.route_nodes_num = Len(result.route),
              !.action = "To_Orbit"]

TakeRoute(t, result) ==
    [t EXCEPT !.route = IF result.found
                        THEN result.route \o SubSeq(@, Len(result.route) + 1, Len(@))
                        ELSE @,
              !.route_nodes_num = IF result.found THEN Len(result.route) ELSE TRACK_MAX,
              !.check_point = 0,
              !.action = "To_Orbit"]

AvoidIndex(old, new) == IF old = NoOrbit THEN new ELSE old * ORBIT_MAX + new

\* A route takes its train from u to v, unless it ends in u.
Leads(route, u, v) ==
    \E i \in 1 .. Len(route) :
        route[i] = u /\ (i = Len(route) \/ route[i + 1] = v)

\* CMD_ORBIT
OrbitCommand(o) ==
    /\ mode # "stopped"
    /\ commands < IF AtHome THEN MaxCommands ELSE 1
    /\ o # td.orbit
    /\ td.landmark # orbits[o].start
    /\ commands' = commands + 1
    /\ \E result \in {FindRoute(td, o, AvoidMap[AvoidIndex(td.orbit, o)])} :
          /\ search' = result
          /\ late' = ~ Leads(result.route, pos, heading)
          /\ \E t \in {predictNextSensor([TakeRoute(td, result) EXCEPT !.orbit = o])} :
                Conclude(t)
    /\ tick' = TRUE
    /\ UNCHANGED <<switch_table, pos, heading, gap, lost, requested, faults, typed>>

-----------------------------------------------------------------------------
\* updateTrainStatus when the estimate passes predict_dest, not a sensor.
Passed(t0) ==
    LET t     == updateCurrentLandmark(t0, NoNode, switch_table)
        route == IF t.action = "On_Orbit" THEN orbit_route(t) ELSE t.route
        point == updateCheckPoint(t, route, t.check_point)
    IN  CASE t.action \in {"Halted", "Off_Route"} -> t
          [] t.action = "On_Orbit" /\ point = -1 -> Halted(t)
          [] t.action = "To_Orbit" /\ point = -1 -> [t EXCEPT !.action = "Off_Route"]
          [] OTHER -> [t EXCEPT !.check_point = point]

\* A message of the secretary, after which the record is t.
Secretary(t) ==
    /\ mode = "running"
    /\ Conclude(t)
    /\ switch_table' = changeNextSwitch(t, switch_table)
    /\ tick' = FALSE
    /\ UNCHANGED <<pos, heading, lost, late, failed, search, typed, commands>>

AtSensor == td.ahead_lm = td.forward_distance /\ td.predict_dest \in Sensors

\* The train has hardly moved.
Stay == tick /\ Secretary(td) /\ UNCHANGED <<gap, requested, failures>>

\* The estimate comes nearer to the end of its edge, not past the train.
Advance ==
    /\ \E a \in {td.forward_distance - Lag, td.forward_distance} :
          /\ a > td.ahead_lm
          /\ lost # NoNode \/ a <= gap
          /\ Secretary([td EXCEPT !.ahead_lm = a])
    /\ UNCHANGED <<gap, requested, failures>>

\* The train is no longer on its way to predict_dest.
ToPass == ~ (pos = td.landmark /\ heading = td.predict_dest)

PassLandmark ==
    /\ td.ahead_lm = td.forward_distance \/ td.forward_distance = -1
    /\ td.predict_dest \notin Sensors
    /\ lost # NoNode \/ (ToPass /\ gap >= td.forward_distance)
    /\ \E t \in {Passed(td)} : Secretary(t)
    /\ gap' = gap - td.forward_distance
    /\ UNCHANGED <<requested, failures>>

\* Within the bound a sensor may fail, or the train be late for it.
MayFail == AtHome /\ failures < MaxFailures

\* sensor_timeout: the sensor that the estimate has reached does not report in
\* time, because the train is elsewhere, the sensor has failed, or the train is
\* slower than its estimate, which counts as a failure.  The time-out comes again
\* and again until a sensor does, each time with a request.
SensorTimeout ==
    /\ AtSensor
    /\ requested => td.action # "Off_Route"
    /\ \/ (lost # NoNode \/ failed) /\ UNCHANGED failures
       \/ lost = NoNode /\ ~ failed /\ MayFail /\ failures' = failures + 1
    /\ requested' = TRUE
    /\ Secretary([td EXCEPT !.action = "Off_Route"])
    /\ UNCHANGED gap

-----------------------------------------------------------------------------
(* LOCATION_CHANGE in its four parts.                                      *)

JoinOrbit(t) ==
    LET point == updateCheckPoint(t, orbit_route(t), 0)
    IN  IF point = -1 THEN Halted(t)
        ELSE [t EXCEPT !.action = "On_Orbit", !.check_point = point]

\* Mutant: a train on its way is not looked for on the orbit.
ComeToRoute(t) ==
    LET point == updateCheckPoint(t, t.route, t.check_point)
    IN  IF t.action # "To_Orbit" THEN t
        ELSE IF point = -1 THEN [t EXCEPT !.action = "Off_Route"]
        ELSE [t EXCEPT !.check_point = point]

ComeTo(t) ==
    LET point == updateCheckPoint(t, t.route, t.check_point)
    IN  CASE t.action \in {"On_Orbit", "Halted"} -> t
          [] t.action \notin {"On_Orbit", "Halted"} /\ isOnOrbit(t) -> JoinOrbit(t)
          [] t.action = "To_Orbit" /\ ~ isOnOrbit(t) ->
                IF point = -1 THEN [t EXCEPT !.action = "Off_Route"]
                ELSE [t EXCEPT !.check_point = point]
          [] OTHER -> t

GoRound(t) ==
    LET point == updateCheckPoint(t, orbit_route(t), t.check_point)
    IN  IF t.action # "On_Orbit" THEN t
        ELSE IF point = -1 THEN Halted(t)
        ELSE [t EXCEPT !.check_point = point]

LocationChange(sensor) ==
    /\ \E here \in {ComeTo(updateCurrentLandmark(td, sensor, switch_table))} :
          \E result \in {IF here.action = "Off_Route"
                           THEN FindRoute(here, here.orbit, AvoidMap[0]) ELSE search} :
             \E there \in {GoRound(IF here.action = "Off_Route" THEN TakeRoute(here, result)
                                   ELSE here)} :
                /\ search' = result
                /\ switch_table' = IF there.action = "On_Orbit"
                                   THEN changeNextSwitch(there, switch_table)
                                   ELSE switch_table
                /\ \E t \in {predictNextSensor(there)} : Conclude(t)
    /\ tick' = TRUE
    /\ late' = FALSE
    /\ requested' = FALSE
    /\ failed' = FALSE
    /\ UNCHANGED <<failures, typed, commands>>

\* The train center sends the lost sensor to the train that asks for it.  It
\* has answered a request before the train comes to another sensor.
Relocate ==
    /\ requested /\ lost # NoNode
    /\ mode = "running"
    /\ lost' = NoNode
    /\ LocationChange(lost)
    /\ gap' = EdgeFrom(switch_table, pos)
    /\ UNCHANGED <<pos, heading>>

-----------------------------------------------------------------------------
(* The train.  It goes on when the secretary has been heard since the last *)
(* order or sensor, and is found before it goes on from a lost sensor.  It *)
(* is not far ahead of its estimate, but for one that waits at a sensor.   *)
OffTrack == NodeType[heading] = "exit"

Moves ==
    /\ mode = "running"
    /\ ~ tick
    /\ lost = NoNode
    /\ gap - td.ahead_lm <= Lag \/ (AtSensor /\ ToPass)
    /\ ~ OffTrack
    /\ pos' = heading
    /\ heading' = Onward(switch_table, heading)

Roll ==
    /\ Moves
    /\ heading \notin Sensors
    /\ gap' = gap + EdgeFrom(switch_table, heading)
    /\ UNCHANGED <<mode, td, switch_table, tick, lost, late, requested, faults, search, typed,
                   commands>>

\* The sensor it predicted is delivered to the driver.
HitSensor ==
    /\ Moves
    /\ heading = td.next_sensor
    /\ LocationChange(heading)
    /\ gap' = EdgeFrom(switch_table, heading)
    /\ UNCHANGED lost

\* Any other one is delivered to nobody.
LoseSensor ==
    /\ Moves
    /\ heading \in Sensors /\ heading # td.next_sensor
    /\ lost' = heading
    /\ gap' = gap + EdgeFrom(switch_table, heading)
    /\ UNCHANGED <<mode, td, switch_table, tick, late, requested, faults, search, typed, commands>>

\* A sensor that does not report: nobody hears of it.
FailSensor ==
    /\ Moves
    /\ heading \in Sensors
    /\ MayFail
    /\ failures' = failures + 1
    /\ failed' = TRUE
    /\ gap' = gap + EdgeFrom(switch_table, heading)
    /\ UNCHANGED <<mode, td, switch_table, tick, lost, late, requested, search, typed, commands>>

\* A train at the end of the track, of which nobody will hear any more.
Departed == OffTrack /\ lost = NoNode

Next ==
    \/ \E o \in Orbits : OrbitCommand(o)
    \/ Stay
    \/ Advance
    \/ PassLandmark
    \/ SensorTimeout
    \/ Relocate
    \/ Roll
    \/ HitSensor
    \/ LoseSensor
    \/ FailSensor
    \/ (mode = "stopped" \/ Departed) /\ UNCHANGED vars

\* Weak fairness of everything but the orders: the secretary never stops,
\* and the train goes on.  While the train runs, and is not at the end of the
\* track, one of these actions is enabled, so that they are weakly fair if they
\* are taken for ever.
Fairness == <>[](mode # "running" \/ Departed) \/ []<><<commands' = commands>>_vars

Spec == Init /\ [][Next]_vars /\ Fairness

-----------------------------------------------------------------------------
(* Properties                                                              *)

Route == SubSeq(td.route, 1, td.route_nodes_num)

\* What dijkstra finds is a way over the track from its source to the start
\* of the orbit, it costs what the search says, and no way costs less, the
\* penalty of the branch to avoid included.  If it finds none there is none.
RouteIsShortest ==
    search # NoSearch =>
        LET o == CHOOSE o \in Orbits : orbits[o].start = search.dest
            n == IF Head(search.route) = search.src THEN 1 ELSE 2
            r == SubSeq(search.route, n, Len(search.route))
            costs == ShortestCost[o][search.avoid]
        IN  /\ search.found <=> search.src \in DOMAIN costs
            /\ search.found =>
                 /\ Head(r) = search.src
                 /\ r[Len(r)] = search.dest
                 /\ \A i \in 1 .. Len(r) - 1 :
                       \E d \in Directions(r[i]) : Dest(r[i], d) = r[i + 1]
                 /\ RouteCost(r, search.avoid) = search.cost
                 /\ search.cost = costs[search.src]

\* Whenever the search reduces a key, the index that the node has cached is
\* the node's place in the heap (minHeapResortNode starts from it).
ResortFindsNode == search.lost = {}

\* deliverCmd makes of each name on the track the index of the node that
\* init_trackb gives that name.
LandmarkNamed == mode = "parked" => Name(td.landmark) = typed

\* A train on its way to an orbit is where its driver believes it is, or will
\* come there by the same way: the check point of its route has its landmark,
\* whatever landmarks an early sensor made the driver skip, and it takes the
\* leg of every branch that its route takes, which is thrown before it comes,
\* from an estimate that is up to Lag behind.  It says nothing of a train whose
\* sensor has failed, nor of one that updateCheckPoint has found behind the end
\* of its route, among the entries that a longer one has left there.
OnTheRoute ==
    /\ mode = "running" /\ ~ late /\ ~ failed
    /\ td.action = "To_Orbit" /\ td.check_point < td.route_nodes_num
    =>  /\ td.landmark = Entry(Route, td.check_point)
        /\ Leads(SubSeq(td.route, td.check_point + 1, td.route_nodes_num), pos, heading)

\* A train that goes round its orbit stays on it, as long as no order takes it
\* away: its check point has its landmark, it takes the leg of every branch
\* that the orbit takes, and the sensor it comes to is the one its driver waits for.
KeepsToOrbit ==
    ~ failed /\ td.action = "On_Orbit" =>
        /\ td.landmark = Entry(orbit_route(td), td.check_point)
        /\ Leads(Append(orbit_route(td), orbits[td.orbit].start), pos, heading)
        /\ heading \in Sensors => heading = td.next_sensor

\* No assertion of the driver fails and it never halts the system, but for
\* the search that finds no route and does not say so.
NeverStops == mode = "stopped" => ~ search.found


\* A train that has been ordered to an orbit gets there, unless it stands
\* where no way leads to it: also when the order came too late for a branch,
\* after it has been lost, and after a sensor has not reported it, as long as the
\* track does not end before the next one.
ReachesOrbit ==
    (mode = "running") ~>
        (td.action = "On_Orbit" \/ ~ search.found \/ (failed /\ OffTrack))

=============================================================================
