------------------------------- MODULE Track -------------------------------
(***************************************************************************)
(* The track that trainBootstrap installs (init_trackb), its three orbits  *)
(* and its names.  A node of the track is one direction of travel over a   *)
(* sensor, a switch or an end; it is named by its index in track_nodes.    *)
(***************************************************************************)
LOCAL INSTANCE Integers
LOCAL INSTANCE Sequences

DIR_AHEAD    == 0
DIR_STRAIGHT == 0
DIR_CURVED   == 1

SWITCH_STR   == 33
SWITCH_CUR   == 34

ORBIT_MAX    == 3
TRACK_MAX    == 144

(* The nodes a sensor leads to, with the length of the edge, sensor by     *)
(* sensor of each decoder.                                                 *)
SensorsA == <<
    <<103, 231>>, <<133, 504>>, <<106, 43>>, <<31, 437>>, <<85, 231>>, <<25, 642>>,
    <<27, 470>>, <<83, 229>>, <<23, 289>>, <<81, 229>>, <<81, 282>>, <<15, 814>>,
    <<87, 236>>, <<131, 325>>, <<10, 814>>, <<87, 275>> >>

SensorsB == <<
    <<61, 404>>, <<111, 231>>, <<33, 201>>, <<111, 239>>, <<50, 404>>, <<105, 231>>,
    <<9, 289>>, <<135, 43>>, <<4, 642>>, <<137, 40>>, <<7, 470>>, <<139, 50>>,
    <<119, 239>>, <<63, 201>>, <<2, 437>>, <<108, 50>> >>

SensorsC == <<
    <<19, 201>>, <<117, 246>>, <<129, 410>>, <<89, 239>>, <<90, 61>>, <<109, 433>>,
    <<115, 231>>, <<84, 128>>, <<109, 326>>, <<110, 128>>, <<104, 120>>, <<107, 333>>,
    <<70, 780>>, <<100, 50>>, <<59, 4000>>, <<91, 239>> >>

SensorsD == <<
    <<121, 246>>, <<67, 201>>, <<99, 239>>, <<21, 404>>, <<69, 282>>, <<97, 229>>,
    <<97, 309>>, <<71, 376>>, <<75, 282>>, <<95, 316>>, <<47, 404>>, <<93, 231>>,
    <<17, 404>>, <<113, 239>>, <<28, 201>>, <<113, 246>> >>

SensorsE == <<
    <<123, 239>>, <<78, 201>>, <<48, 201>>, <<99, 239>>, <<53, 282>>, <<98, 50>>,
    <<54, 376>>, <<45, 780>>, <<95, 239>>, <<76, 282>>, <<57, 282>>, <<92, 43>>,
    <<112, 43>>, <<72, 282>>, <<105, 246>>, <<64, 201>> >>

(* Of each switch: destination and length of the straight and of the       *)
(* curved edge of its branch, and of the edge of its merge.                *)
Switches1 == <<
    <<11, 282, 8, 229, 83, 188>>, <<80, 188, 6, 229, 85, 185>>, <<5, 231, 82, 185, 38, 128>>,
    <<14, 275, 13, 236, 103, 185>>, <<34, 239, 93, 371, 114, 155>>, <<46, 239, 115, 371, 37, 61>>,
    <<58, 231, 89, 371, 74, 43>> >>

Switches2 == <<
    <<56, 316, 73, 239, 96, 155>>, <<55, 309, 52, 229, 94, 155>>, <<51, 239, 66, 239, 68, 50>>,
    <<102, 188, 107, 495, 44, 50>>, <<1, 231, 86, 185, 101, 188>>, <<20, 231, 79, 246, 43, 120>>,
    <<101, 495, 42, 333, 3, 43>> >>

Switches3 == <<
    <<36, 433, 41, 326, 30, 50>>, <<16, 231, 18, 239, 40, 128>>, <<60, 239, 62, 246, 77, 43>>,
    <<39, 231, 91, 371, 88, 155>>, <<125, 253, 32, 246, 119, 0>>, <<116, 0, 29, 239, 122, 0>>,
    <<127, 282, 49, 246, 123, 0>>, <<120, 0, 65, 239, 118, 0>> >>

(* Of each entrance, its edge.                                             *)
Enters == <<
    <<117, 253>>, <<121, 282>>, <<35, 410>>, <<12, 325>>, <<0, 504>>, <<22, 43>>,
    <<24, 40>>, <<26, 50>> >>

-----------------------------------------------------------------------------
(* Sensors come first, then branch and merge of each switch, then entrance *)
(* and exit of each end; index ^ 1 is the same place in the other          *)
(* direction.  The last four elements of track_nodes are not used.         *)
Sensors == 0 .. 79
SwitchNodes == 80 .. 123
Nodes   == 0 .. 139
NoNode  == -1                   \* the NULL of a track_node *

NodeType ==
    [n \in Nodes |->
        IF n \in Sensors THEN "sensor"
        ELSE IF n \in SwitchNodes THEN IF n % 2 = 0 THEN "branch" ELSE "merge"
        ELSE IF n % 2 = 0 THEN "enter" ELSE "exit"]

SensorRows == SensorsA \o SensorsB \o SensorsC \o SensorsD \o SensorsE
SwitchRows == Switches1 \o Switches2 \o Switches3

\* The row of edges that leave each node, two numbers for each edge.
EdgeRow ==
    [n \in Nodes |->
        LET switch == SwitchRows[(n - 80) \div 2 + 1]
        IN  CASE NodeType[n] = "sensor" -> SensorRows[n + 1]
              [] NodeType[n] = "branch" -> SubSeq(switch, 1, 4)
              [] NodeType[n] = "merge"  -> SubSeq(switch, 5, 6)
              [] NodeType[n] = "enter"  -> Enters[(n - 124) \div 2 + 1]
              [] NodeType[n] = "exit"   -> << >>]

Directions(n) == IF NodeType[n] = "branch" THEN {DIR_STRAIGHT, DIR_CURVED}
                 ELSE IF NodeType[n] = "exit" THEN {}
                 ELSE {DIR_AHEAD}

\* edge[d].dest and edge[d].dist of a node
Dest(n, d) == EdgeRow[n][2 * d + 1]
Dist(n, d) == EdgeRow[n][2 * d + 2]

-----------------------------------------------------------------------------
(* Switches are numbered 1 to 18 and 153 to 156.                           *)
SwitchNum(n) == LET k == (n - 80) \div 2 IN IF k < 18 THEN k + 1 ELSE k - 18 + 153

switchIdToIndex(id) == (id % 134) - 1

\* The direction in which a table of switches leaves node n.
Direction(table, n) ==
    IF NodeType[n] = "branch" THEN table[switchIdToIndex(SwitchNum(n))] - 33
    ELSE DIR_AHEAD

SwitchTables == [0 .. 21 -> {SWITCH_STR, SWITCH_CUR}]

(* The name of a node: its letters and its number.                         *)
EndNum == <<1, 2, 3, 4, 5, 7, 9, 10>>

Name(n) ==
    CASE NodeType[n] = "sensor" -> <<(<<"A", "B", "C", "D", "E">>)[n \div 16 + 1], (n % 16) + 1>>
      [] NodeType[n] = "branch" -> <<"BR", SwitchNum(n)>>
      [] NodeType[n] = "merge"  -> <<"MR", SwitchNum(n)>>
      [] NodeType[n] = "enter"  -> <<"EN", EndNum[(n - 124) \div 2 + 1]>>
      [] NodeType[n] = "exit"   -> <<"EX", EndNum[(n - 124) \div 2 + 1]>>

-----------------------------------------------------------------------------
(* The orbits.                                                             *)
Orbits  == 0 .. ORBIT_MAX - 1
NoOrbit == -1

CurvedBut(straight) == [i \in 0 .. 21 |-> IF i \in straight THEN SWITCH_STR ELSE SWITCH_CUR]

Orbit1 == [start |-> 14, length |-> 5313, switches |-> CurvedBut({3, 8, 10})]
Orbit2 == [start |-> 72, length |-> 2652, switches |-> CurvedBut({})]
Orbit3 == [start |-> 3,  length |-> 2809, switches |-> CurvedBut({})]

orbits == [o \in Orbits |-> <<Orbit1, Orbit2, Orbit3>>[o + 1]]

\* The loop of init_orbit: from the start along the orbit's switches until
\* the next node is the start again.
OrbitRoute ==
    [o \in Orbits |->
        LET next(n) == Dest(n, Direction(orbits[o].switches, n))
            Walk[i \in 0 .. 139] == IF i = 0 THEN orbits[o].start ELSE next(Walk[i - 1])
            num == CHOOSE n \in 1 .. 139 :
                      /\ Walk[n] = orbits[o].start
                      /\ \A i \in 1 .. n - 1 : Walk[i] # orbits[o].start
        IN  SubSeq([i \in 1 .. num |-> Walk[i - 1]], 1, num)]

\* Where the search for a route to an orbit is made to avoid one leg of a
\* branch: map[old orbit * ORBIT_MAX + new orbit], map[new orbit] if none.
NoAvoid == [branch |-> NoNode, state |-> 0]

AvoidMap ==
    [i \in 0 .. ORBIT_MAX * ORBIT_MAX - 1 |->
        CASE i = 1 -> [branch |-> 100, state |-> DIR_CURVED]
          [] i = 2 -> [branch |-> 96,  state |-> DIR_CURVED]
          [] i = 3 -> [branch |-> 98,  state |-> DIR_STRAIGHT]
          [] i = 6 -> [branch |-> 110, state |-> DIR_STRAIGHT]
          [] OTHER -> NoAvoid]
=============================================================================
