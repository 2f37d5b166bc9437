------------------------- MODULE TrainCenterProofs -------------------------
(***************************************************************************)
(* Proofs about TrainCenter for any number of trains and sensors: who      *)
(* holds which slot and which reporter, whatever fails, and that what a    *)
(* driver is told is where its train is while nothing does.                *)
(***************************************************************************)
EXTENDS TrainCenter, TLAPS, SequenceLemmas

\* The messages of a driver.
Messages == {LocationChange(s) : s \in Sensors} \cup {ReportReturned}

\* The type of every variable.
CenterTypes ==
    /\ sensor_reservation \in [Sensors -> [Slots -> Trains \cup {NULL}]]
    /\ reservation_record \in [Trains -> Sensors]
    /\ last_lost_sensor \in Sensors \cup {NULL}
    /\ next_sensor \in [Trains -> Sensors]
    /\ waiting_for_reporter \in [Trains -> BOOLEAN]
    /\ driver_queue \in [Trains -> Seq(Messages)]
    /\ triggered \in Seq(Sensors)
    /\ place \in [Trains -> Sensors]

-----------------------------------------------------------------------------
(* Facts about the operators.                                              *)

\* The next sensor on the loop is a sensor.
LEMMA FollowingSensor == ASSUME NEW s \in Sensors PROVE Following(s) \in Sensors
BY CenterAssumption DEF Following, Sensors

\* NULL is no train and no sensor, and the two messages of a driver differ.
LEMMA Different ==
    /\ NULL \notin Trains
    /\ NULL \notin Sensors
    /\ \A s \in Sensors : LocationChange(s) # ReportReturned
<1>1. NULL \notin Trains /\ NULL \notin Sensors
  BY CenterAssumption DEF NULL, Trains, Sensors
<1>2. ASSUME NEW s \in Sensors, LocationChange(s) = ReportReturned PROVE FALSE
  <2>1. LocationChange(s).type = "LOCATION_CHANGE" /\ ReportReturned.type = "SATELLITE_REPORT"
    BY DEF LocationChange, ReportReturned
  <2> QED BY <1>2, <2>1
<1> QED BY <1>1, <1>2

\* A message that a driver is sent is the last in its queue.
LEMMA AppendMessage ==
    ASSUME NEW q \in Seq(Messages), NEW m \in Messages
    PROVE  /\ Append(q, m) \in Seq(Messages)
           /\ Len(q) \in Nat
           /\ Len(Append(q, m)) = Len(q) + 1
           /\ Append(q, m)[Len(q) + 1] = m
           /\ \A i \in 1 .. Len(q) : Append(q, m)[i] = q[i]
OBVIOUS

\* A driver receives the first message of its queue.
LEMMA TailMessage ==
    ASSUME NEW q \in Seq(Messages), q # <<>>
    PROVE  /\ Tail(q) \in Seq(Messages)
           /\ Len(q) \in Nat \ {0}
           /\ Len(Tail(q)) = Len(q) - 1
           /\ q[1] = Head(q)
           /\ \A i \in 1 .. Len(q) - 1 : Tail(q)[i] = q[i + 1]
OBVIOUS

-----------------------------------------------------------------------------
(* The reporter of a driver.                                               *)

\* Where in a queue the returned reporters are.
Back(q) == {i \in 1 .. Len(q) : q[i] = ReportReturned}

ReporterOK(waiting, q) ==
    IF waiting THEN \E i \in Back(q) : Back(q) = {i} ELSE Back(q) = {}

\* Another message leaves the reporters where they are.
LEMMA AppendOther ==
    ASSUME NEW q \in Seq(Messages), NEW m \in Messages, m # ReportReturned
    PROVE  Back(Append(q, m)) = Back(q)
BY AppendMessage DEF Back

\* A driver that does not wait for a reporter may send one.
LEMMA AppendReporter ==
    ASSUME NEW q \in Seq(Messages), ReporterOK(FALSE, q)
    PROVE  ReporterOK(TRUE, Append(q, ReportReturned))
<1>1. ReportReturned \in Messages
  BY DEF Messages
<1>2. Back(Append(q, ReportReturned)) = {Len(q) + 1}
  BY <1>1, AppendMessage DEF Back, ReporterOK
<1> QED BY <1>2 DEF ReporterOK

\* Receiving another message moves a reporter one place to the front.
LEMMA TailOther ==
    ASSUME NEW q \in Seq(Messages), q # <<>>, Head(q) # ReportReturned,
           NEW waiting \in BOOLEAN, ReporterOK(waiting, q)
    PROVE  ReporterOK(waiting, Tail(q))
<1>1. \A i \in Int : i \in Back(Tail(q)) <=> i + 1 \in Back(q)
  BY TailMessage DEF Back
<1>2. CASE ~ waiting
  BY <1>1, <1>2 DEF ReporterOK, Back
<1>3. CASE waiting
  <2>1. PICK i \in Back(q) : Back(q) = {i}
    BY <1>3 DEF ReporterOK
  <2>2. i \in Int /\ i - 1 \in Int /\ Back(Tail(q)) \subseteq Int
    BY <2>1 DEF Back
  <2>3. Back(Tail(q)) = {i - 1}
    BY <1>1, <2>1, <2>2
  <2> QED BY <1>3, <2>3 DEF ReporterOK
<1> QED BY <1>2, <1>3

\* When the reporter has returned there is no other.
LEMMA TailReporter ==
    ASSUME NEW q \in Seq(Messages), q # <<>>, Head(q) = ReportReturned,
           NEW waiting \in BOOLEAN, ReporterOK(waiting, q)
    PROVE  ReporterOK(FALSE, Tail(q))
<1>1. 1 \in Back(q)
  BY TailMessage DEF Back
<1>2. Back(q) = {1}
  BY <1>1 DEF ReporterOK
<1>3. \A i \in Nat \ {0} : i \in Back(Tail(q)) <=> i + 1 \in Back(q)
  BY TailMessage DEF Back
<1>4. \A i \in Back(Tail(q)) : i \in Nat \ {0}
  BY TailMessage DEF Back
<1>5. Back(Tail(q)) = {}
  BY <1>2, <1>3, <1>4
<1> QED BY <1>5 DEF ReporterOK

-----------------------------------------------------------------------------
(* The reservations.                                                       *)

\* Where the train in slot i was before attributeSensor moved it.
Source(row, first, i) == IF i + 1 \in Slots /\ row[i + 1] # NULL THEN i + 1 ELSE first

\* attributeSensor makes no copy of a train: two trains that are the same come
\* from the same slot.
LEMMA MovedRow ==
    ASSUME NEW row \in [Slots -> Trains \cup {NULL}], NEW first \in Slots
    PROVE  /\ Moved(row, first) \in [Slots -> Trains \cup {NULL}]
           /\ \A i \in Slots, t \in Trains :
                 Moved(row, first)[i] = t =>
                     Source(row, first, i) \in Slots /\ row[Source(row, first, i)] = t
           /\ \A i, j \in Slots :
                 /\ Moved(row, first)[i] # NULL /\ Moved(row, first)[j] # NULL
                 /\ Source(row, first, i) = Source(row, first, j)
                 => i = j
<1>1. Slots \subseteq Int
  BY CenterAssumption DEF Slots, SENSOR_RESERVE_EACH
<1>2. \A i \in Slots : Moved(row, first)[i] =
          IF i >= first /\ i + 1 \in Slots /\ row[i + 1] # NULL THEN row[i + 1]
          ELSE IF i = first THEN row[i] ELSE NULL
  BY DEF Moved
<1>3. Moved(row, first) \in [Slots -> Trains \cup {NULL}]
  BY DEF Moved
<1>4. ASSUME NEW i \in Slots, Moved(row, first)[i] # NULL
      PROVE  /\ i >= first
             /\ Source(row, first, i) \in Slots
             /\ row[Source(row, first, i)] = Moved(row, first)[i]
             /\ Source(row, first, i) = i + 1 \/ (i = first /\ Source(row, first, i) = first)
  BY <1>1, <1>2, <1>4 DEF Source
<1>5. ASSUME NEW i \in Slots, NEW j \in Slots,
             Moved(row, first)[i] # NULL, Moved(row, first)[j] # NULL,
             Source(row, first, i) = Source(row, first, j)
      PROVE  i = j
  BY <1>1, <1>4, <1>5
<1> QED BY <1>3, <1>4, <1>5, Different

\* The inductive invariant.
CenterInv == CenterTypes /\ OneReservation

\* The center attributes a sensor.
LEMMA AttributeReservation ==
    ASSUME CenterInv, NEW s \in Sensors, attributeSensor(s)
    PROVE  /\ sensor_reservation' \in [Sensors -> [Slots -> Trains \cup {NULL}]]
           /\ OneReservation'
           /\ \E t \in Trains : Deliver(t, LocationChange(s))
           /\ UNCHANGED <<reservation_record, last_lost_sensor>>
<1> DEFINE row == sensor_reservation[s]
<1>1. PICK first \in Slots :
          /\ row[first] # NULL
          /\ sensor_reservation' = [sensor_reservation EXCEPT ![s] = Moved(row, first)]
          /\ Deliver(row[first], LocationChange(s))
          /\ UNCHANGED <<reservation_record, last_lost_sensor>>
  BY DEF attributeSensor
<1>2. row \in [Slots -> Trains \cup {NULL}] /\ row[first] \in Trains
  BY <1>1 DEF CenterInv, CenterTypes
<1>3. Moved(row, first) \in [Slots -> Trains \cup {NULL}]
  BY <1>2, MovedRow
<1>4. sensor_reservation' \in [Sensors -> [Slots -> Trains \cup {NULL}]]
  BY <1>1, <1>3 DEF CenterInv, CenterTypes
<1>5. ASSUME NEW t \in Trains, NEW r \in Sensors, NEW q \in Sensors,
             NEW i \in Slots, NEW j \in Slots,
             sensor_reservation'[r][i] = t, sensor_reservation'[q][j] = t
      PROVE  r = q /\ i = j /\ r = reservation_record'[t]
  <2> DEFINE From(u, k) == IF u = s THEN Source(row, first, k) ELSE k
  <2>1. /\ \A u \in Sensors \ {s} : sensor_reservation'[u] = sensor_reservation[u]
        /\ sensor_reservation'[s] = Moved(row, first)
    BY <1>1 DEF CenterInv, CenterTypes
  <2>2. ASSUME NEW u \in Sensors, NEW k \in Slots, sensor_reservation'[u][k] = t
        PROVE  From(u, k) \in Slots /\ sensor_reservation[u][From(u, k)] = t
    <3>1. CASE u = s
      BY <1>2, <2>1, <2>2, <3>1, MovedRow
    <3>2. CASE u # s
      BY <2>1, <2>2, <3>2
    <3> QED BY <3>1, <3>2
  <2>3. From(r, i) \in Slots /\ From(q, j) \in Slots
        /\ sensor_reservation[r][From(r, i)] = t /\ sensor_reservation[q][From(q, j)] = t
    BY <1>5, <2>2
  <2>4. r = q /\ From(r, i) = From(q, j) /\ r = reservation_record[t]
    BY <2>3 DEF CenterInv, OneReservation
  <2>5. i = j
    <3>1. CASE r = s
      <4>1. /\ Moved(row, first)[i] # NULL /\ Moved(row, first)[j] # NULL
            /\ Source(row, first, i) = Source(row, first, j)
        BY <1>5, <2>1, <2>4, <3>1, Different
      <4> QED BY <1>2, <4>1, MovedRow
    <3>2. CASE r # s
      BY <2>4, <3>2
    <3> QED BY <3>1, <3>2
  <2> QED BY <1>1, <2>4, <2>5
<1>6. OneReservation'
  BY <1>5 DEF OneReservation
<1> QED BY <1>1, <1>2, <1>4, <1>6

\* A driver's report reserves the sensor it expects, and that one only.
LEMMA SaveReservation ==
    ASSUME CenterInv, NEW t \in Trains, NEW s \in Sensors, saveSatelliteReport(t, s)
    PROVE  /\ sensor_reservation' \in [Sensors -> [Slots -> Trains \cup {NULL}]]
           /\ reservation_record' \in [Trains -> Sensors]
           /\ OneReservation'
<1> DEFINE last    == reservation_record[t]
           cleared == [sensor_reservation EXCEPT ![last] = ClearLast(@, t)]
<1>1. PICK free \in Slots :
          /\ cleared[s][free] = NULL
          /\ sensor_reservation' = [cleared EXCEPT ![s][free] = t]
          /\ reservation_record' = [reservation_record EXCEPT ![t] = s]
  BY DEF saveSatelliteReport
<1>2. /\ last \in Sensors
      /\ sensor_reservation \in [Sensors -> [Slots -> Trains \cup {NULL}]]
      /\ reservation_record \in [Trains -> Sensors]
  BY DEF CenterInv, CenterTypes
<1>3. ClearLast(sensor_reservation[last], t) \in [Slots -> Trains \cup {NULL}]
  BY <1>2 DEF ClearLast
<1>4. cleared \in [Sensors -> [Slots -> Trains \cup {NULL}]]
  BY <1>2, <1>3
<1>5. \A r \in Sensors, i \in Slots :
          /\ cleared[r][i] # t
          /\ cleared[r][i] # NULL => cleared[r][i] = sensor_reservation[r][i]
  <2> SUFFICES ASSUME NEW r \in Sensors, NEW i \in Slots
               PROVE  /\ cleared[r][i] # t
                      /\ cleared[r][i] # NULL => cleared[r][i] = sensor_reservation[r][i]
    OBVIOUS
  <2>1. CASE r = last
    <3>1. cleared[r][i] = IF sensor_reservation[r][i] = t THEN NULL ELSE sensor_reservation[r][i]
      BY <1>2, <2>1 DEF ClearLast
    <3> QED BY <3>1, Different
  <2>2. CASE r # last
    <3>1. cleared[r][i] = sensor_reservation[r][i]
      BY <1>2, <2>2
    <3>2. sensor_reservation[r][i] # t
      BY <2>2 DEF CenterInv, OneReservation
    <3> QED BY <3>1, <3>2
  <2> QED BY <2>1, <2>2
<1>6. /\ sensor_reservation' \in [Sensors -> [Slots -> Trains \cup {NULL}]]
      /\ reservation_record' \in [Trains -> Sensors]
      /\ reservation_record'[t] = s
      /\ \A u \in Trains \ {t} : reservation_record'[u] = reservation_record[u]
      /\ sensor_reservation'[s][free] = t
      /\ \A r \in Sensors, i \in Slots :
            r # s \/ i # free => sensor_reservation'[r][i] = cleared[r][i]
  <2> HIDE DEF cleared
  <2> QED BY <1>1, <1>2, <1>4
<1>7. ASSUME NEW u \in Trains, NEW r \in Sensors, NEW q \in Sensors,
             NEW i \in Slots, NEW j \in Slots,
             sensor_reservation'[r][i] = u, sensor_reservation'[q][j] = u
      PROVE  r = q /\ i = j /\ r = reservation_record'[u]
  <2> HIDE DEF cleared
  <2>1. CASE u = t
    BY <1>5, <1>6, <1>7, <2>1
  <2>2. CASE u # t
    <3>1. cleared[r][i] = u /\ cleared[q][j] = u
      BY <1>6, <1>7, <2>2
    <3>2. sensor_reservation[r][i] = u /\ sensor_reservation[q][j] = u
      BY <1>5, <3>1, Different
    <3> QED BY <1>6, <2>2, <3>2 DEF CenterInv, OneReservation
  <2> QED BY <2>1, <2>2
<1>8. OneReservation'
  BY <1>7 DEF OneReservation
<1> QED BY <1>6, <1>8

-----------------------------------------------------------------------------
(* Types and reservations.                                                 *)

\* What a Deliver does to the queues.
LEMMA Delivers ==
    ASSUME CenterTypes, NEW t \in Trains, NEW m \in Messages, Deliver(t, m)
    PROVE  /\ driver_queue' \in [Trains -> Seq(Messages)]
           /\ driver_queue'[t] = Append(driver_queue[t], m)
           /\ \A u \in Trains \ {t} : driver_queue'[u] = driver_queue[u]
<1>1. driver_queue[t] \in Seq(Messages) /\ driver_queue \in [Trains -> Seq(Messages)]
  BY DEF CenterTypes
<1>2. Append(driver_queue[t], m) \in Seq(Messages)
  BY <1>1, AppendMessage
<1> QED BY <1>1, <1>2 DEF Deliver

\* What a Receive of a driver does to the queues.
LEMMA Received ==
    ASSUME CenterTypes, NEW t \in Trains, NEW m, DriverReceives(t, m)
    PROVE  /\ driver_queue[t] \in Seq(Messages)
           /\ driver_queue[t] # <<>>
           /\ Head(driver_queue[t]) = m
           /\ driver_queue' \in [Trains -> Seq(Messages)]
           /\ driver_queue'[t] = Tail(driver_queue[t])
           /\ \A u \in Trains \ {t} : driver_queue'[u] = driver_queue[u]
<1>1. driver_queue[t] \in Seq(Messages) /\ driver_queue \in [Trains -> Seq(Messages)]
  BY DEF CenterTypes
<1>2. Tail(driver_queue[t]) \in Seq(Messages)
  BY <1>1, TailMessage DEF DriverReceives
<1> QED BY <1>1, <1>2 DEF DriverReceives

\* A train's place is a sensor, wherever it goes.
LEMMA PlaceType ==
    ASSUME CenterTypes, NEW t \in Trains, NEW s \in Sensors, Goes(t, s)
    PROVE  place' \in [Trains -> Sensors]
BY DEF CenterTypes, Goes

\* What the track reports are sensors.
LEMMA TriggersType ==
    ASSUME CenterTypes, NEW s \in Sensors, Triggers(s)
    PROVE  triggered' \in Seq(Sensors)
BY DEF CenterTypes, Triggers

\* At the start every table is empty and every train at its place.
LEMMA CenterInit == Init => CenterInv
<1> SUFFICES ASSUME Init PROVE CenterInv
  OBVIOUS
<1>1. CenterTypes
  <2>1. next_sensor \in [Trains -> Sensors]
    BY FollowingSensor DEF Init
  <2> QED BY <2>1 DEF Init, CenterTypes
<1>2. OneReservation
  BY Different DEF Init, OneReservation
<1> QED BY <1>1, <1>2 DEF CenterInv

\* The trains' steps do not touch what is reserved.
LEMMA TrainStep ==
    ASSUME CenterInv, NEW t \in Trains, Pass(t) \/ Miss(t)
    PROVE  CenterInv'
<1>1. PICK s \in Sensors : Goes(t, s) /\ (Triggers(s) \/ UNCHANGED triggered)
  BY DEF Pass, Miss
<1>2. UNCHANGED <<center_data, drivers, driver_queue>>
  BY DEF Pass, Miss
<1>3. place' \in [Trains -> Sensors] /\ triggered' \in Seq(Sensors)
  BY <1>1, PlaceType, TriggersType DEF CenterInv, CenterTypes
<1>4. CenterTypes'
  BY <1>2, <1>3 DEF CenterInv, CenterTypes, center_data, drivers
<1>5. OneReservation'
  BY <1>2 DEF CenterInv, OneReservation, center_data
<1> QED BY <1>4, <1>5 DEF CenterInv

\* Every step keeps a train's reservation the only one.
LEMMA CenterNext == CenterInv /\ [Next]_vars => CenterInv'
<1> SUFFICES ASSUME CenterInv, [Next]_vars PROVE CenterInv'
  OBVIOUS
<1>0. CenterTypes /\ OneReservation
  BY DEF CenterInv
<1>1. CASE handleSensorUpdate
  <2>1. Head(triggered) \in Sensors /\ Tail(triggered) \in Seq(Sensors)
    BY <1>0, <1>1 DEF CenterTypes, handleSensorUpdate
  <2>2. CASE attributeSensor(Head(triggered))
    <3>1. PICK t \in Trains : Deliver(t, LocationChange(Head(triggered)))
      BY <2>1, <2>2, AttributeReservation
    <3>2. driver_queue' \in [Trains -> Seq(Messages)]
      BY <1>0, <2>1, <3>1, Delivers DEF Messages
    <3>3. /\ sensor_reservation' \in [Sensors -> [Slots -> Trains \cup {NULL}]]
          /\ OneReservation'
          /\ UNCHANGED <<reservation_record, last_lost_sensor>>
      BY <2>1, <2>2, AttributeReservation
    <3> QED BY <1>0, <1>1, <2>1, <3>2, <3>3 DEF CenterInv, CenterTypes, handleSensorUpdate, drivers
  <2>3. CASE SaveLost(Head(triggered))
    <3>1. CenterTypes'
      BY <1>0, <1>1, <2>1, <2>3 DEF CenterTypes, handleSensorUpdate, SaveLost, drivers
    <3>2. OneReservation'
      BY <1>0, <2>3 DEF OneReservation, SaveLost
    <3> QED BY <3>1, <3>2 DEF CenterInv
  <2> QED BY <1>1, <2>2, <2>3 DEF handleSensorUpdate
<1>2. ASSUME NEW t \in Trains, updateReport(t) PROVE CenterInv'
  <2>1. next_sensor[t] \in Sensors
    BY <1>0 DEF CenterTypes
  <2>2. /\ sensor_reservation' \in [Sensors -> [Slots -> Trains \cup {NULL}]]
        /\ reservation_record' \in [Trains -> Sensors]
        /\ OneReservation'
    BY <1>2, <2>1, SaveReservation DEF updateReport
  <2>3. driver_queue' \in [Trains -> Seq(Messages)]
    BY <1>0, <1>2, Delivers DEF updateReport, Messages
  <2> QED BY <1>0, <1>2, <2>2, <2>3 DEF CenterInv, CenterTypes, updateReport, track
<1>3. ASSUME NEW t \in Trains, relocationRequest(t) PROVE CenterInv'
  <2>1. /\ driver_queue' \in [Trains -> Seq(Messages)]
        /\ last_lost_sensor' \in Sensors \cup {NULL}
    <3>1. CASE /\ last_lost_sensor # NULL /\ last_lost_sensor' = NULL
               /\ Deliver(t, LocationChange(last_lost_sensor))
      <4>1. last_lost_sensor \in Sensors
        BY <1>0, <3>1 DEF CenterTypes
      <4> QED BY <1>0, <3>1, <4>1, Delivers DEF Messages
    <3>2. CASE UNCHANGED <<last_lost_sensor, driver_queue>>
      BY <1>0, <3>2 DEF CenterTypes
    <3> QED BY <1>3, <3>1, <3>2 DEF relocationRequest, handleLocationRecovery
  <2>2. UNCHANGED <<sensor_reservation, reservation_record, drivers, track>>
    BY <1>3 DEF relocationRequest
  <2>3. CenterTypes'
    BY <1>0, <2>1, <2>2 DEF CenterTypes, drivers, track
  <2>4. OneReservation'
    BY <1>0, <2>2 DEF OneReservation
  <2> QED BY <2>3, <2>4 DEF CenterInv
<1>4. ASSUME NEW t \in Trains, Located(t) PROVE CenterInv'
  <2>1. PICK s \in Sensors :
            /\ DriverReceives(t, LocationChange(s))
            /\ next_sensor' = [next_sensor EXCEPT ![t] = Following(s)]
    BY <1>4 DEF Located
  <2>2. driver_queue' \in [Trains -> Seq(Messages)] /\ next_sensor' \in [Trains -> Sensors]
    BY <1>0, <2>1, Received, FollowingSensor DEF CenterTypes
  <2>3. CenterTypes'
    BY <1>0, <1>4, <2>2 DEF CenterTypes, Located, center_data, track
  <2>4. OneReservation'
    BY <1>0, <1>4 DEF OneReservation, Located, center_data
  <2> QED BY <2>3, <2>4 DEF CenterInv
<1>5. ASSUME NEW t \in Trains, ReporterReturns(t) PROVE CenterInv'
  <2>1. driver_queue' \in [Trains -> Seq(Messages)]
    BY <1>0, <1>5, Received DEF ReporterReturns
  <2>2. CenterTypes'
    BY <1>0, <1>5, <2>1 DEF CenterTypes, ReporterReturns, center_data, track
  <2>3. OneReservation'
    BY <1>0, <1>5 DEF OneReservation, ReporterReturns, center_data
  <2> QED BY <2>2, <2>3 DEF CenterInv
<1>6. CASE UNCHANGED vars
  BY <1>0, <1>6 DEF CenterInv, CenterTypes, OneReservation, vars, center_data, drivers, track
<1> QED BY <1>1, <1>2, <1>3, <1>4, <1>5, <1>6, TrainStep DEF Next, Driver

\* The two steps of the induction together.
LEMMA CenterInvariant == Spec => []CenterInv
<1> QED BY CenterInit, CenterNext, PTL DEF Spec

\* The tables of the center and of the drivers keep their types.
THEOREM CenterTypeCorrect == Spec => []CenterTypes
<1>1. CenterInv => CenterTypes
  BY DEF CenterInv
<1> QED BY <1>1, CenterInvariant, PTL

\* A train has at most one slot, of the landmark in its record, whatever
\* attributeSensor and saveSatelliteReport do to the slots of the others.
THEOREM OneReservationCorrect == Spec => []OneReservation
<1>1. CenterInv => OneReservation
  BY DEF CenterInv
<1> QED BY <1>1, CenterInvariant, PTL

-----------------------------------------------------------------------------
(* Reporters.                                                              *)

Reporters == \A t \in Trains : ReporterOK(waiting_for_reporter[t], driver_queue[t])

\* Reporters is OneReporter, with the messages of each queue named.
LEMMA ReportersMeaning == Reporters <=> OneReporter
BY DEF Reporters, OneReporter, ReporterOK, Back

\* No driver waits at the start, and no message is on its way.
LEMMA ReportersInit == Init => Reporters
BY DEF Init, Reporters, ReporterOK, Back

\* The queues of drivers that are sent a place have the reporters they had.
LEMMA DeliverOther ==
    ASSUME CenterTypes, Reporters, NEW t \in Trains, NEW s \in Sensors,
           Deliver(t, LocationChange(s)), UNCHANGED waiting_for_reporter
    PROVE  Reporters'
<1>1. LocationChange(s) \in Messages /\ driver_queue[t] \in Seq(Messages)
  BY DEF Messages, CenterTypes
<1>2. Back(driver_queue'[t]) = Back(driver_queue[t])
  BY <1>1, Delivers, AppendOther, Different
<1>3. \A u \in Trains : Back(driver_queue'[u]) = Back(driver_queue[u])
  BY <1>1, <1>2, Delivers
<1> QED BY <1>3 DEF Reporters, ReporterOK

\* The flag and the queue of a driver change together.
LEMMA ReportersNext == CenterInv /\ Reporters /\ [Next]_vars => Reporters'
<1> SUFFICES ASSUME CenterInv, Reporters, [Next]_vars PROVE Reporters'
  OBVIOUS
<1>0. CenterTypes
  BY DEF CenterInv
<1>1. CASE handleSensorUpdate
  <2>1. Head(triggered) \in Sensors /\ UNCHANGED waiting_for_reporter
    BY <1>0, <1>1 DEF CenterTypes, handleSensorUpdate, drivers
  <2>2. CASE attributeSensor(Head(triggered))
    BY <1>0, <2>1, <2>2, AttributeReservation, DeliverOther
  <2>3. CASE SaveLost(Head(triggered))
    BY <2>1, <2>3 DEF SaveLost, Reporters
  <2> QED BY <1>1, <2>2, <2>3 DEF handleSensorUpdate
<1>2. ASSUME NEW t \in Trains, updateReport(t) PROVE Reporters'
  <2>1. /\ waiting_for_reporter \in [Trains -> BOOLEAN]
        /\ waiting_for_reporter[t] = FALSE
        /\ waiting_for_reporter' = [waiting_for_reporter EXCEPT ![t] = TRUE]
        /\ driver_queue[t] \in Seq(Messages)
    BY <1>0, <1>2 DEF updateReport, MayReport, CenterTypes
  <2>2. ReporterOK(FALSE, driver_queue[t])
    BY <2>1 DEF Reporters
  <2>3. /\ driver_queue'[t] = Append(driver_queue[t], ReportReturned)
        /\ \A u \in Trains \ {t} : driver_queue'[u] = driver_queue[u]
    BY <1>0, <1>2, Delivers DEF updateReport, Messages
  <2>4. ReporterOK(TRUE, driver_queue'[t])
    BY <2>1, <2>2, <2>3, AppendReporter
  <2> QED BY <2>1, <2>3, <2>4 DEF Reporters
<1>3. ASSUME NEW t \in Trains, relocationRequest(t) PROVE Reporters'
  <2>1. UNCHANGED waiting_for_reporter
    BY <1>3 DEF relocationRequest, drivers
  <2>2. CASE last_lost_sensor # NULL /\ Deliver(t, LocationChange(last_lost_sensor))
    <3>1. last_lost_sensor \in Sensors
      BY <1>0, <2>2 DEF CenterTypes
    <3> QED BY <1>0, <2>1, <2>2, <3>1, DeliverOther
  <2>3. CASE UNCHANGED driver_queue
    BY <2>1, <2>3 DEF Reporters
  <2> QED BY <1>3, <2>2, <2>3 DEF relocationRequest, handleLocationRecovery
<1>4. ASSUME NEW t \in Trains, Located(t) PROVE Reporters'
  <2>1. PICK s \in Sensors : DriverReceives(t, LocationChange(s))
    BY <1>4 DEF Located
  <2>2. /\ driver_queue[t] \in Seq(Messages) /\ driver_queue[t] # <<>>
        /\ Head(driver_queue[t]) # ReportReturned
        /\ driver_queue'[t] = Tail(driver_queue[t])
        /\ \A u \in Trains \ {t} : driver_queue'[u] = driver_queue[u]
    BY <1>0, <2>1, Received, Different
  <2>3. waiting_for_reporter[t] \in BOOLEAN /\ UNCHANGED waiting_for_reporter
    BY <1>0, <1>4 DEF CenterTypes, Located
  <2>4. ReporterOK(waiting_for_reporter[t], driver_queue'[t])
    BY <2>2, <2>3, TailOther DEF Reporters
  <2> QED BY <2>2, <2>3, <2>4 DEF Reporters
<1>5. ASSUME NEW t \in Trains, ReporterReturns(t) PROVE Reporters'
  <2>1. /\ driver_queue[t] \in Seq(Messages) /\ driver_queue[t] # <<>>
        /\ Head(driver_queue[t]) = ReportReturned
        /\ driver_queue'[t] = Tail(driver_queue[t])
        /\ \A u \in Trains \ {t} : driver_queue'[u] = driver_queue[u]
    BY <1>0, <1>5, Received DEF ReporterReturns
  <2>2. /\ waiting_for_reporter \in [Trains -> BOOLEAN]
        /\ waiting_for_reporter' = [waiting_for_reporter EXCEPT ![t] = FALSE]
    BY <1>0, <1>5 DEF CenterTypes, ReporterReturns
  <2>3. ReporterOK(FALSE, driver_queue'[t])
    BY <2>1, <2>2, TailReporter DEF Reporters
  <2> QED BY <2>1, <2>2, <2>3 DEF Reporters
<1>6. ASSUME NEW t \in Trains, Pass(t) \/ Miss(t) PROVE Reporters'
  BY <1>6 DEF Pass, Miss, Reporters, drivers
<1>7. CASE UNCHANGED vars
  BY <1>7 DEF vars, drivers, Reporters
<1> QED BY <1>1, <1>2, <1>3, <1>4, <1>5, <1>6, <1>7 DEF Next, Driver

\* A driver waits for its reporter if and only if one is on its way back, and
\* never has two: the flag is cleared by the message that it stands for.
THEOREM OneReporterCorrect == Spec => []OneReporter
<1>1. Init => Reporters
  BY ReportersInit
<1>2. CenterInv /\ Reporters /\ [Next]_vars => Reporters'
  BY ReportersNext
<1> QED BY <1>1, <1>2, CenterInvariant, ReportersMeaning, PTL DEF Spec

-----------------------------------------------------------------------------
(* What a driver is told is where its train is: sensors and queues.        *)

\* The next sensor without a division.
LEMMA FollowingIs ==
    ASSUME NEW a \in Sensors
    PROVE  Following(a) = IF a = SENSORS - 1 THEN 0 ELSE a + 1
<1>1. SENSORS \in Nat \ {0} /\ a \in 0 .. SENSORS - 1
  BY CenterAssumption DEF Sensors
<1> DEFINE d == (a + 1) \div SENSORS
           r == (a + 1) % SENSORS
<1>2. r \in 0 .. SENSORS - 1 /\ a + 1 = SENSORS * d + r /\ d \in Int
  BY <1>1
<1> HIDE DEF d, r
<1>3. d = 0 \/ d = 1
  <2>1. CASE d >= 2
    BY <1>1, <1>2, <2>1
  <2>2. CASE d <= -1
    BY <1>1, <1>2, <2>2
  <2> QED BY <1>2, <2>1, <2>2
<1>4. r = IF a = SENSORS - 1 THEN 0 ELSE a + 1
  BY <1>1, <1>2, <1>3
<1> QED BY <1>4 DEF Following, r

\* No two sensors have the same next one, and three sensors in a row differ.
LEMMA FollowingFacts ==
    ASSUME NEW a \in Sensors, NEW b \in Sensors
    PROVE  /\ Following(a) = Following(b) => a = b
           /\ SENSORS >= 3 => Following(a) # a /\ Following(Following(a)) # a
<1>1. SENSORS \in Nat \ {0} /\ a \in 0 .. SENSORS - 1 /\ b \in 0 .. SENSORS - 1
  BY CenterAssumption DEF Sensors
<1>2. /\ Following(a) = IF a = SENSORS - 1 THEN 0 ELSE a + 1
      /\ Following(b) = IF b = SENSORS - 1 THEN 0 ELSE b + 1
      /\ Following(Following(a)) =
            IF Following(a) = SENSORS - 1 THEN 0 ELSE Following(a) + 1
  BY FollowingIs, FollowingSensor
<1> QED BY <1>1, <1>2

\* b is behind a in the queue q.
Later(q, a, b) == \E i, j \in 1 .. Len(q) : i < j /\ q[i] = a /\ q[j] = b

\* A new sensor is behind all others, and the order stays when the first leaves.
LEMMA LaterFacts ==
    ASSUME NEW q \in Seq(Sensors), NEW a, NEW b
    PROVE  /\ Later(q, a, b) => b \in ToSet(q)
           /\ \A x \in Sensors : /\ Later(q, a, b) => Later(Append(q, x), a, b)
                                 /\ a \in ToSet(q) => Later(Append(q, x), a, x)
           /\ Later(q, a, b) /\ Once(q) /\ q # <<>> /\ a # Head(q) => Later(Tail(q), a, b)
<1>1. DOMAIN q = 1 .. Len(q) /\ Len(q) \in Nat
  OBVIOUS
<1>2. Later(q, a, b) => b \in ToSet(q)
  BY <1>1 DEF Later, ToSet
<1>3. ASSUME NEW x \in Sensors
      PROVE  /\ Later(q, a, b) => Later(Append(q, x), a, b)
             /\ a \in ToSet(q) => Later(Append(q, x), a, x)
  <2>1. /\ Len(Append(q, x)) = Len(q) + 1 /\ Append(q, x)[Len(q) + 1] = x
        /\ \A i \in 1 .. Len(q) : Append(q, x)[i] = q[i]
    OBVIOUS
  <2>2. ASSUME Later(q, a, b) PROVE Later(Append(q, x), a, b)
    <3>1. PICK i \in 1 .. Len(q), j \in 1 .. Len(q) : i < j /\ q[i] = a /\ q[j] = b
      BY <2>2 DEF Later
    <3> QED BY <1>1, <2>1, <3>1 DEF Later
  <2>3. ASSUME a \in ToSet(q) PROVE Later(Append(q, x), a, x)
    <3>1. PICK i \in 1 .. Len(q) : q[i] = a
      BY <1>1, <2>3 DEF ToSet
    <3>2. i < Len(q) + 1 /\ i \in 1 .. Len(q) + 1 /\ Len(q) + 1 \in 1 .. Len(q) + 1
      BY <1>1
    <3> QED BY <2>1, <3>1, <3>2 DEF Later
  <2> QED BY <2>2, <2>3
<1>4. ASSUME Later(q, a, b), Once(q), q # <<>>, a # Head(q) PROVE Later(Tail(q), a, b)
  <2>1. PICK i \in 1 .. Len(q), j \in 1 .. Len(q) : i < j /\ q[i] = a /\ q[j] = b
    BY <1>4 DEF Later
  <2>2. /\ Len(Tail(q)) = Len(q) - 1 /\ Head(q) = q[1]
        /\ \A k \in 1 .. Len(q) - 1 : Tail(q)[k] = q[k + 1]
    BY <1>4
  <2>3. i - 1 \in 1 .. Len(q) - 1 /\ j - 1 \in 1 .. Len(q) - 1 /\ i - 1 < j - 1
    BY <1>1, <1>4, <2>1, <2>2
  <2>4. Tail(q)[i - 1] = a /\ Tail(q)[j - 1] = b
    BY <2>1, <2>2, <2>3
  <2> QED BY <2>2, <2>3, <2>4 DEF Later
<1> QED BY <1>2, <1>3, <1>4

\* Whether a driver's queue has a place for it, and that it has one at most,
\* the sensor s.
IsTold(q) == \E i \in 1 .. Len(q) : q[i] # ReportReturned

TellsOnly(q, s) ==
    \A i \in 1 .. Len(q) : q[i] # ReportReturned =>
        q[i] = LocationChange(s) /\ \A j \in 1 .. Len(q) : q[j] # ReportReturned => i = j

\* A message of a place is of one sensor.
LEMMA LocationChangeIs ==
    ASSUME NEW r \in Sensors, NEW s \in Sensors
    PROVE  LocationChange(r) = LocationChange(s) => r = s
BY DEF LocationChange

\* A reporter that is sent or returns does not count.
LEMMA TellsReport ==
    ASSUME NEW q \in Seq(Messages), NEW s \in Sensors, TellsOnly(q, s)
    PROVE  /\ TellsOnly(Append(q, ReportReturned), s)
           /\ IsTold(Append(q, ReportReturned)) <=> IsTold(q)
           /\ q # <<>> /\ Head(q) = ReportReturned =>
                TellsOnly(Tail(q), s) /\ (IsTold(Tail(q)) <=> IsTold(q))
<1> DEFINE w == Append(q, ReportReturned)
<1>1. ReportReturned \in Messages
  BY DEF Messages
<1>2. /\ Len(q) \in Nat /\ Len(w) = Len(q) + 1 /\ w[Len(q) + 1] = ReportReturned
      /\ \A i \in 1 .. Len(q) : w[i] = q[i]
  BY <1>1, AppendMessage
<1> HIDE DEF w
<1>3. TellsOnly(w, s) /\ (IsTold(w) <=> IsTold(q))
  BY <1>2 DEF TellsOnly, IsTold
<1>4. ASSUME q # <<>>, Head(q) = ReportReturned
      PROVE  TellsOnly(Tail(q), s) /\ (IsTold(Tail(q)) <=> IsTold(q))
  <2> DEFINE v == Tail(q)
  <2>1. /\ Len(v) = Len(q) - 1 /\ q[1] = ReportReturned
        /\ \A i \in 1 .. Len(q) - 1 : v[i] = q[i + 1]
    BY <1>4, TailMessage
  <2> HIDE DEF v
  <2>2. IsTold(v) => IsTold(q)
    <3>1. ASSUME NEW i \in 1 .. Len(v), v[i] # ReportReturned PROVE IsTold(q)
      <4>1. i + 1 \in 1 .. Len(q) /\ q[i + 1] # ReportReturned
        BY <1>2, <2>1, <3>1
      <4> QED BY <4>1 DEF IsTold
    <3> QED BY <3>1 DEF IsTold
  <2>3. IsTold(q) => IsTold(v)
    <3>1. ASSUME NEW i \in 1 .. Len(q), q[i] # ReportReturned PROVE IsTold(v)
      <4>1. i - 1 \in 1 .. Len(v) /\ v[i - 1] # ReportReturned
        BY <1>2, <2>1, <3>1
      <4> QED BY <4>1 DEF IsTold
    <3> QED BY <3>1 DEF IsTold
  <2>4. ASSUME NEW i \in 1 .. Len(v), v[i] # ReportReturned
        PROVE  v[i] = LocationChange(s) /\ \A j \in 1 .. Len(v) : v[j] # ReportReturned => i = j
    <3>1. i + 1 \in 1 .. Len(q) /\ q[i + 1] = v[i]
      BY <1>2, <2>1
    <3>2. \A j \in 1 .. Len(v) : j + 1 \in 1 .. Len(q) /\ q[j + 1] = v[j]
      BY <1>2, <2>1
    <3>3. /\ q[i + 1] = LocationChange(s)
          /\ \A j \in 1 .. Len(q) : q[j] # ReportReturned => i + 1 = j
      BY <2>4, <3>1 DEF TellsOnly
    <3> QED BY <1>2, <2>1, <3>1, <3>2, <3>3
  <2> QED BY <2>2, <2>3, <2>4 DEF TellsOnly, v
<1> QED BY <1>3, <1>4 DEF w

\* A driver that is told a place is told that one only, and knows when it has
\* received it.
LEMMA TellsPlace ==
    ASSUME NEW q \in Seq(Messages), NEW s \in Sensors, TellsOnly(q, s)
    PROVE  /\ ~ IsTold(q) =>
                \A r \in Sensors :
                    /\ TellsOnly(q, r)
                    /\ TellsOnly(Append(q, LocationChange(r)), r)
                    /\ IsTold(Append(q, LocationChange(r)))
           /\ \A r \in Sensors : q # <<>> /\ Head(q) = LocationChange(r) =>
                r = s /\ IsTold(q) /\ ~ IsTold(Tail(q))
           /\ IsTold(q) => Waits(LocationChange(s), q)
<1>1. Len(q) \in Nat
  OBVIOUS
<1>2. ASSUME ~ IsTold(q), NEW r \in Sensors
      PROVE  /\ TellsOnly(q, r)
             /\ TellsOnly(Append(q, LocationChange(r)), r)
             /\ IsTold(Append(q, LocationChange(r)))
  <2> DEFINE w == Append(q, LocationChange(r))
  <2>1. LocationChange(r) \in Messages
    BY DEF Messages
  <2>2. /\ Len(w) = Len(q) + 1 /\ w[Len(q) + 1] = LocationChange(r)
        /\ \A i \in 1 .. Len(q) : w[i] = q[i]
    BY <2>1, AppendMessage
  <2> HIDE DEF w
  <2>3. LocationChange(r) # ReportReturned
    BY Different
  <2>4. \A i \in 1 .. Len(q) : q[i] = ReportReturned
    BY <1>2 DEF IsTold
  <2>5. TellsOnly(q, r)
    BY <2>4 DEF TellsOnly
  <2>6. \A i \in 1 .. Len(w) : w[i] # ReportReturned => i = Len(q) + 1
    BY <1>1, <2>2, <2>4
  <2>7. TellsOnly(w, r)
    BY <1>1, <2>2, <2>6 DEF TellsOnly
  <2>8. IsTold(w)
    BY <1>1, <2>2, <2>3 DEF IsTold
  <2> QED BY <2>5, <2>7, <2>8 DEF w
<1>3. ASSUME NEW r \in Sensors, q # <<>>, Head(q) = LocationChange(r)
      PROVE  r = s /\ IsTold(q) /\ ~ IsTold(Tail(q))
  <2>1. /\ Len(q) \in Nat \ {0} /\ q[1] = LocationChange(r) /\ q[1] # ReportReturned
        /\ Len(Tail(q)) = Len(q) - 1
        /\ \A i \in 1 .. Len(q) - 1 : Tail(q)[i] = q[i + 1]
    BY <1>3, TailMessage, Different
  <2>2. 1 \in 1 .. Len(q)
    BY <2>1
  <2>3. LocationChange(r) = LocationChange(s)
    BY <2>1, <2>2 DEF TellsOnly
  <2>4. \A j \in 1 .. Len(q) : q[j] # ReportReturned => 1 = j
    BY <2>1, <2>2 DEF TellsOnly
  <2>5. ~ IsTold(Tail(q))
    BY <2>1, <2>4 DEF IsTold
  <2> QED BY <2>1, <2>2, <2>3, <2>5, LocationChangeIs DEF IsTold
<1>4. IsTold(q) => Waits(LocationChange(s), q)
  BY DEF IsTold, TellsOnly, Waits
<1> QED BY <1>2, <1>3, <1>4

-----------------------------------------------------------------------------
(* The inductive invariant of an undisturbed system.  A train's sensor is  *)
(* on its way to the center (Trig), or to the driver (Told).               *)

Trig == {t \in Trains : place[t] \in ToSet(triggered)}
Told == {t \in Trains : IsTold(driver_queue[t])}

\* No two trains have passed the same sensor last.
Apart == \A t, u \in Trains : t # u => place[t] # place[u]

\* The sensors on their way to the center are the trains'.
Sent ==
    /\ Once(triggered)
    /\ \A s \in ToSet(triggered) : \E t \in Trains : s = place[t]
    /\ triggered # <<>> => SENSORS >= 3

\* Drivers are told the places of their trains.
Tells == \A t \in Trains : TellsOnly(driver_queue[t], place[t])

\* What a driver predicts: the next sensor, or this one until it has heard.
Known ==
    \A t \in Trains :
        next_sensor[t] = IF t \in Trig \cup Told THEN place[t] ELSE Following(place[t])

\* A sensor is in one place, and none is lost.
OneCopy == Trig \cap Told = {} /\ last_lost_sensor = NULL

\* While the center has not heard of a train, it has not heard of the train
\* right behind either, and will hear of it later.
Order ==
    \A t, u \in Trains :
        t \in Trig /\ Following(place[u]) = place[t] => Later(triggered, place[t], place[u])

\* A train reserves the sensor that it passed last, or the next one.
Near ==
    \A t \in Trains, s \in Sensors :
        Reserved(t, s) => s = place[t] \/ s = Following(place[t])

\* Until the center has heard of a train, that train and no other reserves its
\* sensor.
First ==
    \A t \in Trig : Reserved(t, place[t]) /\ \A u \in Trains : Reserved(u, place[t]) => u = t

RightInv ==
    /\ CenterInv /\ Apart /\ Sent /\ Tells /\ Known
    /\ OneCopy /\ Order /\ Near /\ First

-----------------------------------------------------------------------------
(* What the invariant says.                                                *)

\* The types that the steps use.
LEMMA RightTypes ==
    ASSUME RightInv
    PROVE  /\ CenterTypes /\ CenterInv /\ triggered \in Seq(Sensors)
           /\ sensor_reservation \in [Sensors -> [Slots -> Trains \cup {NULL}]]
           /\ \A t \in Trains : /\ place[t] \in Sensors /\ next_sensor[t] \in Sensors
                                /\ driver_queue[t] \in Seq(Messages)
           /\ NULL \notin Trains /\ NULL \notin Sensors
BY Different DEF RightInv, CenterInv, CenterTypes

\* Places tell trains apart.
LEMMA Places ==
    ASSUME RightInv, NEW t \in Trains, NEW u \in Trains
    PROVE  /\ place[t] = place[u] => t = u
           /\ Following(place[t]) = Following(place[u]) => t = u
<1>1. t # u => place[t] # place[u]
  BY DEF RightInv, Apart
<1>2. place[t] \in Sensors /\ place[u] \in Sensors
  BY RightTypes
<1> QED BY <1>1, <1>2, FollowingFacts

\* A train whose last sensor has been dealt with is nowhere on its way.
LEMMA HeardIs ==
    ASSUME RightInv, NEW t \in Trains, Heard(t)
    PROVE  t \notin Trig /\ t \notin Told
<1>1. t \notin Trig
  <2>1. DOMAIN triggered = 1 .. Len(triggered)
    BY RightTypes
  <2> QED BY <2>1 DEF Heard, Waits, Trig, ToSet
<1>2. t \notin Told
  <2>1. /\ driver_queue[t] \in Seq(Messages) /\ place[t] \in Sensors
        /\ TellsOnly(driver_queue[t], place[t])
    BY RightTypes DEF RightInv, Tells
  <2>2. ~ Waits(LocationChange(place[t]), driver_queue[t])
    BY DEF Heard
  <2> QED BY <2>1, <2>2, TellsPlace DEF Told
<1> QED BY <1>1, <1>2

\* While the sensor of a train is on its way to the center, no other driver
\* predicts it.
LEMMA Predicts ==
    ASSUME RightInv, NEW t \in Trig, NEW u \in Trains, next_sensor[u] = place[t]
    PROVE  u = t
<1> SUFFICES ASSUME u # t PROVE FALSE
  OBVIOUS
<1>1. t \in Trains
  BY DEF Trig
<1>2. u \notin Trig \cup Told /\ Following(place[u]) = place[t]
  BY <1>1, Places DEF RightInv, Known
<1>3. Later(triggered, place[t], place[u])
  BY <1>1, <1>2 DEF RightInv, Order
<1>4. place[u] \in ToSet(triggered)
  BY <1>3, RightTypes, LaterFacts
<1> QED BY <1>2, <1>4 DEF Trig

\* The head of the queue of sensors is the place of a train.
LEMMA HeadIs ==
    ASSUME RightInv, triggered # <<>>
    PROVE  /\ Head(triggered) \in Sensors
           /\ \E t \in Trig : place[t] = Head(triggered)
           /\ Tail(triggered) \in Seq(Sensors)
           /\ Once(Tail(triggered))
           /\ ToSet(Tail(triggered)) = ToSet(triggered) \ {Head(triggered)}
<1>1. triggered \in Seq(Sensors) /\ Once(triggered)
  BY RightTypes DEF RightInv, Sent
<1>2. /\ Once(Tail(triggered)) /\ Head(triggered) \in ToSet(triggered)
      /\ ToSet(Tail(triggered)) = ToSet(triggered) \ {Head(triggered)}
  BY <1>1, OnceTail
<1>3. PICK t \in Trains : Head(triggered) = place[t]
  BY <1>2 DEF RightInv, Sent
<1> QED BY <1>1, <1>2, <1>3 DEF Trig

-----------------------------------------------------------------------------
(* The trains' steps.                                                      *)

\* A train comes to the sensor it has reserved, which reports.
Moves(t, s) ==
    /\ Goes(t, s) /\ Triggers(s) /\ Reserved(t, s)
    /\ UNCHANGED <<center_data, drivers, driver_queue>>

\* Where the train is, and that no other train reserves the sensor: one that
\* does has passed it last, or comes to it next.
LEMMA MoveFacts ==
    ASSUME RightInv, NEW t \in Trains, NEW s \in Sensors, Moves(t, s)
    PROVE  /\ SENSORS >= 3 /\ s = Following(place[t])
           /\ \A u \in Trains : place[u] # s
           /\ place'[t] = s
           /\ \A u \in Trains \ {t} : place'[u] = place[u]
           /\ t \notin Trig /\ t \notin Told /\ s \notin ToSet(triggered)
           /\ \A u \in Trains : Reserved(u, s) => u = t
<1>1. Heard(t) /\ place \in [Trains -> Sensors]
  BY RightTypes DEF Moves, Goes, CenterTypes
<1>2. /\ s = Following(place[t])
      /\ \A u \in Trains : place[u] # s
      /\ place'[t] = s
      /\ \A u \in Trains \ {t} : place'[u] = place[u]
  BY <1>1 DEF Moves, Goes
<1>3. t \notin Trig /\ t \notin Told
  BY <1>1, HeardIs
<1>4. s \notin ToSet(triggered)
  BY <1>2 DEF RightInv, Sent
<1>5. ASSUME NEW u \in Trains, Reserved(u, s) PROVE u = t
  <2>1. Following(place[u]) = Following(place[t])
    BY <1>2, <1>5 DEF RightInv, Near
  <2> QED BY <2>1, Places
<1>6. SENSORS >= 3
  <2>1. PICK u \in Trains : u # t
    <3>1. 0 \in Trains /\ 1 \in Trains
      BY CenterAssumption DEF Trains
    <3> QED BY <3>1
  <2>2. place[u] # place[t] /\ place[u] # s /\ place[t] # s
    BY <1>2, <2>1, Places
  <2>3. SENSORS \in Nat /\ place[u] \in 0 .. SENSORS - 1 /\ place[t] \in 0 .. SENSORS - 1
        /\ s \in 0 .. SENSORS - 1
    BY <1>1, CenterAssumption DEF Sensors
  <2> QED BY <2>2, <2>3
<1> QED BY <1>2, <1>3, <1>4, <1>5, <1>6

\* What is on its way after a train's step.
LEMMA MoveSent ==
    ASSUME RightInv, NEW t \in Trains, NEW s \in Sensors, Moves(t, s)
    PROVE  Sent' /\ Tells' /\ Told' = Told /\ Trig' = Trig \cup {t}
<1>1. /\ SENSORS >= 3 /\ s = Following(place[t])
      /\ \A u \in Trains : place[u] # s
      /\ place'[t] = s
      /\ \A u \in Trains \ {t} : place'[u] = place[u]
      /\ t \notin Trig /\ t \notin Told /\ s \notin ToSet(triggered)
  BY MoveFacts
<1>2. triggered \in Seq(Sensors) /\ Once(triggered) /\ UNCHANGED driver_queue
  BY RightTypes DEF RightInv, Sent, Moves
<1>3. Told' = Told
  BY <1>2 DEF Told
<1>4. Tells'
  <2>1. ASSUME NEW u \in Trains PROVE TellsOnly(driver_queue[u], place'[u])
    <3>1. TellsOnly(driver_queue[u], place[u]) /\ driver_queue[u] \in Seq(Messages)
          /\ place[u] \in Sensors
      BY RightTypes DEF RightInv, Tells
    <3>2. CASE u = t
      <4>1. ~ IsTold(driver_queue[u])
        BY <1>1, <3>2 DEF Told
      <4> QED BY <1>1, <3>1, <3>2, <4>1, TellsPlace
    <3>3. CASE u # t
      BY <1>1, <3>1, <3>3
    <3> QED BY <3>2, <3>3
  <2> QED BY <1>2, <2>1 DEF Tells
<1>5. ASSUME NEW x \in ToSet(triggered) PROVE \E u \in Trains \ {t} : x = place[u]
  <2>1. PICK u \in Trains : x = place[u]
    BY DEF RightInv, Sent
  <2>2. u \in Trig
    BY <2>1 DEF Trig
  <2> QED BY <1>1, <2>1, <2>2
<1>6. /\ triggered' = Append(triggered, s)
      /\ Once(triggered')
      /\ ToSet(triggered') = ToSet(triggered) \cup {s}
  BY <1>1, <1>2, OnceAppend DEF Moves, Triggers
<1>7. Sent'
  BY <1>1, <1>5, <1>6 DEF Sent
<1>8. Trig' = Trig \cup {t}
  BY <1>1, <1>6 DEF Trig
<1> QED BY <1>3, <1>4, <1>7, <1>8

\* Places, predictions and slots after a train's step.
LEMMA MoveKnown ==
    ASSUME RightInv, NEW t \in Trains, NEW s \in Sensors, Moves(t, s)
    PROVE  Apart' /\ Known' /\ OneCopy' /\ Near' /\ First'
<1>1. /\ s = Following(place[t]) /\ place'[t] = s
      /\ \A u \in Trains : place[u] # s
      /\ \A u \in Trains \ {t} : place'[u] = place[u]
      /\ \A u \in Trains : Reserved(u, s) => u = t
      /\ t \notin Trig /\ t \notin Told /\ Told' = Told /\ Trig' = Trig \cup {t}
  BY MoveFacts, MoveSent
<1>2. UNCHANGED <<next_sensor, last_lost_sensor, sensor_reservation>>
  BY DEF Moves, drivers, center_data
<1>3. Apart'
  BY <1>1 DEF RightInv, Apart
<1>4. Known'
  <2>1. ASSUME NEW u \in Trains
        PROVE  next_sensor[u] = IF u \in Trig' \cup Told THEN place'[u] ELSE Following(place'[u])
    <3>1. CASE u = t
      BY <1>1, <3>1 DEF RightInv, Known
    <3>2. CASE u # t
      BY <1>1, <3>2 DEF RightInv, Known
    <3> QED BY <3>1, <3>2
  <2> QED BY <1>1, <1>2, <2>1 DEF Known
<1>5. OneCopy'
  BY <1>1, <1>2 DEF RightInv, OneCopy
<1>6. ASSUME NEW u \in Trains, NEW r \in Sensors, Reserved(u, r)
      PROVE  r = place'[u] \/ r = Following(place'[u])
  <2>1. CASE u = t
    <3>1. Reserved(t, s) /\ OneReservation /\ Reserved(t, r)
      BY <1>6, <2>1 DEF Moves, RightInv, CenterInv
    <3>2. r = s
      BY <3>1 DEF OneReservation, Reserved
    <3> QED BY <1>1, <2>1, <3>2
  <2>2. CASE u # t
    BY <1>1, <1>6, <2>2 DEF RightInv, Near
  <2> QED BY <2>1, <2>2
<1>7. Near'
  BY <1>2, <1>6 DEF Near, Reserved
<1>8. ASSUME NEW v \in Trig'
      PROVE  Reserved(v, place'[v]) /\ \A u \in Trains : Reserved(u, place'[v]) => u = v
  <2>1. CASE v = t
    BY <1>1, <2>1 DEF Moves
  <2>2. CASE v # t
    <3>1. v \in Trig /\ v \in Trains
      BY <1>1, <2>2 DEF Trig
    <3> QED BY <1>1, <2>2, <3>1 DEF RightInv, First
  <2> QED BY <2>1, <2>2
<1>9. First'
  BY <1>2, <1>8 DEF First, Reserved
<1> QED BY <1>3, <1>4, <1>5, <1>7, <1>9

\* The order after a train's step: the center hears of the train after all
\* others that it has not heard of.
LEMMA MoveOrder ==
    ASSUME RightInv, NEW t \in Trains, NEW s \in Sensors, Moves(t, s)
    PROVE  Order'
<1>1. /\ SENSORS >= 3 /\ s = Following(place[t]) /\ place'[t] = s
      /\ \A u \in Trains \ {t} : place'[u] = place[u]
      /\ t \notin Trig /\ Trig' = Trig \cup {t}
  BY MoveFacts, MoveSent
<1>2. triggered \in Seq(Sensors) /\ triggered' = Append(triggered, s)
  BY RightTypes DEF Moves, Triggers
<1> SUFFICES ASSUME NEW v \in Trains, NEW u \in Trains, v \in Trig',
                    Following(place'[u]) = place'[v]
             PROVE  Later(triggered', place'[v], place'[u])
  BY DEF Order
<1>3. CASE v = t
  <2>1. CASE u = t
    BY <1>1, <1>3, <2>1, FollowingFacts
  <2>2. CASE u # t
    <3>1. Following(place[u]) = Following(place[t])
      BY <1>1, <1>3, <2>2
    <3> QED BY <2>2, <3>1, Places
  <2> QED BY <2>1, <2>2
<1>4. CASE v # t
  <2>1. v \in Trig /\ place'[v] = place[v]
    BY <1>1, <1>4
  <2>2. CASE u = t
    <3>1. place[v] \in ToSet(triggered)
      BY <2>1 DEF Trig
    <3>2. Later(Append(triggered, s), place[v], s)
      BY <1>2, <3>1, LaterFacts
    <3> QED BY <1>1, <1>2, <2>1, <2>2, <3>2
  <2>3. CASE u # t
    <3>1. Following(place[u]) = place[v] /\ place'[u] = place[u]
      BY <1>1, <2>1, <2>3
    <3>2. Later(triggered, place[v], place[u])
      BY <2>1, <3>1 DEF RightInv, Order
    <3>3. Later(Append(triggered, s), place[v], place[u])
      BY <1>2, <3>2, LaterFacts
    <3> QED BY <1>2, <2>1, <3>1, <3>3
  <2> QED BY <2>2, <2>3
<1> QED BY <1>3, <1>4

\* A train's step keeps all of it.
LEMMA MoveStep ==
    ASSUME RightInv, NEW t \in Trains, NEW s \in Sensors, Moves(t, s), CenterInv'
    PROVE  RightInv'
BY MoveSent, MoveKnown, MoveOrder DEF RightInv

-----------------------------------------------------------------------------
(* The center hears of a sensor.                                           *)

\* A sensor is attributed to the train that released it, and nobody is added to
\* its slots.
LEMMA AttributedTo ==
    ASSUME RightInv, NEW t \in Trig, attributeSensor(place[t])
    PROVE  /\ Deliver(t, LocationChange(place[t]))
           /\ UNCHANGED last_lost_sensor
           /\ \A r \in Sensors \ {place[t]} : sensor_reservation'[r] = sensor_reservation[r]
           /\ \A u \in Trains, i \in Slots :
                 sensor_reservation'[place[t]][i] = u => Reserved(u, place[t])
<1> DEFINE s   == place[t]
           row == sensor_reservation[s]
<1>1. /\ t \in Trains /\ s \in Sensors /\ row \in [Slots -> Trains \cup {NULL}]
      /\ sensor_reservation \in [Sensors -> [Slots -> Trains \cup {NULL}]]
      /\ NULL \notin Trains
  BY RightTypes DEF Trig
<1>2. PICK first \in Slots :
          /\ row[first] # NULL
          /\ \A i \in 0 .. first - 1 : row[i] = NULL
          /\ sensor_reservation' = [sensor_reservation EXCEPT ![s] = Moved(row, first)]
          /\ Deliver(row[first], LocationChange(s))
          /\ UNCHANGED <<reservation_record, last_lost_sensor>>
  BY DEF attributeSensor
<1>3. row[first] = t
  <2>1. Reserved(row[first], s) /\ row[first] \in Trains
    BY <1>1, <1>2 DEF Reserved
  <2> QED BY <2>1 DEF RightInv, First
<1>4. /\ sensor_reservation'[s] = Moved(row, first)
      /\ \A r \in Sensors \ {s} : sensor_reservation'[r] = sensor_reservation[r]
  BY <1>1, <1>2
<1>5. ASSUME NEW u \in Trains, NEW i \in Slots, Moved(row, first)[i] = u
      PROVE  \E k \in Slots : row[k] = u
  <2> HIDE DEF row
  <2>1. /\ Source(row, first, i) \in Slots
        /\ row[Source(row, first, i)] = u
    BY <1>1, <1>5, MovedRow
  <2> QED BY <2>1
<1>6. ASSUME NEW u \in Trains, NEW i \in Slots, sensor_reservation'[place[t]][i] = u
      PROVE  Reserved(u, place[t])
  BY <1>4, <1>5, <1>6 DEF Reserved
<1> QED BY <1>2, <1>3, <1>4, <1>6

\* What is on its way when the center has heard of train t.
LEMMA HeardOf ==
    ASSUME RightInv, NEW t \in Trig, triggered # <<>>, place[t] = Head(triggered),
           triggered' = Tail(triggered), UNCHANGED place
    PROVE  /\ Trig' = Trig \ {t} /\ Sent' /\ Apart'
           /\ \A v \in Trig \ {t}, u \in Trains :
                 Later(triggered, place[v], place[u]) => Later(triggered', place[v], place[u])
<1>1. /\ triggered \in Seq(Sensors) /\ Once(triggered)
      /\ Once(triggered') /\ ToSet(triggered') = ToSet(triggered) \ {place[t]}
      /\ triggered' \in Seq(Sensors)
  BY HeadIs, RightTypes DEF RightInv, Sent
<1>2. \A v \in Trains : place[v] = place[t] => v = t
  BY Places DEF Trig
<1>3. Trig' = Trig \ {t}
  BY <1>1, <1>2 DEF Trig
<1>4. Sent'
  BY <1>1 DEF RightInv, Sent
<1>5. Apart'
  BY DEF RightInv, Apart
<1>6. ASSUME NEW v \in Trig \ {t}, NEW u \in Trains, Later(triggered, place[v], place[u])
      PROVE  Later(triggered', place[v], place[u])
  <2>1. place[v] # Head(triggered)
    BY <1>2 DEF Trig
  <2> QED BY <1>1, <1>6, <2>1, LaterFacts
<1> QED BY <1>3, <1>4, <1>5, <1>6

\* The driver of the train that released the sensor is told.
LEMMA AttributeStep ==
    ASSUME RightInv, CenterInv', triggered # <<>>, triggered' = Tail(triggered),
           attributeSensor(Head(triggered)), UNCHANGED <<drivers, place>>
    PROVE  RightInv'
<1>1. PICK t \in Trig : place[t] = Head(triggered)
  BY HeadIs
<1>2. /\ Deliver(t, LocationChange(place[t]))
      /\ UNCHANGED last_lost_sensor
      /\ \A r \in Sensors \ {place[t]} : sensor_reservation'[r] = sensor_reservation[r]
      /\ \A u \in Trains, i \in Slots :
            sensor_reservation'[place[t]][i] = u => Reserved(u, place[t])
  BY <1>1, AttributedTo
<1>3. /\ Trig' = Trig \ {t} /\ Sent' /\ Apart'
      /\ \A v \in Trig \ {t}, u \in Trains :
            Later(triggered, place[v], place[u]) => Later(triggered', place[v], place[u])
  BY <1>1, HeardOf
<1>4. UNCHANGED <<next_sensor, place, last_lost_sensor>>
  BY <1>2 DEF drivers
<1>5. /\ t \in Trains /\ t \notin Told
      /\ \A u \in Trains : place[u] \in Sensors /\ driver_queue[u] \in Seq(Messages)
                           /\ next_sensor[u] \in Sensors
                           /\ TellsOnly(driver_queue[u], place[u])
      /\ \A u \in Trains : place[u] = place[t] => u = t
      /\ CenterTypes
  BY RightTypes, Places DEF RightInv, OneCopy, Tells, Trig
<1>6. /\ driver_queue'[t] = Append(driver_queue[t], LocationChange(place[t]))
      /\ \A u \in Trains \ {t} : driver_queue'[u] = driver_queue[u]
  <2>1. LocationChange(place[t]) \in Messages
    BY <1>5 DEF Messages
  <2> QED BY <1>2, <1>5, <2>1, Delivers
<1>7. Told' = Told \cup {t} /\ Tells'
  <2>1. TellsOnly(driver_queue'[t], place[t]) /\ IsTold(driver_queue'[t])
    BY <1>5, <1>6, TellsPlace DEF Told
  <2>2. Told' = Told \cup {t}
    BY <1>5, <1>6, <2>1 DEF Told
  <2>3. Tells'
    BY <1>4, <1>5, <1>6, <2>1 DEF Tells
  <2> QED BY <2>2, <2>3
<1>8. Trig' \cup Told' = Trig \cup Told
  BY <1>3, <1>7
<1>9. Known'
  BY <1>4, <1>8 DEF RightInv, Known
<1>10. OneCopy'
  BY <1>3, <1>4, <1>7 DEF RightInv, OneCopy
<1>11. Order'
  <2>1. ASSUME NEW v \in Trains, NEW u \in Trains, v \in Trig', Following(place[u]) = place[v]
        PROVE  Later(triggered', place[v], place[u])
    BY <1>3, <2>1 DEF RightInv, Order
  <2> QED BY <1>4, <2>1 DEF Order
<1>12. First'
  <2>1. ASSUME NEW v \in Trig'
        PROVE  /\ v \in Trig /\ v \in Trains
               /\ sensor_reservation'[place[v]] = sensor_reservation[place[v]]
    BY <1>2, <1>3, <1>5 DEF Trig
  <2>2. ASSUME NEW v \in Trig', NEW u \in Trains
        PROVE  Reserved(u, place[v])' <=> Reserved(u, place[v])
    BY <1>4, <2>1 DEF Reserved
  <2> QED BY <1>4, <2>1, <2>2 DEF RightInv, First
<1>13. Near'
  <2>1. ASSUME NEW u \in Trains, NEW r \in Sensors, Reserved(u, r)' PROVE Reserved(u, r)
    BY <1>2, <2>1 DEF Reserved
  <2> QED BY <1>4, <2>1 DEF RightInv, Near
<1> QED BY <1>3, <1>7, <1>9, <1>10, <1>11, <1>12, <1>13 DEF RightInv

\* There is no sensor that nobody has reserved.
LEMMA NotLost ==
    ASSUME RightInv, triggered # <<>>, SaveLost(Head(triggered))
    PROVE  FALSE
<1>1. PICK t \in Trig : place[t] = Head(triggered)
  BY HeadIs
<1>2. Reserved(t, place[t]) /\ t \in Trains /\ NULL \notin Trains
  BY <1>1, RightTypes DEF RightInv, First, Trig
<1> QED BY <1>1, <1>2 DEF SaveLost, Reserved

-----------------------------------------------------------------------------
(* The drivers.                                                            *)

\* A driver that asks is sent nothing, because nothing is lost.
LEMMA RequestStep ==
    ASSUME RightInv, CenterInv', NEW t \in Trains, relocationRequest(t)
    PROVE  RightInv'
<1>1. /\ UNCHANGED <<sensor_reservation, next_sensor, triggered, place>>
      /\ handleLocationRecovery(t) /\ last_lost_sensor = NULL
  BY DEF relocationRequest, drivers, track, RightInv, OneCopy
<1>2. UNCHANGED <<last_lost_sensor, driver_queue>>
  BY <1>1 DEF handleLocationRecovery
<1>3. Trig' = Trig /\ Told' = Told
  BY <1>1, <1>2 DEF Trig, Told
<1> QED BY <1>1, <1>2, <1>3
        DEF RightInv, Apart, Sent, Tells, Known, OneCopy, Order, Near, First, Reserved

\* A driver that is told its place predicts the next sensor.
LEMMA LocatedStep ==
    ASSUME RightInv, CenterInv', NEW t \in Trains, Located(t)
    PROVE  RightInv'
<1>1. PICK s \in Sensors :
          /\ DriverReceives(t, LocationChange(s))
          /\ next_sensor' = [next_sensor EXCEPT ![t] = Following(s)]
  BY DEF Located
<1>2. UNCHANGED <<sensor_reservation, last_lost_sensor, triggered, place>>
  BY DEF Located, center_data, track
<1>3. /\ CenterTypes
      /\ \A u \in Trains : place[u] \in Sensors /\ driver_queue[u] \in Seq(Messages)
                           /\ TellsOnly(driver_queue[u], place[u])
  BY RightTypes DEF RightInv, Tells
<1>4. /\ driver_queue[t] # <<>> /\ Head(driver_queue[t]) = LocationChange(s)
      /\ driver_queue'[t] = Tail(driver_queue[t])
      /\ \A u \in Trains \ {t} : driver_queue'[u] = driver_queue[u]
  BY <1>1, <1>3, Received
<1>5. s = place[t] /\ IsTold(driver_queue[t]) /\ ~ IsTold(driver_queue'[t])
  BY <1>3, <1>4, TellsPlace
<1>6. /\ next_sensor'[t] = Following(place[t])
      /\ \A u \in Trains \ {t} : next_sensor'[u] = next_sensor[u]
  BY <1>1, <1>3, <1>5 DEF CenterTypes
<1>7. /\ t \in Told /\ Told' = Told \ {t} /\ t \notin Trig
  BY <1>3, <1>4, <1>5 DEF RightInv, Told, OneCopy
<1>8. Trig' = Trig /\ Sent' /\ Apart'
  BY <1>2 DEF RightInv, Trig, Sent, Apart
<1>9. Tells'
  <2>1. TellsOnly(driver_queue'[t], place[t])
    BY <1>5 DEF TellsOnly, IsTold
  <2> QED BY <1>2, <1>3, <1>4, <2>1 DEF Tells
<1>10. Known'
  <2>1. ASSUME NEW u \in Trains
        PROVE  next_sensor'[u] = IF u \in Trig \cup Told' THEN place[u] ELSE Following(place[u])
    <3>1. CASE u = t
      BY <1>6, <1>7, <3>1
    <3>2. CASE u # t
      BY <1>6, <1>7, <3>2 DEF RightInv, Known
    <3> QED BY <3>1, <3>2
  <2> QED BY <1>2, <1>8, <2>1 DEF Known
<1>11. OneCopy' /\ Order' /\ Near' /\ First'
  BY <1>2, <1>7, <1>8 DEF RightInv, OneCopy, Order, Near, First, Reserved
<1> QED BY <1>8, <1>9, <1>10, <1>11 DEF RightInv

\* A driver that takes its reporter back learns nothing.
LEMMA ReturnStep ==
    ASSUME RightInv, CenterInv', NEW t \in Trains, ReporterReturns(t)
    PROVE  RightInv'
<1>1. /\ DriverReceives(t, ReportReturned)
      /\ UNCHANGED <<sensor_reservation, last_lost_sensor, next_sensor>>
      /\ UNCHANGED <<triggered, place>>
  BY DEF ReporterReturns, center_data, track
<1>2. /\ CenterTypes
      /\ \A u \in Trains : place[u] \in Sensors /\ driver_queue[u] \in Seq(Messages)
                           /\ TellsOnly(driver_queue[u], place[u])
  BY RightTypes DEF RightInv, Tells
<1>3. /\ driver_queue[t] # <<>> /\ Head(driver_queue[t]) = ReportReturned
      /\ driver_queue'[t] = Tail(driver_queue[t])
      /\ \A u \in Trains \ {t} : driver_queue'[u] = driver_queue[u]
  BY <1>1, <1>2, Received
<1>4. /\ TellsOnly(driver_queue'[t], place[t])
      /\ IsTold(driver_queue'[t]) <=> IsTold(driver_queue[t])
  BY <1>2, <1>3, TellsReport
<1>5. Told' = Told /\ Tells'
  BY <1>1, <1>2, <1>3, <1>4 DEF Told, Tells
<1>6. Trig' = Trig /\ Sent' /\ Apart'
  BY <1>1 DEF RightInv, Trig, Sent, Apart
<1>7. Known' /\ OneCopy' /\ Order' /\ Near' /\ First'
  BY <1>1, <1>5, <1>6 DEF RightInv, Known, OneCopy, Order, Near, First, Reserved
<1> QED BY <1>5, <1>6, <1>7 DEF RightInv

-----------------------------------------------------------------------------
(* A driver's report.                                                      *)

\* A report takes train t out of the slot it has and puts it into the first free
\* one of the sensor s; the other trains stay.
LEMMA ReportSlots ==
    ASSUME CenterInv, NEW t \in Trains, NEW s \in Sensors, saveSatelliteReport(t, s)
    PROVE  \E free \in Slots :
              /\ sensor_reservation'[s][free] = t
              /\ \A i \in 0 .. free - 1 : sensor_reservation[s][i] \in Trains \ {t}
              /\ \A r \in Sensors, i \in Slots :
                    sensor_reservation'[r][i] = t => r = s /\ i = free
              /\ \A r \in Sensors, i \in Slots, u \in Trains \ {t} :
                    sensor_reservation'[r][i] = u <=> sensor_reservation[r][i] = u
<1> DEFINE last    == reservation_record[t]
           cleared == [sensor_reservation EXCEPT ![last] = ClearLast(@, t)]
<1>1. PICK free \in Slots :
          /\ cleared[s][free] = NULL
          /\ \A i \in 0 .. free - 1 : cleared[s][i] # NULL
          /\ sensor_reservation' = [cleared EXCEPT ![s][free] = t]
  BY DEF saveSatelliteReport
<1>2. /\ last \in Sensors
      /\ sensor_reservation \in [Sensors -> [Slots -> Trains \cup {NULL}]]
      /\ NULL \notin Trains
  BY Different DEF CenterInv, CenterTypes
<1>3. ClearLast(sensor_reservation[last], t) \in [Slots -> Trains \cup {NULL}]
  BY <1>2 DEF ClearLast
<1>4. cleared \in [Sensors -> [Slots -> Trains \cup {NULL}]]
  BY <1>2, <1>3
<1>5. ASSUME NEW r \in Sensors, NEW i \in Slots
      PROVE  cleared[r][i] = IF sensor_reservation[r][i] = t THEN NULL
                             ELSE sensor_reservation[r][i]
  <2>1. CASE r = last
    BY <1>2, <2>1 DEF ClearLast
  <2>2. CASE r # last
    <3>1. cleared[r][i] = sensor_reservation[r][i]
      BY <1>2, <2>2
    <3>2. sensor_reservation[r][i] # t
      BY <2>2 DEF CenterInv, OneReservation
    <3> QED BY <3>1, <3>2
  <2> QED BY <2>1, <2>2
<1> HIDE DEF cleared, last
<1>6. /\ sensor_reservation'[s][free] = t
      /\ \A r \in Sensors, i \in Slots :
            r # s \/ i # free => sensor_reservation'[r][i] = cleared[r][i]
  BY <1>1, <1>4
<1>7. \A i \in 0 .. free - 1 : sensor_reservation[s][i] \in Trains \ {t}
  <2>1. ASSUME NEW i \in 0 .. free - 1 PROVE sensor_reservation[s][i] \in Trains \ {t}
    <3>1. i \in Slots
      BY CenterAssumption DEF Slots, SENSOR_RESERVE_EACH
    <3> QED BY <1>1, <1>2, <1>5, <2>1, <3>1
  <2> QED BY <2>1
<1>8. ASSUME NEW r \in Sensors, NEW i \in Slots, sensor_reservation'[r][i] = t
      PROVE  r = s /\ i = free
  BY <1>2, <1>5, <1>6, <1>8
<1>9. ASSUME NEW r \in Sensors, NEW i \in Slots, NEW u \in Trains \ {t}
      PROVE  sensor_reservation'[r][i] = u <=> sensor_reservation[r][i] = u
  <2>1. CASE r = s /\ i = free
    BY <1>1, <1>2, <1>5, <1>6, <2>1
  <2>2. CASE r # s \/ i # free
    BY <1>2, <1>5, <1>6, <2>2
  <2> QED BY <2>1, <2>2
<1> QED BY <1>6, <1>7, <1>8, <1>9

\* A report reserves the sensor that the train passed last, if its driver has not
\* heard of it, or else the next one, which no other train has just passed.
LEMMA ReportNear ==
    ASSUME RightInv, NEW t \in Trains, saveSatelliteReport(t, next_sensor[t]),
           UNCHANGED <<next_sensor, triggered, place>>
    PROVE  Near' /\ First'
<1>1. /\ next_sensor[t] \in Sensors /\ CenterInv
      /\ \A u \in Trains : place[u] \in Sensors
  BY RightTypes
<1>2. PICK free \in Slots :
          /\ sensor_reservation'[next_sensor[t]][free] = t
          /\ \A r \in Sensors, i \in Slots :
                sensor_reservation'[r][i] = t => r = next_sensor[t] /\ i = free
          /\ \A r \in Sensors, i \in Slots, u \in Trains \ {t} :
                sensor_reservation'[r][i] = u <=> sensor_reservation[r][i] = u
  BY <1>1, ReportSlots
<1>3. /\ \A r \in Sensors : Reserved(t, r)' <=> r = next_sensor[t]
      /\ \A u \in Trains \ {t}, r \in Sensors : Reserved(u, r)' <=> Reserved(u, r)
  BY <1>1, <1>2 DEF Reserved
<1>4. next_sensor[t] = IF t \in Trig \cup Told THEN place[t] ELSE Following(place[t])
  BY DEF RightInv, Known
<1>5. Near'
  BY <1>3, <1>4 DEF RightInv, Near
<1>6. Trig' = Trig
  BY DEF Trig
<1>7. ASSUME NEW v \in Trig
      PROVE  Reserved(v, place[v])' /\ \A u \in Trains : Reserved(u, place[v])' => u = v
  <2>1. v \in Trains /\ Reserved(v, place[v]) /\ \A u \in Trains : Reserved(u, place[v]) => u = v
    BY DEF RightInv, First, Trig
  <2>2. next_sensor[t] = place[v] => t = v
    BY Predicts
  <2>3. t = v => next_sensor[t] = place[v]
    BY <1>4
  <2> QED BY <1>1, <1>3, <2>1, <2>2, <2>3
<1>8. First'
  BY <1>6, <1>7 DEF First, Reserved
<1> QED BY <1>5, <1>8

\* A report changes slots and the reporter only.
LEMMA ReportStep ==
    ASSUME RightInv, CenterInv', NEW t \in Trains, updateReport(t)
    PROVE  RightInv'
<1>1. /\ saveSatelliteReport(t, next_sensor[t]) /\ Deliver(t, ReportReturned)
      /\ UNCHANGED <<last_lost_sensor, next_sensor>>
      /\ UNCHANGED <<triggered, place>>
  BY DEF updateReport, track
<1>2. /\ CenterTypes /\ ReportReturned \in Messages
      /\ \A u \in Trains : place[u] \in Sensors /\ driver_queue[u] \in Seq(Messages)
                           /\ TellsOnly(driver_queue[u], place[u])
  BY RightTypes DEF RightInv, Tells, Messages
<1>3. /\ driver_queue'[t] = Append(driver_queue[t], ReportReturned)
      /\ \A u \in Trains \ {t} : driver_queue'[u] = driver_queue[u]
  BY <1>1, <1>2, Delivers
<1>4. /\ TellsOnly(driver_queue'[t], place[t])
      /\ IsTold(driver_queue'[t]) <=> IsTold(driver_queue[t])
  BY <1>2, <1>3, TellsReport
<1>5. Told' = Told /\ Tells'
  BY <1>1, <1>2, <1>3, <1>4 DEF Told, Tells
<1>6. Trig' = Trig /\ Sent' /\ Apart'
  BY <1>1 DEF RightInv, Trig, Sent, Apart
<1>7. Known' /\ OneCopy' /\ Order'
  BY <1>1, <1>5, <1>6 DEF RightInv, Known, OneCopy, Order
<1>8. Near' /\ First'
  BY <1>1, ReportNear
<1> QED BY <1>5, <1>6, <1>7, <1>8 DEF RightInv

-----------------------------------------------------------------------------
(* The theorem.                                                            *)

\* Nothing is said of a system once it has been disturbed.
UndisturbedInv == CenterInv /\ (undisturbed => RightInv)

\* At the start nothing is on its way and nothing is reserved.
LEMMA RightInit == Init => UndisturbedInv
<1> SUFFICES ASSUME Init PROVE RightInv
  BY CenterInit DEF UndisturbedInv
<1>1. CenterInv /\ Apart /\ NULL \notin Trains
  BY CenterInit, Different DEF Init, Apart
<1>2. triggered = <<>> /\ ToSet(triggered) = {} /\ DOMAIN triggered = {}
  BY DEF Init, ToSet
<1>3. \A t \in Trains : driver_queue[t] = <<>> /\ next_sensor[t] = Following(place[t])
  BY DEF Init
<1>4. Trig = {} /\ Told = {}
  BY <1>2, <1>3 DEF Trig, Told, IsTold
<1>5. Sent /\ Tells
  BY <1>2, <1>3 DEF Sent, Once, Tells, TellsOnly
<1>6. \A t \in Trains, s \in Sensors : ~ Reserved(t, s)
  BY <1>1 DEF Init, Reserved
<1>7. Known /\ OneCopy /\ Order /\ Near /\ First
  BY <1>3, <1>4, <1>6 DEF Init, Known, OneCopy, Order, Near, First
<1> QED BY <1>1, <1>5, <1>7 DEF RightInv

\* Every step keeps it, or disturbs the system for good.
LEMMA RightNext == UndisturbedInv /\ [Next]_vars => UndisturbedInv'
<1> SUFFICES ASSUME UndisturbedInv, [Next]_vars PROVE UndisturbedInv'
  OBVIOUS
<1>1. CenterInv'
  BY CenterNext DEF UndisturbedInv
<1>2. SUFFICES ASSUME undisturbed' PROVE RightInv'
  BY <1>1 DEF UndisturbedInv
<1>3. CASE handleSensorUpdate
  <2>1. RightInv
    BY <1>2, <1>3 DEF handleSensorUpdate, UndisturbedInv
  <2> QED BY <1>1, <1>3, <2>1, AttributeStep, NotLost DEF handleSensorUpdate
<1>4. ASSUME NEW t \in Trains, Driver(t) PROVE RightInv'
  <2>1. RightInv
    BY <1>2, <1>4 DEF Driver, updateReport, Located, ReporterReturns, track, UndisturbedInv
  <2> QED BY <1>1, <1>4, <2>1, ReportStep, LocatedStep, ReturnStep DEF Driver
<1>5. ASSUME NEW t \in Trains, relocationRequest(t) PROVE RightInv'
  <2>1. RightInv
    BY <1>2, <1>5 DEF relocationRequest, track, UndisturbedInv
  <2> QED BY <1>1, <1>5, <2>1, RequestStep
<1>6. ASSUME NEW t \in Trains, Pass(t) PROVE RightInv'
  <2>1. PICK s \in Sensors :
            Goes(t, s) /\ Triggers(s) /\ undisturbed' = (undisturbed /\ Reserved(t, s))
    BY <1>6 DEF Pass
  <2>2. RightInv /\ Moves(t, s)
    BY <1>2, <1>6, <2>1 DEF Pass, Moves, UndisturbedInv
  <2> QED BY <1>1, <2>2, MoveStep
<1>7. ASSUME NEW t \in Trains, Miss(t) PROVE RightInv'
  BY <1>2, <1>7 DEF Miss
<1>8. CASE UNCHANGED vars
  <2>1. /\ UNCHANGED <<sensor_reservation, last_lost_sensor, next_sensor, driver_queue>>
        /\ UNCHANGED <<triggered, place, undisturbed>>
    BY <1>8 DEF vars, center_data, drivers, track
  <2>2. Trig' = Trig /\ Told' = Told /\ RightInv
    BY <1>2, <2>1 DEF Trig, Told, UndisturbedInv
  <2> QED BY <1>1, <2>1, <2>2
          DEF RightInv, Apart, Sent, Tells, Known, OneCopy, Order, Near, First, Reserved
<1> QED BY <1>3, <1>4, <1>5, <1>6, <1>7, <1>8 DEF Next

\* While every sensor that a train comes to is reserved by its driver and
\* reports, no sensor is lost and what a driver is told is where its train is,
\* however reports, sensors and requests of any driver interleave, for any trains
\* and sensors (train_center.c:96-104, 384-400).
THEOREM RightTrainCorrect == Spec => []RightTrain
<1>1. UndisturbedInv => RightTrain
  <2>1. SUFFICES ASSUME RightInv
                 PROVE  /\ last_lost_sensor = NULL
                        /\ \A t \in Trains : \A i \in 1 .. Len(driver_queue[t]) :
                              driver_queue[t][i].type = "LOCATION_CHANGE" =>
                                  driver_queue[t][i].sensor = place[t]
    BY DEF UndisturbedInv, RightTrain
  <2>2. ASSUME NEW t \in Trains, NEW i \in 1 .. Len(driver_queue[t]),
               driver_queue[t][i].type = "LOCATION_CHANGE"
        PROVE  driver_queue[t][i].sensor = place[t]
    <3>1. driver_queue[t][i] # ReportReturned
      BY <2>2 DEF ReportReturned
    <3>2. driver_queue[t][i] = LocationChange(place[t])
      BY <2>1, <3>1 DEF RightInv, Tells, TellsOnly
    <3> QED BY <3>2 DEF LocationChange
  <2> QED BY <2>1, <2>2 DEF RightInv, OneCopy
<1>2. Init => UndisturbedInv
  BY RightInit
<1>3. UndisturbedInv /\ [Next]_vars => UndisturbedInv'
  BY RightNext
<1> QED BY <1>1, <1>2, <1>3, PTL DEF Spec
=============================================================================
