---------------------------- MODULE TrainCenter ----------------------------
(***************************************************************************)
(* The train center of train_center.c and what it exchanges with the       *)
(* drivers: a driver reserves the sensor it expects with its reports, the  *)
(* center attributes a sensor that a train has released to a driver that   *)
(* reserved it, saves one that nobody reserved, and sends that one to the  *)
(* driver that asks where its train is.                                    *)
(*                                                                         *)
(* The trains go round one loop of sensors.  Sensors fail to report, trains *)
(* come before the report that reserves their sensor, and every driver asks *)
(* where its train is whenever it takes it for late.  Messages wait in the  *)
(* queues of the kernel, oldest first.                                     *)
(***************************************************************************)
EXTENDS Integers, Sequences, FiniteSets

CONSTANTS
    TRAIN_MAX,
    SENSORS,        \* how many sensors the loop has
    MaxQueue        \* no driver asks while so many messages wait for drivers (a bound)

ASSUME CenterAssumption ==
    /\ TRAIN_MAX \in Nat \ {0, 1}
    /\ SENSORS \in Nat \ {0}
    /\ MaxQueue \in Nat

Trains  == 0 .. TRAIN_MAX - 1
Sensors == 0 .. SENSORS - 1
NULL    == -1

\* The place of each landmark in sensor_reservation.
SENSOR_RESERVE_EACH == TRAIN_MAX
Slots == 0 .. SENSOR_RESERVE_EACH - 1

Following(s) == (s + 1) % SENSORS

VARIABLES
    sensor_reservation, \* of each landmark, the train in each slot
    reservation_record, \* of each train, the landmark it reserved last
    last_lost_sensor,
    next_sensor,        \* what each driver has predicted
    waiting_for_reporter,
    driver_queue,       \* messages that each driver has not received
    triggered,          \* released sensors that the center has not received
    place,              \* the sensor that each train passed last
    undisturbed         \* history: all that were passed reported, and were reserved

center_data == <<sensor_reservation, reservation_record, last_lost_sensor>>
drivers     == <<next_sensor, waiting_for_reporter>>
track       == <<triggered, place, undisturbed>>
vars        == <<center_data, drivers, track, driver_queue>>

LocationChange(s) == [type |-> "LOCATION_CHANGE", sensor |-> s]
ReportReturned    == [type |-> "SATELLITE_REPORT"]

Waits(message, queue) == \E i \in 1 .. Len(queue) : queue[i] = message

\* The messages that drivers have not received: whose, and the place in the queue.
Unread == UNION {{t} \X DOMAIN driver_queue[t] : t \in Trains}

-----------------------------------------------------------------------------
\* The drivers have predicted from where their trains were set, no two of them
\* between the same sensors; nothing is reserved yet.
Init ==
    /\ place \in [Trains -> Sensors]
    /\ \A t, u \in Trains : t # u => place[t] # place[u]
    /\ sensor_reservation = [s \in Sensors |-> [i \in Slots |-> NULL]]
    /\ reservation_record = place
    /\ last_lost_sensor = NULL
    /\ next_sensor = [t \in Trains |-> Following(place[t])]
    /\ waiting_for_reporter = [t \in Trains |-> FALSE]
    /\ driver_queue = [t \in Trains |-> << >>]
    /\ triggered = << >>
    /\ undisturbed = TRUE

-----------------------------------------------------------------------------
(* The trains and the sensors.  Trains do not look at the center's tables. *)

Reserved(t, s) == \E i \in Slots : sensor_reservation[s][i] = t

\* No message of the sensor that train t passed last is on its way: messages take
\* less time than a train from one sensor to the next.
Heard(t) ==
    /\ ~ Waits(place[t], triggered)
    /\ \A u \in Trains : ~ Waits(LocationChange(place[t]), driver_queue[u])

\* Train t goes past sensor s, which no other train has passed last: trains do
\* not run into each other.
Goes(t, s) ==
    /\ Heard(t)
    /\ s = Following(place[t])
    /\ \A u \in Trains : place[u] # s
    /\ place' = [place EXCEPT ![t] = s]

Triggers(s) == triggered' = Append(triggered, s)

\* The sensor reports the train, which may come before the report that reserves
\* the sensor.
Pass(t) ==
    /\ \E s \in Sensors :
          /\ Goes(t, s)
          /\ Triggers(s)
          /\ undisturbed' = (undisturbed /\ Reserved(t, s))
    /\ UNCHANGED <<center_data, drivers, driver_queue>>

\* The sensor does not report.
Miss(t) ==
    /\ \E s \in Sensors : Goes(t, s)
    /\ undisturbed' = FALSE
    /\ UNCHANGED <<center_data, drivers, driver_queue, triggered>>

-----------------------------------------------------------------------------
(* The center.  A postman that it creates delivers at once.                *)

Deliver(t, message) == driver_queue' = [driver_queue EXCEPT ![t] = Append(@, message)]

\* The slots of a landmark after attributeSensor: each train but the first
\* moves down one slot, so that the first one stays unless a train has the
\* next slot.
Moved(row, first) ==
    [i \in Slots |->
        IF i >= first /\ i + 1 \in Slots /\ row[i + 1] # NULL THEN row[i + 1]
        ELSE IF i = first THEN row[i]
        ELSE NULL]

attributeSensor(s) ==
    \E first \in Slots :
        LET row == sensor_reservation[s]
        IN  /\ row[first] # NULL
            /\ \A i \in 0 .. first - 1 : row[i] = NULL
            /\ sensor_reservation' = [sensor_reservation EXCEPT ![s] = Moved(row, first)]
            /\ Deliver(row[first], LocationChange(s))
            /\ UNCHANGED <<reservation_record, last_lost_sensor>>

SaveLost(s) ==
    /\ \A i \in Slots : sensor_reservation[s][i] = NULL
    /\ last_lost_sensor' = s
    /\ UNCHANGED <<sensor_reservation, reservation_record, driver_queue>>

\* A message of trainSensorNotifier.  Sensors that one message shows are taken
\* as if in messages of their own.
handleSensorUpdate ==
    /\ triggered # << >>
    /\ triggered' = Tail(triggered)
    /\ attributeSensor(Head(triggered)) \/ SaveLost(Head(triggered))
    /\ UNCHANGED <<drivers, place, undisturbed>>

\* The center resends a lost sensor once, to the first driver that asks while it
\* is not too old.
\* (Mutant: it keeps the sensor.)
ResendAgain(t) ==
    \/ last_lost_sensor # NULL /\ Deliver(t, LocationChange(last_lost_sensor))
                               /\ UNCHANGED last_lost_sensor
    \/ UNCHANGED <<last_lost_sensor, driver_queue>>

handleLocationRecovery(t) ==
    \/ /\ last_lost_sensor # NULL
       /\ last_lost_sensor' = NULL
       /\ Deliver(t, LocationChange(last_lost_sensor))
    \/ UNCHANGED <<last_lost_sensor, driver_queue>> \* none, or RECOVERY_TIME_THRESHOLD

\* Slots without train t.
\* (Mutant: the former reservation stays.)
KeepLast(row, t) == row

ClearLast(row, t) == [i \in Slots |-> IF row[i] = t THEN NULL ELSE row[i]]

\* The assertion "Fail to reserve sensor" says that a slot is free.
saveSatelliteReport(t, s) ==
    LET last    == reservation_record[t]
        cleared == [sensor_reservation EXCEPT ![last] = ClearLast(@, t)]
    IN  \E free \in Slots :
           /\ cleared[s][free] = NULL
           /\ \A i \in 0 .. free - 1 : cleared[s][i] # NULL
           /\ sensor_reservation' = [cleared EXCEPT ![s][free] = t]
           /\ reservation_record' = [reservation_record EXCEPT ![t] = s]

-----------------------------------------------------------------------------
(* The driver of train t.  Its reporter and the center have higher         *)
(* priorities than a driver: a report, or a request, is handled by the     *)
(* center, and the answer waits for the driver, before a driver runs on.   *)

\* updateReport and stReport.
\* (Mutant: the flag is not looked at.)
ReportAnyTime(t) == TRUE

MayReport(t) == ~ waiting_for_reporter[t]

updateReport(t) ==
    /\ MayReport(t)
    /\ waiting_for_reporter' = [waiting_for_reporter EXCEPT ![t] = TRUE]
    /\ saveSatelliteReport(t, next_sensor[t])
    /\ Deliver(t, ReportReturned)
    /\ UNCHANGED <<last_lost_sensor, next_sensor, track>>

\* sensor_timeout passes, also when the train is only slower than estimated.
relocationRequest(t) ==
    /\ Cardinality(Unread) < MaxQueue
    /\ handleLocationRecovery(t)
    /\ UNCHANGED <<sensor_reservation, reservation_record, drivers, track>>

DriverReceives(t, message) ==
    /\ driver_queue[t] # << >>
    /\ message = Head(driver_queue[t])
    /\ driver_queue' = [driver_queue EXCEPT ![t] = Tail(@)]

Located(t) ==
    /\ \E s \in Sensors :
          /\ DriverReceives(t, LocationChange(s))
          /\ next_sensor' = [next_sensor EXCEPT ![t] = Following(s)]
    /\ UNCHANGED <<center_data, waiting_for_reporter, track>>

ReporterReturns(t) ==
    /\ DriverReceives(t, ReportReturned)
    /\ waiting_for_reporter' = [waiting_for_reporter EXCEPT ![t] = FALSE]
    /\ UNCHANGED <<center_data, next_sensor, track>>

Driver(t) == updateReport(t) \/ Located(t) \/ ReporterReturns(t)

Next ==
    \/ handleSensorUpdate
    \/ \E t \in Trains : Driver(t) \/ relocationRequest(t) \/ Pass(t) \/ Miss(t)

Spec == Init /\ [][Next]_vars

-----------------------------------------------------------------------------
(* Properties                                                              *)

\* A train has at most one slot, and only of the landmark in its record,
\* which is where its next report clears it (train_center.c:384-390).  So
\* there is always a free slot, and "Fail to reserve sensor" never fails.
OneReservation ==
    \A t \in Trains, s, r \in Sensors : \A i, j \in Slots :
        sensor_reservation[s][i] = t /\ sensor_reservation[r][j] = t =>
            s = r /\ i = j /\ s = reservation_record[t]

\* A driver waits for its reporter if and only if one is on its way back, and
\* never has two.
OneReporter ==
    \A t \in Trains :
        LET back == {i \in 1 .. Len(driver_queue[t]) : driver_queue[t][i] = ReportReturned}
        IN  IF waiting_for_reporter[t] THEN \E i \in back : back = {i} ELSE back = {}

\* While every sensor that a train comes to is reserved by its driver and reports,
\* no sensor is lost, and what a driver is told is where its train is, however
\* reports, sensors and drivers that ask for nothing interleave
\* (train_center.c:96-104, 384-400).  Once a sensor has failed, or a train has
\* come too early, nothing is promised: a stale reservation, or a driver that is
\* merely late and asks first, takes another train's sensor.
RightTrain ==
    undisturbed =>
        /\ last_lost_sensor = NULL
        /\ \A t \in Trains : \A i \in 1 .. Len(driver_queue[t]) :
              driver_queue[t][i].type = "LOCATION_CHANGE" => driver_queue[t][i].sensor = place[t]

\* Where sensor s waits: on its way to the center, as the lost one, or on its way
\* to a driver.
Copies(s) ==
    Cardinality({i \in 1 .. Len(triggered) : triggered[i] = s})
    + Cardinality({last_lost_sensor} \cap {s})
    + Cardinality(UNION {{<<t, i>> : i \in {j \in 1 .. Len(driver_queue[t]) :
                                               driver_queue[t][j] = LocationChange(s)}} :
                            t \in Trains})

Released(s) == \E t \in Trains : place[t] # s /\ place'[t] = s

Taken(s) ==
    \/ \E t \in Trains : DriverReceives(t, LocationChange(s))
    \/ last_lost_sensor = s /\ triggered # << >> /\ last_lost_sensor' = Head(triggered)

\* Whatever fails, and whoever asks for a lost sensor at the same time, a sensor
\* that was released once is told once: it is never told to two drivers, by its
\* reservation and by a request (train_center.c:104, 366), and it goes nowhere
\* but to a driver, or when a later lost sensor takes its place
\* (train_center.c:122).
ToldOnce ==
    [][\A s \in Sensors :
          \/ Copies(s)' = Copies(s)
          \/ Copies(s)' = Copies(s) + 1 /\ Released(s)
          \/ Copies(s)' = Copies(s) - 1 /\ Taken(s)]_vars
=============================================================================
