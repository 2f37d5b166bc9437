------------------------------- MODULE Parts -------------------------------
(***************************************************************************)
(* The parts that share no state with each other: each behaviour is one of *)
(* one part, the others stay as they begin.                                *)
(***************************************************************************)
EXTENDS Integers, Sequences

CONSTANTS
    SENSOR_BYTES_TOTAL,
    SpeedCount, SPEED_MEDIAN, Preempted,
    NULL, TRAIN_MAX, ORBIT_MAX,
    Callers, Names, NoName, NS_REG_MAX,
    Values, buffer_size

VARIABLES
    part,
    latch, auto_reset, asked, com1, pc, sensor_next, data_changed, msg_data,
    sensor_data, released, passed, awaited,
    speed, velocity, acceleration, acceleration_step, acceleration_alarm, todo, new_speed,
    satellite_lists, orbit, parent_train,
    table, ns_counter, queries, answer,
    buffer, front, back, current_size, pushed, popped

Sensor == INSTANCE TrainSensor
Speed  == INSTANCE TrainSpeed
Orbits == INSTANCE Satellites
Server == INSTANCE NameServer
Buffer == INSTANCE CircularBuffer

ASSUME PartsAssumption ==
    /\ Sensor!SensorAssumption
    /\ Speed!SpeedAssumption
    /\ Orbits!SatellitesAssumption
    /\ Server!NameServerAssumption
    /\ Buffer!BufferAssumption

sensor_vars == <<latch, auto_reset, asked, com1, pc, sensor_next, data_changed, msg_data,
                 sensor_data, released, passed, awaited>>
speed_vars  == <<speed, velocity, acceleration, acceleration_step, acceleration_alarm,
                 todo, new_speed>>
orbits_vars == <<satellite_lists, orbit, parent_train>>
names_vars  == <<table, ns_counter, queries, answer>>
buffer_vars == <<buffer, front, back, current_size, pushed, popped>>

vars == <<part, sensor_vars, speed_vars, orbits_vars, names_vars, buffer_vars>>

Init ==
    /\ part \in {"sensor", "speed", "orbits", "names", "buffer"}
    /\ Sensor!Init /\ Speed!Init /\ Orbits!Init /\ Server!Init /\ Buffer!Init
    /\ part # "sensor" => auto_reset /\ \A b \in DOMAIN latch : ~ latch[b]
    /\ part # "buffer" => \A i \in DOMAIN buffer : buffer[i] = CHOOSE value \in Values : TRUE

Next ==
    /\ UNCHANGED part
    /\ \/ /\ part = "sensor" /\ Sensor!Next
          /\ UNCHANGED <<speed_vars, orbits_vars, names_vars, buffer_vars>>
       \/ /\ part = "speed" /\ Speed!Next
          /\ UNCHANGED <<sensor_vars, orbits_vars, names_vars, buffer_vars>>
       \/ /\ part = "orbits" /\ Orbits!Next
          /\ UNCHANGED <<sensor_vars, speed_vars, names_vars, buffer_vars>>
       \/ /\ part = "names" /\ Server!Next
          /\ UNCHANGED <<sensor_vars, speed_vars, orbits_vars, buffer_vars>>
       \/ /\ part = "buffer" /\ Buffer!Next
          /\ UNCHANGED <<sensor_vars, speed_vars, orbits_vars, names_vars>>

Spec ==
    /\ Init /\ [][Next]_vars
    /\ part = "sensor" => Sensor!Fairness
    /\ part = "speed" => Speed!Fairness

-----------------------------------------------------------------------------
\* TrainSensor: queries, answers and the index that the notifier counts
\* (train_sensor.c:41, 63) never come apart: what the center takes for a release
\* is a sensor that was triggered, once each time, and it hears of all that
\* trains pass after the filter of train_sensor.c:25-37 has ended.
PassedSensorsReported ==
    Sensor!OnlyPassedReported /\ (part = "sensor" => Sensor!AllPassedReported)

\* TrainSpeed: whatever orders and reports a train was given before, and in
\* whatever phase of an acceleration, the estimate comes to the velocity of the
\* last speed (train_driver.c:592-660).
SpeedReached == Speed!SpeedReached

\* Satellites: however orders follow one another, the linked lists hold the
\* hierarchy by which the drivers keep their distance (train_driver.c:855-887).
HierarchyKept == Orbits!HierarchyKept

\* NameServer: the table implements Registry.
NamesAreKnown == Server!NamesAreKnown

\* CircularBuffer: the array and its indices implement Fifo.
BufferIsFifo == Buffer!BufferIsFifo
=============================================================================
