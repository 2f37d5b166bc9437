----------------------------- MODULE TrainSensor -----------------------------
(***************************************************************************)
(* The way from the sensors to the train center: trainSensorNotifier of    *)
(* train_sensor.c asks the decoders for their bytes, again when it has had *)
(* all of them, and sends what changed to the center, which looks for the  *)
(* sensors that were released.  A byte has one sensor here.                *)
(***************************************************************************)
EXTENDS Integers, Sequences

CONSTANT SENSOR_BYTES_TOTAL

\* What the constants have to be.
SensorAssumption == SENSOR_BYTES_TOTAL \in Nat \ {0, 1}

Bytes == 0 .. SENSOR_BYTES_TOTAL - 1

VARIABLES
    latch,          \* what the decoders keep: sensors triggered and not read
    auto_reset,     \* whether they forget a byte that they have answered
    asked,          \* what they have been asked for
    com1,           \* their answers that the notifier has not got
    pc,             \* "start", "filter", "get" or "send"
    sensor_next, data_changed,
    msg_data,       \* the notifier's msg.sensor_data
    sensor_data,    \* the center's
    released,       \* the sensors that the last step of the center found
    passed,         \* history: sensors triggered and not found released since
    awaited         \* history: those that were triggered after the filter ended

decoders == <<latch, auto_reset, asked, com1>>
notifier == <<pc, sensor_next, data_changed, msg_data>>
vars     == <<decoders, notifier, sensor_data, released, passed, awaited>>

AUTO_RESET == -1
Nothing    == [b \in Bytes |-> FALSE]

\* Trains may have passed sensors before, and the decoders be in either mode.
Init ==
    /\ latch \in [Bytes -> BOOLEAN]
    /\ auto_reset \in BOOLEAN
    /\ asked = << >>
    /\ com1 = << >>
    /\ pc = "start"
    /\ sensor_next = 0
    /\ data_changed = TRUE
    /\ msg_data = Nothing
    /\ sensor_data = Nothing
    /\ released = {}
    /\ passed = latch
    /\ awaited = Nothing

-----------------------------------------------------------------------------
(* The track.  A train takes longer to come back to a sensor than the      *)
(* notifier to ask twice.                                                  *)

Trigger(b) ==
    /\ ~ passed[b]
    /\ latch' = [latch EXCEPT ![b] = TRUE]
    /\ passed' = [passed EXCEPT ![b] = TRUE]
    /\ awaited' = [awaited EXCEPT ![b] = pc \in {"get", "send"}]
    /\ released' = {}
    /\ UNCHANGED <<auto_reset, asked, com1, notifier, sensor_data>>

DecodersAnswer ==
    /\ asked # << >>
    /\ LET b == Head(asked)
       IN  \/ /\ b = AUTO_RESET
              /\ auto_reset' = TRUE
              /\ UNCHANGED <<latch, com1>>
           \/ /\ b # AUTO_RESET
              /\ com1' = Append(com1, latch[b])
              /\ latch' = [latch EXCEPT ![b] = @ /\ ~ auto_reset]
              /\ UNCHANGED auto_reset
    /\ asked' = Tail(asked)
    /\ released' = {}
    /\ UNCHANGED <<notifier, sensor_data, passed, awaited>>

-----------------------------------------------------------------------------
(* trainSensorNotifier                                                     *)

\* Putc(com1_tid, query).
query == [i \in 1 .. SENSOR_BYTES_TOTAL |-> i - 1]
Asks(what) == asked' = asked \o what

Incremented(i) == (i + 1) % SENSOR_BYTES_TOTAL

\* The loop that is to "filter out left over sensor data" asks once, gets one
\* byte, and ends: the other bytes of the answer are got as if they were new.
Start ==
    /\ pc = "start"
    /\ Asks(query)
    /\ pc' = "filter"
    /\ data_changed' = FALSE
    /\ released' = {}
    /\ UNCHANGED <<latch, auto_reset, com1, sensor_next, msg_data, sensor_data, passed, awaited>>

\* That byte is not saved: what it showed is lost if the decoders forgot it.
Filter ==
    /\ pc = "filter"
    /\ com1 # << >>
    /\ com1' = Tail(com1)
    /\ sensor_next' = Incremented(sensor_next)
    /\ Asks(<<AUTO_RESET>>)
    /\ pc' = "get"
    /\ passed' = [passed EXCEPT ![sensor_next] = latch[sensor_next]]
    /\ released' = {}
    /\ UNCHANGED <<latch, auto_reset, data_changed, msg_data, sensor_data, awaited>>

\* Whether a byte has to be sent to the center.
\* (Mutant: as the filter does, which looks for bytes that are not 0.)
IsSet(byte, saved) == byte

HasChanged(byte, saved) == byte # saved

\* Getc, and what comes before the next one: another query after the last byte.
Get ==
    /\ pc = "get"
    /\ com1 # << >>
    /\ com1' = Tail(com1)
    /\ msg_data' = [msg_data EXCEPT ![sensor_next] = Head(com1)]
    /\ data_changed' = (data_changed \/ HasChanged(Head(com1), msg_data[sensor_next]))
    /\ sensor_next' = Incremented(sensor_next)
    /\ \/ sensor_next' # 0 /\ UNCHANGED <<pc, asked>>
       \/ sensor_next' = 0 /\ data_changed' /\ pc' = "send" /\ UNCHANGED asked
       \/ sensor_next' = 0 /\ ~ data_changed' /\ Asks(query) /\ UNCHANGED pc
    /\ released' = {}
    /\ UNCHANGED <<latch, auto_reset, sensor_data, passed, awaited>>

\* The center receives the message: handleSensorUpdate.
Send ==
    /\ pc = "send"
    /\ pc' = "get"
    /\ data_changed' = FALSE
    /\ Asks(query)
    /\ sensor_data' = msg_data
    /\ released' = {b \in Bytes : sensor_data[b] /\ ~ msg_data[b]}
    /\ passed' = [b \in Bytes |-> passed[b] /\ b \notin released']
    /\ awaited' = [b \in Bytes |-> awaited[b] /\ b \notin released']
    /\ UNCHANGED <<latch, auto_reset, com1, sensor_next, msg_data>>

-----------------------------------------------------------------------------
Notifier == Start \/ Filter \/ Get \/ Send

Next == Notifier \/ DecodersAnswer \/ \E b \in Bytes : Trigger(b)

\* The decoders answer, and the notifier and the center run when they can.
Fairness == WF_vars(Notifier) /\ WF_vars(DecodersAnswer)

Spec == Init /\ [][Next]_vars /\ Fairness

-----------------------------------------------------------------------------
(* Properties                                                              *)

\* Queries, answers and the index that the notifier counts (train_sensor.c:41,
\* 63) never come apart: what the center takes for a release is a sensor that
\* was triggered, before the notifier began or since, and once for each time.
OnlyPassedReported == [][\A b \in released' : passed[b]]_vars

\* The center hears of every sensor that a train passes after the filter has
\* ended.  Nothing is said of those that were left over: the filter is meant to
\* drop them, and drops one byte of them.
AllPassedReported == \A b \in Bytes : awaited[b] ~> ~ awaited[b]
=============================================================================
