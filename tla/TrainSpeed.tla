----------------------------- MODULE TrainSpeed -----------------------------
(***************************************************************************)
(* A train's speed and the estimate of its velocity (train_driver.c), which*)
(* the driver of the train, and on an order for an orbit the driver of     *)
(* another train, write to.  Drivers have one priority: an interrupt may   *)
(* stop one between any two statements and let another run.  todo has the  *)
(* statements that each driver still has to run of the message it handles. *)
(*                                                                         *)
(* Speeds are modulo 16, as velocities are found; velocities and the       *)
(* accelerations are in units of one speed and one secretary's period.     *)
(***************************************************************************)
EXTENDS Integers, Sequences

CONSTANTS
    SpeedCount,     \* speeds in the loops of adjustSpeed: 15
    SPEED_MEDIAN,   \* modulo 16
    Preempted       \* whether an interrupt comes while a message is handled

\* What the constants have to be.
SpeedAssumption ==
    /\ SpeedCount \in Nat /\ SpeedCount > 4
    /\ SPEED_MEDIAN \in 1 .. SpeedCount - 1
    /\ Preempted \in BOOLEAN

Speeds  == 0 .. SpeedCount - 1
Drivers == {"own", "other"}

VARIABLES
    speed, velocity, acceleration,
    acceleration_step,
    acceleration_alarm, \* "off", "set", or "rung" when its time has come
    todo,
    new_speed           \* the argument of each driver's changeSpeed

status  == <<speed, velocity, acceleration, acceleration_step, acceleration_alarm>>
vars    == <<status, todo, new_speed>>

velocities(s)   == s
max_velocity  == SpeedCount - 1
deceleration  == -1

\* Only the first one is 0, also of what lies before and behind the array.
accelerations(i) == IF i = 0 THEN 0 ELSE 1

Init ==
    /\ speed = 0
    /\ velocity = 0
    /\ acceleration = 0
    /\ acceleration_step = -1
    /\ acceleration_alarm = "off"
    /\ todo = [d \in Drivers |-> << >>]
    /\ new_speed = [d \in Drivers |-> 0]

-----------------------------------------------------------------------------
(* Messages and what is to be done about them.                             *)

\* The speeds that adjustSpeed may choose for the parent's velocity.
adjustSpeed(level, parent) ==
    LET faster == {i \in Speeds : velocities(i) > parent}
        i      == CHOOSE i \in faster : \A j \in faster : i <= j
    IN  IF faster = {} THEN {}
        ELSE IF level < 0 THEN {IF i + level >= 0 THEN i + level ELSE 4}
        ELSE {IF i + level - 1 < SpeedCount THEN i + level - 1 ELSE SpeedCount - 1}

\* SATELLITE_REPORT: the speed depends on where the train and its parent are.
Levels == {3, 1, -2, -4, -5}

ReportSpeeds ==
    {SPEED_MEDIAN, SpeedCount - 1} \cup
    UNION {adjustSpeed(level, parent) : level \in Levels, parent \in 0 .. max_velocity}

\* CMD_SPEED, CMD_REVERSE and CMD_ORBIT.
OrderSpeeds == Speeds

Begins(d, statements) ==
    /\ todo[d] = << >>
    /\ Preempted \/ \A other \in Drivers : todo[other] = << >>
    /\ todo' = [todo EXCEPT ![d] = statements]
    /\ UNCHANGED status

Calls(d, speeds) ==
    /\ Begins(d, <<"changeSpeed">>)
    /\ \E s \in speeds : new_speed' = [new_speed EXCEPT ![d] = s]

Report == Calls("own", ReportSpeeds)
Order  == Calls("own", OrderSpeeds)

\* An order for another train that makes this one the first of all.
OrderElsewhere == Calls("other", {SPEED_MEDIAN})

\* The secretary's message: updateTrainStatus.
Tick == Begins("own", <<"updateTrainStatus", "velocity", "target">>) /\ UNCHANGED new_speed

AlarmRings ==
    /\ acceleration_alarm = "set"
    /\ acceleration_alarm' = "rung"
    /\ UNCHANGED <<speed, velocity, acceleration, acceleration_step, todo, new_speed>>

-----------------------------------------------------------------------------
(* The statements, in the order they run.                                  *)

Goes(d, statements) == todo' = [todo EXCEPT ![d] = statements \o Tail(@)]

At(d, statement) == todo[d] # << >> /\ Head(todo[d]) = statement

changeSpeed(d) ==
    /\ At(d, "changeSpeed")
    /\ \/ /\ speed < new_speed[d]
          /\ Goes(d, <<"speed", "step", "alarm", "accelerate">>)
       \/ /\ speed > new_speed[d] \/ new_speed[d] = 0
          /\ Goes(d, <<"step 0", "alarm off", "speed", "decelerate">>)
       \/ /\ speed = new_speed[d] /\ new_speed[d] # 0
          /\ Goes(d, << >>)
    /\ UNCHANGED status

\* What to do when the alarm has rung.  The assertion fails in the last step.
AlarmHandled(step) ==
    IF step \in 0 .. 4 THEN <<"step + 1", "alarm", "accelerate">>
    ELSE IF step = 5 THEN <<"alarm off", "step -1">>
    ELSE <<"assert(0)">>

updateTrainStatus(d) ==
    /\ At(d, "updateTrainStatus")
    /\ Goes(d, IF acceleration_alarm = "rung" THEN AlarmHandled(acceleration_step) ELSE << >>)
    /\ UNCHANGED status

\* Whether the estimate has come to the velocity of the speed.
Beyond ==
    \/ acceleration > 0 /\ velocity > velocities(speed)
    \/ acceleration < 0 /\ velocity < velocities(speed)

Target(d) ==
    /\ At(d, "target")
    /\ Goes(d, IF ~ Beyond THEN << >>
               ELSE IF acceleration > 0
                    THEN <<"velocity reached", "acceleration 0", "alarm off", "step -1">>
                    ELSE <<"velocity reached", "acceleration 0">>)
    /\ UNCHANGED status

\* Steps are 0 to 5.  A train at max_velocity begins with step 0.
\* (Mutant: with step 6.)
NextStepNoWrap == ((velocity * 5) \div max_velocity) + 1

NextStep == (((velocity * 5) \div max_velocity) + 1) % 6

SetSpeed(d) ==
    /\ At(d, "speed")
    /\ speed' = new_speed[d]
    /\ UNCHANGED <<velocity, acceleration, acceleration_step, acceleration_alarm>>

SetVelocity(d) ==
    /\ \/ At(d, "velocity") /\ velocity' = velocity + acceleration
       \/ At(d, "velocity reached") /\ velocity' = velocities(speed)
    /\ UNCHANGED <<speed, acceleration, acceleration_step, acceleration_alarm>>

SetAcceleration(d) ==
    /\ \/ At(d, "accelerate") /\ acceleration' = accelerations(acceleration_step)
       \/ At(d, "decelerate") /\ acceleration' = deceleration
       \/ At(d, "acceleration 0") /\ acceleration' = 0
    /\ UNCHANGED <<speed, velocity, acceleration_step, acceleration_alarm>>

SetStep(d) ==
    /\ \/ At(d, "step") /\ acceleration_step' = NextStep
       \/ At(d, "step + 1") /\ acceleration_step' = acceleration_step + 1
       \/ At(d, "step 0") /\ acceleration_step' = 0
       \/ At(d, "step -1") /\ acceleration_step' = -1
    /\ UNCHANGED <<speed, velocity, acceleration, acceleration_alarm>>

SetAlarm(d) ==
    /\ \/ At(d, "alarm") /\ acceleration_alarm' = "set"
       \/ At(d, "alarm off") /\ acceleration_alarm' = "off"
    /\ UNCHANGED <<speed, velocity, acceleration, acceleration_step>>

Statement(d) ==
    /\ \/ changeSpeed(d) \/ updateTrainStatus(d) \/ Target(d)
       \/ /\ SetSpeed(d) \/ SetVelocity(d) \/ SetAcceleration(d) \/ SetStep(d) \/ SetAlarm(d)
          /\ Goes(d, << >>)
    /\ UNCHANGED new_speed

Next ==
    \/ \E d \in Drivers : Statement(d)
    \/ Tick \/ Report \/ Order \/ OrderElsewhere \/ AlarmRings

\* Drivers run, the secretary ticks, and time passes.
Fairness ==
    /\ \A d \in Drivers : WF_vars(Statement(d))
    /\ SF_vars(Tick)
    /\ WF_vars(AlarmRings)

Spec == Init /\ [][Next]_vars /\ Fairness
-----------------------------------------------------------------------------
(* Properties                                                              *)

\* The step of an alarm is never lost: "invalid acceleration_step"
\* (train_driver.c:638) never fails.
AccelerationStepValid == \A d \in Drivers : ~ At(d, "assert(0)")

\* Whatever orders and reports a train was given before, the estimate comes to
\* the velocity of the last one.
SpeedReached == []<>(velocity = velocities(speed)) \/ []<><<speed' # speed>>_vars
=============================================================================
