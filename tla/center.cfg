SPECIFICATION Spec
CONSTANTS
  TRAIN_MAX = 2
  SENSORS = 3
  MaxQueue = 2
INVARIANT OneReservation
INVARIANT OneReporter
INVARIANT RightTrain
PROPERTY ToldOnce
