SPECIFICATION Spec
CONSTANTS
  SpeedCount = 15
  SPEED_MEDIAN = 9
  Preempted = TRUE
INVARIANT AccelerationStepValid
