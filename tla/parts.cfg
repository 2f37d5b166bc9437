SPECIFICATION Spec
CONSTANTS
  SENSOR_BYTES_TOTAL = 3
  SpeedCount = 8
  SPEED_MEDIAN = 5
  Preempted = FALSE
  NULL = NULL
  TRAIN_MAX = 3
  ORBIT_MAX = 3
  Callers = {1, 2}
  Names = {"CS", "C1", "C2"}
  NoName = ""
  NS_REG_MAX = 2
  Values = {1, 2}
  buffer_size = 3
PROPERTY PassedSensorsReported
PROPERTY SpeedReached
PROPERTY HierarchyKept
PROPERTY NamesAreKnown
PROPERTY BufferIsFifo
