SPECIFICATION Spec
CONSTANTS
  TASK_MAX = 2
  TASK_PRIORITY_MAX = 1
  INT_MAX = 3
  Awaited <- TimerEvent
  Connected <- NoUarts
INVARIANT EventBufferFree
