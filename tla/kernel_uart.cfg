SPECIFICATION LinkedSpec
CONSTANTS
  TASK_MAX = 3
  TASK_PRIORITY_MAX = 2
  INT_MAX = 3
  Awaited <- AllEvents
  Connected <- BothUarts
INVARIANT EventListsOK
INVARIANT EventBuffersOK
INVARIANT ListsAreLinked
PROPERTY UartInterruptsKept
