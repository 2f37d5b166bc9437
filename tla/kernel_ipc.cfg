SPECIFICATION FairSpec
CONSTANTS
  TASK_MAX = 3
  TASK_PRIORITY_MAX = 2
  INT_MAX = 4
  Awaited <- TimerEvent
  Connected <- NoUarts
INVARIANT TypeOK
INVARIANT ListsMatchStates
INVARIANT RunningIsHighest
INVARIANT TidNamesSlot
INVARIANT MsgBuffersOK
PROPERTY RendezvousKept
PROPERTY TaskLifeCycle
PROPERTY RoundRobin
PROPERTY TickWakes
