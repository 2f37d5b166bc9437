SPECIFICATION Spec
CONSTANTS
  Clients = {c1, c2}
  Notifier = Notifier
  UINT = 16
  MaxTicks = 5
  MaxDelay = 2
SYMMETRY ClientSymmetry
INVARIANT AnsweredOnce
INVARIANT NoneOverdue
PROPERTY NeverEarly
