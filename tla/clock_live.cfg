SPECIFICATION FairSpec
CONSTANTS
  Clients = {c1, c2}
  Notifier = Notifier
  UINT = 4
  MaxTicks = 4
  MaxDelay = 1
PROPERTY CallsReturn
