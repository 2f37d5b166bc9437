SPECIFICATION Spec
CONSTANTS
  channel_id = 1
  Clients = {c1, c2}
  SendNotifier = SendNotifier
  ReceiveNotifier = ReceiveNotifier
  Chars = {BACKSPACE, x}
  BACKSPACE = BACKSPACE
  CLEAR_EOL = CLEAR_EOL
  SAVE_CURSOR = SAVE_CURSOR
  COM_BUFFER_SIZE = 2
  GETTER_BUFFER_SIZE = 2
  Received = {BACKSPACE, x}
  Strings <- OneOrTwo
  x = x
SYMMETRY ClientSymmetry
INVARIANT NobodyWaitsInVain
INVARIANT AnsweredOnce
PROPERTY OutputInOrder
PROPERTY InputInOrder
PROPERTY GettersInOrder
