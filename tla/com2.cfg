SPECIFICATION FairSpec
CONSTANTS
  channel_id = 2
  Clients = {c1, c2}
  SendNotifier = SendNotifier
  ReceiveNotifier = ReceiveNotifier
  Chars = {BACKSPACE}
  BACKSPACE = BACKSPACE
  CLEAR_EOL = CLEAR_EOL
  SAVE_CURSOR = SAVE_CURSOR
  COM_BUFFER_SIZE = 3
  GETTER_BUFFER_SIZE = 2
  Received = {BACKSPACE}
  Strings <- OneChar
  x = x
PROPERTY OutputDrains
