SPECIFICATION FairSpec
CONSTANTS
  SALT_LEN = 1
  REQUEST_LEN = 1
  RESPONSE_LEN = 1
  LENGTH_LEN = 1
  TAG_LEN = 1
  MAX_PACKET_SIZE = 1
  MAX_DIFF = 1
  UNITS = 4
  TICKS = 2
  UNIX = 9
  Skews <- MCSkews
  FirstTick = 1
  MaxTime = 2
  MaxCall = 2
  MaxPackets = 2
  MaxReply = 2
  MaxRead = 1
INVARIANTS
  OwnResponseOnly
  NoSpuriousError
  RequestUnderstood
PROPERTIES
  StreamSpec
  ResponseDelivered
