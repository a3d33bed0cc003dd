SPECIFICATION FairSpec
CONSTANTS
  SALT_LEN = 2
  LENGTH_LEN = 2
  TAG_LEN = 2
  MAX_PACKET_SIZE = 3
  SENDER_MAX = 4
  MaxCall = 5
  MaxPackets = 3
  MaxRead = 2
  Capacity = 5
INVARIANTS
  NoSpuriousError
PROPERTIES
  StreamSpec
  AllDelivered
