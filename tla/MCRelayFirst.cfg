SPECIFICATION Spec
CONSTANTS
  MAX_PACKET_SIZE = 3
  ADDR_LEN = 1
  MaxFirst = 3
  MaxUp = 5
  MaxDown = 1
  DownBuffer = 2
INVARIANTS
  NothingLost
