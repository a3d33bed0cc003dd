SPECIFICATION FairSpec
CONSTANTS
  MAX_PACKET_SIZE = 3
  ADDR_LEN = 1
  MaxFirst = 2
  MaxUp = 5
  MaxDown = 3
  DownBuffer = 2
INVARIANTS
  UploadIntact
  DownloadIntact
  OkMeansOneWayComplete
PROPERTIES
  SessionEnds
  UploadDelivered
