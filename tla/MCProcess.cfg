SPECIFICATION PartSpec
CONSTANTS
  BUF = 40
  RANDOM_LEN = 1
  BASE = 4
  Messages <- MCMessages
  MaxListen = 3
INVARIANTS
  HostSound
  ExitExplained
PROPERTIES
  SniffingEnds
  ProcessEnds
