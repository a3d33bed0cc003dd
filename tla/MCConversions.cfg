\* The scaled word: 1000 is 10, 60, 24 and 7 are 2, a float has 14 bits, and
\* u64::MAX lies between 9 hours and 9.9.
CONSTANTS
  PREC = 1
  SIXTY = 2
  HOURS = 2
  DAYS = 2
  MAX = 39321
  MANTISSA = 14
  BASE = 5
  FirstDay <- MCFirstDay
  LastDay = 20000
  ClockDays <- MCClockDays
  Pieces <- MCPieces
  MaxPieces = 5
  NonceLen = 3
  MaxPackets = 260
  Hosts <- MCHosts
  Ports <- MCPorts
  Followers <- MCFollowers
  Servers <- MCServers
  Faults <- MCFaults
  Few <- MCFew
  MaxLines = 3
SPECIFICATION Spec
INVARIANTS
  CalendarFollowed
  DurationsSurvive
  
  AddressesSurvive
  NonceCounts
  ServersRead
CHECK_DEADLOCK FALSE
