SPECIFICATION FairSpec
CONSTANTS
  Conns = {c1}
  MaxServers = 1
  MaxLoads = 2
  MaxLatency = 1
  MAX_HISTORY = 1
  ATTEMPTS = 2
  PROBES = 2
  LbType = "Best"
  Controller = TRUE
  Fnv <- MCFnv
  JumpHash <- MCJumpHash
PROPERTIES
  PickCompletes
  ChecksRecur
