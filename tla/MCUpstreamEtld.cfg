SPECIFICATION Spec
CONSTANTS
  Conns = {c1, c2}
  MaxServers = 2
  MaxLoads = 1
  MaxLatency = 2
  MAX_HISTORY = 1
  ATTEMPTS = 2
  PROBES = 2
  LbType = "Etld"
  Controller = FALSE
  Fnv <- MCFnv
  JumpHash <- MCJumpHash
INVARIANTS
  EtldSticky
  BestIsFastest
