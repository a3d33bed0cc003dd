SPECIFICATION Spec
CONSTANTS
  Conns = {c1, c2}
  MaxServers = 2
  MaxLoads = 2
  MaxLatency = 1
  MAX_HISTORY = 1
  ATTEMPTS = 1
  PROBES = 2
  LbType = "Best"
  Controller = FALSE
  Fnv <- MCFnv
  JumpHash <- MCJumpHash
SYMMETRY Symmetry
INVARIANTS
  TypeOK
  PublishedChecked
  PanicOnlyOnEmpty
  GuardPinsPeers
  LastResortIsLast
