SPECIFICATION Spec
CONSTANTS
  Udp = {u1}
  Tcp = {t1, t2}
  Names <- MCNames
  Lookups <- MCLookups
  Bodies <- MCBodies
  FalsePositives <- MCFalsePositives
  Caching = TRUE
  SIZE = 1
  TTL = 1
  MaxTime = 1
  MaxReloads = 1
PROPERTIES
  CacheFresh
