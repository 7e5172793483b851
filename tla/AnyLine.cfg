SPECIFICATION Spec
CONSTANTS
  Options <- MCAnyOptions
  MaxOptions = 4
  Cpus = 3
  CacheSize <- MCCacheSize
  Mega = 16
  Half = 131072
  DefaultRounds = 10
INVARIANTS
  TypeOK
  AsAsked
CHECK_DEADLOCK FALSE
