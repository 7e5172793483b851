SPECIFICATION ProgramSpec
CONSTANTS
  Options <- MCOptions
  MaxOptions = 3
  Cpus = 2
  CacheSize <- MCCacheSize
  Mega = 16
  Half = 131072
  DefaultRounds = 10
  Slots = 15
INVARIANT AsManyAsAsked
PROPERTIES
  CheckEnds
  ParallelAnywhere
CHECK_DEADLOCK FALSE
