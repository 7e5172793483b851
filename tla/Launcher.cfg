SPECIFICATION Spec
CONSTANTS
  JobLists <- MCJobLists
  Slots = 4
INVARIANTS
  TypeOK
  NoThreadLost
  ExitIsClean
  TableOverflow
PROPERTIES
  StartsAlone
  AllGetStarted
  Exits
CHECK_DEADLOCK FALSE
