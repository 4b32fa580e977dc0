\* One operator or two; two jobs; a fleet that is created, edited and deleted; a failed
\* update, a restart.
CONSTANTS
  Operators = {"first", "second"}
  Jobs = {"etl", "sync"}
  JobRefs <- MCJobRefs
  MaxCreates = 1
  MaxEdits = 2
  MaxFaults = 1
  MaxCrashes = 1
SPECIFICATION MCFairSpec
CONSTRAINT SmallInstances
CHECK_DEADLOCK FALSE
INVARIANTS
  FleetIsNotForgotten
PROPERTIES
  StatusIsForItsRefs
  FleetCatchesUp
