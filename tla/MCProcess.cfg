\* Both programs, each with or without its endpoints and its collectors; one restart.
CONSTANTS
  Programs = {"muto-mcp", "muto-operator"}
  MaxRestarts = 1
SPECIFICATION RunFairSpec
CHECK_DEADLOCK FALSE
INVARIANTS
  FlushedAtExit
PROPERTIES
  ProcessSettles
