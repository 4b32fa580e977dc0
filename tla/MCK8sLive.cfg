\* Two invocations for one job of one or two agents, with a failed API call and a
\* foreign deletion; with fairness.
CONSTANTS
  Jobs = {"etl"}
  Calls = {c1, c2}
  Sizes = {1, 2}
  InputPhases = {""}
  Tenants <- MCTenants
  Role <- MCRole
  Names <- MCNames
  AgentIDs <- MCNames
  UIDs <- MCUIDs
  MaxFaults = 1
  MaxEvictions = 1
SPECIFICATION K8sFairSpec
CHECK_DEADLOCK FALSE
INVARIANTS
  LiveAgentsAreAccountedFor
PROPERTIES
  EndedJobSettles
  CancelledWatchesEnd
