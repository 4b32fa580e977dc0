\* Three tool calls for two jobs of two tenants, one failed API call, one foreign
\* deletion, one new session.
CONSTANTS
  acme = acme
  beta = beta
  Jobs = {etl, sync}
  Calls = {c1, c2, c3}
  Sizes = {1}
  InputPhases = {""}
  Requests <- MCRequests
  Tenants <- MCTenants
  Role <- MCRole
  Names <- MCNames
  AgentIDs <- MCNames
  UIDs <- MCUIDs
  MaxFaults = 1
  MaxEvictions = 1
  MaxSessions = 1
SYMMETRY MCSymmetry
SPECIFICATION MCPSpec
CONSTRAINT TwoAccidents
CHECK_DEADLOCK FALSE
INVARIANTS
  RunningAgentsAreListed
  SucceededUnlessOvertaken
PROPERTIES
  StopsOwnOrSuccessor
  AtomicSessions
