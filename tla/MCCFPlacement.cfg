\* Either isolation tier; at least one re-creation of an org or a space; one failed API
\* call.
CONSTANTS
  s1 = s1
  s2 = s2
  s3 = s3
  Spawns = {s1, s2, s3}
  Tenant <- MCTenant
  Role <- MCRole
  InitialPlaces <- MCPlaces
  MaxGUID = 5
  MaxFaults = 1
SYMMETRY MCSymmetry
SPECIFICATION Spec
CHECK_DEADLOCK FALSE
INVARIANTS
  PlacementInv
  TasksInOwnSpace
  FailureIsExplained
