\* Two jobs whose pods have one name, or one of them created twice under its name; one
\* of them kept after its end; a restart of the operator or an eviction.
CONSTANTS
  Jobs <- DashedJobs
  Agents <- DashedRoles
  HasTTL <- OneWithTTL
  MaxUIDs = 2
  MaxFaults = 0
  MaxAccidents = 1
SPECIFICATION Spec
CHECK_DEADLOCK FALSE
INVARIANTS
  MetricsFollowJobs
  SucceededUnlessDisturbed
PROPERTIES
  AgentJobsSpec
  DeletesForExpired
