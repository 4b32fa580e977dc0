\* One job of two pods, and a failed call or a restart of the operator at any point; with
\* fairness.
CONSTANTS
  Jobs <- OneJob
  Agents <- TwoReplicas
  HasTTL <- WithTTL
  MaxUIDs = 1
  MaxFaults = 1
  MaxAccidents = 1
SPECIFICATION FairSpec
CONSTRAINT OneMishap
ACTION_CONSTRAINT NoEviction
CHECK_DEADLOCK FALSE
INVARIANTS
  JobInv
PROPERTIES
  PendingJobStarts
  EndedJobFinishes
  ExpiredJobIsRemoved
