------------------------ MODULE MCAgentJobReconciler ------------------------
(***************************************************************************)
(* Instances of the AgentJob reconciler for TLC.                           *)
(***************************************************************************)
EXTENDS AgentJobReconciler

\* One job with one role of two replicas.
OneJob == {<<"etl">>}
TwoReplicas == [j \in Jobs |-> <<[role |-> <<"worker">>, replicas |-> 2]>>]

\* Job "etl", role "east-worker"; job "etl-east", role "worker": one pod name.
DashedJobs == {<<"etl">>, <<"etl", "east">>}
DashedRoles ==
  [j \in Jobs |-> <<[role |-> IF j = <<"etl">> THEN <<"east", "worker">> ELSE <<"worker">>,
                     replicas |-> IF j = <<"etl">> THEN 0 ELSE 1]>>]

WithTTL == [j \in Jobs |-> TRUE]
OneWithTTL == [j \in Jobs |-> j = <<"etl">>]

\* A failed call or a restart of the operator, not both, and no eviction.
OneMishap == faults + accidents <= 1
NoEviction == \A p \in PodNames : ~PodEvicted(p)
=============================================================================
