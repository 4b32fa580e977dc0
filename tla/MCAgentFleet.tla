---------------------------- MODULE MCAgentFleet ----------------------------
(***************************************************************************)
(* One operator, or two at a time, for TLC.                                *)
(***************************************************************************)
EXTENDS AgentFleetReconciler

VARIABLE replicas   \* how many operators are deployed (replicaCount)

mcVars == <<vars, replicas>>

\* A fleet that names one job, or none, or two and one of them twice.
MCJobRefs == {<<"etl">>, <<>>, <<"etl", "sync", "etl">>}

Deployed(o) == o = "first" \/ replicas = 2

MCInit == Init /\ replicas \in {1, 2}

MCNext ==
  /\ (\E o \in Operators : Deployed(o) /\ Operator(o)) \/ Environment
  /\ UNCHANGED replicas

\* FairSpec of the operators that are deployed.
MCFairSpec ==
  /\ MCInit /\ [][MCNext]_mcVars
  /\ \A o \in Operators :
       /\ WF_vars(Deployed(o) /\ Reconcile(o))
       /\ WF_vars(Deployed(o) /\ SyncFleet(o))
       /\ WF_vars(Deployed(o) /\ Resync(o))
       /\ \A j \in Jobs : WF_vars(Deployed(o) /\ SyncMember(o, j))

\* Operators whose caches differ write over each other's counts until the caches agree, so
\* that versions have no bound of their own.  Two operators have few of them, calls that
\* fail only with conflicts, and one job, which does not end; one has no empty list.
SmallInstances ==
  /\ replicas = 1 => fleet.refs # <<>> \/ ~Exists(fleet)
  /\ replicas = 2 => /\ version <= 3 /\ faults = 0 /\ crashes = 0
                     /\ jobPhase["etl"] \in {"absent", "Pending", "Running"} /\ jobPhase["sync"] = "absent"
                     /\ fleet.refs \in {<<"etl">>, <<>>}
=============================================================================
