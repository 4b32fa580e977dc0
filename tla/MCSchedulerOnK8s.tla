-------------------------- MODULE MCSchedulerOnK8s --------------------------
(***************************************************************************)
(* Jobs of a tenant with two roles, for TLC.  A pod name is a sequence of  *)
(* words; the set of names follows from tenant and roles.                  *)
(***************************************************************************)
EXTENDS SchedulerOnK8s

MCTenants == {<<"acme">>}
MCRole == [j \in Jobs |-> <<<<"worker">>, <<"auditor">>>>]

MCNames == {PodName(t, Role[j][i]) : t \in Tenants, j \in Jobs, i \in 1..2}
MCUIDs == Calls \X (1..2)
=============================================================================
