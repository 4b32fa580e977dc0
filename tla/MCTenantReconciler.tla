------------------------- MODULE MCTenantReconciler -------------------------
(***************************************************************************)
(* An instance of the Tenant reconciler for TLC: every Tenant names the    *)
(* same namespace.                                                         *)
(***************************************************************************)
EXTENDS TenantReconciler

OneNamespace == [t \in Tenants |-> "agents"]

\* The first Tenant created has a gateway, and where the second has another name nothing
\* fails and the operator is not restarted.
GatewayFirst == uids > 0 => named[1] \in WithGateway
CalmTogether == uids > 1 /\ named[2] # named[1] => faults + crashes = 0
=============================================================================
