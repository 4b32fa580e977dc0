----------------------------- MODULE AgentJobs -----------------------------
(***************************************************************************)
(* What the operator makes of AgentJob resources, seen through their       *)
(* status.phase alone: the abstract specification that AgentJobReconciler  *)
(* implements, and the members that AgentFleetReconciler counts.           *)
(***************************************************************************)
EXTENDS Lifecycle

CONSTANT Jobs    \* names of AgentJobs

VARIABLE phase   \* phase[j]: "absent" if there is no job of that name

vars == <<phase>>

Init == phase = [j \in Jobs |-> "absent"]

Become(j, p) == phase' = [phase EXCEPT ![j] = p]

Create(j) == phase[j] = "absent" /\ Become(j, "Pending")
Start(j)  == phase[j] = "Pending" /\ Become(j, "Running")
Settle(j) == phase[j] = "Running" /\ \E p \in {"Succeeded", "Failed"} : Become(j, p)
Expire(j) == IsTerminal(phase[j]) /\ Become(j, "Terminating")
Remove(j) == phase[j] # "absent" /\ Become(j, "absent")

Step(j) == Create(j) \/ Start(j) \/ Settle(j) \/ Expire(j) \/ Remove(j)

Next == \E j \in Jobs : Step(j)

Spec == Init /\ [][Next]_vars
=============================================================================
