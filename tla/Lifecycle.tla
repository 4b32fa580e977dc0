----------------------------- MODULE Lifecycle -----------------------------
(***************************************************************************)
(* The phases of an agent job (core/agent/types.go) and the transition     *)
(* table that core/scheduler/statemachine.go validates changes against.    *)
(***************************************************************************)

\* agent.Phase: the constants PhasePending .. PhaseTerminating.
Phases == {"Pending", "Running", "Succeeded", "Failed", "Terminating"}

\* Phase.IsTerminal: Terminating is not terminal for the code.
IsTerminal(p) == p \in {"Succeeded", "Failed"}

\* scheduler.Event: the triggers of a phase change.
Triggers == {"Spawned", "AllComplete", "AgentFailed", "TTLExpired", "Cancelled"}

\* What Transition returns with a non-nil error.
Invalid == "invalid"

\* The map `transitions` behind Transition(current, event); a missing key is an
\* error.
Transition(current, event) ==
  CASE current = "Pending" /\ event = "Spawned"     -> "Running"
    [] current = "Running" /\ event = "AllComplete" -> "Succeeded"
    [] current = "Running" /\ event = "AgentFailed" -> "Failed"
    [] current = "Running" /\ event = "Cancelled"   -> "Terminating"
    [] IsTerminal(current) /\ event \in {"TTLExpired", "Cancelled"} -> "Terminating"
    [] OTHER -> Invalid
=============================================================================
