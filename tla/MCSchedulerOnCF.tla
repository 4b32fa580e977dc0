--------------------------- MODULE MCSchedulerOnCF --------------------------
(***************************************************************************)
(* The scheduler on Cloud Foundry, for TLC.                                *)
(***************************************************************************)
EXTENDS SchedulerOnCF, TLC

MaxAgents == 2

TaskGUIDs == Calls \X (1..MaxAgents)

\* "request timed out", and "connection failed".
MCFaultTexts == {{"request", "timed", "out"}, {"connection", "failed"}}

\* State constraint: several Schedule calls only if each starts one agent.
Racing == Cardinality({c \in Calls : op[c] = "schedule"}) > 1
RacesAreSmall == Racing => \A c \in Calls : want[c] <= 1

CallSymmetry == Permutations(Calls)
=============================================================================
