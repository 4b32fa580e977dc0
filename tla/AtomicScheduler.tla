--------------------------- MODULE AtomicScheduler --------------------------
(***************************************************************************)
(* What the scheduler promises its callers: each Schedule and each Cancel  *)
(* takes effect at one instant between its call and its return, or not at  *)
(* all, and a running job settles once.  Nothing is said of agents,        *)
(* watches or locks.  Module Scheduler implements this specification.      *)
(***************************************************************************)
EXTENDS Lifecycle

CONSTANTS Jobs,    \* job identifiers
          Calls    \* invocations of Schedule and Cancel, each used once

VARIABLES phase,   \* phase[j]: the phase Status(j) reports, or "absent"
          op,      \* op[c]: what invocation c asks for
          job,     \* job[c]: the job it names, "none" before
          res      \* res[c]: its outcome, "none" until it is decided

vars == <<phase, op, job, res>>

Init ==
  /\ phase = [j \in Jobs |-> "absent"]
  /\ op = [c \in Calls |-> "none"]
  /\ job = [c \in Calls |-> "none"]
  /\ res = [c \in Calls |-> "none"]

\* An invocation starts; nothing is decided yet.
Invoke(c, o, j) ==
  /\ op[c] = "none"
  /\ op' = [op EXCEPT ![c] = o]
  /\ job' = [job EXCEPT ![c] = j]
  /\ UNCHANGED <<phase, res>>

\* A pending invocation is decided, with the outcome r.
Decide(c, o, r) ==
  /\ op[c] = o
  /\ res[c] = "none"
  /\ res' = [res EXCEPT ![c] = r]
  /\ UNCHANGED <<op, job>>

\* Cancel of a job that is not there is refused at once.
CancelUnknown(c, j) ==
  /\ op[c] = "none" /\ phase[j] = "absent"
  /\ op' = [op EXCEPT ![c] = "cancel"]
  /\ job' = [job EXCEPT ![c] = j]
  /\ res' = [res EXCEPT ![c] = "notFound"]
  /\ UNCHANGED phase

\* Only a job identifier not yet known is accepted.
Accept(c) ==
  /\ Decide(c, "schedule", "scheduled")
  /\ phase[job[c]] = "absent"
  /\ phase' = [phase EXCEPT ![job[c]] = "Running"]

\* A refused Schedule changes no job; "duplicate" says that the job is known.
RefuseSchedule(c) ==
  /\ \E r \in {"spawnFailed", "watchFailed", "duplicate", "badPhase"} :
        /\ Decide(c, "schedule", r)
        /\ r = "duplicate" => phase[job[c]] # "absent"
  /\ UNCHANGED phase

\* Cancel takes a job that runs or has settled to Terminating.
AcceptCancel(c) ==
  /\ Decide(c, "cancel", "cancelled")
  /\ phase[job[c]] \in {"Running", "Succeeded", "Failed"}
  /\ phase' = [phase EXCEPT ![job[c]] = "Terminating"]

\* A refused Cancel changes no job; "badTransition" says it is Terminating.
RefuseCancel(c) ==
  /\ \E r \in {"terminateFailed", "badTransition"} :
        /\ Decide(c, "cancel", r)
        /\ r = "badTransition" => phase[job[c]] = "Terminating"
  /\ UNCHANGED phase

\* A running job settles.
Settle(j) ==
  /\ phase[j] = "Running"
  /\ \E p \in {"Succeeded", "Failed"} : phase' = [phase EXCEPT ![j] = p]
  /\ UNCHANGED <<op, job, res>>

Next ==
  \/ \E c \in Calls :
        \/ \E j \in Jobs : \/ Invoke(c, "schedule", j)
                           \/ Invoke(c, "cancel", j)
                           \/ CancelUnknown(c, j)
        \/ Accept(c) \/ RefuseSchedule(c)
        \/ AcceptCancel(c) \/ RefuseCancel(c)
  \/ \E j \in Jobs : Settle(j)

Spec == Init /\ [][Next]_vars

\* The same for one session of a client after another: when a session ends its calls
\* are over, whatever they had come to, and the next one finds no jobs.
EndSession ==
  /\ phase' = [j \in Jobs |-> "absent"]
  /\ res' = [c \in Calls |-> IF op[c] = "none" THEN "none" ELSE "sessionEnded"]
  /\ UNCHANGED <<op, job>>

SessionsSpec == Init /\ [][Next \/ EndSession]_vars
=============================================================================
