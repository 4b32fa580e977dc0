---------------------------- MODULE SchedulerOnCF ----------------------------
(***************************************************************************)
(* DefaultScheduler over CFAdapter (platform/cf/adapter.go).  An agent is  *)
(* a Cloud Foundry task; the AgentID is the task GUID, which is never      *)
(* reused: the task that call c starts i-th is <<c, i>>.  How SpawnAgent   *)
(* finds the app to run the task on is module CFPlacement.                 *)
(*                                                                         *)
(* Any API call can fail; an error is the set of the words of its text,    *)
(* in lower case, because TerminateAgent decides by them.  An ended task   *)
(* stays known to Cloud Foundry (it is pruned after a month by default):   *)
(* "not found" is an answer only as one of the API calls that fail.        *)
(***************************************************************************)
EXTENDS Scheduler

CONSTANTS FaultTexts,   \* texts of errors that say nothing about the task
          MaxFaults     \* bound on failed API calls

\* A task of every agent has a GUID of its own.
ASSUME CFAssumption ==
  /\ AgentIDs \subseteq Calls \X Nat
  /\ \A c \in Calls, n \in Sizes : {c} \X (1..n) \subseteq AgentIDs
  /\ MaxFaults \in Nat

VARIABLES task,     \* task[u]: the task's state in Cloud Foundry
          lost,     \* tasks an API failure has hidden from the adapter
          faults,   \* failed API calls so far
          faulty    \* invocations that met one

cfVars == <<task, lost, faults, faulty>>
allVars == <<vars, cfVars>>

TaskStates == {"none", "RUNNING", "SUCCEEDED", "FAILED", "CANCELING"}

CFTypeOK ==
  /\ TypeOK
  /\ task \in [AgentIDs -> TaskStates]
  /\ lost \subseteq AgentIDs
  /\ faults \in 0..MaxFaults
  /\ faulty \subseteq Calls

CFInit ==
  /\ Init
  /\ task = [u \in AgentIDs |-> "none"]
  /\ lost = {} /\ faults = 0 /\ faulty = {}

Fault(c) ==
  /\ faults < MaxFaults
  /\ faults' = faults + 1
  /\ faulty' = faulty \cup {c}

SetTask(u, s) == task' = [task EXCEPT ![u] = s]

-----------------------------------------------------------------------------
(* SpawnAgent *)

NextTask(c) == <<c, Len(ids[c]) + 1>>

SpawnAgent(c) ==
  /\ SpawnReturns(c, NextTask(c))
  /\ SetTask(NextTask(c), "RUNNING")
  /\ UNCHANGED <<lost, faults, faulty>>

\* A step of SpawnAgent fails, or the answer to RunTask is lost.
SpawnFault(c) ==
  /\ SpawnFails(c)
  /\ UNCHANGED task \/ SetTask(NextTask(c), "RUNNING")
  /\ Fault(c)
  /\ UNCHANGED lost

-----------------------------------------------------------------------------
(* TerminateAgent *)

\* Only the text of an error is looked at.
TerminalErrorsAreErrors(text) == FALSE
IsTerminalTaskError(text) == text \cap {"succeeded", "failed"} # {}

Target(c) == ids[IF pc[c] = "reject" THEN c ELSE rec[c]][next[c] + 1]

\* The loop of Cancel stops at an error; the cleanup loop does not.
TerminateResult(c, ok) ==
  IF ok THEN TerminateReturns(c) \/ CleanupTerminate(c)
        ELSE TerminateFails(c) \/ CleanupTerminate(c)

CanTerminate(c) == Terminating(c) \/ (pc[c] = "reject" /\ next[c] < Len(ids[c]))

\* CancelTask stops a running task, accepts one that is being stopped, and refuses
\* an ended one with an error that names its state.
TerminateAgent(c) ==
  /\ CanTerminate(c)
  /\ \/ /\ task[Target(c)] \in {"RUNNING", "CANCELING"}
        /\ SetTask(Target(c), "CANCELING")
        /\ TerminateResult(c, TRUE)
     \/ /\ task[Target(c)] \in {"SUCCEEDED", "FAILED"}
        /\ LET text == {"task", IF task[Target(c)] = "FAILED" THEN "failed" ELSE "succeeded"}
           IN  TerminateResult(c, IsTerminalTaskError(text))
        /\ UNCHANGED task
  /\ UNCHANGED <<lost, faults, faulty>>

\* The request fails, or its answer is lost, with an error that is not about the
\* task.  If the request had no effect the adapter no longer knows the task.
TerminateFault(c) ==
  /\ CanTerminate(c)
  /\ \E text \in FaultTexts : TerminateResult(c, IsTerminalTaskError(text))
  /\ \/ UNCHANGED task /\ lost' = lost \cup {Target(c)}
     \/ /\ task[Target(c)] = "RUNNING"
        /\ SetTask(Target(c), "CANCELING")
        /\ UNCHANGED lost
  /\ Fault(c)

-----------------------------------------------------------------------------
(* WatchAgent *)

PollTakesCancelingAsCompleted(s) ==
  CASE s \in {"SUCCEEDED", "CANCELING"} -> "Completed" [] s = "FAILED" -> "Failed"
    [] OTHER -> "none"
Poll(s) ==
  CASE s = "SUCCEEDED" -> "Completed"
    [] s \in {"FAILED", "CANCELING"} -> "Failed"
    [] OTHER -> "none"

\* A Get with a cancelled context ends the watch without an event: WatchClose.  An
\* answer that came in before is sent; that is the same as sending it at once.
PollReports(c, i) ==
  /\ c \notin ctxDone
  /\ Poll(task[ids[c][i]]) # "none"
  /\ WatchEvent(c, i, Poll(task[ids[c][i]]))
  /\ UNCHANGED cfVars

\* Any other error of GetTask is reported as the failure of the agent.
PollFault(c, i) ==
  /\ c \notin ctxDone
  /\ WatchEvent(c, i, "Failed")
  /\ lost' = lost \cup {ids[c][i]}
  /\ Fault(c)
  /\ UNCHANGED task

-----------------------------------------------------------------------------
LocalStep(c) ==
  /\ \/ \E j \in Jobs, n \in Sizes : ScheduleCall(c, j, n)
     \/ WatchReturns(c)
     \/ \E ph \in InputPhases : Register(c, ph) \/ RejectPhase(c, ph)
     \/ RejectDuplicate(c) \/ CleanupReturn(c)
     \/ \E j \in Jobs : CancelNotFound(c, j) \/ CancelLookup(c, j)
     \/ CommitCancel(c)
     \/ \E i \in DOMAIN watch[c] : WatchClose(c, i) \/ Collect(c, i)
     \/ CollectEOF(c) \/ Finish(c)
  /\ UNCHANGED cfVars

CallStep(c) ==
  \/ LocalStep(c)
  \/ SpawnAgent(c) \/ SpawnFault(c)
  \/ TerminateAgent(c) \/ TerminateFault(c)
  \/ \E i \in DOMAIN watch[c] : PollReports(c, i) \/ PollFault(c, i)

\* A task ends; one that is being stopped can still succeed.
TaskEnds(u, s) ==
  /\ task[u] \in {"RUNNING", "CANCELING"}
  /\ SetTask(u, s)
  /\ UNCHANGED <<vars, lost, faults, faulty>>

CFNext ==
  \/ \E c \in Calls : CallStep(c)
  \/ \E u \in AgentIDs, s \in {"SUCCEEDED", "FAILED"} : TaskEnds(u, s)

CFSpec == CFInit /\ [][CFNext]_allVars

-----------------------------------------------------------------------------
(* Properties *)

\* A task that still runs and has not been asked to stop belongs to an invocation in
\* progress, to a Running job, to a Schedule whose spawning failed, or to one of the
\* two API failures after which the adapter takes a task for ended: an error of
\* GetTask, and a failed CancelTask.
RunningTasksAreAccountedFor ==
  \A u \in AgentIDs : task[u] = "RUNNING" =>
    LET c == u[1] IN
    \/ pc[c] \in {"setup", "reject"}
    \/ res[c] = "scheduled" /\ phase[job[c]] = "Running"
    \/ res[c] = "spawnFailed"
    \/ u \in lost

\* Cancel can be repeated: with task GUIDs, and errors about ended tasks ignored, it
\* fails only when one of its own API calls does, never because an earlier Cancel
\* got half-way or because some agents have ended, as long as the API knows their tasks.
CancelFailsOnlyOnFault ==
  \A c \in Calls : res[c] = "terminateFailed" => c \in faulty

\* A job reported Succeeded ran to its end on every agent.
SucceededTasks ==
  \A j \in Jobs : phase[j] = "Succeeded" =>
    \A i \in DOMAIN ids[owner[j]] : task[ids[owner[j]][i]] = "SUCCEEDED"

\* The inductive invariant behind these properties.

\* Call c spawns its agents in order, and starts no other task unless it then fails.
TasksNumbered ==
  /\ \A c \in Calls : \A i \in DOMAIN ids[c] : ids[c][i] = <<c, i>>
  /\ \A u \in AgentIDs : task[u] # "none" =>
        u[2] \in DOMAIN ids[u[1]] \/ res[u[1]] = "spawnFailed"

\* As far as the adapter can know, the task has stopped.
Stopped(u) == task[u] # "RUNNING" \/ u \in lost

\* What a watch has reported is so, and stays so.
ReportsTrue ==
  \A c \in Calls : \A i \in DOMAIN watch[c] :
    /\ watch[c][i] \in Sent \cup Counted => Stopped(<<c, i>>)
    /\ watch[c][i] \in {"Completed", "gotCompleted"} => task[<<c, i>>] = "SUCCEEDED"

\* The agents that a termination loop has passed have stopped.
LoopsStop ==
  \A c \in Calls :
    /\ pc[c] = "reject" => \A i \in 1..next[c] : Stopped(<<c, i>>)
    /\ pc[c] = "terminate" => \A i \in 1..next[c] : Stopped(<<rec[c], i>>)

\* No watch fails to start: WatchAgent only starts a goroutine.
WatchesStart == \A c \in Calls : res[c] # "watchFailed"

CFInv ==
  /\ CFTypeOK
  /\ Inv
  /\ TasksNumbered
  /\ WatchesStart
  /\ ReportsTrue
  /\ LoopsStop
  /\ RunningTasksAreAccountedFor
  /\ CancelFailsOnlyOnFault

\* TerminateAgent swallows an error only if the task has ended, so a cancelled job
\* has no running task.
CancelledJobHasStopped ==
  \A j \in Jobs : phase[j] = "Terminating" =>
    \A i \in DOMAIN ids[owner[j]] : task[ids[owner[j]][i]] # "RUNNING"
=============================================================================
