------------------------- MODULE SchedulerOnCFProofs -------------------------
(***************************************************************************)
(* Proofs about module SchedulerOnCF: the scheduler's theorems carry over  *)
(* to Cloud Foundry, and no task is forgotten.                             *)
(***************************************************************************)
EXTENDS SchedulerOnCF, SchedulerProofs

-----------------------------------------------------------------------------
(* Lemmas about the adapter *)

\* The task that SpawnAgent starts has a GUID that no earlier one had.
LEMMA NextTaskIsNew ==
  ASSUME Inv, NEW c \in Calls, Spawning(c)
  PROVE  /\ NextTask(c) \in AgentIDs
         /\ Len(ids[c]) \in Nat /\ Len(ids[c]) + 1 \notin DOMAIN ids[c]
<1>1. ids[c] \in Seq(AgentIDs) /\ want[c] \in Sizes /\ Sizes \subseteq Nat
  BY SchedulerAssumption DEF Inv, TypeOK, LoopsConsistent, LoopConsistent, Spawning
<1>2. Len(ids[c]) \in Nat /\ want[c] \in Nat /\ Len(ids[c]) < want[c]
  <2>1. Len(ids[c]) \in Nat /\ Len(ids[c]) < want[c]
    BY <1>1 DEF Spawning
  <2>2. want[c] \in Nat
    BY <1>1
  <2> QED
    BY <2>1, <2>2
<1>3. Len(ids[c]) + 1 \in 1..want[c] /\ Len(ids[c]) + 1 \notin DOMAIN ids[c]
  BY <1>1, <1>2
<1>4. {c} \X (1..want[c]) \subseteq AgentIDs
  BY <1>1, CFAssumption
<1> QED
  BY <1>2, <1>3, <1>4 DEF NextTask

\* The error that names an ended task's state is taken for what it is.
LEMMA EndedTaskText ==
  ASSUME NEW b \in BOOLEAN
  PROVE  IsTerminalTaskError({"task", IF b THEN "failed" ELSE "succeeded"})
BY DEF IsTerminalTaskError

\* The agent list that a termination loop goes through.
LoopOf(c) == IF pc[c] = "reject" THEN c ELSE rec[c]

\* What a step of a termination loop finds.
LEMMA TargetIsOwn ==
  ASSUME Inv, TasksNumbered, NEW c \in Calls, CanTerminate(c)
  PROVE  /\ pc[c] \in {"reject", "terminate"}
         /\ LoopOf(c) \in Calls /\ next[c] \in Nat
         /\ next[c] + 1 \in DOMAIN ids[LoopOf(c)]
         /\ Target(c) = <<LoopOf(c), next[c] + 1>> /\ Target(c) \in AgentIDs
<1>0. TypeOK /\ CallsConsistent
  BY DEF Inv
<1>1. pc[c] \in {"reject", "terminate"} /\ LoopOf(c) \in Calls /\ next[c] < Len(ids[LoopOf(c)])
  BY <1>0 DEF CanTerminate, Terminating, LoopOf, TypeOK, CallsConsistent, CallConsistent
<1>2. next[c] \in Nat /\ ids[LoopOf(c)] \in Seq(AgentIDs)
  BY <1>0, <1>1 DEF TypeOK
<1>3. next[c] + 1 \in DOMAIN ids[LoopOf(c)] /\ ids[LoopOf(c)][next[c] + 1] \in AgentIDs
  BY <1>1, <1>2
<1> QED
  BY <1>1, <1>2, <1>3 DEF Target, LoopOf, TasksNumbered

\* TerminateAgent of task u: the loop goes on, or a Cancel gives up after a failed call;
\* in both cases the task has stopped as far as the adapter can know.
TerminateEffects(c, u) ==
  /\ u = Target(c)
  /\ \/ TerminateReturns(c) \/ CleanupTerminate(c)
     \/ TerminateFails(c) /\ c \in faulty'
  /\ \/ task' = task
     \/ /\ task[u] \in {"RUNNING", "CANCELING"}
        /\ task' = [task EXCEPT ![u] = "CANCELING"]
  /\ lost \subseteq lost' /\ faulty \subseteq faulty'
  /\ task'[u] # "RUNNING" \/ u \in lost'

\* A step of TerminateAgent is one of these, for the agent that is terminated.
LEMMA TerminateEffect ==
  ASSUME Inv, CFTypeOK, TasksNumbered, NEW c \in Calls, TerminateAgent(c) \/ TerminateFault(c)
  PROVE  \E u \in AgentIDs : TerminateEffects(c, u)
<1>0. CanTerminate(c)
  BY DEF TerminateAgent, TerminateFault
<1>1. PICK u \in AgentIDs : u = Target(c)
  BY <1>0, TargetIsOwn
<1> USE DEF TerminateEffects, TerminateResult, SetTask, CFTypeOK
<1>2. ASSUME TerminateAgent(c) PROVE TerminateEffects(c, u)
  <2>1. CASE task[u] \in {"RUNNING", "CANCELING"}
    BY <1>1, <1>2, <2>1 DEF TerminateAgent
  <2>2. CASE task[u] \notin {"RUNNING", "CANCELING"}
    <3>1. task[u] \in {"SUCCEEDED", "FAILED"} /\ task' = task /\ UNCHANGED <<lost, faulty>>
      BY <1>1, <1>2, <2>2 DEF TerminateAgent
    <3>2. TerminateResult(c, IsTerminalTaskError({"task", IF task[u] = "FAILED" THEN "failed" ELSE "succeeded"}))
      BY <1>1, <1>2, <2>2 DEF TerminateAgent
    <3>3. TerminateReturns(c) \/ CleanupTerminate(c)
      BY <3>2, EndedTaskText
    <3> QED
      BY <1>1, <3>1, <3>3
  <2> QED
    BY <2>1, <2>2
<1>3. ASSUME TerminateFault(c) PROVE TerminateEffects(c, u)
  <2>1. c \in faulty' /\ faulty \subseteq faulty'
    BY <1>3 DEF TerminateFault, Fault
  <2>2. TerminateReturns(c) \/ TerminateFails(c) \/ CleanupTerminate(c)
    BY <1>3 DEF TerminateFault
  <2>3. CASE UNCHANGED task /\ lost' = lost \cup {u}
    BY <1>1, <2>1, <2>2, <2>3
  <2>4. CASE task[u] = "RUNNING" /\ SetTask(u, "CANCELING") /\ UNCHANGED lost
    BY <1>1, <2>1, <2>2, <2>4
  <2> QED
    BY <1>1, <1>3, <2>3, <2>4 DEF TerminateFault
<1> QED
  BY <1>2, <1>3

-----------------------------------------------------------------------------
(* The scheduler on Cloud Foundry is the scheduler *)

\* Every step on Cloud Foundry is one the scheduler can take with some adapter.
LEMMA CFStepIsStep ==
  ASSUME Inv, CFTypeOK, [CFNext]_allVars
  PROVE  [Next]_vars
<1>1. ASSUME NEW c \in Calls, LocalStep(c) PROVE ScheduleStep(c) \/ CancelStep(c) \/ WatchStep(c)
  BY <1>1 DEF LocalStep, ScheduleStep, CancelStep, WatchStep
<1>2. ASSUME NEW c \in Calls, SpawnAgent(c) PROVE ScheduleStep(c)
  <2>1. Spawning(c)
    BY <1>2 DEF SpawnAgent, SpawnReturns
  <2>2. NextTask(c) \in AgentIDs /\ SpawnReturns(c, NextTask(c))
    BY <1>2, <2>1, NextTaskIsNew DEF SpawnAgent
  <2> QED
    BY <2>2 DEF ScheduleStep
<1>3. ASSUME NEW c \in Calls, SpawnFault(c) PROVE ScheduleStep(c)
  BY <1>3 DEF SpawnFault, ScheduleStep
<1>4. ASSUME NEW c \in Calls, TerminateAgent(c) \/ TerminateFault(c)
      PROVE  ScheduleStep(c) \/ CancelStep(c)
  <2>1. TerminateReturns(c) \/ TerminateFails(c) \/ CleanupTerminate(c)
    BY <1>4 DEF TerminateAgent, TerminateFault, TerminateResult
  <2> QED
    BY <2>1 DEF ScheduleStep, CancelStep
<1>5. ASSUME NEW c \in Calls, NEW i \in DOMAIN watch[c], PollReports(c, i) \/ PollFault(c, i)
      PROVE  WatchStep(c)
  <2>1. \E ev \in Sent : WatchEvent(c, i, ev)
    BY <1>5 DEF PollReports, PollFault, Poll, Sent
  <2> QED
    BY <2>1 DEF WatchStep
<1>6. ASSUME NEW u \in AgentIDs, NEW s, TaskEnds(u, s) PROVE UNCHANGED vars
  BY <1>6 DEF TaskEnds
<1>7. CASE UNCHANGED allVars
  BY <1>7 DEF allVars
<1> QED
  BY <1>1, <1>2, <1>3, <1>4, <1>5, <1>6, <1>7 DEF CFNext, CallStep, Next

-----------------------------------------------------------------------------
(* What a step means for the tasks *)

\* A task is started, is asked to stop, or ends; an ended one stays as it is.
Started(u) ==
  /\ task'[u] = "RUNNING"
  /\ \E c \in Calls : u = NextTask(c) /\ (SpawnReturns(c, u) \/ SpawnFails(c))
TaskMove(u) ==
  \/ task'[u] = task[u]
  \/ task[u] \in {"RUNNING", "CANCELING"} /\ task'[u] \in {"CANCELING", "SUCCEEDED", "FAILED"}

\* Each task moves that way, or is started; what has been lost or failed stays so.
LEMMA TaskMoves ==
  ASSUME Inv, CFTypeOK, TasksNumbered, [CFNext]_allVars
  PROVE  /\ \A u \in AgentIDs : TaskMove(u) \/ Started(u)
         /\ lost \subseteq lost' /\ faulty \subseteq faulty'
<1> DEFINE G == /\ \A u \in AgentIDs : TaskMove(u) \/ Started(u)
                /\ lost \subseteq lost' /\ faulty \subseteq faulty'
<1> USE DEF CFTypeOK, TaskMove, Started, SetTask, Fault
<1>1. ASSUME NEW c \in Calls, SpawnAgent(c) \/ SpawnFault(c) PROVE G
  <2>1. Spawning(c)
    BY <1>1 DEF SpawnAgent, SpawnFault, SpawnReturns, SpawnFails
  <2>2. NextTask(c) \in AgentIDs
    BY <2>1, NextTaskIsNew
  <2> QED
    BY <1>1, <2>2 DEF SpawnAgent, SpawnFault
<1>2. ASSUME NEW c \in Calls, TerminateAgent(c) \/ TerminateFault(c) PROVE G
  <2>1. PICK u \in AgentIDs : TerminateEffects(c, u)
    BY <1>2, TerminateEffect
  <2> QED
    BY <2>1 DEF TerminateEffects
<1>3. ASSUME NEW c \in Calls, LocalStep(c) PROVE G
  BY <1>3 DEF LocalStep, cfVars
<1>4. ASSUME NEW c \in Calls, NEW i \in DOMAIN watch[c], PollReports(c, i) \/ PollFault(c, i) PROVE G
  BY <1>4 DEF PollReports, PollFault, cfVars
<1>5. ASSUME NEW u \in AgentIDs, NEW s \in {"SUCCEEDED", "FAILED"}, TaskEnds(u, s) PROVE G
  BY <1>5 DEF TaskEnds
<1>6. CASE UNCHANGED allVars
  BY <1>6 DEF allVars, cfVars
<1> QED
  BY <1>1, <1>2, <1>3, <1>4, <1>5, <1>6 DEF CFNext, CallStep

\* A task the adapter has seen stopped stays so, and one that succeeded has succeeded.
StoppedNext(u) == task'[u] # "RUNNING" \/ u \in lost'

\* A stopped task does not run again, a succeeded one has succeeded, and none is started twice.
LEMMA StoppedStays ==
  ASSUME Inv, CFTypeOK, TasksNumbered, [CFNext]_allVars,
         NEW u \in AgentIDs, u[1] \in Calls, u[2] \in DOMAIN ids[u[1]]
  PROVE  /\ Stopped(u) => StoppedNext(u)
         /\ task[u] = "SUCCEEDED" => task'[u] = "SUCCEEDED"
         /\ task[u] # "none" => task'[u] # "none"
         /\ ~Started(u)
<1>1. ~Started(u)
  <2> SUFFICES ASSUME NEW c \in Calls, u = NextTask(c), SpawnReturns(c, u) \/ SpawnFails(c)
               PROVE  FALSE
    BY DEF Started
  <2>1. Spawning(c)
    BY DEF SpawnReturns, SpawnFails
  <2>2. Len(ids[c]) + 1 \notin DOMAIN ids[c]
    BY <2>1, NextTaskIsNew
  <2> QED
    BY <2>2 DEF NextTask
<1>2. TaskMove(u) /\ lost \subseteq lost'
  BY <1>1, TaskMoves
<1> QED
  BY <1>1, <1>2 DEF TaskMove, Stopped, StoppedNext

-----------------------------------------------------------------------------
(* The invariant is inductive *)

\* The calls that a failing call of TerminateAgent, or of WatchAgent, has ended.
LEMMA GivesUp ==
  ASSUME Inv, CFTypeOK, TasksNumbered, [CFNext]_allVars, NEW d \in Calls,
         res'[d] # res[d], res'[d] \in {"terminateFailed", "watchFailed"}
  PROVE  res'[d] = "terminateFailed" /\ d \in faulty'
<1>0. TypeOK /\ CallsConsistent
  BY DEF Inv
<1> USE DEF TypeOK, Return
<1>1. ASSUME NEW c \in Calls, LocalStep(c) PROVE FALSE
  <2>1. CASE \E j \in Jobs, n \in Sizes : ScheduleCall(c, j, n)
    BY <2>1 DEF ScheduleCall
  <2>2. CASE \/ WatchReturns(c) \/ CollectEOF(c) \/ Finish(c)
             \/ \E i \in DOMAIN watch[c] : WatchClose(c, i) \/ Collect(c, i)
    BY <2>2, QuietSteps DEF WatchStep
  <2>3. CASE RejectDuplicate(c) \/ \E ph \in InputPhases : Register(c, ph) \/ RejectPhase(c, ph)
    BY <1>0, <2>3 DEF RejectDuplicate, RejectPhase, Reject, Register
  <2>4. CASE CleanupReturn(c)
    BY <1>0, <2>4 DEF CleanupReturn
  <2>5. CASE \E j \in Jobs : CancelNotFound(c, j) \/ CancelLookup(c, j)
    BY <1>0, <2>5 DEF CancelNotFound, CancelLookup
  <2>6. CASE CommitCancel(c)
    <3>1. \E r \in {"cancelled", "badTransition"} : Return(c, r)
      BY <2>6 DEF CommitCancel
    <3> QED
      BY <1>0, <3>1
  <2> QED
    BY <1>1, <2>1, <2>2, <2>3, <2>4, <2>5, <2>6 DEF LocalStep
<1>2. ASSUME NEW c \in Calls, SpawnAgent(c) \/ SpawnFault(c) PROVE FALSE
  BY <1>0, <1>2 DEF SpawnAgent, SpawnFault, SpawnReturns, SpawnFails
<1>3. ASSUME NEW c \in Calls, TerminateAgent(c) \/ TerminateFault(c)
      PROVE  res'[d] = "terminateFailed" /\ d \in faulty'
  <2>1. PICK u \in AgentIDs : TerminateEffects(c, u)
    BY <1>3, TerminateEffect
  <2>2. TerminateFails(c) /\ c \in faulty'
    BY <2>1 DEF TerminateEffects, TerminateReturns, CleanupTerminate
  <2> QED
    BY <1>0, <2>2 DEF TerminateFails
<1>4. ASSUME NEW c \in Calls, NEW i \in DOMAIN watch[c], PollReports(c, i) \/ PollFault(c, i)
      PROVE  FALSE
  BY <1>4 DEF PollReports, PollFault, WatchEvent
<1>5. ASSUME NEW u \in AgentIDs, NEW s, TaskEnds(u, s) PROVE FALSE
  BY <1>5 DEF TaskEnds, vars
<1>6. CASE UNCHANGED allVars
  BY <1>6 DEF allVars, vars
<1> QED
  BY <1>1, <1>2, <1>3, <1>4, <1>5, <1>6 DEF CFNext, CallStep

\* The types of the tasks.
LEMMA CFTypeStep ==
  ASSUME Inv, CFTypeOK, TasksNumbered, [CFNext]_allVars
  PROVE  CFTypeOK'
<1>0. TypeOK' /\ MaxFaults \in Nat
  BY CFStepIsStep, TypeStep, CFAssumption DEF Inv
<1> USE DEF CFTypeOK, SetTask, Fault, TaskStates
<1>1. ASSUME NEW c \in Calls, SpawnAgent(c) \/ SpawnFault(c) PROVE CFTypeOK'
  BY <1>0, <1>1 DEF SpawnAgent, SpawnFault
<1>2. ASSUME NEW c \in Calls, TerminateAgent(c) PROVE CFTypeOK'
  BY <1>0, <1>2 DEF TerminateAgent
<1>3. ASSUME NEW c \in Calls, TerminateFault(c) PROVE CFTypeOK'
  <2>1. Target(c) \in AgentIDs
    BY <1>3, TargetIsOwn DEF TerminateFault
  <2> QED
    BY <1>0, <1>3, <2>1 DEF TerminateFault
<1>4. ASSUME NEW c \in Calls, LocalStep(c) PROVE CFTypeOK'
  BY <1>0, <1>4 DEF LocalStep, cfVars
<1>5. ASSUME NEW c \in Calls, NEW i \in DOMAIN watch[c], PollReports(c, i) PROVE CFTypeOK'
  BY <1>0, <1>5 DEF PollReports, cfVars
<1>6. ASSUME NEW c \in Calls, NEW i \in DOMAIN watch[c], PollFault(c, i) PROVE CFTypeOK'
  <2>1. ids[c][i] \in AgentIDs
    BY DEF Inv, TypeOK, LoopsConsistent, LoopConsistent
  <2> QED
    BY <1>0, <1>6, <2>1 DEF PollFault
<1>7. ASSUME NEW u \in AgentIDs, NEW s \in {"SUCCEEDED", "FAILED"}, TaskEnds(u, s) PROVE CFTypeOK'
  BY <1>0, <1>7 DEF TaskEnds
<1>8. CASE UNCHANGED allVars
  BY <1>0, <1>8 DEF allVars, cfVars
<1> QED
  BY <1>1, <1>2, <1>3, <1>4, <1>5, <1>6, <1>7, <1>8 DEF CFNext, CallStep

\* Only SpawnAgent adds to an agent list, and what it adds is the next task.
LEMMA CFIdsMove ==
  ASSUME Inv, CFTypeOK, [CFNext]_allVars
  PROVE  UNCHANGED ids \/ \E c \in Calls : SpawnAgent(c)
<1>1. ASSUME NEW c \in Calls, LocalStep(c) PROVE UNCHANGED ids
  BY <1>1 DEF LocalStep, ScheduleCall, WatchReturns, Register, RejectPhase, RejectDuplicate,
     Reject, CleanupReturn, CancelNotFound, CancelLookup, CommitCancel, WatchClose, Collect,
     CollectEOF, Finish
<1>2. ASSUME NEW c \in Calls, SpawnFault(c) \/ TerminateAgent(c) \/ TerminateFault(c) PROVE UNCHANGED ids
  BY <1>2 DEF SpawnFault, TerminateAgent, TerminateFault, TerminateResult, SpawnFails,
     TerminateReturns, TerminateFails, CleanupTerminate
<1>3. ASSUME NEW c \in Calls, NEW i \in DOMAIN watch[c], PollReports(c, i) \/ PollFault(c, i)
      PROVE  UNCHANGED ids
  BY <1>3 DEF PollReports, PollFault, WatchEvent
<1>4. ASSUME NEW u \in AgentIDs, NEW s, TaskEnds(u, s) PROVE UNCHANGED ids
  BY <1>4 DEF TaskEnds, vars
<1>5. CASE UNCHANGED allVars
  BY <1>5 DEF allVars, vars
<1> QED
  BY <1>1, <1>2, <1>3, <1>4, <1>5 DEF CFNext, CallStep

\* The agent list of a call holds its tasks in order.
LEMMA TasksNumberedStep ==
  ASSUME Inv, CFTypeOK, TasksNumbered, [CFNext]_allVars
  PROVE  TasksNumbered'
<1>0. TypeOK /\ CallsConsistent /\ ids \in [Calls -> Seq(AgentIDs)] /\ [Next]_vars
  BY CFStepIsStep DEF Inv, TypeOK
<1>1. \A c \in Calls : \A i \in DOMAIN ids'[c] : ids'[c][i] = <<c, i>>
  <2>1. CASE UNCHANGED ids
    BY <2>1 DEF TasksNumbered
  <2>2. ASSUME NEW c \in Calls, SpawnAgent(c), NEW d \in Calls, NEW i \in DOMAIN ids'[d]
        PROVE  ids'[d][i] = <<d, i>>
    <3>1. ids' = [ids EXCEPT ![c] = Append(@, NextTask(c))] /\ Spawning(c)
      BY <2>2 DEF SpawnAgent, SpawnReturns
    <3>2. CASE d = c
      BY <1>0, <3>1, <3>2, NextTaskIsNew DEF TasksNumbered, NextTask
    <3>3. CASE d # c
      BY <1>0, <3>1, <3>3 DEF TasksNumbered
    <3> QED
      BY <3>2, <3>3
  <2> QED
    BY <2>1, <2>2, CFIdsMove
<1>2. ASSUME NEW c \in Calls, NEW i \in DOMAIN ids[c] PROVE i \in DOMAIN ids'[c]
  <2>1. UNCHANGED ids \/ \E d \in Calls, id \in AgentIDs : SpawnReturns(d, id)
    BY <1>0, IdsMove
  <2> QED
    BY <1>0, <2>1 DEF SpawnReturns
<1>3. ASSUME NEW u \in AgentIDs, task'[u] # "none"
      PROVE  u[2] \in DOMAIN ids'[u[1]] \/ res'[u[1]] = "spawnFailed"
  <2>0. u[1] \in Calls
    BY CFAssumption
  <2>1. CASE Started(u)
    <3>1. PICK c \in Calls : u = NextTask(c) /\ (SpawnReturns(c, u) \/ SpawnFails(c))
      BY <2>1 DEF Started
    <3>2. u[1] = c /\ u[2] = Len(ids[c]) + 1
      BY <3>1 DEF NextTask
    <3>3. CASE SpawnReturns(c, u)
      BY <1>0, <3>2, <3>3 DEF SpawnReturns
    <3>4. CASE SpawnFails(c)
      BY <1>0, <3>2, <3>4 DEF SpawnFails, Return, TypeOK
    <3> QED
      BY <3>1, <3>3, <3>4
  <2>2. CASE TaskMove(u)
    <3>1. u[2] \in DOMAIN ids[u[1]] \/ res[u[1]] = "spawnFailed"
      BY <1>3, <2>2 DEF TaskMove, TasksNumbered
    <3>2. ASSUME res[u[1]] = "spawnFailed" PROVE res'[u[1]] = "spawnFailed"
      <4>1. pc[u[1]] = "returned"
        BY <1>0, <2>0, <3>2 DEF CallsConsistent, CallConsistent, TypeOK
      <4> QED
        BY <1>0, <2>0, <3>2, <4>1, OutcomeStays
    <3> QED
      BY <1>2, <2>0, <3>1, <3>2
  <2> QED
    BY <2>1, <2>2, TaskMoves
<1> QED
  BY <1>1, <1>3 DEF TasksNumbered

\* A watch reports that its task has ended only of a task that has, as far as an API
\* call can tell, and success only of one that succeeded.
True(v, u) ==
  /\ v \in Sent \cup Counted => Stopped(u)
  /\ v \in {"Completed", "gotCompleted"} => task[u] = "SUCCEEDED"
TrueNext(v, u) ==
  /\ v \in Sent \cup Counted => StoppedNext(u)
  /\ v \in {"Completed", "gotCompleted"} => task'[u] = "SUCCEEDED"

\* What has been reported of a task stays true.
LEMMA ReportsTrueStep ==
  ASSUME Inv, CFTypeOK, TasksNumbered, ReportsTrue, [CFNext]_allVars
  PROVE  ReportsTrue'
<1>0. /\ TypeOK /\ LoopsConsistent /\ watch \in [Calls -> Seq(WatchStates)]
      /\ task \in [AgentIDs -> TaskStates]
  BY DEF Inv, TypeOK, CFTypeOK
<1>1. ASSUME NEW d \in Calls, NEW i \in DOMAIN watch[d]
      PROVE  i \in DOMAIN ids[d] /\ <<d, i>> \in AgentIDs /\ ids[d][i] = <<d, i>>
  <2>1. i \in DOMAIN ids[d] /\ ids[d][i] \in AgentIDs
    BY <1>0 DEF LoopsConsistent, LoopConsistent, TypeOK
  <2> QED
    BY <2>1 DEF TasksNumbered
\* A report that was true is true.
<1>2. ASSUME NEW d \in Calls, NEW i \in DOMAIN watch[d], NEW v, True(v, <<d, i>>)
      PROVE  TrueNext(v, <<d, i>>)
  BY <1>1, <1>2, StoppedStays DEF True, TrueNext
<1>3. ASSUME NEW d \in Calls, NEW i \in DOMAIN watch[d] PROVE True(watch[d][i], <<d, i>>)
  BY <1>3 DEF ReportsTrue, True
<1> SUFFICES ASSUME NEW d \in Calls, NEW i \in DOMAIN watch'[d]
             PROVE  TrueNext(watch'[d][i], <<d, i>>)
  BY DEF ReportsTrue, TrueNext, StoppedNext, Stopped
<1>4. CASE UNCHANGED watch
  BY <1>2, <1>3, <1>4
<1>5. ASSUME NEW c \in Calls, WatchReturns(c)
      PROVE  \/ watch'[d][i] = "polling"
             \/ i \in DOMAIN watch[d] /\ watch'[d][i] = watch[d][i]
  <2>1. watch' = [watch EXCEPT ![c] = Append(watch[c], "polling")]
    BY <1>5 DEF WatchReturns
  <2>2. CASE d = c
    <3>1. watch'[d] = Append(watch[d], "polling") /\ watch[d] \in Seq(WatchStates)
      BY <1>0, <2>1, <2>2
    <3>2. i \in DOMAIN Append(watch[d], "polling")
      BY <3>1
    <3> QED
      BY <3>1, <3>2, WatchAdded
  <2>3. CASE d # c
    BY <1>0, <2>1, <2>3
  <2> QED
    BY <2>2, <2>3
\* A watch that is replaced by another state.
<1>6. ASSUME NEW c \in Calls, NEW k \in DOMAIN watch[c], NEW s \in WatchStates, SetWatch(c, k, s)
      PROVE  /\ i \in DOMAIN watch[d]
             /\ watch'[d][i] = IF d = c /\ i = k THEN s ELSE watch[d][i]
  BY <1>0, <1>6, SetWatchType DEF SetWatch
<1>7. ASSUME NEW c \in Calls, NEW k \in DOMAIN watch[c], NEW s \in WatchStates, SetWatch(c, k, s),
             TrueNext(s, <<c, k>>)
      PROVE  TrueNext(watch'[d][i], <<d, i>>)
  BY <1>2, <1>3, <1>6, <1>7
<1>8. ASSUME NEW c \in Calls, NEW k \in DOMAIN watch[c], PollReports(c, k)
      PROVE  \E s \in WatchStates : SetWatch(c, k, s) /\ TrueNext(s, <<c, k>>)
  <2>1. ids[c][k] = <<c, k>> /\ UNCHANGED <<task, lost>>
    BY <1>1, <1>8 DEF PollReports, cfVars
  <2>2. SetWatch(c, k, Poll(task[<<c, k>>])) /\ Poll(task[<<c, k>>]) # "none"
    BY <1>8, <2>1 DEF PollReports, WatchEvent
  <2> DEFINE s == Poll(task[<<c, k>>])
  <2>3. /\ s \in {"Completed", "Failed"} /\ task[<<c, k>>] # "RUNNING"
        /\ s = "Completed" => task[<<c, k>>] = "SUCCEEDED"
    BY <2>2 DEF Poll
  <2>4. s \in WatchStates /\ s # "gotCompleted"
    BY <2>3, WatchStatesFacts
  <2> HIDE DEF s
  <2>5. TrueNext(s, <<c, k>>)
    BY <2>1, <2>3, <2>4 DEF TrueNext, StoppedNext
  <2> QED
    BY <2>2, <2>4, <2>5 DEF s
<1>9. ASSUME NEW c \in Calls, NEW k \in DOMAIN watch[c], PollFault(c, k)
      PROVE  \E s \in WatchStates : SetWatch(c, k, s) /\ TrueNext(s, <<c, k>>)
  <2>1. SetWatch(c, k, "Failed") /\ <<c, k>> \in lost'
    BY <1>1, <1>9 DEF PollFault, WatchEvent
  <2>2. TrueNext("Failed", <<c, k>>)
    BY <2>1 DEF StoppedNext, TrueNext
  <2> QED
    BY <2>1, <2>2, WatchStatesFacts
<1>10. ASSUME NEW c \in Calls, NEW k \in DOMAIN watch[c], WatchClose(c, k)
       PROVE  \E s \in WatchStates : SetWatch(c, k, s) /\ TrueNext(s, <<c, k>>)
  <2>1. SetWatch(c, k, "closed")
    BY <1>10 DEF WatchClose
  <2>2. TrueNext("closed", <<c, k>>)
    BY DEF Sent, Counted, TrueNext
  <2> QED
    BY <2>1, <2>2, WatchStatesFacts
<1>11. ASSUME NEW c \in Calls, NEW k \in DOMAIN watch[c], Collect(c, k)
       PROVE  \E s \in WatchStates : SetWatch(c, k, s) /\ TrueNext(s, <<c, k>>)
  <2>1. PICK s \in {"gotCompleted", "gotFailed"} :
          /\ SetWatch(c, k, s)
          /\ watch[c][k] = IF s = "gotCompleted" THEN "Completed" ELSE "Failed"
    BY <1>11 DEF Collect
  <2>2. TrueNext(watch[c][k], <<c, k>>)
    BY <1>2, <1>3
  <2>3. TrueNext(s, <<c, k>>)
    BY <2>1, <2>2 DEF Sent, TrueNext
  <2> QED
    BY <2>1, <2>3, WatchStatesFacts
<1>12. \/ UNCHANGED watch
       \/ \E c \in Calls : \/ WatchReturns(c)
                          \/ \E k \in DOMAIN watch[c] : \/ PollReports(c, k) \/ PollFault(c, k)
                                                         \/ WatchClose(c, k) \/ Collect(c, k)
  <2>1. ASSUME NEW c \in Calls, LocalStep(c)
        PROVE  \/ UNCHANGED watch \/ WatchReturns(c)
               \/ \E k \in DOMAIN watch[c] : WatchClose(c, k) \/ Collect(c, k)
    BY <2>1 DEF LocalStep, ScheduleCall, Register, RejectPhase, RejectDuplicate, Reject,
       CleanupReturn, CancelNotFound, CancelLookup, CommitCancel, CollectEOF, Finish
  <2>2. ASSUME NEW c \in Calls,
               SpawnAgent(c) \/ SpawnFault(c) \/ TerminateAgent(c) \/ TerminateFault(c)
        PROVE  UNCHANGED watch
    BY <2>2 DEF SpawnAgent, SpawnFault, TerminateAgent, TerminateFault, TerminateResult,
       SpawnReturns, SpawnFails, TerminateReturns, TerminateFails, CleanupTerminate
  <2>3. ASSUME (\E u \in AgentIDs, s \in {"SUCCEEDED", "FAILED"} : TaskEnds(u, s)) \/ UNCHANGED allVars
        PROVE  UNCHANGED watch
    BY <2>3 DEF TaskEnds, allVars, vars
  <2> QED
    BY <2>1, <2>2, <2>3 DEF CFNext, CallStep
<1>13. ASSUME NEW c \in Calls, WatchReturns(c) PROVE TrueNext(watch'[d][i], <<d, i>>)
  <2>1. CASE watch'[d][i] = "polling"
    BY <2>1 DEF TrueNext, Sent, Counted
  <2> QED
    BY <1>2, <1>3, <1>5, <1>13, <2>1
<1> QED
  BY <1>2, <1>3, <1>4, <1>7, <1>8, <1>9, <1>10, <1>11, <1>12, <1>13

\* A termination loop leaves only tasks behind that have stopped.
LEMMA LoopsStopStep ==
  ASSUME Inv, CFTypeOK, TasksNumbered, LoopsStop, [CFNext]_allVars
  PROVE  LoopsStop'
<1>0. /\ TypeOK /\ CallsConsistent /\ LoopsConsistent /\ [Next]_vars
      /\ ids \in [Calls -> Seq(AgentIDs)]
  BY CFStepIsStep DEF Inv, TypeOK
<1>1. ASSUME NEW d \in Calls, pc[d] \in {"reject", "terminate"},
             NEW i \in 1..next[d]
      PROVE  StoppedNext(<<LoopOf(d), i>>)
  <2>1. LoopOf(d) \in Calls /\ next[d] <= Len(ids[LoopOf(d)]) /\ next[d] \in Nat
    BY <1>0, <1>1 DEF LoopOf, CallsConsistent, CallConsistent, LoopsConsistent, LoopConsistent, TypeOK
  <2>2. i \in DOMAIN ids[LoopOf(d)] /\ ids[LoopOf(d)][i] \in AgentIDs
    BY <1>0, <2>1
  <2>3. <<LoopOf(d), i>> \in AgentIDs
    BY <2>1, <2>2 DEF TasksNumbered
  <2>4. Stopped(<<LoopOf(d), i>>)
    BY <1>1 DEF LoopsStop, LoopOf
  <2> QED
    BY <2>1, <2>2, <2>3, <2>4, StoppedStays
<1>2. ASSUME NEW d \in Calls, pc'[d] \in {"reject", "terminate"},
             pc[d] = pc'[d], NEW i \in 1..next'[d], next'[d] # next[d], next'[d] # 0
      PROVE  i \in 1..next[d] \/ StoppedNext(<<LoopOf(d), i>>)
  <2>1. PICK c \in Calls : TerminateAgent(c) \/ TerminateFault(c)
    <3>1. ASSUME NEW c \in Calls, LocalStep(c) PROVE UNCHANGED next
      BY <3>1 DEF LocalStep, ScheduleCall, WatchReturns, Register, RejectPhase, RejectDuplicate,
         Reject, CleanupReturn, CancelNotFound, CancelLookup, CommitCancel, WatchClose, Collect,
         CollectEOF, Finish
    <3>2. ASSUME NEW c \in Calls, SpawnAgent(c) \/ SpawnFault(c) PROVE UNCHANGED next
      BY <3>2 DEF SpawnAgent, SpawnFault, SpawnReturns, SpawnFails
    <3>3. ASSUME NEW c \in Calls, NEW k \in DOMAIN watch[c], PollReports(c, k) \/ PollFault(c, k)
          PROVE  UNCHANGED next
      BY <3>3 DEF PollReports, PollFault, WatchEvent
    <3>4. ASSUME (\E u \in AgentIDs, s \in {"SUCCEEDED", "FAILED"} : TaskEnds(u, s)) \/ UNCHANGED allVars
          PROVE  UNCHANGED next
      BY <3>4 DEF TaskEnds, allVars, vars
    <3> QED
      BY <1>2, <3>1, <3>2, <3>3, <3>4 DEF CFNext, CallStep
  <2>2. PICK u \in AgentIDs : TerminateEffects(c, u)
    BY <2>1, TerminateEffect
  <2>3. Target(c) = <<LoopOf(c), next[c] + 1>> /\ next[c] \in Nat
    BY <2>1, TargetIsOwn DEF TerminateAgent, TerminateFault
  <2>4. d = c /\ next'[d] = next[d] + 1
    BY <1>0, <1>2, <2>2 DEF TerminateEffects, TerminateReturns, CleanupTerminate, TerminateFails, TypeOK
  <2>5. i \in 1..next[d] \/ i = next[d] + 1
    BY <2>3, <2>4
  <2> QED
    BY <2>2, <2>3, <2>4, <2>5 DEF TerminateEffects, StoppedNext
<1>3. ASSUME NEW d \in Calls, pc'[d] \in {"reject", "terminate"}, NEW i \in 1..next'[d]
      PROVE  StoppedNext(<<IF pc'[d] = "reject" THEN d ELSE rec'[d], i>>)
  <2>1. LoopMove(d)
    BY <1>0, <1>3, LoopMoves
  <2>2. next'[d] # 0
    BY <1>3
  <2>3. pc[d] = pc'[d] /\ rec[d] = rec'[d]
    BY <2>1, <2>2 DEF LoopMove
  <2>4. StoppedNext(<<LoopOf(d), i>>)
    BY <1>1, <1>2, <1>3, <2>2, <2>3
  <2> QED
    BY <2>3, <2>4 DEF LoopOf
<1> QED
  BY <1>3 DEF LoopsStop, Stopped, StoppedNext

\* A task that still runs has somebody who is responsible for it, or an API failure has
\* hidden it.
LEMMA AccountedStep ==
  ASSUME CFInv, [CFNext]_allVars
  PROVE  RunningTasksAreAccountedFor'
<1>0. /\ Inv /\ CFTypeOK /\ TasksNumbered /\ ReportsTrue /\ LoopsStop
      /\ TypeOK /\ CallsConsistent /\ LoopsConsistent /\ [Next]_vars
  BY CFStepIsStep DEF CFInv, Inv
<1>1. TypeOK'
  BY <1>0, TypeStep
<1> SUFFICES ASSUME NEW u \in AgentIDs, task'[u] = "RUNNING", u \notin lost'
             PROVE  Busy(u[1])'
  BY DEF RunningTasksAreAccountedFor, Busy
<1> DEFINE c == u[1]
<1>2. c \in Calls /\ lost \subseteq lost'
  BY <1>0, CFAssumption, TaskMoves
<1>3. CASE Started(u)
  <2>1. PICK d \in Calls : u = NextTask(d) /\ (SpawnReturns(d, u) \/ SpawnFails(d))
    BY <1>3 DEF Started
  <2>2. c = d
    BY <2>1 DEF NextTask
  <2>3. CASE SpawnReturns(c, u)
    BY <2>3 DEF SpawnReturns, Spawning, Busy
  <2>4. CASE SpawnFails(c)
    BY <1>0, <1>2, <2>4 DEF SpawnFails, Return, Busy, TypeOK
  <2> QED
    BY <2>1, <2>2, <2>3, <2>4
<1>4. CASE task[u] = "RUNNING" /\ ~Started(u)
  <2>1. ~Stopped(u)
    BY <1>2, <1>4 DEF Stopped
  <2>2. Busy(c)
    BY <1>2, <1>4 DEF CFInv, RunningTasksAreAccountedFor, Busy
  <2>3. u[2] \in DOMAIN ids[c] \/ res[c] = "spawnFailed"
    BY <1>0, <1>4 DEF TasksNumbered
  <2>4. CASE res[c] = "spawnFailed"
    <3>1. pc[c] = "returned"
      BY <1>0, <1>2, <2>4 DEF CallsConsistent, CallConsistent, TypeOK
    <3> QED
      BY <1>0, <1>2, <2>4, <3>1, OutcomeStays DEF Busy
  <2>5. ASSUME u[2] \in DOMAIN ids[c], Released(c) PROVE FALSE
    <3>1. u = <<c, u[2]>> /\ u[2] \in 1..Len(ids[c])
      <4>1. u \in Calls \X Nat
        BY CFAssumption
      <4>2. ids[c] \in Seq(AgentIDs)
        BY <1>0, <1>2 DEF TypeOK
      <4> QED
        BY <2>5, <4>1, <4>2
    <3>2. ASSUME WatchFails(c) PROVE FALSE
      <4>1. res[c] # "watchFailed"
        BY <1>2 DEF CFInv, WatchesStart
      <4>2. res'[c] = "watchFailed"
        BY <1>0, <1>2, <3>2 DEF WatchFails, Return, TypeOK
      <4> QED
        BY <1>0, <1>2, <4>1, <4>2, GivesUp
    <3>3. ASSUME pc[c] = "reject", next[c] = Len(ids[c]) PROVE FALSE
      BY <1>0, <1>2, <2>1, <3>1, <3>3 DEF LoopsStop
    <3>4. ASSUME \A i \in DOMAIN ids[c] : i \in DOMAIN watch[c] /\ watch[c][i] \in Counted PROVE FALSE
      <4>1. u[2] \in DOMAIN watch[c] /\ watch[c][u[2]] \in Counted
        BY <2>5, <3>4
      <4> QED
        BY <1>0, <1>2, <2>1, <3>1, <4>1 DEF ReportsTrue
    <3>5. ASSUME NEW d \in Calls, pc[d] = "terminate", rec[d] = c, next[d] = Len(ids[c]) PROVE FALSE
      BY <1>0, <1>2, <2>1, <3>1, <3>5 DEF LoopsStop
    <3> QED
      BY <2>5, <3>2, <3>3, <3>4, <3>5 DEF Released
  <2> QED
    BY <1>0, <1>2, <2>2, <2>3, <2>4, <2>5, ReleasedInTheEnd
<1> QED
  BY <1>0, <1>3, <1>4, TaskMoves DEF TaskMove

\* The invariant holds initially, and every step preserves it.
LEMMA CFInvInit == CFInit => CFInv
<1> SUFFICES ASSUME CFInit PROVE CFInv
  OBVIOUS
<1>1. Init /\ Inv
  BY InvInit DEF CFInit
<1>2. CFTypeOK
  BY <1>1, CFAssumption DEF CFInit, CFTypeOK, TaskStates, Inv
<1> QED
  BY <1>1, <1>2 DEF CFInit, Init, CFInv, TasksNumbered, WatchesStart, ReportsTrue, LoopsStop,
     RunningTasksAreAccountedFor, CancelFailsOnlyOnFault

\* Every step keeps the invariant.
LEMMA CFInvStep == CFInv /\ [CFNext]_allVars => CFInv'
<1> SUFFICES ASSUME CFInv, [CFNext]_allVars PROVE CFInv'
  OBVIOUS
<1>1. Inv /\ CFTypeOK /\ TasksNumbered /\ ReportsTrue /\ LoopsStop
  BY DEF CFInv
<1>2. Inv' /\ CFTypeOK' /\ TasksNumbered'
  BY <1>1, CFStepIsStep, InvStep, CFTypeStep, TasksNumberedStep
<1>3. ReportsTrue' /\ LoopsStop' /\ RunningTasksAreAccountedFor'
  BY <1>1, ReportsTrueStep, LoopsStopStep, AccountedStep
<1>4. faulty \subseteq faulty'
  BY <1>1, TaskMoves
<1>5. WatchesStart' /\ CancelFailsOnlyOnFault'
  BY <1>1, <1>4, GivesUp DEF CFInv, WatchesStart, CancelFailsOnlyOnFault
<1> QED
  BY <1>2, <1>3, <1>5 DEF CFInv

-----------------------------------------------------------------------------
(* Theorems *)

\* The inductive invariant of the scheduler on Cloud Foundry.
THEOREM CFInvariance == CFSpec => []CFInv
BY CFInvInit, CFInvStep, PTL DEF CFSpec

\* What SchedulerProofs shows of the scheduler holds of the scheduler on Cloud Foundry,
\* because it is one.
THEOREM CFIsScheduler == CFSpec => Spec
<1>1. CFInit => Init
  BY DEF CFInit
<1>2. CFInv /\ [CFNext]_allVars => [Next]_vars
  BY CFStepIsStep DEF CFInv
<1> QED
  BY <1>1, <1>2, CFInvariance, PTL DEF CFSpec, Spec

\* Schedule and Cancel take effect at one instant, or not at all, on Cloud Foundry too.
THEOREM CFIsAtomic == CFSpec => AtomicSpec
BY CFIsScheduler, SchedulerIsAtomic

\* No task is forgotten: one that runs and was not asked to stop belongs to a call, to a
\* running job, to a Schedule that failed, or an API failure has hidden it.
THEOREM NoTaskIsForgotten == CFSpec => []RunningTasksAreAccountedFor
<1>1. CFInv => RunningTasksAreAccountedFor
  BY DEF CFInv
<1> QED
  BY <1>1, CFInvariance, PTL

\* Cancel can be repeated: it fails only when an API call of its own does.
THEOREM CancelFailsOnFault == CFSpec => []CancelFailsOnlyOnFault
<1>1. CFInv => CancelFailsOnlyOnFault
  BY DEF CFInv
<1> QED
  BY <1>1, CFInvariance, PTL

\* A job is reported Succeeded only if every one of its tasks succeeded.
THEOREM SucceededIsTrue == CFSpec => []SucceededTasks
<1>1. CFInv => SucceededTasks
  <2> SUFFICES ASSUME CFInv, NEW j \in Jobs, phase[j] = "Succeeded",
                      NEW i \in DOMAIN ids[owner[j]]
               PROVE  task[ids[owner[j]][i]] = "SUCCEEDED"
    BY DEF SucceededTasks
  <2>0. TypeOK /\ RecordsConsistent /\ LoopsConsistent /\ OutcomeMatchesEvents
    BY DEF CFInv, Inv
  <2>1. owner[j] \in Calls /\ res[owner[j]] = "scheduled"
    BY <2>0 DEF RecordsConsistent, RecordConsistent, TypeOK
  <2>2. DOMAIN watch[owner[j]] = DOMAIN ids[owner[j]]
    BY <2>0, <2>1 DEF LoopsConsistent, LoopConsistent, TypeOK
  <2>3. watch[owner[j]][i] = "gotCompleted"
    BY <2>0, <2>1, <2>2, CallIsCall DEF OutcomeMatchesEvents, OutcomeMatches
  <2> QED
    BY <2>1, <2>2, <2>3 DEF CFInv, ReportsTrue, TasksNumbered
<1> QED
  BY <1>1, CFInvariance, PTL
=============================================================================
