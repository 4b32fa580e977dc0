--------------------------- MODULE MCPServerProofs ---------------------------
(***************************************************************************)
(* Proofs about modules SchedulerOnK8s and MCPServer: the scheduler's      *)
(* theorems carry over to Kubernetes, no pod is forgotten, and a session   *)
(* of muto-mcp stops nothing of an earlier one.                            *)
(***************************************************************************)
EXTENDS MCPServer, SchedulerProofs

-----------------------------------------------------------------------------
(* Lemmas about the adapter *)

\* The pod that SpawnAgent creates has an identity that no earlier one had.
LEMMA NextAgentIsNew ==
  ASSUME Inv, K8sTypeOK, NEW c \in Calls, Spawning(c)
  PROVE  /\ <<c, NextAgent(c)>> \in UIDs
         /\ AgentName(c, NextAgent(c)) \in Names /\ AgentName(c, NextAgent(c)) \in AgentIDs
         /\ NextAgent(c) \in Nat /\ NextAgent(c) \notin DOMAIN ids[c]
<1>1. ids[c] \in Seq(AgentIDs) /\ want[c] \in Sizes /\ Sizes \subseteq Nat /\ job[c] \in Jobs
  BY SchedulerAssumption DEF Inv, TypeOK, LoopsConsistent, LoopConsistent, Spawning,
     CallsConsistent, CallConsistent
<1>2. Len(ids[c]) \in Nat /\ want[c] \in Nat /\ Len(ids[c]) < want[c]
  <2>1. Len(ids[c]) \in Nat /\ Len(ids[c]) < want[c]
    BY <1>1 DEF Spawning
  <2>2. want[c] \in Nat
    BY <1>1
  <2> QED
    BY <2>1, <2>2
<1>3. NextAgent(c) \in 1..want[c] /\ NextAgent(c) \notin DOMAIN ids[c] /\ NextAgent(c) \in Nat
  BY <1>1, <1>2 DEF NextAgent
<1>4. {c} \X (1..want[c]) \subseteq UIDs
  BY <1>1, K8sAssumption
<1>5. tenant[c] \in Tenants
  BY DEF K8sTypeOK, Inv, CallsConsistent, CallConsistent, Spawning
<1>6. PodName(tenant[c], Role[job[c]][NextAgent(c)]) \in Names /\ Names \subseteq AgentIDs
  BY <1>1, <1>3, <1>5, K8sAssumption
<1> QED
  BY <1>3, <1>4, <1>6 DEF AgentName

\* The agents of a call's list are pods of its own.
LEMMA ListedPods ==
  ASSUME PodsNumbered, NEW c \in Calls, NEW i \in DOMAIN ids[c]
  PROVE  /\ <<c, i>> \in UIDs
         /\ podName[<<c, i>>] = ids[c][i] /\ podObj[<<c, i>>] # "none"
         /\ podName[<<c, i>>] # NoName
BY DEF PodsNumbered

\* What is so of a pod in the next state.
ExistsNext(u) == podObj'[u] \in {"present", "deleting"}
LiveNext(u) == podObj'[u] = "present" /\ podRun'[u] = "Running"
OvertakenNext(u) ==
  /\ podObj'[u] = "gone"
  /\ \E v \in UIDs \ {u} : <<u, v>> \in standIns' /\ podRun'[v] = "Succeeded"

\* A pod keeps its name, and neither comes back nor starts again.
PodMove(u) ==
  /\ podName'[u] = podName[u]
  /\ podObj[u] = "none" <=> podObj'[u] = "none"
  /\ podObj[u] = "gone" => podObj'[u] = "gone"
  /\ ExistsNext(u) => Exists(u)
  /\ LiveNext(u) => Live(u)
  /\ podRun[u] = "Succeeded" => podRun'[u] = "Succeeded"

\* Pod u is created by the call that is spawning it, under a name that is free; if the
\* call does not learn of it, a request has failed.
Created(u) ==
  /\ podObj[u] = "none" /\ podObj' = [podObj EXCEPT ![u] = "present"] /\ podRun' = podRun
  /\ podName'[u] \in Names /\ PodsAt(podName'[u]) = {}
  /\ \E c \in Calls : /\ u = <<c, NextAgent(c)>> /\ Spawning(c)
                      /\ \/ SpawnReturns(c, podName'[u])
                         \/ SpawnFails(c) /\ c \in faulty'

\* Delete stops the pod of that name, if it still exists.
LEMMA DeletedIsDead ==
  ASSUME PodTypeOK, NEW u \in UIDs, DeletePod(podName[u])
  PROVE  ~LiveNext(u)
BY DEF PodTypeOK, DeletePod, PodsAt, Exists, LiveNext

\* Creating, deleting, ending: what each does to the pods.
LEMMA CreateMoves ==
  ASSUME PodTypeOK, NEW u \in UIDs, NEW n \in Names, CreatePod(u, n), NEW v \in UIDs
  PROVE  /\ v # u => PodMove(v)
         /\ podName'[u] = n /\ podObj[u] = "none" /\ PodsAt(n) = {}
         /\ podObj' = [podObj EXCEPT ![u] = "present"] /\ podRun' = podRun
BY DEF PodTypeOK, CreatePod, PodMove, ExistsNext, Exists, LiveNext, Live

\* Deleting, ending, removing and evicting: a pod moves as pods do.
LEMMA OtherMoves ==
  ASSUME PodTypeOK, NEW v \in UIDs,
         \/ UNCHANGED podVars
         \/ \E n : DeletePod(n)
         \/ \E u \in UIDs, s \in {"Succeeded", "Failed"} :
               PodExits(u, s) \/ PodRemoved(u) \/ PodEvicted(u)
  PROVE  PodMove(v)
<1> USE DEF PodTypeOK, PodMove, ExistsNext, Exists, LiveNext, Live
<1>1. CASE UNCHANGED podVars
  BY <1>1 DEF podVars
<1>2. CASE \E n : DeletePod(n)
  BY <1>2 DEF DeletePod, PodsAt
<1>3. ASSUME NEW u \in UIDs, NEW s \in {"Succeeded", "Failed"}, PodExits(u, s) PROVE PodMove(v)
  BY <1>3 DEF PodExits
<1>4. ASSUME NEW u \in UIDs, PodRemoved(u) PROVE PodMove(v)
  BY <1>4 DEF PodRemoved
<1>5. ASSUME NEW u \in UIDs, PodEvicted(u) PROVE PodMove(v)
  BY <1>5 DEF PodEvicted
<1> QED
  BY <1>1, <1>2, <1>3, <1>4, <1>5

\* A pod that is created, and a pod that a step of any kind finds.
LEMMA PodMoves ==
  ASSUME Inv, K8sTypeOK, [K8sNext]_allVars
  PROVE  /\ \A v \in UIDs : PodMove(v) \/ Created(v)
         /\ faulty \subseteq faulty' /\ standIns \subseteq standIns'
<1> DEFINE G == /\ \A v \in UIDs : PodMove(v) \/ Created(v)
                /\ faulty \subseteq faulty' /\ standIns \subseteq standIns'
<1>0. PodTypeOK
  BY DEF K8sTypeOK
<1>1. ASSUME NEW c \in Calls, SpawnAgent(c) PROVE G
  <2> DEFINE u == <<c, NextAgent(c)>>
             n == AgentName(c, NextAgent(c))
  <2>1. /\ Spawning(c) /\ CreatePod(u, n) /\ SpawnReturns(c, n)
        /\ faulty' = faulty /\ standIns' = standIns
    BY <1>1 DEF SpawnAgent, envVars
  <2>2. u \in UIDs /\ n \in Names
    BY <2>1, NextAgentIsNew
  <2> HIDE DEF n
  <2>3. Created(u)
    <3> HIDE DEF u
    <3>1. /\ podName'[u] = n /\ podObj[u] = "none" /\ PodsAt(n) = {}
          /\ podObj' = [podObj EXCEPT ![u] = "present"] /\ podRun' = podRun
      BY <1>0, <2>1, <2>2, CreateMoves
    <3> QED
      BY <2>1, <2>2, <3>1 DEF Created, u
  <2> HIDE DEF u
  <2>4. \A v \in UIDs : v # u => PodMove(v)
    BY <1>0, <2>1, <2>2, CreateMoves
  <2> QED
    BY <2>1, <2>3, <2>4
<1>2. ASSUME NEW c \in Calls, SpawnFault(c) PROVE G
  <2> DEFINE u == <<c, NextAgent(c)>>
             n == AgentName(c, NextAgent(c))
  <2>1. /\ Spawning(c) /\ SpawnFails(c) /\ faulty' = faulty \cup {c} /\ standIns' = standIns
        /\ UNCHANGED podVars \/ CreatePod(u, n)
    BY <1>2 DEF SpawnFault, SpawnFails, Fault
  <2>2. u \in UIDs /\ n \in Names
    BY <2>1, NextAgentIsNew
  <2> HIDE DEF n
  <2>3. ASSUME CreatePod(u, n) PROVE Created(u)
    <3> HIDE DEF u
    <3>1. /\ podName'[u] = n /\ podObj[u] = "none" /\ PodsAt(n) = {}
          /\ podObj' = [podObj EXCEPT ![u] = "present"] /\ podRun' = podRun
      BY <1>0, <2>2, <2>3, CreateMoves
    <3> QED
      BY <2>1, <2>2, <3>1 DEF Created, u
  <2> HIDE DEF u
  <2>4. ASSUME CreatePod(u, n) PROVE \A v \in UIDs : v # u => PodMove(v)
    BY <1>0, <2>2, <2>4, CreateMoves
  <2>5. ASSUME UNCHANGED podVars PROVE \A v \in UIDs : PodMove(v)
    BY <1>0, <2>5, OtherMoves
  <2> QED
    BY <2>1, <2>3, <2>4, <2>5
<1>3. ASSUME NEW c \in Calls, \/ LocalStep(c) \/ SpawnConflict(c) \/ GoroutineStep(c)
                              \/ \E j \in Jobs, t \in Tenants, n \in Sizes : ScheduleJob(c, j, t, n)
      PROVE  G
  <2>1. UNCHANGED podVars /\ faulty' = faulty /\ standIns' = standIns
    BY <1>3 DEF LocalStep, SpawnConflict, GoroutineStep, ScheduleJob, envVars
  <2> QED
    BY <1>0, <2>1, OtherMoves
<1>4. ASSUME NEW c \in Calls, TerminateAgent(c) \/ TerminateNotFound(c) \/ TerminateFault(c) PROVE G
  <2>1. UNCHANGED podVars \/ DeletePod(TargetName(c))
    BY <1>4 DEF TerminateAgent, TerminateNotFound, TerminateFault
  <2>2. faulty \subseteq faulty' /\ standIns' = standIns
    BY <1>4 DEF TerminateAgent, TerminateNotFound, TerminateFault, Fault, envVars
  <2> QED
    BY <1>0, <2>1, <2>2, OtherMoves
<1>5. ASSUME NEW c \in Calls, NEW i \in DOMAIN watch[c], PollReports(c, i) PROVE G
  <2>1. UNCHANGED podVars /\ faulty' = faulty /\ standIns \subseteq standIns'
    BY <1>5 DEF PollReports
  <2> QED
    BY <1>0, <2>1, OtherMoves
<1>6. ASSUME ClusterStep PROVE G
  <2>1. PICK u \in UIDs, s \in {"Succeeded", "Failed"} : PodExits(u, s) \/ PodRemoved(u) \/ PodEvicted(u)
    BY <1>6 DEF ClusterStep
  <2>2. faulty' = faulty /\ standIns' = standIns
    BY <1>6 DEF ClusterStep, envVars
  <2> QED
    BY <1>0, <2>1, <2>2, OtherMoves
<1>7. CASE UNCHANGED allVars
  <2>1. UNCHANGED podVars /\ faulty' = faulty /\ standIns' = standIns
    BY <1>7 DEF allVars, envVars
  <2> QED
    BY <1>0, <2>1, OtherMoves
<1> QED
  BY <1>1, <1>2, <1>3, <1>4, <1>5, <1>6, <1>7 DEF K8sNext, CallStep, WatcherStep

\* What a listed agent was, it stays: no longer running, or having succeeded.
LEMMA ListedStay ==
  ASSUME Inv, K8sTypeOK, PodsNumbered, [K8sNext]_allVars, NEW c \in Calls, NEW i \in DOMAIN ids[c]
  PROVE  /\ PodMove(<<c, i>>)
         /\ Overtaken(<<c, i>>) => OvertakenNext(<<c, i>>)
<1>1. <<c, i>> \in UIDs /\ podObj[<<c, i>>] # "none" /\ podName[<<c, i>>] # NoName
  BY ListedPods
<1>2. PodMove(<<c, i>>)
  BY <1>1, PodMoves DEF Created
<1>3. ASSUME NEW v \in UIDs, podRun[v] = "Succeeded" PROVE podRun'[v] = "Succeeded"
  BY <1>3, PodMoves DEF PodMove, Created
<1> QED
  BY <1>2, <1>3, PodMoves DEF Overtaken, OvertakenNext, PodMove

-----------------------------------------------------------------------------
(* The scheduler on Kubernetes is the scheduler *)

\* Every step on Kubernetes is one the scheduler can take with some adapter.
LEMMA K8sStepIsStep ==
  ASSUME Inv, K8sTypeOK, [K8sNext]_allVars
  PROVE  [Next]_vars
<1>1. ASSUME NEW c \in Calls, \/ LocalStep(c) \/ GoroutineStep(c)
                              \/ \E j \in Jobs, t \in Tenants, n \in Sizes : ScheduleJob(c, j, t, n)
      PROVE  ScheduleStep(c) \/ CancelStep(c) \/ WatchStep(c)
  BY <1>1 DEF LocalStep, GoroutineStep, ScheduleJob, ScheduleStep, CancelStep, WatchStep
<1>2. ASSUME NEW c \in Calls, SpawnAgent(c) PROVE ScheduleStep(c)
  <2>1. Spawning(c) /\ SpawnReturns(c, AgentName(c, NextAgent(c)))
    BY <1>2 DEF SpawnAgent
  <2>2. AgentName(c, NextAgent(c)) \in AgentIDs
    BY <2>1, NextAgentIsNew
  <2> QED
    BY <2>1, <2>2 DEF ScheduleStep
<1>3. ASSUME NEW c \in Calls, SpawnConflict(c) \/ SpawnFault(c) PROVE ScheduleStep(c)
  BY <1>3 DEF SpawnConflict, SpawnFault, ScheduleStep
<1>4. ASSUME NEW c \in Calls, TerminateAgent(c) \/ TerminateNotFound(c) \/ TerminateFault(c)
      PROVE  ScheduleStep(c) \/ CancelStep(c)
  BY <1>4 DEF TerminateAgent, TerminateNotFound, TerminateFault, ScheduleStep, CancelStep
<1>5. ASSUME NEW c \in Calls, NEW i \in DOMAIN watch[c], PollReports(c, i) PROVE WatchStep(c)
  <2>1. Poll(ids[c][i]) \in Sent
    BY <1>5 DEF PollReports, Poll, Sent
  <2> QED
    BY <1>5, <2>1 DEF PollReports, WatchStep
<1>6. CASE ClusterStep \/ UNCHANGED allVars
  BY <1>6 DEF ClusterStep, allVars
<1> QED
  BY <1>1, <1>2, <1>3, <1>4, <1>5, <1>6 DEF K8sNext, CallStep, WatcherStep, Next

\* The agent list that a termination loop goes through, and the pod it has reached.
LoopOf(c) == IF pc[c] = "reject" THEN c ELSE rec[c]
Reached(c) == <<LoopOf(c), next[c] + 1>>

\* What a step of a termination loop does to that pod.
Terminates(c, u) ==
  /\ u = Reached(c) /\ podName[u] = TargetName(c) /\ podObj[u] # "none"
  /\ LoopOf(c) \in Calls /\ u[2] \in DOMAIN ids[LoopOf(c)] /\ next[c] \in Nat
  /\ pc[c] \in {"reject", "terminate"}
  /\ \/ TerminateReturns(c) /\ ~LiveNext(u)
     \/ CleanupTerminate(c) /\ (~LiveNext(u) \/ c \in faulty')
     \/ TerminateFails(c)

\* A step of TerminateAgent is one of these, for the agent that is terminated.
LEMMA TerminateEffect ==
  ASSUME Inv, K8sTypeOK, PodsNumbered, NEW c \in Calls,
         TerminateAgent(c) \/ TerminateNotFound(c) \/ TerminateFault(c)
  PROVE  \E u \in UIDs : Terminates(c, u)
<1>0. TypeOK /\ CallsConsistent /\ PodTypeOK
  BY DEF Inv, K8sTypeOK
<1>1. TerminateReturns(c) \/ TerminateFails(c) \/ CleanupTerminate(c)
  BY DEF TerminateAgent, TerminateNotFound, TerminateFault
<1>2. pc[c] \in {"reject", "terminate"} /\ LoopOf(c) \in Calls /\ next[c] < Len(ids[LoopOf(c)])
  BY <1>0, <1>1 DEF TerminateReturns, TerminateFails, CleanupTerminate, Terminating, LoopOf, TypeOK,
     CallsConsistent, CallConsistent
<1>3. next[c] \in Nat /\ ids[LoopOf(c)] \in Seq(AgentIDs)
  BY <1>0, <1>2 DEF TypeOK
<1>4. next[c] + 1 \in DOMAIN ids[LoopOf(c)]
  BY <1>2, <1>3
<1>5. /\ Reached(c) \in UIDs /\ podName[Reached(c)] = TargetName(c) /\ podObj[Reached(c)] # "none"
      /\ Reached(c)[2] \in DOMAIN ids[LoopOf(c)]
  BY <1>2, <1>4, ListedPods DEF Reached, TargetName, LoopOf
<1>6. PICK u \in UIDs : u = Reached(c)
  BY <1>5
<1>7. ASSUME TerminateAgent(c) PROVE (TerminateReturns(c) \/ CleanupTerminate(c)) /\ ~LiveNext(u)
  BY <1>0, <1>5, <1>6, <1>7, DeletedIsDead DEF TerminateAgent
<1>8. ASSUME TerminateNotFound(c) PROVE (TerminateFails(c) \/ CleanupTerminate(c)) /\ ~LiveNext(u)
  <2>1. ~Exists(u) /\ UNCHANGED podVars
    BY <1>5, <1>6, <1>8 DEF TerminateNotFound, PodsAt
  <2> QED
    BY <1>8, <2>1 DEF TerminateNotFound, podVars, Exists, LiveNext
<1>9. ASSUME TerminateFault(c) PROVE (TerminateFails(c) \/ CleanupTerminate(c)) /\ c \in faulty'
  BY <1>9 DEF TerminateFault, Fault
<1>10. Terminates(c, u)
  BY <1>2, <1>3, <1>5, <1>6, <1>7, <1>8, <1>9 DEF Terminates
<1> QED
  BY <1>10

\* Only SpawnAgent adds to an agent list: the pod it creates.
LEMMA K8sIdsMove ==
  ASSUME Inv, [K8sNext]_allVars
  PROVE  UNCHANGED ids \/ \E c \in Calls : SpawnAgent(c)
<1>1. ASSUME NEW c \in Calls, \/ LocalStep(c) \/ GoroutineStep(c)
                              \/ \E j \in Jobs, t \in Tenants, n \in Sizes : ScheduleJob(c, j, t, n)
      PROVE  UNCHANGED ids
  BY <1>1 DEF LocalStep, GoroutineStep, ScheduleJob, ScheduleCall, WatchReturns, Register, RejectPhase,
     RejectDuplicate, Reject, CleanupReturn, CancelNotFound, CancelLookup, CommitCancel, WatchClose,
     Collect, CollectEOF, Finish
<1>2. ASSUME NEW c \in Calls, \/ SpawnConflict(c) \/ SpawnFault(c) \/ TerminateAgent(c)
                              \/ TerminateNotFound(c) \/ TerminateFault(c)
      PROVE  UNCHANGED ids
  BY <1>2 DEF SpawnConflict, SpawnFault, TerminateAgent, TerminateNotFound, TerminateFault, SpawnFails,
     TerminateReturns, TerminateFails, CleanupTerminate
<1>3. ASSUME NEW c \in Calls, NEW i \in DOMAIN watch[c], PollReports(c, i) PROVE UNCHANGED ids
  BY <1>3 DEF PollReports, WatchEvent
<1>4. CASE ClusterStep \/ UNCHANGED allVars
  BY <1>4 DEF ClusterStep, allVars, vars
<1> QED
  BY <1>1, <1>2, <1>3, <1>4 DEF K8sNext, CallStep, WatcherStep

-----------------------------------------------------------------------------
(* What the calls know of their pods *)

\* Every call of Schedule names a tenant.
LEMMA TenantStep ==
  ASSUME Inv, K8sTypeOK, [K8sNext]_allVars
  PROVE  /\ tenant' \in [Calls -> Tenants \cup {NoTenant}]
         /\ \A c \in Calls : op'[c] = "schedule" => tenant'[c] \in Tenants
<1> DEFINE G == /\ tenant' \in [Calls -> Tenants \cup {NoTenant}]
                /\ \A c \in Calls : op'[c] = "schedule" => tenant'[c] \in Tenants
<1> USE DEF K8sTypeOK
<1>0. op \in [Calls -> {"none", "schedule", "cancel"}]
  BY DEF Inv, TypeOK
<1>1. ASSUME NEW c \in Calls, NEW j \in Jobs, NEW t \in Tenants, NEW n \in Sizes, ScheduleJob(c, j, t, n)
      PROVE  G
  BY <1>0, <1>1 DEF ScheduleJob, ScheduleCall
<1>2. ASSUME UNCHANGED tenant, \A c \in Calls : op'[c] = "schedule" => op[c] = "schedule" PROVE G
  BY <1>2
<1>3. ASSUME NEW c \in Calls, LocalStep(c) \/ GoroutineStep(c)
      PROVE  UNCHANGED tenant /\ \A d \in Calls : op'[d] = "schedule" => op[d] = "schedule"
  <2>1. UNCHANGED tenant
    BY <1>3 DEF LocalStep, GoroutineStep, envVars
  <2>2. UNCHANGED op \/ \E j \in Jobs : CancelStart(c, j)
    BY <1>3 DEF LocalStep, GoroutineStep, WatchReturns, Register, RejectPhase, RejectDuplicate, Reject,
       CleanupReturn, CancelNotFound, CancelLookup, CommitCancel, WatchClose, Collect, CollectEOF,
       Finish, callVars
  <2> QED
    BY <1>0, <2>1, <2>2 DEF CancelStart
<1>4. ASSUME NEW c \in Calls,
             \/ SpawnAgent(c) \/ SpawnConflict(c) \/ SpawnFault(c)
             \/ TerminateAgent(c) \/ TerminateNotFound(c) \/ TerminateFault(c)
             \/ \E i \in DOMAIN watch[c] : PollReports(c, i)
      PROVE  UNCHANGED <<tenant, op>>
  BY <1>4 DEF SpawnAgent, SpawnConflict, SpawnFault, TerminateAgent, TerminateNotFound, TerminateFault,
     PollReports, SpawnReturns, SpawnFails, TerminateReturns, TerminateFails, CleanupTerminate,
     WatchEvent, Fault, envVars, callVars
<1>5. CASE ClusterStep \/ UNCHANGED allVars
  BY <1>5 DEF ClusterStep, allVars, vars, envVars
<1> QED
  BY <1>1, <1>2, <1>3, <1>4, <1>5 DEF K8sNext, CallStep, WatcherStep

\* The types of the pods.
LEMMA K8sTypeStep ==
  ASSUME Inv, K8sTypeOK, PodsNumbered, [K8sNext]_allVars
  PROVE  K8sTypeOK'
<1>0. TypeOK' /\ PodTypeOK
  BY K8sStepIsStep, TypeStep DEF Inv, K8sTypeOK
<1>9. /\ tenant' \in [Calls -> Tenants \cup {NoTenant}]
      /\ \A c \in Calls : op'[c] = "schedule" => tenant'[c] \in Tenants
  BY TenantStep
<1> USE DEF K8sTypeOK, PodTypeOK
<1>1. ASSUME NEW c \in Calls, SpawnAgent(c) \/ SpawnFault(c) PROVE K8sTypeOK'
  <2>1. Spawning(c)
    BY <1>1 DEF SpawnAgent, SpawnFault, SpawnFails
  <2>2. <<c, NextAgent(c)>> \in UIDs /\ AgentName(c, NextAgent(c)) \in Names
    BY <2>1, NextAgentIsNew
  <2>3. UNCHANGED podVars \/ CreatePod(<<c, NextAgent(c)>>, AgentName(c, NextAgent(c)))
    BY <1>1 DEF SpawnAgent, SpawnFault
  <2>4. faulty' \subseteq Calls /\ standIns' = standIns
    BY <1>1 DEF SpawnAgent, SpawnFault, Fault, envVars
  <2> QED
    BY <1>0, <1>9, <2>2, <2>3, <2>4 DEF podVars, CreatePod
<1>2. ASSUME NEW c \in Calls, \/ LocalStep(c) \/ SpawnConflict(c) \/ GoroutineStep(c)
                              \/ \E j \in Jobs, t \in Tenants, n \in Sizes : ScheduleJob(c, j, t, n)
      PROVE  K8sTypeOK'
  <2>1. UNCHANGED podVars /\ faulty' = faulty /\ standIns' = standIns
    BY <1>2 DEF LocalStep, SpawnConflict, GoroutineStep, ScheduleJob, envVars
  <2> QED
    BY <1>0, <1>9, <2>1 DEF podVars
<1>6. ASSUME NEW c \in Calls, NEW i \in DOMAIN watch[c], PollReports(c, i) PROVE K8sTypeOK'
  <2>1. UNCHANGED podVars /\ faulty' = faulty
    BY <1>6 DEF PollReports
  <2>2. i \in DOMAIN ids[c]
    BY DEF Inv, TypeOK, LoopsConsistent, LoopConsistent
  <2>3. standIns' \subseteq UIDs \X UIDs
    BY <1>6, <2>2, ListedPods DEF PollReports, PodsAt
  <2> QED
    BY <1>0, <1>9, <2>1, <2>3 DEF podVars
<1>3. ASSUME NEW c \in Calls, TerminateAgent(c) \/ TerminateNotFound(c) \/ TerminateFault(c)
      PROVE  K8sTypeOK'
  <2>1. UNCHANGED podVars \/ DeletePod(TargetName(c))
    BY <1>3 DEF TerminateAgent, TerminateNotFound, TerminateFault
  <2>2. faulty' \subseteq Calls /\ standIns' = standIns
    BY <1>3 DEF TerminateAgent, TerminateNotFound, TerminateFault, Fault, envVars
  <2> QED
    BY <1>0, <1>9, <2>1, <2>2 DEF podVars, DeletePod
<1>4. CASE ClusterStep
  <2>1. PICK u \in UIDs, s \in {"Succeeded", "Failed"} : PodExits(u, s) \/ PodRemoved(u) \/ PodEvicted(u)
    BY <1>4 DEF ClusterStep
  <2>2. faulty' = faulty /\ standIns' = standIns
    BY <1>4 DEF ClusterStep, envVars
  <2> QED
    BY <1>0, <1>9, <2>1, <2>2 DEF PodExits, PodRemoved, PodEvicted
<1>5. CASE UNCHANGED allVars
  BY <1>0, <1>5, <1>9 DEF allVars, podVars, envVars
<1> QED
  BY <1>1, <1>2, <1>3, <1>4, <1>5, <1>6 DEF K8sNext, CallStep, WatcherStep

\* The pods of a call's agent list stay its own.
LEMMA PodsNumberedStep ==
  ASSUME Inv, K8sTypeOK, PodsNumbered, [K8sNext]_allVars
  PROVE  PodsNumbered'
<1>0. TypeOK /\ CallsConsistent /\ [Next]_vars /\ ids \in [Calls -> Seq(AgentIDs)]
  BY K8sStepIsStep DEF Inv, TypeOK
<1>1. ASSUME NEW d \in Calls, NEW i \in DOMAIN ids[d]
      PROVE  /\ <<d, i>> \in UIDs /\ podName'[<<d, i>>] = ids[d][i] /\ podObj'[<<d, i>>] # "none"
             /\ i \in DOMAIN ids'[d]
  <2>1. PodMove(<<d, i>>) /\ <<d, i>> \in UIDs /\ podName[<<d, i>>] = ids[d][i] /\ podObj[<<d, i>>] # "none"
    BY ListedStay, ListedPods
  <2>2. UNCHANGED ids \/ \E c \in Calls, id \in AgentIDs : SpawnReturns(c, id)
    BY <1>0, IdsMove
  <2>3. i \in DOMAIN ids'[d]
    <3>1. ASSUME NEW c \in Calls, NEW id \in AgentIDs, SpawnReturns(c, id)
          PROVE  ids'[d] = ids[d] \/ ids'[d] = Append(ids[d], id)
      BY <1>0, <3>1 DEF SpawnReturns
    <3>2. ids'[d] = ids[d] \/ \E id \in AgentIDs : ids'[d] = Append(ids[d], id)
      BY <2>2, <3>1
    <3>3. ids[d] \in Seq(AgentIDs)
      BY <1>0
    <3> QED
      BY <3>2, <3>3
  <2> QED
    BY <2>1, <2>3 DEF PodMove
<1>2. ASSUME NEW d \in Calls, NEW i \in DOMAIN ids'[d]
      PROVE  <<d, i>> \in UIDs /\ podName'[<<d, i>>] = ids'[d][i] /\ podObj'[<<d, i>>] # "none"
  <2>1. CASE UNCHANGED ids
    BY <1>1, <2>1
  <2>2. ASSUME NEW c \in Calls, SpawnAgent(c)
        PROVE  <<d, i>> \in UIDs /\ podName'[<<d, i>>] = ids'[d][i] /\ podObj'[<<d, i>>] # "none"
    <3> DEFINE n == AgentName(c, NextAgent(c))
    <3>1. /\ ids' = [ids EXCEPT ![c] = Append(@, n)] /\ Spawning(c)
          /\ CreatePod(<<c, NextAgent(c)>>, n)
      BY <2>2 DEF SpawnAgent, SpawnReturns
    <3>2. <<c, NextAgent(c)>> \in UIDs /\ n \in AgentIDs
      BY <3>1, NextAgentIsNew
    <3>3. podName'[<<c, NextAgent(c)>>] = n /\ podObj'[<<c, NextAgent(c)>>] # "none"
      BY <3>1, <3>2 DEF CreatePod, K8sTypeOK, PodTypeOK
    <3> HIDE DEF n
    <3>4. CASE d = c
      <4>1. \/ i \in DOMAIN ids[c] /\ ids'[c][i] = ids[c][i]
            \/ i = NextAgent(c) /\ ids'[c][i] = n
        BY <1>0, <3>1, <3>2, <3>4 DEF NextAgent
      <4> QED
        BY <1>1, <3>2, <3>3, <3>4, <4>1
    <3>5. CASE d # c
      BY <1>0, <1>1, <3>1, <3>5
    <3> QED
      BY <3>4, <3>5
  <2> QED
    BY <2>1, <2>2, K8sIdsMove
<1>3. ASSUME NEW u \in UIDs
      PROVE  IF podObj'[u] = "none" THEN podName'[u] = NoName
             ELSE /\ podName'[u] # NoName
                  /\ pc'[u[1]] # "idle"
                  /\ u[2] \in DOMAIN ids'[u[1]] \/ u[1] \in faulty'
  <2>1. CASE PodMove(u)
    <3>1. u[1] \in Calls /\ faulty \subseteq faulty'
      BY K8sAssumption, PodMoves
    <3>2. u[2] \in DOMAIN ids[u[1]] => u[2] \in DOMAIN ids'[u[1]]
      BY <1>1, <3>1
    <3>3. pc[u[1]] # "idle" => pc'[u[1]] # "idle"
      BY <1>0, <3>1, BegunStays
    <3> QED
      BY <2>1, <3>1, <3>2, <3>3 DEF PodMove, PodsNumbered
  <2>2. CASE Created(u)
    <3>1. PICK c \in Calls : /\ u = <<c, NextAgent(c)>> /\ Spawning(c)
                             /\ \/ SpawnReturns(c, podName'[u])
                                \/ SpawnFails(c) /\ c \in faulty'
      BY <2>2 DEF Created
    <3>2. podObj'[u] = "present" /\ podName'[u] # NoName /\ u[1] = c /\ u[2] = Len(ids[c]) + 1
      BY <2>2, <3>1, NameAssumption DEF Created, K8sTypeOK, PodTypeOK, NextAgent
    <3>3. pc'[c] # "idle"
      BY <1>0, <3>1, BegunStays DEF Spawning
    <3>4. ASSUME SpawnReturns(c, podName'[u]) PROVE u[2] \in DOMAIN ids'[c]
      <4>1. ids'[c] = Append(ids[c], podName'[u]) /\ ids[c] \in Seq(AgentIDs) /\ podName'[u] \in AgentIDs
        BY <1>0, <2>2, <3>4, K8sAssumption DEF SpawnReturns, Created
      <4> QED
        BY <3>2, <4>1
    <3> QED
      BY <3>1, <3>2, <3>3, <3>4
  <2> QED
    BY <2>1, <2>2, PodMoves
<1> QED
  BY <1>2, <1>3 DEF PodsNumbered

\* A name is not given away while a pod has it.
LEMMA NamesUniqueStep ==
  ASSUME Inv, K8sTypeOK, NamesUnique, [K8sNext]_allVars
  PROVE  NamesUnique'
<1> SUFFICES ASSUME NEW u \in UIDs, NEW v \in UIDs, ExistsNext(u), ExistsNext(v), podName'[u] = podName'[v]
             PROVE  u = v
  BY DEF NamesUnique, Exists, ExistsNext
<1>1. CASE PodMove(u) /\ PodMove(v)
  BY <1>1 DEF PodMove, NamesUnique
<1>2. ASSUME NEW a \in UIDs, NEW b \in UIDs, Created(a), PodMove(b), ExistsNext(b), podName'[a] = podName'[b]
      PROVE  FALSE
  BY <1>2 DEF Created, PodMove, PodsAt
<1>3. CASE Created(u) /\ Created(v)
  BY <1>3 DEF Created, K8sTypeOK, PodTypeOK
<1> QED
  BY <1>1, <1>2, <1>3, PodMoves

\* A watch reports that its agent has ended only when it has, and success only of an agent
\* that succeeded or whose stand-in did.
True(v, u) ==
  /\ v \in Sent \cup Counted => ~Live(u)
  /\ v \in {"Completed", "gotCompleted"} => podRun[u] = "Succeeded" \/ Overtaken(u)
TrueNext(v, u) ==
  /\ v \in Sent \cup Counted => ~LiveNext(u)
  /\ v \in {"Completed", "gotCompleted"} =>
       podRun'[u] = "Succeeded" \/ OvertakenNext(u)

\* The poll of agent u's name, recorded in standIns.
LEMMA PollIsTrue ==
  ASSUME K8sTypeOK, NamesUnique, NEW u \in UIDs, podObj[u] # "none", Poll(podName[u]) # "none",
         UNCHANGED podVars, standIns' = standIns \cup ({u} \X (PodsAt(podName[u]) \ {u}))
  PROVE  /\ Poll(podName[u]) \in {"Completed", "Failed"}
         /\ TrueNext(Poll(podName[u]), u)
<1> DEFINE n == podName[u]
<1>0. podObj' = podObj /\ podRun' = podRun
  BY DEF podVars
<1>1. CASE PodsAt(n) = {}
  <2>1. Poll(n) = "Failed" /\ ~Exists(u)
    BY <1>1 DEF Poll, PodsAt
  <2> QED
    BY <1>0, <2>1 DEF TrueNext, LiveNext, Exists
<1>2. CASE PodsAt(n) # {}
  <2>1. PICK v \in UIDs : v = (CHOOSE w \in PodsAt(n) : TRUE)
    BY <1>2 DEF PodsAt
  <2>2. v \in PodsAt(n)
    BY <1>2, <2>1
  <2>3. Exists(v) /\ podName[v] = n
    BY <2>2 DEF PodsAt
  <2>4. /\ Poll(n) \in {"Completed", "Failed"}
        /\ podRun[v] = IF Poll(n) = "Completed" THEN "Succeeded" ELSE "Failed"
    BY <1>2, <2>1 DEF Poll
  <2>5. CASE u = v
    BY <1>0, <2>4, <2>5 DEF TrueNext, LiveNext
  <2>6. CASE u # v
    <3>1. ~Exists(u)
      BY <2>3, <2>6 DEF NamesUnique
    <3>2. podObj'[u] = "gone" /\ ~LiveNext(u)
      BY <1>0, <3>1 DEF Exists, LiveNext, K8sTypeOK, PodTypeOK
    <3>3. <<u, v>> \in standIns'
      BY <2>2, <2>6
    <3>4. Poll(n) = "Completed" => OvertakenNext(u)
      BY <1>0, <2>4, <2>6, <3>2, <3>3 DEF OvertakenNext
    <3> QED
      BY <2>4, <3>2, <3>4 DEF TrueNext
  <2> QED
    BY <2>4, <2>5, <2>6
<1> QED
  BY <1>1, <1>2

\* What has been reported of an agent stays true.
LEMMA ReportsTrueStep ==
  ASSUME Inv, K8sTypeOK, PodsNumbered, NamesUnique, ReportsTrue, [K8sNext]_allVars
  PROVE  ReportsTrue'
<1>0. TypeOK /\ LoopsConsistent /\ watch \in [Calls -> Seq(WatchStates)]
  BY DEF Inv, TypeOK
<1>1. ASSUME NEW d \in Calls, NEW i \in DOMAIN watch[d] PROVE i \in DOMAIN ids[d]
  BY <1>0 DEF LoopsConsistent, LoopConsistent, TypeOK
\* A report that was true is true.
<1>2. ASSUME NEW d \in Calls, NEW i \in DOMAIN watch[d], NEW v, True(v, <<d, i>>)
      PROVE  TrueNext(v, <<d, i>>)
  <2>1. /\ PodMove(<<d, i>>)
        /\ Overtaken(<<d, i>>) => OvertakenNext(<<d, i>>)
    BY <1>1, ListedStay
  <2> QED
    BY <1>2, <2>1 DEF True, TrueNext, PodMove
<1>3. ASSUME NEW d \in Calls, NEW i \in DOMAIN watch[d] PROVE True(watch[d][i], <<d, i>>)
  BY <1>3 DEF ReportsTrue, True
<1> SUFFICES ASSUME NEW d \in Calls, NEW i \in DOMAIN watch'[d]
             PROVE  TrueNext(watch'[d][i], <<d, i>>)
  BY DEF ReportsTrue, TrueNext, Live, LiveNext, Overtaken, OvertakenNext
<1>4. CASE UNCHANGED watch
  BY <1>2, <1>3, <1>4
<1>5. ASSUME NEW c \in Calls, WatchReturns(c)
      PROVE  \/ watch'[d][i] = "polling"
             \/ i \in DOMAIN watch[d] /\ watch'[d][i] = watch[d][i]
  <2>1. watch' = [watch EXCEPT ![c] = Append(watch[c], "polling")]
    BY <1>5 DEF WatchReturns
  <2>2. CASE d = c
    <3>1. watch'[d] = Append(watch[d], "polling") /\ watch[d] \in Seq(WatchStates)
      BY <1>0, <2>1, <2>2
    <3>2. i \in DOMAIN Append(watch[d], "polling")
      BY <3>1
    <3> QED
      BY <3>1, <3>2, WatchAdded
  <2>3. CASE d # c
    BY <1>0, <2>1, <2>3
  <2> QED
    BY <2>2, <2>3
<1>6. ASSUME NEW c \in Calls, WatchReturns(c) PROVE TrueNext(watch'[d][i], <<d, i>>)
  <2>1. CASE watch'[d][i] = "polling"
    BY <2>1 DEF TrueNext, Sent, Counted
  <2> QED
    BY <1>2, <1>3, <1>5, <1>6, <2>1
\* A watch that is replaced by another state.
<1>7. ASSUME NEW c \in Calls, NEW k \in DOMAIN watch[c], NEW s \in WatchStates, SetWatch(c, k, s),
             TrueNext(s, <<c, k>>)
      PROVE  TrueNext(watch'[d][i], <<d, i>>)
  <2>1. /\ i \in DOMAIN watch[d]
        /\ watch'[d][i] = IF d = c /\ i = k THEN s ELSE watch[d][i]
    BY <1>0, <1>7, SetWatchType DEF SetWatch
  <2> QED
    BY <1>2, <1>3, <1>7, <2>1
<1>8. ASSUME NEW c \in Calls, NEW k \in DOMAIN watch[c], PollReports(c, k)
      PROVE  \E s \in WatchStates : SetWatch(c, k, s) /\ TrueNext(s, <<c, k>>)
  <2>1. k \in DOMAIN ids[c]
    BY <1>1
  <2>2. <<c, k>> \in UIDs /\ podName[<<c, k>>] = ids[c][k] /\ podObj[<<c, k>>] # "none"
    BY <2>1, ListedPods
  <2>3. /\ SetWatch(c, k, Poll(podName[<<c, k>>])) /\ Poll(podName[<<c, k>>]) # "none"
        /\ UNCHANGED podVars
        /\ standIns' = standIns \cup ({<<c, k>>} \X (PodsAt(podName[<<c, k>>]) \ {<<c, k>>}))
    BY <1>8, <2>2 DEF PollReports, WatchEvent
  <2>4. /\ Poll(podName[<<c, k>>]) \in WatchStates
        /\ TrueNext(Poll(podName[<<c, k>>]), <<c, k>>)
    BY <2>2, <2>3, PollIsTrue, WatchStatesFacts
  <2> QED
    BY <2>3, <2>4
<1>9. ASSUME NEW c \in Calls, NEW k \in DOMAIN watch[c], WatchClose(c, k)
      PROVE  \E s \in WatchStates : SetWatch(c, k, s) /\ TrueNext(s, <<c, k>>)
  <2>1. SetWatch(c, k, "closed")
    BY <1>9 DEF WatchClose
  <2>2. TrueNext("closed", <<c, k>>)
    BY DEF Sent, Counted, TrueNext
  <2> QED
    BY <2>1, <2>2, WatchStatesFacts
<1>10. ASSUME NEW c \in Calls, NEW k \in DOMAIN watch[c], Collect(c, k)
       PROVE  \E s \in WatchStates : SetWatch(c, k, s) /\ TrueNext(s, <<c, k>>)
  <2>1. PICK s \in {"gotCompleted", "gotFailed"} :
          /\ SetWatch(c, k, s)
          /\ watch[c][k] = IF s = "gotCompleted" THEN "Completed" ELSE "Failed"
    BY <1>10 DEF Collect
  <2>2. TrueNext(watch[c][k], <<c, k>>)
    BY <1>2, <1>3
  <2>3. TrueNext(s, <<c, k>>)
    BY <2>1, <2>2 DEF Sent, TrueNext
  <2> QED
    BY <2>1, <2>3, WatchStatesFacts
<1>11. \/ UNCHANGED watch
       \/ \E c \in Calls : \/ WatchReturns(c)
                          \/ \E k \in DOMAIN watch[c] : PollReports(c, k) \/ WatchClose(c, k) \/ Collect(c, k)
  <2>1. ASSUME NEW c \in Calls, \/ LocalStep(c) \/ GoroutineStep(c)
                                \/ \E j \in Jobs, t \in Tenants, n \in Sizes : ScheduleJob(c, j, t, n)
        PROVE  \/ UNCHANGED watch \/ WatchReturns(c)
               \/ \E k \in DOMAIN watch[c] : WatchClose(c, k) \/ Collect(c, k)
    BY <2>1 DEF LocalStep, GoroutineStep, ScheduleJob, ScheduleCall, Register, RejectPhase, RejectDuplicate, Reject,
       CleanupReturn, CancelNotFound, CancelLookup, CommitCancel, CollectEOF, Finish
  <2>2. ASSUME NEW c \in Calls, \/ SpawnAgent(c) \/ SpawnConflict(c) \/ SpawnFault(c) \/ TerminateAgent(c)
                                \/ TerminateNotFound(c) \/ TerminateFault(c)
        PROVE  UNCHANGED watch
    BY <2>2 DEF SpawnAgent, SpawnConflict, SpawnFault, TerminateAgent, TerminateNotFound,
       TerminateFault, SpawnReturns, SpawnFails, TerminateReturns, TerminateFails, CleanupTerminate
  <2>3. CASE ClusterStep \/ UNCHANGED allVars
    BY <2>3 DEF ClusterStep, allVars, vars
  <2> QED
    BY <2>1, <2>2, <2>3 DEF K8sNext, CallStep, WatcherStep
<1> QED
  BY <1>4, <1>6, <1>7, <1>8, <1>9, <1>10, <1>11

\* A termination loop leaves only agents behind that do not run.
LEMMA LoopsStopStep ==
  ASSUME Inv, K8sTypeOK, PodsNumbered, LoopsStop, [K8sNext]_allVars
  PROVE  LoopsStop'
<1>0. /\ TypeOK /\ CallsConsistent /\ LoopsConsistent /\ [Next]_vars
      /\ ids \in [Calls -> Seq(AgentIDs)] /\ faulty \subseteq faulty'
  BY K8sStepIsStep, PodMoves DEF Inv, TypeOK
<1> DEFINE Over(d, i) == ~LiveNext(<<LoopOf(d), i>>) \/ (pc[d] = "reject" /\ d \in faulty')
<1>1. ASSUME NEW d \in Calls, pc[d] \in {"reject", "terminate"}, NEW i \in 1..next[d]
      PROVE  Over(d, i)
  <2>1. LoopOf(d) \in Calls /\ next[d] <= Len(ids[LoopOf(d)]) /\ next[d] \in Nat
    BY <1>0, <1>1 DEF LoopOf, CallsConsistent, CallConsistent, LoopsConsistent, LoopConsistent, TypeOK
  <2>2. i \in DOMAIN ids[LoopOf(d)]
    BY <1>0, <2>1
  <2>3. ~Live(<<LoopOf(d), i>>) \/ (pc[d] = "reject" /\ d \in faulty)
    BY <1>1 DEF LoopsStop, LoopOf
  <2>4. PodMove(<<LoopOf(d), i>>)
    BY <2>1, <2>2, ListedStay
  <2> QED
    BY <1>0, <2>3, <2>4 DEF PodMove
<1>2. ASSUME NEW d \in Calls, pc'[d] \in {"reject", "terminate"}, pc[d] = pc'[d],
             NEW i \in 1..next'[d], next'[d] # next[d], next'[d] # 0
      PROVE  i \in 1..next[d] \/ Over(d, i)
  <2>1. PICK c \in Calls : TerminateAgent(c) \/ TerminateNotFound(c) \/ TerminateFault(c)
    <3>1. ASSUME NEW c \in Calls,
                 \/ LocalStep(c) \/ GoroutineStep(c)
                 \/ \E j \in Jobs, t \in Tenants, n \in Sizes : ScheduleJob(c, j, t, n)
          PROVE  UNCHANGED next
      BY <3>1 DEF LocalStep, GoroutineStep, ScheduleJob, ScheduleCall, WatchReturns, Register, RejectPhase,
         RejectDuplicate, Reject, CleanupReturn, CancelNotFound, CancelLookup, CommitCancel, WatchClose,
         Collect, CollectEOF, Finish
    <3>2. ASSUME NEW c \in Calls, SpawnAgent(c) \/ SpawnConflict(c) \/ SpawnFault(c) PROVE UNCHANGED next
      BY <3>2 DEF SpawnAgent, SpawnConflict, SpawnFault, SpawnReturns, SpawnFails
    <3>3. ASSUME NEW c \in Calls, NEW k \in DOMAIN watch[c], PollReports(c, k) PROVE UNCHANGED next
      BY <3>3 DEF PollReports, WatchEvent
    <3>4. CASE ClusterStep \/ UNCHANGED allVars
      BY <1>2, <3>4 DEF ClusterStep, allVars, vars
    <3> QED
      BY <1>2, <3>1, <3>2, <3>3, <3>4 DEF K8sNext, CallStep, WatcherStep
  <2>2. PICK u \in UIDs : Terminates(c, u)
    BY <2>1, TerminateEffect
  <2>3. d = c /\ next'[d] = next[d] + 1 /\ next[d] \in Nat /\ ~TerminateFails(c)
    <3>1. next \in [Calls -> Nat]
      BY <1>0 DEF TypeOK
    <3>2. ~TerminateFails(c)
      BY <1>2 DEF TerminateFails
    <3>3. next' = [next EXCEPT ![c] = @ + 1]
      BY <2>2, <3>2 DEF Terminates, TerminateReturns, CleanupTerminate
    <3> QED
      BY <1>2, <3>1, <3>2, <3>3
  <2>4. i \in 1..next[d] \/ i = next[d] + 1
    BY <2>3
  <2>5. ~LiveNext(u) \/ (pc[d] = "reject" /\ d \in faulty')
    BY <2>2, <2>3 DEF Terminates, CleanupTerminate
  <2> QED
    BY <2>2, <2>3, <2>4, <2>5 DEF Terminates, Reached
<1>3. ASSUME NEW d \in Calls, pc'[d] \in {"reject", "terminate"}, NEW i \in 1..next'[d]
      PROVE  \/ ~LiveNext(<<IF pc'[d] = "reject" THEN d ELSE rec'[d], i>>)
             \/ pc'[d] = "reject" /\ d \in faulty'
  <2>1. LoopMove(d)
    BY <1>0, <1>3, LoopMoves
  <2>2. next'[d] # 0
    BY <1>3
  <2>3. pc[d] = pc'[d] /\ rec[d] = rec'[d]
    BY <2>1, <2>2 DEF LoopMove
  <2>4. Over(d, i)
    BY <1>1, <1>2, <1>3, <2>2, <2>3
  <2> QED
    BY <2>3, <2>4 DEF LoopOf
<1> QED
  BY <1>3 DEF LoopsStop, Live, LiveNext

\* No Schedule fails because of a watch.
LEMMA WatchesStartStep ==
  ASSUME Inv, WatchesStart, [K8sNext]_allVars
  PROVE  WatchesStart'
<1>0. TypeOK /\ CallsConsistent
  BY DEF Inv
<1> USE DEF TypeOK, Return, WatchesStart
<1>1. ASSUME NEW c \in Calls,
             LocalStep(c) \/ \E j \in Jobs, t \in Tenants, n \in Sizes : ScheduleJob(c, j, t, n)
      PROVE  WatchesStart'
  <2>1. CASE \E j \in Jobs, t \in Tenants, n \in Sizes : ScheduleJob(c, j, t, n)
    BY <2>1 DEF ScheduleJob, ScheduleCall
  <2>2. CASE WatchReturns(c)
    BY <2>2, QuietSteps
  <2>3. CASE RejectDuplicate(c) \/ \E ph \in InputPhases : Register(c, ph) \/ RejectPhase(c, ph)
    BY <1>0, <2>3 DEF RejectDuplicate, RejectPhase, Reject, Register
  <2>4. CASE CleanupReturn(c)
    BY <1>0, <2>4 DEF CleanupReturn
  <2>5. CASE \E j \in Jobs : CancelNotFound(c, j) \/ CancelLookup(c, j)
    BY <1>0, <2>5 DEF CancelNotFound, CancelLookup
  <2>6. CASE CommitCancel(c)
    <3>1. \E r \in {"cancelled", "badTransition"} : Return(c, r)
      BY <2>6 DEF CommitCancel
    <3> QED
      BY <1>0, <3>1
  <2> QED
    BY <1>1, <2>1, <2>2, <2>3, <2>4, <2>5, <2>6 DEF LocalStep
<1>2. ASSUME NEW c \in Calls, GoroutineStep(c) \/ \E i \in DOMAIN watch[c] : PollReports(c, i)
      PROVE  WatchesStart'
  BY <1>2 DEF GoroutineStep, PollReports, WatchEvent, WatchClose, Collect, CollectEOF, Finish
<1>3. ASSUME NEW c \in Calls, SpawnAgent(c) \/ SpawnConflict(c) \/ SpawnFault(c) PROVE WatchesStart'
  BY <1>0, <1>3 DEF SpawnAgent, SpawnConflict, SpawnFault, SpawnReturns, SpawnFails
<1>4. ASSUME NEW c \in Calls, TerminateAgent(c) \/ TerminateNotFound(c) \/ TerminateFault(c)
      PROVE  WatchesStart'
  BY <1>0, <1>4 DEF TerminateAgent, TerminateNotFound, TerminateFault, TerminateReturns, TerminateFails,
     CleanupTerminate
<1>5. CASE ClusterStep \/ UNCHANGED allVars
  BY <1>5 DEF ClusterStep, allVars, vars
<1> QED
  BY <1>1, <1>2, <1>3, <1>4, <1>5 DEF K8sNext, CallStep, WatcherStep

\* The part of the invariant that does not depend on who is responsible for an agent.
LEMMA PodsConsistentStep == PodsConsistent /\ [K8sNext]_allVars => PodsConsistent'
<1> SUFFICES ASSUME PodsConsistent, [K8sNext]_allVars PROVE PodsConsistent'
  OBVIOUS
<1>1. Inv /\ K8sTypeOK /\ PodsNumbered /\ NamesUnique /\ ReportsTrue /\ LoopsStop /\ WatchesStart
  BY DEF PodsConsistent
<1>2. Inv' /\ K8sTypeOK' /\ PodsNumbered' /\ NamesUnique'
  BY <1>1, K8sStepIsStep, InvStep, K8sTypeStep, PodsNumberedStep, NamesUniqueStep
<1>3. ReportsTrue' /\ LoopsStop' /\ WatchesStart'
  BY <1>1, ReportsTrueStep, LoopsStopStep, WatchesStartStep
<1> QED
  BY <1>2, <1>3 DEF PodsConsistent

\* At the start there is no pod.
LEMMA PodsConsistentInit == K8sInit => PodsConsistent
<1> SUFFICES ASSUME K8sInit PROVE PodsConsistent
  OBVIOUS
<1>1. Init /\ PodInit /\ Inv
  BY InvInit DEF K8sInit
<1>2. K8sTypeOK
  BY <1>1 DEF K8sInit, K8sTypeOK, PodTypeOK, PodInit, Inv, Init
<1> QED
  BY <1>1, <1>2 DEF Init, PodInit, PodsConsistent, PodsNumbered, NamesUnique, Exists, ReportsTrue,
     LoopsStop, WatchesStart

\* Nobody lets go of an agent that runs.
LEMMA AgentKept ==
  ASSUME PodsConsistent, [K8sNext]_allVars, NEW u \in UIDs, LiveNext(u)
  PROVE  \/ AccountedFor(u[1])'
         \/ Live(u) /\ ~AccountedFor(u[1])
<1>0. /\ Inv /\ K8sTypeOK /\ PodsNumbered /\ ReportsTrue /\ LoopsStop /\ WatchesStart'
      /\ TypeOK /\ CallsConsistent /\ LoopsConsistent /\ [Next]_vars
  BY K8sStepIsStep, WatchesStartStep DEF PodsConsistent, Inv
<1>1. u \in Calls \X Nat /\ faulty \subseteq faulty'
  BY <1>0, K8sAssumption, PodMoves
<1> DEFINE c == u[1]
<1>2. c \in Calls /\ u = <<c, u[2]>>
  BY <1>1
<1> HIDE DEF c
<1>3. CASE Created(u)
  <2>1. PICK d \in Calls : /\ u = <<d, NextAgent(d)>> /\ Spawning(d)
                           /\ SpawnReturns(d, podName'[u]) \/ SpawnFails(d)
    BY <1>3 DEF Created
  <2>2. d = u[1]
    BY <2>1
  <2>3. ASSUME SpawnReturns(d, podName'[u]) PROVE pc'[d] = "setup"
    BY <2>3 DEF SpawnReturns, Spawning
  <2>4. ASSUME SpawnFails(d) PROVE res'[d] = "spawnFailed"
    BY <1>0, <2>4 DEF SpawnFails, Return, TypeOK
  <2> QED
    BY <2>1, <2>2, <2>3, <2>4 DEF AccountedFor
<1>4. CASE PodMove(u)
  <2>1. Live(u)
    BY <1>4 DEF PodMove
  <2>2. SUFFICES ASSUME AccountedFor(c), c \notin faulty PROVE AccountedFor(c)'
    BY <1>1, <2>1 DEF AccountedFor, c
  <2>3. Busy(c) /\ u[2] \in DOMAIN ids[c]
    BY <1>0, <2>1, <2>2 DEF AccountedFor, Busy, PodsNumbered, Live, c
  <2>4. ASSUME Released(c) PROVE FALSE
    <3>1. u[2] \in 1..Len(ids[c])
      <4>1. ids[c] \in Seq(AgentIDs)
        BY <1>0, <1>2 DEF TypeOK
      <4> QED
        BY <2>3, <4>1
    <3>2. ASSUME WatchFails(c) PROVE FALSE
      <4>1. res'[c] = "watchFailed"
        BY <1>0, <1>2, <3>2 DEF WatchFails, Return, TypeOK
      <4> QED
        BY <1>0, <1>2, <4>1 DEF WatchesStart
    <3>3. ASSUME pc[c] = "reject", next[c] = Len(ids[c]) PROVE FALSE
      BY <1>0, <1>2, <2>1, <2>2, <3>1, <3>3 DEF LoopsStop
    <3>4. ASSUME \A i \in DOMAIN ids[c] : i \in DOMAIN watch[c] /\ watch[c][i] \in Counted PROVE FALSE
      <4>1. u[2] \in DOMAIN watch[c] /\ watch[c][u[2]] \in Counted
        BY <2>3, <3>4
      <4> QED
        BY <1>0, <1>2, <2>1, <4>1 DEF ReportsTrue
    <3>5. ASSUME NEW d \in Calls, pc[d] = "terminate", rec[d] = c, next[d] = Len(ids[c]) PROVE FALSE
      BY <1>0, <1>2, <2>1, <3>1, <3>5 DEF LoopsStop
    <3> QED
      BY <2>4, <3>2, <3>3, <3>4, <3>5 DEF Released
  <2>5. Busy(c)'
    <3>1. ASSUME NEW d \in Calls, Busy(d), ~Busy(d)' PROVE Released(d)
      BY <1>0, <3>1, ReleasedInTheEnd
    <3>2. \A d \in Calls : d = c => (Busy(d)' => AccountedFor(d)')
      BY DEF Busy, AccountedFor
    <3> QED
      BY <1>2, <2>3, <2>4, <3>1 DEF c
  <2> QED
    BY <2>5 DEF Busy, AccountedFor
<1> QED
  BY <1>0, <1>3, <1>4, PodMoves

-----------------------------------------------------------------------------
(* Theorems about the scheduler on Kubernetes *)

\* Every step keeps the invariant.
LEMMA K8sInvStep == K8sInv /\ [K8sNext]_allVars => K8sInv'
<1> SUFFICES ASSUME K8sInv, [K8sNext]_allVars PROVE K8sInv'
  OBVIOUS
<1>1. PodsConsistent /\ PodsConsistent'
  BY PodsConsistentStep DEF K8sInv
<1>2. ASSUME NEW u \in UIDs, LiveNext(u) PROVE AccountedFor(u[1])'
  BY <1>1, <1>2, AgentKept DEF K8sInv, LiveAgentsAreAccountedFor
<1>3. LiveAgentsAreAccountedFor'
  BY <1>2 DEF LiveAgentsAreAccountedFor, Live, LiveNext
<1> QED
  BY <1>1, <1>3 DEF K8sInv

\* The inductive invariant of the scheduler on Kubernetes.
THEOREM K8sInvariance == K8sSpec => []K8sInv
<1>1. K8sInit => K8sInv
  BY PodsConsistentInit DEF K8sInv, LiveAgentsAreAccountedFor, Live, K8sInit, PodInit
<1> QED
  BY <1>1, K8sInvStep, PTL DEF K8sSpec

\* What SchedulerProofs shows of the scheduler holds of the scheduler on Kubernetes,
\* because it is one.
THEOREM K8sIsScheduler == K8sSpec => Spec
<1>1. K8sInit => Init
  BY DEF K8sInit
<1>2. K8sInv /\ [K8sNext]_allVars => [Next]_vars
  BY K8sStepIsStep DEF K8sInv, PodsConsistent
<1> QED
  BY <1>1, <1>2, K8sInvariance, PTL DEF K8sSpec, Spec

\* Schedule and Cancel take effect at one instant, or not at all, on Kubernetes too.
THEOREM K8sIsAtomic == K8sSpec => AtomicSpec
BY K8sIsScheduler, SchedulerIsAtomic

\* No agent is forgotten, except by a Schedule whose spawning failed or by a call one of
\* whose requests failed.
THEOREM NoAgentIsForgotten == K8sSpec => []LiveAgentsAreAccountedFor
<1>1. K8sInv => LiveAgentsAreAccountedFor
  BY DEF K8sInv
<1> QED
  BY <1>1, K8sInvariance, PTL

\* The part of the invariant about pods says that Succeeded is true.
LEMMA SucceededIsTrue == PodsConsistent => SucceededUnlessOvertaken
<1> SUFFICES ASSUME PodsConsistent, NEW j \in Jobs, phase[j] = "Succeeded", NEW u \in OwnPods(owner[j])
             PROVE  podRun[u] = "Succeeded" \/ Overtaken(u)
  BY DEF SucceededUnlessOvertaken
<1>0. /\ TypeOK /\ RecordsConsistent /\ LoopsConsistent /\ OutcomeMatchesEvents /\ ReportsTrue
  BY DEF PodsConsistent, Inv
<1>1. owner[j] \in Calls /\ res[owner[j]] = "scheduled"
  BY <1>0 DEF RecordsConsistent, RecordConsistent, TypeOK
<1>2. DOMAIN watch[owner[j]] = DOMAIN ids[owner[j]]
  BY <1>0, <1>1 DEF LoopsConsistent, LoopConsistent, TypeOK
<1>3. PICK i \in DOMAIN ids[owner[j]] : u = <<owner[j], i>>
  BY DEF OwnPods
<1>4. watch[owner[j]][i] = "gotCompleted"
  BY <1>0, <1>1, <1>2, CallIsCall DEF OutcomeMatchesEvents, OutcomeMatches
<1> QED
  BY <1>0, <1>1, <1>2, <1>3, <1>4 DEF ReportsTrue

-----------------------------------------------------------------------------
(* Theorems about muto-mcp *)

\* A step of muto-mcp is one of the scheduler on Kubernetes, or a new session.
LEMMA MCPStep ==
  ASSUME [MCPNext]_mcpVars
  PROVE  \/ [K8sNext]_allVars /\ past' = past
         \/ NewSession
<1>1. ASSUME NEW c \in Calls, HandleScheduleAgentJob(c) PROVE CallStep(c)
  <2>1. PICK r \in Requests : ScheduleJob(c, r.job, r.tenant, 1)
    BY <1>1 DEF HandleScheduleAgentJob
  <2>2. r.job \in Jobs /\ r.tenant \in Tenants /\ 1 \in Sizes
    BY MCPAssumption
  <2> QED
    BY <2>1, <2>2 DEF CallStep
<1>2. ASSUME NEW c \in Calls, HandleCancelJob(c) PROVE CallStep(c)
  BY <1>2 DEF HandleCancelJob, CallStep, LocalStep
<1>3. ASSUME NEW c \in Calls, ToolStep(c) PROVE CallStep(c)
  BY <1>1, <1>2, <1>3 DEF ToolStep
<1> QED
  BY <1>3 DEF MCPNext, K8sNext, mcpVars

\* A new session is in order: it knows nothing, and the earlier calls have ended.
LEMMA NewSessionIsClean ==
  ASSUME PodsConsistent, NewSession
  PROVE  PodsConsistent'
<1>0. /\ TypeOK /\ CallsConsistent /\ LoopsConsistent /\ K8sTypeOK /\ PodsNumbered /\ NamesUnique
  BY DEF PodsConsistent, Inv
<1>1. TypeOK'
  BY <1>0 DEF NewSession, TypeOK, Outcomes, callVars
<1>2. CallsConsistent'
  <2> SUFFICES ASSUME NEW c \in Calls PROVE CallConsistent(c)'
    BY DEF CallsConsistent
  <2>1. pc[c] # "idle" => op[c] # "none" /\ job[c] \in Jobs
    BY <1>0 DEF CallsConsistent, CallConsistent, TypeOK
  <2>2. pc[c] = "idle" => op[c] = "none"
    BY <1>0 DEF CallsConsistent, CallConsistent
  <2> QED
    BY <1>0, <2>1, <2>2 DEF NewSession, CallConsistent, callVars, TypeOK
<1>3. RecordsConsistent' /\ CancelledConsistent' /\ RunningIsWatched' /\ OutcomeMatchesEvents' /\ CancelSticks'
  BY DEF NewSession, RecordsConsistent, RecordConsistent, CancelledConsistent, RunningIsWatched,
     OutcomeMatchesEvents, CancelSticks
<1>4. CountersConsistent'
  <2>1. \A v : Positions(<<>>, v) = {}
    BY DEF Positions
  <2>2. Cardinality({}) = 0
    BY FS_EmptySet
  <2> QED
    BY <2>1, <2>2 DEF NewSession, CountersConsistent, CountsRight
<1>5. WatchesConsistent'
  BY DEF NewSession, WatchesConsistent, WatchLinked
<1>6. LoopsConsistent'
  <2> SUFFICES ASSUME NEW c \in Calls PROVE LoopConsistent(c)'
    BY DEF LoopsConsistent
  <2>1. /\ watch'[c] = <<>> /\ ids' = ids /\ want' = want /\ next'[c] = 0
        /\ pc'[c] \in {"idle", "returned"} /\ res'[c] \in {"none", "sessionEnded"}
        /\ pc'[c] = "idle" => pc[c] = "idle"
    BY <1>0 DEF NewSession, callVars, TypeOK
  <2>2. Len(ids[c]) \in Nat /\ Len(ids[c]) <= want[c] /\ (pc[c] = "idle" => ids[c] = <<>>)
    BY <1>0 DEF TypeOK, LoopsConsistent, LoopConsistent
  <2>3. Len(<<>>) = 0
    OBVIOUS
  <2> QED
    BY <2>1, <2>2, <2>3 DEF LoopConsistent
<1>7. Inv'
  BY <1>1, <1>2, <1>3, <1>4, <1>5, <1>6 DEF Inv
<1>8. UNCHANGED <<ids, op, podName, podObj, podRun, tenant, faulty, standIns>>
  BY DEF NewSession, callVars, podVars, envVars
<1>9. K8sTypeOK' /\ NamesUnique'
  BY <1>0, <1>1, <1>8 DEF K8sTypeOK, PodTypeOK, NamesUnique, Exists
<1>10. PodsNumbered'
  <2>1. \A u \in UIDs : pc[u[1]] # "idle" => pc'[u[1]] # "idle"
    BY K8sAssumption DEF NewSession
  <2> QED
    BY <1>0, <1>8, <2>1 DEF PodsNumbered
<1>11. ReportsTrue' /\ LoopsStop' /\ WatchesStart'
  BY DEF NewSession, ReportsTrue, LoopsStop, WatchesStart
<1> QED
  BY <1>7, <1>9, <1>10, <1>11 DEF PodsConsistent

\* No tool asks for more than one agent.
LEMMA OneAgentStep ==
  ASSUME TypeOK, OneAgentEach, [MCPNext]_mcpVars
  PROVE  OneAgentEach'
<1>1. ASSUME NEW c \in Calls, HandleScheduleAgentJob(c) PROVE OneAgentEach'
  BY <1>1 DEF HandleScheduleAgentJob, ScheduleJob, ScheduleCall, OneAgentEach, TypeOK
<1>2. ASSUME NEW c \in Calls, HandleCancelJob(c) PROVE UNCHANGED want
  BY <1>2 DEF HandleCancelJob, CancelNotFound, CancelLookup
<1>3. ASSUME NEW c \in Calls, pc[c] # "idle", CallStep(c) PROVE UNCHANGED want
  <2>1. CASE LocalStep(c) \/ \E j \in Jobs, t \in Tenants, n \in Sizes : ScheduleJob(c, j, t, n)
    BY <1>3, <2>1 DEF LocalStep, ScheduleJob, ScheduleCall, WatchReturns, Register, RejectPhase, RejectDuplicate,
       Reject, CleanupReturn, CancelNotFound, CancelLookup, CommitCancel, callVars
  <2>2. CASE SpawnAgent(c) \/ SpawnConflict(c) \/ SpawnFault(c)
    BY <2>2 DEF SpawnAgent, SpawnConflict, SpawnFault, SpawnReturns, SpawnFails, callVars
  <2>3. CASE TerminateAgent(c) \/ TerminateNotFound(c) \/ TerminateFault(c)
    BY <2>3 DEF TerminateAgent, TerminateNotFound, TerminateFault, TerminateReturns, TerminateFails,
       CleanupTerminate, callVars
  <2> QED
    BY <1>3, <2>1, <2>2, <2>3 DEF CallStep
<1>4. ASSUME NEW c \in Calls, WatcherStep(c) PROVE UNCHANGED want
  BY <1>4 DEF WatcherStep, PollReports, GoroutineStep, WatchEvent, WatchClose, Collect, CollectEOF,
     Finish, callVars
<1>5. CASE ClusterStep \/ NewSession \/ UNCHANGED mcpVars
  BY <1>5 DEF ClusterStep, NewSession, mcpVars, allVars, vars, callVars, OneAgentEach
<1> QED
  BY <1>1, <1>2, <1>3, <1>4, <1>5 DEF MCPNext, ToolStep, OneAgentEach

\* Calls of earlier sessions stay over.
LEMMA PastIsOverStep ==
  ASSUME PodsConsistent, PastIsOver, [MCPNext]_mcpVars
  PROVE  PastIsOver'
<1>1. CASE [K8sNext]_allVars /\ past' = past
  <2>1. TypeOK /\ [Next]_vars
    BY <1>1, K8sStepIsStep DEF PodsConsistent, Inv
  <2> QED
    BY <1>1, <2>1, OutcomeStays DEF PastIsOver
<1>2. CASE NewSession
  BY <1>2 DEF NewSession, PastIsOver
<1> QED
  BY <1>1, <1>2, MCPStep

\* A pod that is created finds no pod of an earlier session under its name.
LEMMA PastPodsWereFirstStep ==
  ASSUME PodsConsistent, PastIsOver, PastPodsWereFirst, [MCPNext]_mcpVars
  PROVE  PastPodsWereFirst'
<1>0. Inv /\ K8sTypeOK /\ PodsNumbered
  BY DEF PodsConsistent
<1> SUFFICES ASSUME NEW u \in UIDs, NEW v \in UIDs, u[1] \in past', v[1] \notin past',
                    podObj'[v] # "none", podName'[u] = podName'[v]
             PROVE  ~ExistsNext(u)
  BY DEF PastPodsWereFirst, Exists, ExistsNext
<1>1. CASE [K8sNext]_allVars /\ past' = past
  <2>1. PodMove(u)
    <3>1. ASSUME NEW c \in Calls, u = <<c, NextAgent(c)>>, Spawning(c) PROVE FALSE
      BY <1>1, <3>1 DEF PastIsOver, Spawning
    <3> QED
      BY <1>0, <1>1, <3>1, PodMoves DEF Created
  <2>2. CASE PodMove(v)
    BY <1>1, <2>1, <2>2 DEF PodMove, PastPodsWereFirst
  <2>3. CASE Created(v)
    BY <2>1, <2>3 DEF PodMove, Created, PodsAt
  <2> QED
    BY <1>0, <1>1, <2>2, <2>3, PodMoves
<1>2. CASE NewSession
  <2>1. v[1] \in Calls /\ pc[v[1]] = "idle" /\ podObj[v] # "none"
    BY <1>2, K8sAssumption DEF NewSession, podVars
  <2> QED
    BY <1>0, <2>1 DEF PodsNumbered
<1> QED
  BY <1>1, <1>2, MCPStep

\* The inductive invariant of muto-mcp.
LEMMA MCPInvInit == MCPInit => MCPInv
<1> SUFFICES ASSUME MCPInit PROVE MCPInv
  OBVIOUS
<1>1. PodsConsistent
  BY PodsConsistentInit DEF MCPInit
<1> QED
  BY <1>1 DEF MCPInit, K8sInit, Init, PodInit, MCPInv, PastIsOver, PastPodsWereFirst, OneAgentEach, Live

\* Every step keeps the invariant.
LEMMA MCPInvStep == MCPInv /\ [MCPNext]_mcpVars => MCPInv'
<1> SUFFICES ASSUME MCPInv, [MCPNext]_mcpVars PROVE MCPInv'
  OBVIOUS
<1>0. PodsConsistent /\ PastIsOver /\ PastPodsWereFirst /\ OneAgentEach /\ TypeOK
  BY DEF MCPInv, PodsConsistent, Inv
<1>1. PodsConsistent'
  BY <1>0, MCPStep, PodsConsistentStep, NewSessionIsClean
<1>2. PastIsOver' /\ PastPodsWereFirst' /\ OneAgentEach'
  BY <1>0, PastIsOverStep, PastPodsWereFirstStep, OneAgentStep
<1>3. ASSUME NEW u \in UIDs, LiveNext(u) PROVE AccountedFor(u[1])' \/ u[1] \in past'
  <2>1. CASE [K8sNext]_allVars /\ past' = past
    BY <1>0, <1>3, <2>1, AgentKept DEF MCPInv
  <2>2. CASE NewSession
    <3>1. u[1] \in Calls /\ podObj[u] # "none"
      BY <1>3, <2>2, K8sAssumption DEF NewSession, podVars, LiveNext
    <3>2. pc[u[1]] # "idle"
      BY <1>0, <3>1 DEF PodsConsistent, PodsNumbered
    <3> QED
      BY <2>2, <3>1, <3>2 DEF NewSession
  <2> QED
    BY <2>1, <2>2, MCPStep
<1>4. \A u \in UIDs : Live(u)' => AccountedFor(u[1])' \/ u[1] \in past'
  BY <1>3 DEF Live, LiveNext
<1> QED
  BY <1>1, <1>2, <1>4 DEF MCPInv

\* Whatever tool calls run at the same time, fail and are repeated in a new session: a live
\* pod belongs to a call, a running job, a failed call or an earlier session, and the pods of
\* earlier sessions are older than any of this one.
THEOREM MCPInvariance == MCPSpec => []MCPInv
BY MCPInvInit, MCPInvStep, PTL DEF MCPSpec

\* Every agent that runs is listed, or its call failed in a way that the client was told of,
\* or it is of an earlier session.
THEOREM AgentsAreListed == MCPSpec => []RunningAgentsAreListed
<1>1. MCPInv => RunningAgentsAreListed
  <2> SUFFICES ASSUME MCPInv, NEW u \in UIDs, Live(u), u[1] \notin faulty \cup past
               PROVE  LET c == u[1] IN
                      \/ pc[c] \in {"setup", "reject"}
                      \/ res[c] = "scheduled" /\ job[c] \in ListActive(tenant[c])
    BY DEF RunningAgentsAreListed
  <2> DEFINE c == u[1]
  <2>0. /\ TypeOK /\ RecordsConsistent /\ LoopsConsistent /\ PodsNumbered
        /\ c \in Calls /\ AccountedFor(c) /\ want[c] <= 1
    BY K8sAssumption DEF MCPInv, PodsConsistent, Inv, OneAgentEach
  <2> HIDE DEF c
  <2>1. ASSUME res[c] = "spawnFailed" PROVE FALSE
    <3>1. Len(ids[c]) < want[c] /\ want[c] <= 1 /\ want[c] \in Nat /\ ids[c] \in Seq(AgentIDs)
      BY <2>0, <2>1 DEF LoopsConsistent, LoopConsistent, TypeOK
    <3>2. Len(ids[c]) = 0
      BY <3>1
    <3>3. u[2] \in DOMAIN ids[c]
      BY <2>0 DEF PodsNumbered, Live, c
    <3> QED
      BY <3>1, <3>2, <3>3
  <2>2. ASSUME res[c] = "scheduled", phase[job[c]] = "Running"
        PROVE  job[c] \in ListActive(tenant[c])
    <3>1. job[c] \in Jobs /\ owner[job[c]] = c /\ c # NoCall
      BY <2>0, <2>2, CallIsCall DEF RecordsConsistent
    <3> QED
      BY <2>2, <3>1 DEF ListActive, IsTerminal
  <2> QED
    BY <2>0, <2>1, <2>2 DEF AccountedFor, c
<1> QED
  BY <1>1, MCPInvariance, PTL

\* A job is reported Succeeded only if every agent of it succeeded, or was gone and a pod
\* that had taken its name succeeded before the watch looked.
THEOREM SuccessIsTrue == MCPSpec => []SucceededUnlessOvertaken
<1>1. MCPInv => SucceededUnlessOvertaken
  BY SucceededIsTrue DEF MCPInv
<1> QED
  BY <1>1, MCPInvariance, PTL

\* What the adapter's Delete stops, of whatever call and whoever has the name now.
LEMMA StopsOwn ==
  ASSUME MCPInv, [MCPNext]_mcpVars, NEW c \in Calls, NEW u \in UIDs, StoppedBy(c, u)
  PROVE  /\ u[1] \notin past
         /\ \/ u[1] = LoopOf(c)
            \/ \E v \in OwnPods(LoopOf(c)) : podName[v] = podName[u] /\ podObj[v] = "gone"
<1>0. /\ Inv /\ K8sTypeOK /\ PodsNumbered /\ NamesUnique /\ PastIsOver /\ PastPodsWereFirst
      /\ TypeOK /\ CallsConsistent /\ RecordsConsistent
  BY DEF MCPInv, PodsConsistent, Inv
<1>1. Live(u) /\ podObj'[u] = "deleting" /\ podObj[u] = "present"
  BY DEF StoppedBy, Live
<1>2. /\ next'[c] = next[c] + 1 \/ (res'[c] = "terminateFailed" /\ pc[c] = "terminate")
      /\ next[c] \in Nat
  BY <1>0 DEF StoppedBy, TypeOK
<1>3. [K8sNext]_allVars
  BY <1>1, MCPStep DEF NewSession, podVars
<1>4. ~UNCHANGED vars
  BY <1>0, <1>2 DEF vars, CallsConsistent, CallConsistent
<1>5. PICK d \in Calls : TerminateAgent(d) \/ TerminateNotFound(d) \/ TerminateFault(d)
  <2>1. ASSUME NEW d \in Calls, \/ LocalStep(d) \/ GoroutineStep(d) \/ SpawnConflict(d)
                                \/ \E i \in DOMAIN watch[d] : PollReports(d, i)
                                \/ \E j \in Jobs, t \in Tenants, n \in Sizes : ScheduleJob(d, j, t, n)
        PROVE  FALSE
    BY <1>1, <2>1 DEF LocalStep, GoroutineStep, SpawnConflict, PollReports, ScheduleJob, podVars
  <2>2. ASSUME NEW d \in Calls, SpawnAgent(d) \/ SpawnFault(d) PROVE FALSE
    BY <1>0, <1>1, <2>2 DEF SpawnAgent, SpawnFault, CreatePod, podVars, K8sTypeOK, PodTypeOK
  <2> QED
    BY <1>3, <1>4, <2>1, <2>2 DEF K8sNext, CallStep, WatcherStep, ClusterStep, allVars
<1>6. PICK v \in UIDs : Terminates(d, v)
  BY <1>0, <1>5, TerminateEffect
<1>7. d = c
  <2>1. TerminateReturns(d) \/ CleanupTerminate(d) \/ TerminateFails(d)
    BY <1>6 DEF Terminates
  <2>2. ASSUME d # c PROVE next'[c] = next[c] /\ res'[c] = res[c]
    BY <1>0, <2>1, <2>2 DEF TerminateReturns, CleanupTerminate, TerminateFails, Return, TypeOK
  <2> QED
    BY <1>0, <1>2, <2>2 DEF CallsConsistent, CallConsistent
<1>8. Exists(u) /\ podName[u] = podName[v]
  <2>1. UNCHANGED podVars \/ DeletePod(TargetName(d))
    BY <1>5 DEF TerminateAgent, TerminateNotFound, TerminateFault
  <2>2. u \in PodsAt(TargetName(d))
    BY <1>1, <2>1 DEF DeletePod, podVars
  <2> QED
    BY <1>6, <2>2 DEF PodsAt, Terminates
<1>9. v[1] = LoopOf(c) /\ v \in OwnPods(LoopOf(c)) /\ podObj[v] # "none" /\ v[1] \in Calls
  BY <1>6, <1>7 DEF Terminates, Reached, OwnPods
<1>10. v[1] \notin past
  <2>1. pc[LoopOf(c)] = "reject" \/ res[LoopOf(c)] = "scheduled"
    <3>1. CASE pc[c] = "reject"
      BY <3>1 DEF LoopOf
    <3>2. CASE pc[c] = "terminate"
      <4>1. rec[c] = owner[job[c]] /\ rec[c] # NoCall /\ job[c] \in Jobs
        BY <1>0, <3>2 DEF CallsConsistent, CallConsistent
      <4> QED
        BY <1>0, <3>2, <4>1 DEF LoopOf, RecordsConsistent, RecordConsistent
    <3> QED
      BY <1>6, <1>7, <3>1, <3>2 DEF Terminates
  <2> QED
    BY <1>0, <1>9, <2>1 DEF PastIsOver
<1>11. u[1] \notin past
  BY <1>0, <1>8, <1>9, <1>10 DEF PastPodsWereFirst
<1>12. CASE Exists(v)
  BY <1>0, <1>8, <1>9, <1>11, <1>12 DEF NamesUnique
<1>13. CASE ~Exists(v)
  <2>1. podObj[v] = "gone"
    BY <1>0, <1>9, <1>13 DEF Exists, K8sTypeOK, PodTypeOK
  <2> QED
    BY <1>8, <1>9, <1>11, <2>1
<1> QED
  BY <1>12, <1>13

\* A call stops its own agents, or one that took over the name of one that is gone; it never
\* stops an agent of an earlier session.
THEOREM StopsOnlyItsOwn == MCPSpec => StopsOwnOrSuccessor
<1> DEFINE Step == \A c \in Calls, u \in UIDs : StoppedBy(c, u) =>
                     LET r == IF pc[c] = "reject" THEN c ELSE rec[c] IN
                     /\ u[1] \notin past
                     /\ \/ u[1] = r
                        \/ \E v \in OwnPods(r) : podName[v] = podName[u] /\ podObj[v] = "gone"
<1>1. MCPInv /\ [MCPNext]_mcpVars => [Step]_mcpVars
  BY StopsOwn DEF LoopOf
<1> QED
  BY <1>1, MCPInvariance, PTL DEF MCPSpec, StopsOwnOrSuccessor

\* To a client a new session is one of a scheduler that starts again.
LEMMA NewSessionEndsTheLast ==
  ASSUME PodsConsistent, NewSession
  PROVE  Atomic!EndSession
<1>1. \A c \in Calls : pc[c] = "idle" <=> op[c] = "none"
  BY DEF PodsConsistent, Inv, CallsConsistent, CallConsistent, TypeOK
<1> QED
  BY <1>1 DEF NewSession, Atomic!EndSession, callVars

\* The tools show an atomic scheduler, session after session.
THEOREM SessionsAreAtomic == MCPSpec => AtomicSessions
<1>1. MCPInit => Atomic!Init
  BY DEF MCPInit, K8sInit, Init, Atomic!Init
<1>2. MCPInv /\ [MCPNext]_mcpVars => [Atomic!Next \/ Atomic!EndSession]_(Atomic!vars)
  <2> SUFFICES ASSUME MCPInv, [MCPNext]_mcpVars
               PROVE  [Atomic!Next \/ Atomic!EndSession]_(Atomic!vars)
    OBVIOUS
  <2>0. PodsConsistent /\ Inv
    BY DEF MCPInv, PodsConsistent
  <2>1. CASE [K8sNext]_allVars
    <3>1. [Next]_vars
      BY <2>0, <2>1, K8sStepIsStep DEF PodsConsistent
    <3> QED
      BY <2>0, <3>1, AtomicStep
  <2>2. CASE NewSession
    BY <2>0, <2>2, NewSessionEndsTheLast
  <2> QED
    BY <2>1, <2>2, MCPStep
<1> QED
  BY <1>1, <1>2, MCPInvariance, PTL DEF MCPSpec, AtomicSessions, Atomic!SessionsSpec
=============================================================================
