--------------------------- MODULE SchedulerOnK8s ---------------------------
(***************************************************************************)
(* DefaultScheduler over K8sAdapter (platform/k8s/adapter.go), as          *)
(* cmd/muto-mcp wires them: every adapter call of module Scheduler is      *)
(* joined with what it does to the pods.  The agent that call c spawns     *)
(* i-th is the pod <<c, i>>; its AgentID is the pod NAME, muto-<tenant>-   *)
(* <role>, so agents of different jobs and attempts can share an AgentID.  *)
(*                                                                         *)
(* API calls can fail, before or after taking effect; pods can be deleted  *)
(* by others.  Faults and evictions are bounded.                           *)
(***************************************************************************)
EXTENDS Scheduler, K8sPods

CONSTANTS Tenants,       \* values of job.Spec.TenantRef, as their dash-separated words
          Role,          \* Role[j][i]: the role of agent i of job j, likewise
          MaxFaults,     \* bound on failed API calls
          MaxEvictions   \* bound on pods deleted by others

\* The pod name, fmt.Sprintf("muto-%s-%s", tenant, role), word by word.
PodName(t, r) == <<"muto">> \o t \o r

NoTenant == <<>>

\* The name of a pod follows from the tenant, the job and the agent's place in it.
ASSUME K8sAssumption ==
  /\ UIDs \subseteq Calls \X Nat
  /\ \A c \in Calls, n \in Sizes : {c} \X (1..n) \subseteq UIDs
  /\ \A t \in Tenants, j \in Jobs, n \in Sizes : \A i \in 1..n : PodName(t, Role[j][i]) \in Names
  /\ Names \subseteq AgentIDs

VARIABLES
  tenant,   \* tenant[c]: the tenant of the job that call c schedules
  faults, evictions,
  faulty,   \* calls one of whose API calls failed although it could have worked
  standIns  \* <<u, v>>: the watch of agent u has reported the end of pod v

envVars == <<tenant, faults, evictions, faulty, standIns>>
allVars == <<vars, podVars, envVars>>

AgentName(c, i) == PodName(tenant[c], Role[job[c]][i])

K8sTypeOK ==
  /\ TypeOK /\ PodTypeOK
  /\ tenant \in [Calls -> Tenants \cup {NoTenant}]
  /\ \A c \in Calls : op[c] = "schedule" => tenant[c] \in Tenants
  /\ faulty \subseteq Calls
  /\ standIns \subseteq UIDs \X UIDs

K8sInit ==
  /\ Init /\ PodInit
  /\ tenant = [c \in Calls |-> NoTenant]
  /\ faults = 0 /\ evictions = 0 /\ faulty = {} /\ standIns = {}

Fault(c) ==
  /\ faults < MaxFaults
  /\ faults' = faults + 1
  /\ faulty' = faulty \cup {c}
  /\ UNCHANGED <<tenant, evictions, standIns>>

\* The job and its TenantRef come with the call.
ScheduleJob(c, j, t, n) ==
  /\ ScheduleCall(c, j, n)
  /\ tenant' = [tenant EXCEPT ![c] = t]
  /\ UNCHANGED <<podVars, faults, evictions, faulty, standIns>>

-----------------------------------------------------------------------------
(* SpawnAgent *)

NextAgent(c) == Len(ids[c]) + 1

SpawnAgent(c) ==
  /\ Spawning(c)
  /\ LET n == AgentName(c, NextAgent(c)) IN
       /\ CreatePod(<<c, NextAgent(c)>>, n)
       /\ SpawnReturns(c, n)
  /\ UNCHANGED envVars

\* AlreadyExists: the name is taken, by whatever job's pod.
AdoptsExisting(c) ==
  /\ Spawning(c)
  /\ PodsAt(AgentName(c, NextAgent(c))) # {}
  /\ SpawnReturns(c, AgentName(c, NextAgent(c)))
  /\ UNCHANGED <<podVars, envVars>>
SpawnConflict(c) ==
  /\ SpawnFails(c)
  /\ PodsAt(AgentName(c, NextAgent(c))) # {}
  /\ UNCHANGED <<podVars, envVars>>

\* The request fails, or its answer is lost after the pod was created.
SpawnFault(c) ==
  /\ SpawnFails(c)
  /\ \/ UNCHANGED podVars
     \/ CreatePod(<<c, NextAgent(c)>>, AgentName(c, NextAgent(c)))
  /\ Fault(c)

-----------------------------------------------------------------------------
(* TerminateAgent, from Cancel and from the cleanup of a rejected Schedule *)

TargetName(c) == ids[IF pc[c] = "reject" THEN c ELSE rec[c]][next[c] + 1]

TerminateAgent(c) ==
  /\ TerminateReturns(c) \/ CleanupTerminate(c)
  /\ DeletePod(TargetName(c))
  /\ UNCHANGED envVars

\* NotFound: an error for Cancel, ignored by the cleanup.
TerminateNotFound(c) ==
  /\ TerminateFails(c) \/ CleanupTerminate(c)
  /\ PodsAt(TargetName(c)) = {}
  /\ UNCHANGED <<podVars, envVars>>

TerminateFault(c) ==
  /\ TerminateFails(c) \/ CleanupTerminate(c)
  /\ UNCHANGED podVars \/ DeletePod(TargetName(c))
  /\ Fault(c)

-----------------------------------------------------------------------------
(* WatchAgent: each poll is a Get by name.  It never returns an error. *)

\* What the poll of a pod reports, "none" if it goes on polling.  No pod of that
\* name is taken for a pod that was deleted.
PollNotFoundCompletes(n) ==
  IF \A u \in PodsAt(n) : podRun[u] = "Succeeded" THEN "Completed"
  ELSE IF \E u \in PodsAt(n) : podRun[u] = "Failed" THEN "Failed" ELSE "none"
Poll(n) ==
  IF PodsAt(n) = {} THEN "Failed"
  ELSE LET p == podRun[CHOOSE u \in PodsAt(n) : TRUE] IN
       CASE p = "Succeeded" -> "Completed" [] p = "Failed" -> "Failed" [] OTHER -> "none"

\* A Get with a cancelled context fails and the watch ends: WatchClose.  An answer
\* that came in before may still be sent afterwards; nothing tells that from an event
\* sent at once, since only watchJob looks at the channel.  A transient error is
\* followed by another poll.
PollReports(c, i) ==
  /\ c \notin ctxDone
  /\ Poll(ids[c][i]) # "none"
  /\ WatchEvent(c, i, Poll(ids[c][i]))
  /\ standIns' = standIns \cup ({<<c, i>>} \X (PodsAt(ids[c][i]) \ {<<c, i>>}))
  /\ UNCHANGED <<podVars, tenant, faults, evictions, faulty>>

-----------------------------------------------------------------------------
\* Steps of Schedule, Cancel and watchJob that call no adapter method.
LocalStep(c) ==
  /\ \/ WatchReturns(c)
     \/ \E ph \in InputPhases : Register(c, ph) \/ RejectPhase(c, ph)
     \/ RejectDuplicate(c) \/ CleanupReturn(c)
     \/ \E j \in Jobs : CancelNotFound(c, j) \/ CancelLookup(c, j)
     \/ CommitCancel(c)
  /\ UNCHANGED <<podVars, envVars>>

GoroutineStep(c) ==
  /\ \/ \E i \in DOMAIN watch[c] : WatchClose(c, i) \/ Collect(c, i)
     \/ CollectEOF(c) \/ Finish(c)
  /\ UNCHANGED <<podVars, envVars>>

CallStep(c) ==
  \/ \E j \in Jobs, t \in Tenants, n \in Sizes : ScheduleJob(c, j, t, n)
  \/ LocalStep(c)
  \/ SpawnAgent(c) \/ SpawnConflict(c) \/ SpawnFault(c)
  \/ TerminateAgent(c) \/ TerminateNotFound(c) \/ TerminateFault(c)

WatcherStep(c) ==
  \/ \E i \in DOMAIN watch[c] : PollReports(c, i)
  \/ GoroutineStep(c)

ClusterStep ==
  /\ UNCHANGED vars
  /\ \E u \in UIDs :
       \/ (PodRemoved(u) \/ \E s \in {"Succeeded", "Failed"} : PodExits(u, s))
          /\ UNCHANGED envVars
       \/ /\ evictions < MaxEvictions
          /\ PodEvicted(u)
          /\ evictions' = evictions + 1
          /\ UNCHANGED <<tenant, faults, faulty, standIns>>

K8sNext == (\E c \in Calls : CallStep(c) \/ WatcherStep(c)) \/ ClusterStep

K8sSpec == K8sInit /\ [][K8sNext]_allVars

\* Goroutines that can go on eventually do, and the kubelet stops a deleted pod.
\* Nothing makes an agent end by itself.
K8sFairSpec ==
  /\ K8sSpec
  /\ \A c \in Calls : WF_allVars(CallStep(c) /\ pc[c] # "idle")
  /\ \A c \in Calls : WF_allVars(GoroutineStep(c))
  /\ \A c \in Calls : WF_allVars(WatcherStep(c))
  /\ \A u \in UIDs : WF_allVars(UNCHANGED <<vars, envVars>> /\ PodRemoved(u))

-----------------------------------------------------------------------------
(* Properties *)

OwnPods(c) == {c} \X DOMAIN ids[c]

\* A pod that still runs, and that nobody has asked to stop, belongs to an
\* invocation in progress or to a Running job, with two exceptions: a Schedule that
\* failed to spawn a later agent forgets the earlier ones, and a rejected Schedule
\* ignores a failed TerminateAgent.  In particular a job that is Terminating,
\* Succeeded or Failed has no agent left running, although pods are watched and
\* deleted by a name that another attempt can have taken over.
AccountedFor(c) ==
  \/ pc[c] \in {"setup", "reject"}
  \/ res[c] = "scheduled" /\ phase[job[c]] = "Running"
  \/ res[c] = "spawnFailed"
  \/ c \in faulty
LiveAgentsAreAccountedFor == \A u \in UIDs : Live(u) => AccountedFor(u[1])

\* Pod u was deleted and gone, and another had taken its name, when its watch looked
\* again: the watch reported that one, which had exited with success.
Overtaken(u) ==
  /\ podObj[u] = "gone"
  /\ \E v \in UIDs \ {u} : <<u, v>> \in standIns /\ podRun[v] = "Succeeded"

\* A job reported Succeeded ran to its end, each of its own pods exited with success,
\* except in one way: a pod was deleted and another took its name before the next
\* poll, and the watch reported that one, truly, in its place.
SucceededUnlessOvertaken ==
  \A j \in Jobs : phase[j] = "Succeeded" =>
    \A u \in OwnPods(owner[j]) : podRun[u] = "Succeeded" \/ Overtaken(u)

\* A job does not stay Running when no pod that runs answers to the names of its agents,
\* whatever Cancel calls fail half-way: its watches report and watchJob settles it.
EndedJobSettles ==
  \A j \in Jobs :
    []<>~(/\ phase[j] = "Running"
          /\ \A u \in OwnPods(owner[j]) : \A v \in PodsAt(podName[u]) : podRun[v] # "Running")

\* A watch ends when its job is cancelled or its Schedule returns an error: no
\* goroutine polls for ever for a job nobody tracks, and watchJob returns.
CancelledWatchesEnd ==
  \A c \in Calls :
    (\E j \in Jobs : phase[j] = "Terminating" /\ owner[j] = c)
      \/ (op[c] = "schedule" /\ pc[c] = "returned" /\ res[c] # "scheduled")
    ~> /\ \A i \in DOMAIN watch[c] : watch[c][i] # "polling"
       /\ wpc[c] # "collect"

-----------------------------------------------------------------------------
(* The inductive invariant behind these properties *)

\* The pods of a call's agent list are its own, in order; it created no other pod unless
\* an API call failed.
PodsNumbered ==
  /\ \A c \in Calls : \A i \in DOMAIN ids[c] :
       <<c, i>> \in UIDs /\ podName[<<c, i>>] = ids[c][i] /\ podObj[<<c, i>>] # "none"
  /\ \A u \in UIDs :
       IF podObj[u] = "none" THEN podName[u] = NoName
       ELSE /\ podName[u] # NoName
            /\ pc[u[1]] # "idle"
            /\ u[2] \in DOMAIN ids[u[1]] \/ u[1] \in faulty

\* The API server gives a name to one object at a time.
NamesUnique ==
  \A u, v \in UIDs : Exists(u) /\ Exists(v) /\ podName[u] = podName[v] => u = v

\* What a watch has reported is so, and stays so, unless another pod took the name.
ReportsTrue ==
  \A c \in Calls : \A i \in DOMAIN watch[c] :
    /\ watch[c][i] \in Sent \cup Counted => ~Live(<<c, i>>)
    /\ watch[c][i] \in {"Completed", "gotCompleted"} =>
         podRun[<<c, i>>] = "Succeeded" \/ Overtaken(<<c, i>>)

\* The agents that a termination loop has passed do not run any more; the cleanup of a
\* rejected Schedule ignores a failed call.
LoopsStop ==
  \A c \in Calls :
    /\ pc[c] = "reject" => c \in faulty \/ \A i \in 1..next[c] : ~Live(<<c, i>>)
    /\ pc[c] = "terminate" => \A i \in 1..next[c] : ~Live(<<rec[c], i>>)

\* No watch fails to start: WatchAgent only starts a goroutine.
WatchesStart == \A c \in Calls : res[c] # "watchFailed"

PodsConsistent ==
  /\ K8sTypeOK
  /\ Inv
  /\ PodsNumbered
  /\ NamesUnique
  /\ ReportsTrue
  /\ LoopsStop
  /\ WatchesStart

K8sInv == PodsConsistent /\ LiveAgentsAreAccountedFor
=============================================================================
