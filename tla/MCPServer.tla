----------------------------- MODULE MCPServer -----------------------------
(***************************************************************************)
(* muto-mcp: the tools of mcp/server and mcp/tools over DefaultScheduler   *)
(* and K8sAdapter.  A client calls tools concurrently and ends the session *)
(* at any time; the process then exits, with its job table and its         *)
(* watches, and the client may start another.  The pods stay.              *)
(*                                                                         *)
(* schedule_agent_job always asks for one agent of role "worker": the pod  *)
(* name is that of the tenant, for all its jobs.                           *)
(***************************************************************************)
EXTENDS SchedulerOnK8s

CONSTANTS Requests,     \* calls of schedule_agent_job: [job, tenant, args, ttl]
          MaxSessions   \* bound on sessions after the first

VARIABLES past,         \* calls of earlier sessions
          sessions

mcpVars == <<allVars, past, sessions>>

RequiredArgs == {"job_id", "tenant_id", "image", "trigger_source"}

\* The TTL is below 0, in 0..2147483647, or above.
TTLs == {"negative", "int32", "above"}

ASSUME MCPAssumption ==
  /\ 1 \in Sizes
  /\ Requests \subseteq [job : Jobs, tenant : Tenants, args : SUBSET RequiredArgs, ttl : TTLs]
  /\ MaxSessions \in Nat

MCPInit == K8sInit /\ past = {} /\ sessions = 0

-----------------------------------------------------------------------------
(* The tools *)

\* Anything else is answered with an error and changes nothing.  The scheduler takes
\* the TTL into the job and never looks at it again.
Accepted(r) == r.args = RequiredArgs /\ r.ttl = "int32"

HandleScheduleAgentJob(c) ==
  \E r \in Requests : Accepted(r) /\ ScheduleJob(c, r.job, r.tenant, 1)

HandleCancelJob(c) ==
  /\ \E j \in Jobs : CancelNotFound(c, j) \/ CancelLookup(c, j)
  /\ UNCHANGED <<podVars, envVars>>

\* get_job_status, list_active_agents and describe_tenant read the table.  The tenant of a
\* job is that of the call that registered it, whatever others have asked for since.
GetJobStatus(j) == phase[j]
ListActive(t) == {j \in Jobs : /\ owner[j] # NoCall
                               /\ tenant[owner[j]] = t
                               /\ ~IsTerminal(phase[j])}
DescribeTenant(t) == [tenantId |-> t, activeJobs |-> Cardinality(ListActive(t))]

ToolStep(c) ==
  \/ HandleScheduleAgentJob(c) \/ HandleCancelJob(c)
  \/ pc[c] # "idle" /\ CallStep(c)

-----------------------------------------------------------------------------
\* The session ends, and with it the process: calls, watches and table are gone, and what
\* a call was about to return or had returned is known to nobody.  A new process starts
\* with an empty table.
NewSession ==
  /\ sessions < MaxSessions
  /\ sessions' = sessions + 1
  /\ past' = {c \in Calls : pc[c] # "idle"}
  /\ owner' = [j \in Jobs |-> NoCall]
  /\ phase' = [j \in Jobs |-> "absent"]
  /\ pc' = [c \in Calls |-> IF pc[c] = "idle" THEN "idle" ELSE "returned"]
  /\ res' = [c \in Calls |-> IF pc[c] = "idle" THEN "none" ELSE "sessionEnded"]
  /\ rec' = [c \in Calls |-> NoCall] /\ next' = [c \in Calls |-> 0]
  /\ ctxDone' = {}
  /\ watch' = [c \in Calls |-> <<>>]
  /\ wpc' = [c \in Calls |-> "off"]
  /\ completed' = [c \in Calls |-> 0] /\ failed' = [c \in Calls |-> 0]
  /\ UNCHANGED <<callVars, ids, podVars, envVars>>

MCPNext ==
  \/ ((\E c \in Calls : ToolStep(c) \/ WatcherStep(c)) \/ ClusterStep)
       /\ UNCHANGED <<past, sessions>>
  \/ NewSession

MCPSpec == MCPInit /\ [][MCPNext]_mcpVars

-----------------------------------------------------------------------------
(* Properties *)

\* Every agent that runs, and that nobody has asked to stop, belongs to a call in
\* progress or to a job that list_active_agents shows for the tenant the call named, with
\* three exceptions: a Schedule that failed after creating the pod forgets it, a rejected
\* Schedule ignores a failed TerminateAgent, and a new session knows nothing of the ones
\* before it.
RunningAgentsAreListed ==
  \A u \in UIDs : Live(u) =>
    LET c == u[1] IN
    \/ pc[c] \in {"setup", "reject"}
    \/ res[c] = "scheduled" /\ job[c] \in ListActive(tenant[c])
    \/ c \in faulty \cup past

\* Pod u stopped running at the request of call c.
StoppedBy(c, u) ==
  /\ Live(u) /\ podObj'[u] = "deleting"
  /\ next'[c] = next[c] + 1 \/ (res'[c] = "terminateFailed" /\ pc[c] = "terminate")

\* What a call stops is an agent of the Schedule it works on, or one that has taken
\* over the pod name of such an agent, which is gone: that of another job of the tenant
\* then.  An agent of an earlier session is never stopped, nor one that was there first.
StopsOwnOrSuccessor ==
  [][\A c \in Calls, u \in UIDs : StoppedBy(c, u) =>
       LET r == IF pc[c] = "reject" THEN c ELSE rec[c] IN
       /\ u[1] \notin past
       /\ \/ u[1] = r
          \/ \E v \in OwnPods(r) : podName[v] = podName[u] /\ podObj[v] = "gone"]_mcpVars

\* What a client sees of its jobs through the tools is an atomic scheduler, with an empty
\* table at the start of each session: concurrent tool calls, pods that share a name and
\* sessions cut off in the middle of a call show nothing else.
AtomicSessions == Atomic!SessionsSpec

-----------------------------------------------------------------------------
(* The inductive invariant behind these properties *)

\* The calls of earlier sessions are over.
PastIsOver ==
  /\ past \subseteq Calls
  /\ \A c \in past : pc[c] = "returned" /\ res[c] = "sessionEnded"

\* A pod that this session created under the name of an earlier one has found it gone.
PastPodsWereFirst ==
  \A u, v \in UIDs :
    /\ u[1] \in past /\ v[1] \notin past
    /\ podObj[v] # "none" /\ podName[u] = podName[v]
    => ~Exists(u)

\* schedule_agent_job asks for one agent.
OneAgentEach == \A c \in Calls : want[c] <= 1

MCPInv ==
  /\ PodsConsistent
  /\ PastIsOver
  /\ PastPodsWereFirst
  /\ OneAgentEach
  /\ \A u \in UIDs : Live(u) => AccountedFor(u[1]) \/ u[1] \in past
=============================================================================
