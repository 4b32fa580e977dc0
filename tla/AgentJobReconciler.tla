------------------------- MODULE AgentJobReconciler -------------------------
(***************************************************************************)
(* AgentJobReconciler (platform/k8s/reconcilers/agentjob_reconciler.go) in *)
(* the operator: it takes AgentJob resources through their phases, makes   *)
(* and removes their pods and keeps two gauges.  A step is one call of the *)
(* API server; reads come from informer caches that lag behind it, each in *)
(* its own time.  The controller has one worker.                           *)
(*                                                                         *)
(* The API server, the kubelet, the garbage collector, the caches and the  *)
(* work queue are external.  Objects are found by name; a name can be used *)
(* again, by an object with another uid.  Users create and delete jobs at  *)
(* any time, calls fail, the operator crashes, pods are evicted.  The      *)
(* Tenant, in contrast, is created at any time and never deleted, and is   *)
(* read as it is.                                                          *)
(***************************************************************************)
EXTENDS Lifecycle, Integers, FiniteSets, SequencesExt, TLC

CONSTANTS Jobs,          \* names of AgentJobs, each a sequence of words
          Agents,        \* Agents[j]: spec.agents, a sequence of [role, replicas]
          HasTTL,        \* HasTTL[j]: spec.ttlAfterCompletion > 0
          MaxUIDs,       \* bound on jobs ever created
          MaxFaults,     \* bound on failed API calls
          MaxAccidents   \* bound on restarts of the operator and pods deleted by others

ASSUME ReconcilerAssumption ==
  /\ IsFiniteSet(Jobs) /\ <<>> \notin Jobs /\ MaxUIDs \in Nat
  /\ \A j \in Jobs : Agents[j] \in Seq([role : Seq(STRING), replicas : Nat])

\* buildPod: the name of replica i of a role, word by word.
Replicas(a) == IF a.replicas = 0 THEN 1 ELSE a.replicas
PodName(j, a, i) == IF Replicas(a) > 1 THEN j \o a.role \o <<ToString(i - 1)>>
                                       ELSE j \o a.role
AgentPods(j) ==
  FlattenSeq([k \in DOMAIN Agents[j] |->
                [i \in 1..Replicas(Agents[j][k]) |-> PodName(j, Agents[j][k], i)]])

PodNames == UNION {Range(AgentPods(j)) : j \in Jobs}

UIDs == 1..MaxUIDs
NoJob == [uid |-> 0, version |-> 0, phase |-> "absent", active |-> 0]
NoPod == [owner |-> 0, job |-> <<>>, phase |-> "absent", deleting |-> FALSE]
Idle == [at |-> "idle", job |-> <<>>, obj |-> NoJob, create |-> <<>>, delete |-> {},
         verdict |-> "none"]

VARIABLES
  jobs, pods,       \* the objects in the API server, by name
  uids,             \* the last uid given to a job
  tenant,           \* whether the Tenant the jobs refer to exists
  seen, seenPods,   \* the informer caches of jobs and pods
  queue,            \* names of jobs to reconcile, now or after a delay
  work,             \* the reconcile in progress
  depth, agents,    \* gauges muto_job_queue_depth and muto_agents_running
  ends,             \* counter muto_jobs_total, by status
  expired,          \* uids of jobs whose TTL is over
  ended,            \* <<uid, pod name>> of pods that have succeeded
  settled,          \* <<uid, phase>> of jobs that have succeeded or failed
  disturbed,        \* uids of jobs whose pods were not, or not seen, as made
  skewed,           \* the gauges missed something
  faults, accidents

api == <<jobs, pods, uids, tenant>>
metrics == <<depth, agents, ends>>
operator == <<seen, seenPods, queue, work, metrics>>
history == <<expired, ended, settled, disturbed, skewed>>
bounds == <<faults, accidents>>
vars == <<api, operator, history, bounds>>

Ends == {"Succeeded", "Failed"}

JobObjects == [uid : {0} \cup UIDs, version : 0..4, phase : Phases \cup {"absent"},
               active : Nat]
PodObjects == [owner : {0} \cup UIDs, job : Jobs \cup {<<>>},
               phase : {"absent", "Running", "Succeeded", "Failed"}, deleting : BOOLEAN]

WorkObjects == [at : {"idle", "create", "finish", "expire", "delete"}, job : Jobs \cup {<<>>},
                obj : JobObjects, create : Seq(PodNames), delete : SUBSET PodNames,
                verdict : Ends \cup {"none"}]

JobsTypeOK ==
  /\ jobs \in [Jobs -> JobObjects] /\ seen \in [Jobs -> JobObjects]
  /\ uids \in 0..MaxUIDs /\ tenant \in BOOLEAN /\ queue \subseteq Jobs
PodsTypeOK == pods \in [PodNames -> PodObjects] /\ seenPods \in [PodNames -> PodObjects]
WorkTypeOK ==
  /\ work \in WorkObjects
  /\ work.at # "idle" => work.job \in Jobs /\ work.obj.uid \in UIDs
MetricsTypeOK == depth \in Int /\ agents \in Int /\ ends \in [Ends -> Nat]
HistoryTypeOK ==
  /\ expired \subseteq UIDs /\ ended \subseteq UIDs \X PodNames /\ settled \subseteq UIDs \X Ends
  /\ disturbed \subseteq UIDs /\ skewed \in BOOLEAN
  /\ faults \in Nat /\ accidents \in Nat
TypeOK == JobsTypeOK /\ PodsTypeOK /\ WorkTypeOK /\ MetricsTypeOK /\ HistoryTypeOK

Init ==
  /\ jobs = [j \in Jobs |-> NoJob] /\ seen = jobs
  /\ pods = [p \in PodNames |-> NoPod] /\ seenPods = pods
  /\ uids = 0
  /\ tenant \in BOOLEAN
  /\ queue = {}
  /\ work = Idle
  /\ depth = 0 /\ agents = 0 /\ ends = [v \in Ends |-> 0]
  /\ expired = {} /\ ended = {} /\ settled = {} /\ disturbed = {} /\ skewed = FALSE
  /\ faults = 0 /\ accidents = 0

Exists(o) == o.uid # 0

-----------------------------------------------------------------------------
(* Reconcile: the work queue hands out a name, the job is read from the cache *)

Begin(j) ==
  /\ work.at = "idle"
  /\ j \in queue
  /\ UNCHANGED <<api, seen, seenPods, metrics, bounds>>

\* Reconcile returns, and is not called again before something changes.
Return(j) == queue' = queue \ {j} /\ UNCHANGED <<work, history>>
\* Reconcile returns RequeueAfter or an error and is called again later.
ReturnLater(j) == UNCHANGED <<queue, work, history>>
\* Reconcile goes on to call the API server.
GoOn(j, place, w) ==
  /\ queue' = queue \ {j}
  /\ work' = [w EXCEPT !.at = place, !.job = j, !.obj = seen[j]]

Cached(j, p) == Begin(j) /\ seen[j].phase = p

NothingToDo(j) ==
  /\ Begin(j)
  /\ ~Exists(seen[j]) \/ (IsTerminal(seen[j].phase) /\ ~HasTTL[j])
  /\ Return(j)

TenantMissingIsDropped(j) == Cached(j, "Pending") /\ ~tenant /\ Return(j)
TenantMissing(j) == Cached(j, "Pending") /\ ~tenant /\ ReturnLater(j)

StartPending(j) ==
  /\ Cached(j, "Pending") /\ tenant
  /\ GoOn(j, "create", [Idle EXCEPT !.create = AgentPods(j)])
  /\ UNCHANGED history

\* The pods the cache holds with the label muto.io/job = j.
Listed(j) == {p \in PodNames : seenPods[p].job = j}

Done(p) == seenPods[p].phase \in {"Succeeded", "Failed"}
AllDone(j) == Listed(j) # {} /\ \A p \in Listed(j) : Done(p)
FailuresIgnored(j) == "Succeeded"
Verdict(j) == IF \E p \in Listed(j) : seenPods[p].phase = "Failed" THEN "Failed" ELSE "Succeeded"

\* No pods, or some not done: look again in a second or in five.
KeepWatching(j) == Cached(j, "Running") /\ ~AllDone(j) /\ ReturnLater(j)

\* The list misses or mistakes a pod that is in the API server.
StaleList(j) ==
  \E p \in PodNames : /\ j \in {pods[p].job, seenPods[p].job}
                      /\ pods[p].owner # seenPods[p].owner

StartFinish(j) ==
  /\ Cached(j, "Running") /\ AllDone(j)
  /\ GoOn(j, "finish", [Idle EXCEPT !.verdict = Verdict(j)])
  /\ disturbed' = IF StaleList(j) THEN disturbed \cup {seen[j].uid} ELSE disturbed
  /\ UNCHANGED <<expired, ended, settled, skewed>>

\* CompletedAt is set whenever the phase is terminal; its age is compared with the TTL.
AlwaysElapsed(o) == TRUE
TTLElapsed(o) == o.uid \in expired

TerminalInCache(j) == Begin(j) /\ IsTerminal(seen[j].phase) /\ HasTTL[j]

WaitForTTL(j) == TerminalInCache(j) /\ ~TTLElapsed(seen[j]) /\ ReturnLater(j)

StartExpire(j) ==
  /\ TerminalInCache(j) /\ TTLElapsed(seen[j])
  /\ GoOn(j, "expire", Idle)
  /\ UNCHANGED history

StartDelete(j) ==
  /\ Cached(j, "Terminating")
  /\ GoOn(j, "delete", [Idle EXCEPT !.delete = Listed(j)])
  /\ UNCHANGED history

Start(j) ==
  \/ NothingToDo(j) \/ TenantMissing(j) \/ StartPending(j) \/ KeepWatching(j)
  \/ StartFinish(j) \/ WaitForTTL(j) \/ StartExpire(j) \/ StartDelete(j)

-----------------------------------------------------------------------------
(* The API calls of a reconcile: what each does to the objects *)

\* Create of the next pod; AlreadyExists is ignored, whoever owns the pod.
PodCreated ==
  LET p == Head(work.create) IN
  pods' = IF pods[p] # NoPod THEN pods
          ELSE [pods EXCEPT ![p] = [owner |-> work.obj.uid, job |-> work.job,
                                    phase |-> "Running", deleting |-> FALSE]]

Adopts == pods[Head(work.create)].owner \notin {0, work.obj.uid}

\* Status().Update is refused unless the object is still the one that was read.
AnyVersion(o) == Exists(jobs[work.job])
Unchanged(o) == jobs[work.job].uid = o.uid /\ jobs[work.job].version = o.version

Written(o, ph, n) == [o EXCEPT !.phase = ph, !.active = n, !.version = @ + 1]
StatusWritten(ph, n) == jobs' = [jobs EXCEPT ![work.job] = Written(@, ph, n)]

PodDeleted(p) ==
  pods' = IF pods[p] = NoPod THEN pods ELSE [pods EXCEPT ![p].deleting = TRUE]

\* Delete by name, without a precondition on the uid.
JobDeleted == jobs' = [jobs EXCEPT ![work.job] = NoJob]

\* A reconcile ends: for good, or to be called again later.
End == work' = Idle /\ UNCHANGED queue
ErrorSwallowed == work' = Idle /\ UNCHANGED queue
EndLater == work' = Idle /\ queue' = queue \cup {work.job}

CreatePod ==
  /\ work.at = "create" /\ work.create # <<>>
  /\ PodCreated
  /\ work' = [work EXCEPT !.create = Tail(@)]
  /\ disturbed' = IF Adopts THEN disturbed \cup {work.obj.uid} ELSE disturbed
  /\ UNCHANGED <<jobs, uids, tenant, seen, seenPods, queue, metrics,
                 expired, ended, settled, skewed, bounds>>

\* The conflict is an error: the reconcile is tried again, and no gauge moves.
Conflict ==
  /\ \/ work.at = "create" /\ work.create = <<>>
     \/ work.at \in {"finish", "expire"}
  /\ ~Unchanged(work.obj)
  /\ EndLater
  /\ UNCHANGED <<api, seen, seenPods, metrics, history, bounds>>

\* A job starts with n agents; it finishes, as v, and n agents are taken back.
JobStarted(n) ==
  /\ depth' = depth + 1 /\ agents' = agents + n
  /\ UNCHANGED ends
JobFinished(v, n) ==
  /\ depth' = depth - 1 /\ agents' = agents - n
  /\ ends' = [ends EXCEPT ![v] = @ + 1]

\* The gauges move once the update has been accepted.
CountedBeforeTheUpdate ==
  /\ work.at = "create" /\ work.create = <<>>
  /\ IF Unchanged(work.obj) THEN StatusWritten("Running", Len(AgentPods(work.job))) /\ End
                            ELSE UNCHANGED jobs /\ EndLater
  /\ JobStarted(Len(AgentPods(work.job)))
  /\ UNCHANGED <<pods, uids, tenant, seen, seenPods, history, bounds>>
MarkRunning ==
  /\ work.at = "create" /\ work.create = <<>>
  /\ Unchanged(work.obj)
  /\ StatusWritten("Running", Len(AgentPods(work.job)))
  /\ JobStarted(Len(AgentPods(work.job)))
  /\ End
  /\ UNCHANGED <<pods, uids, tenant, seen, seenPods, history, bounds>>

\* The gauges take back what the job had been counted with.
MarkFinished ==
  /\ work.at = "finish"
  /\ Unchanged(work.obj)
  /\ StatusWritten(work.verdict, 0)
  /\ JobFinished(work.verdict, work.obj.active)
  /\ settled' = settled \cup {<<work.obj.uid, work.verdict>>}
  /\ IF HasTTL[work.job] THEN EndLater ELSE End
  /\ UNCHANGED <<pods, uids, tenant, seen, seenPods, expired, ended, disturbed, skewed,
                 bounds>>

MarkTerminating ==
  /\ work.at = "expire"
  /\ Unchanged(work.obj)
  /\ StatusWritten("Terminating", work.obj.active)
  /\ End
  /\ UNCHANGED <<pods, uids, tenant, seen, seenPods, metrics, history, bounds>>

\* The pod is deleted by name too: it may be that of a newer job.
DeletePod(p) ==
  /\ work.at = "delete" /\ p \in work.delete
  /\ PodDeleted(p)
  /\ disturbed' = disturbed \cup ({pods[p].owner} \ {0, work.obj.uid})
  /\ work' = [work EXCEPT !.delete = @ \ {p}]
  /\ UNCHANGED <<jobs, uids, tenant, seen, seenPods, queue, metrics,
                 expired, ended, settled, skewed, bounds>>

LosesRunning == jobs[work.job].phase = "Running"

DeleteJob ==
  /\ work.at = "delete" /\ work.delete = {}
  /\ JobDeleted
  /\ skewed' = (skewed \/ LosesRunning)
  /\ End
  /\ UNCHANGED <<pods, uids, tenant, seen, seenPods, metrics, expired, ended,
                 settled, disturbed, bounds>>

\* A call fails, with or without its effect; the reconcile ends with an error.
CallFails ==
  /\ work.at # "idle" /\ faults < MaxFaults
  /\ faults' = faults + 1
  /\ \/ UNCHANGED <<jobs, pods, settled, disturbed, skewed>>
     \/ /\ work.at = "create" /\ work.create # <<>>
        /\ PodCreated /\ UNCHANGED <<jobs, settled, disturbed, skewed>>
     \/ /\ work.at = "create" /\ work.create = <<>> /\ Unchanged(work.obj)
        /\ StatusWritten("Running", Len(AgentPods(work.job)))
        /\ skewed' = TRUE /\ UNCHANGED <<pods, settled, disturbed>>
     \/ /\ work.at = "finish" /\ Unchanged(work.obj)
        /\ StatusWritten(work.verdict, 0)
        /\ settled' = settled \cup {<<work.obj.uid, work.verdict>>}
        /\ skewed' = TRUE /\ UNCHANGED <<pods, disturbed>>
     \/ /\ work.at = "expire" /\ Unchanged(work.obj)
        /\ StatusWritten("Terminating", work.obj.active)
        /\ UNCHANGED <<pods, settled, disturbed, skewed>>
     \/ \E p \in work.delete :
          /\ PodDeleted(p)
          /\ disturbed' = disturbed \cup ({pods[p].owner} \ {0, work.obj.uid})
          /\ UNCHANGED <<jobs, settled, skewed>>
     \/ /\ work.at = "delete" /\ work.delete = {}
        /\ JobDeleted
        /\ skewed' = (skewed \/ LosesRunning) /\ UNCHANGED <<pods, settled, disturbed>>
  /\ EndLater
  /\ UNCHANGED <<uids, tenant, seen, seenPods, metrics, expired, ended,
                 accidents>>

APICall ==
  \/ CreatePod \/ Conflict \/ MarkRunning \/ MarkFinished \/ MarkTerminating
  \/ (\E p \in PodNames : DeletePod(p)) \/ DeleteJob

-----------------------------------------------------------------------------
(* Caches, queue, time, restarts *)

SyncJob(j) ==
  /\ seen[j] # jobs[j]
  /\ seen' = [seen EXCEPT ![j] = jobs[j]]
  /\ queue' = queue \cup {j}
  /\ UNCHANGED <<api, seenPods, work, metrics, history, bounds>>

\* A change of a pod wakes the job that owns it, by name.
SyncPods ==
  /\ seenPods # pods
  /\ seenPods' = pods
  /\ queue' = queue \cup
       ((UNION {{pods[p].job, seenPods[p].job} : p \in {q \in PodNames : pods[q] # seenPods[q]}})
          \ {<<>>})
  /\ UNCHANGED <<api, seen, work, metrics, history, bounds>>

TTLPasses(j) ==
  /\ HasTTL[j]
  /\ IsTerminal(jobs[j].phase)
  /\ jobs[j].uid \notin expired
  /\ expired' = expired \cup {jobs[j].uid}
  /\ UNCHANGED <<api, operator, ended, settled, disturbed, skewed, bounds>>

\* The gauges live in the process; a new process lists everything again.
OperatorRestarts ==
  /\ accidents < MaxAccidents
  /\ accidents' = accidents + 1
  /\ work' = Idle
  /\ seen' = jobs /\ seenPods' = pods
  /\ queue' = {j \in Jobs : Exists(jobs[j])}
  /\ depth' = 0 /\ agents' = 0 /\ ends' = [v \in Ends |-> 0]
  /\ skewed' = TRUE
  /\ UNCHANGED <<api, expired, ended, settled, disturbed, faults>>

-----------------------------------------------------------------------------
(* Users and the cluster *)

UserCreates(j) ==
  /\ ~Exists(jobs[j]) /\ uids < MaxUIDs
  /\ uids' = uids + 1
  /\ jobs' = [jobs EXCEPT ![j] = [uid |-> uids + 1, version |-> 1, phase |-> "Pending",
                                  active |-> 0]]
  /\ UNCHANGED <<pods, tenant, operator, history, bounds>>

UserDeletes(j) ==
  /\ Exists(jobs[j])
  /\ jobs' = [jobs EXCEPT ![j] = NoJob]
  /\ skewed' = (skewed \/ jobs[j].phase = "Running")
  /\ UNCHANGED <<pods, uids, tenant, operator, expired, ended, settled, disturbed, bounds>>

TenantCreated ==
  /\ ~tenant /\ tenant' = TRUE
  /\ UNCHANGED <<jobs, pods, uids, operator, history, bounds>>

PodExits(p, s) ==
  /\ pods[p].phase = "Running"
  /\ pods' = [pods EXCEPT ![p].phase = s]
  /\ ended' = IF s = "Succeeded" THEN ended \cup {<<pods[p].owner, p>>} ELSE ended
  /\ UNCHANGED <<jobs, uids, tenant, operator, expired, settled, disturbed, skewed, bounds>>

PodRemoved(p) ==
  /\ pods[p].deleting
  /\ pods' = [pods EXCEPT ![p] = NoPod]
  /\ UNCHANGED <<jobs, uids, tenant, operator, history, bounds>>

PodEvicted(p) ==
  /\ accidents < MaxAccidents
  /\ accidents' = accidents + 1
  /\ pods[p] # NoPod /\ ~pods[p].deleting
  /\ pods' = [pods EXCEPT ![p].deleting = TRUE]
  /\ disturbed' = disturbed \cup {pods[p].owner}
  /\ UNCHANGED <<jobs, uids, tenant, operator, expired, ended, settled, skewed, faults>>

\* The garbage collector deletes a pod whose owner is gone.
PodCollected(p) ==
  /\ pods[p] # NoPod /\ ~pods[p].deleting
  /\ \A j \in Jobs : jobs[j].uid # pods[p].owner
  /\ pods' = [pods EXCEPT ![p].deleting = TRUE]
  /\ UNCHANGED <<jobs, uids, tenant, operator, history, bounds>>

Environment ==
  \/ \E j \in Jobs : UserCreates(j) \/ UserDeletes(j) \/ TTLPasses(j)
  \/ TenantCreated
  \/ \E p \in PodNames : \/ \E s \in {"Succeeded", "Failed"} : PodExits(p, s)
                         \/ PodRemoved(p) \/ PodEvicted(p) \/ PodCollected(p)

Next ==
  \/ \E j \in Jobs : Start(j) \/ SyncJob(j)
  \/ APICall \/ CallFails \/ SyncPods \/ OperatorRestarts
  \/ Environment

Spec == Init /\ [][Next]_vars

\* The worker goes on, the queue is first in first out and delays end, caches catch
\* up.  Nothing is assumed of users, tenants, agents or the TTL.
FairSpec ==
  /\ Spec
  /\ WF_vars(APICall) /\ WF_vars(SyncPods)
  /\ \A j \in Jobs : SF_vars(Start(j)) /\ WF_vars(SyncJob(j))

-----------------------------------------------------------------------------
(* Properties *)

RunningJobs == {j \in Jobs : jobs[j].phase = "Running"}

\* The metrics follow the jobs however stale the caches are and however often an update
\* is refused and tried again: the queue depth is that of the Running jobs, the agents are
\* those that their status gives as active, and each end is counted once and as what it was.
\* (Those are the agents a job was started with: one that has ended stays counted until all
\* have, where the metric's help text says "currently running".)  They go wrong only by a
\* restart, by the deletion of a Running job, or by an update whose answer was lost.
MetricsFollowJobs ==
  ~skewed =>
    /\ depth = Cardinality(RunningJobs)
    /\ agents = SumFunctionOnSet([j \in Jobs |-> jobs[j].active], RunningJobs)
    /\ \A v \in Ends : ends[v] = Cardinality({u \in UIDs : <<u, v>> \in settled})

\* The reconciler implements the life of a job resource as AgentJobs has it: a job seen
\* through its phase is created, starts, settles, expires and goes.  A stale reconcile, a
\* retry, a restart or a job created anew never takes it back or past a phase.
JobLife == INSTANCE AgentJobs WITH phase <- [j \in Jobs |-> jobs[j].phase]
AgentJobsSpec == JobLife!Spec

AllSucceeded(j) == \A p \in Range(AgentPods(j)) : <<jobs[j].uid, p>> \in ended

\* "Succeeded: All agents completed successfully" is wrong in these ways only: a pod
\* was deleted under the job, a pod of another job or of an earlier one of the same
\* name was taken for its own, or the pod cache was behind when the pods were listed.
SucceededUnlessDisturbed ==
  \A j \in Jobs :
    jobs[j].phase = "Succeeded" => AllSucceeded(j) \/ jobs[j].uid \in disturbed

\* A step in which the operator's delete call removes job j.
OperatorDeletes(j) == work.at = "delete" /\ work'.at = "idle" /\ jobs'[j] # jobs[j]

\* The operator deletes a job only for one whose TTL is over.  (It deletes by name: a job
\* created under that name while the cache shows the expired one goes in its place.)
DeletesForExpired ==
  [][\A j \in Jobs : OperatorDeletes(j) => work.obj.uid \in expired]_vars

IsIn(j, u, p) == jobs[j].uid = u /\ jobs[j].phase = p

\* A job whose Tenant is there does not stay Pending, although nothing wakes the
\* reconciler when a Tenant is created.
PendingJobStarts ==
  \A j \in Jobs, u \in UIDs : tenant /\ IsIn(j, u, "Pending") ~> ~IsIn(j, u, "Pending")

\* A Running job with pods of its label that have all ended does not stay Running.
EndedJobFinishes ==
  \A j \in Jobs :
    []<>~(/\ jobs[j].phase = "Running"
          /\ \E p \in PodNames : pods[p].job = j
          /\ \A p \in PodNames : pods[p].job = j => pods[p].phase # "Running")

\* A job whose TTL is over is removed, through any failure and restart.
ExpiredJobIsRemoved ==
  \A j \in Jobs, u \in UIDs :
    (jobs[j].uid = u /\ u \in expired) ~> jobs[j].uid # u

-----------------------------------------------------------------------------
(* The inductive invariant behind them *)

\* The version counts the phases a job has been through, so that an old copy with the version
\* of the job is in its phase.
Rank(p) == CASE p = "absent" -> 0 [] p = "Pending" -> 1 [] p = "Running" -> 2
             [] p \in Ends -> 3 [] OTHER -> 4

\* o is the job j, or a copy of it or of an earlier one of that name.
CopyOf(j, o) ==
  /\ o.version = Rank(o.phase) /\ (Exists(o) <=> o.phase # "absent") /\ o.uid <= uids
  /\ o.phase = "Running" => o.active = Len(AgentPods(j))
  /\ o.phase = "Terminating" => o.uid \in expired
  /\ Exists(o) /\ jobs[j].uid = o.uid => o.version <= jobs[j].version
CopiesConsistent == \A j \in Jobs : CopyOf(j, jobs[j]) /\ CopyOf(j, seen[j])

\* The pod p, or a copy of it or of an earlier one of that name.
PodIs(p, o) ==
  /\ o.owner = 0 => o = NoPod
  /\ o.owner <= uids
  /\ o.phase = "Succeeded" => <<o.owner, p>> \in ended
PodsConsistent == \A p \in PodNames : PodIs(p, pods[p]) /\ PodIs(p, seenPods[p])

\* A uid stands for one name, in jobs, in their copies and on the pods made for them.
HeldBy(u, n) ==
  \/ n \in Jobs /\ u \in {jobs[n].uid, seen[n].uid}
  \/ \E p \in PodNames : \/ u = pods[p].owner /\ n = pods[p].job
                         \/ u = seenPods[p].owner /\ n = seenPods[p].job
  \/ work.at # "idle" /\ u = work.obj.uid /\ n = work.job
UIDsNameOne ==
  \A u \in UIDs, m, n \in Jobs \cup {<<>>} : HeldBy(u, m) /\ HeldBy(u, n) => m = n

\* A settled job stays so; its end has been noted once.
SettledOnce ==
  \A u \in UIDs, v \in Ends : <<u, v>> \in settled =>
    u <= uids /\ \A j \in Jobs : jobs[j].uid = u => jobs[j].version >= 3

\* A pod is deleted under its job by an accident, or by the job's own end.
DeletingExplained ==
  \A p \in PodNames, j \in Jobs :
    pods[p].deleting /\ pods[p].owner = jobs[j].uid =>
      jobs[j].uid \in disturbed \/ jobs[j].phase = "Terminating"

PodsInPlace ==
  \A j \in Jobs : jobs[j].phase = "Running" /\ jobs[j].uid \notin disturbed =>
    \A p \in Range(AgentPods(j)) : pods[p].owner = jobs[j].uid

WorkConsistent ==
  /\ work.at # "idle" => CopyOf(work.job, work.obj)
  /\ work.at = "create" => work.obj.phase = "Pending"
  /\ work.at = "finish" => work.obj.phase = "Running" /\ work.verdict \in Ends
  /\ work.at = "expire" => work.obj.phase \in Ends /\ work.obj.uid \in expired
  /\ IF work.at = "delete" THEN work.obj.phase = "Terminating" ELSE work.delete = {}

\* What the work in progress has made is there, and what it has seen was so, unless the job
\* has been disturbed or has gone on without it.
Undisturbed == Unchanged(work.obj) /\ work.obj.uid \notin disturbed
MadeSoFar ==
  work.at = "create" /\ Undisturbed =>
    \A p \in Range(AgentPods(work.job)) :
      p \in Range(work.create) \/ pods[p].owner = work.obj.uid
VerdictTrue ==
  work.at = "finish" /\ work.verdict = "Succeeded" /\ Undisturbed =>
    \A p \in Range(AgentPods(work.job)) : <<work.obj.uid, p>> \in ended

JobsInv == JobsTypeOK /\ CopiesConsistent /\ SettledOnce
PodsInv ==
  PodsTypeOK /\ PodsConsistent /\ DeletingExplained /\ PodsInPlace /\ SucceededUnlessDisturbed
WorkInv == WorkTypeOK /\ WorkConsistent /\ MadeSoFar /\ VerdictTrue

JobInv == JobsInv /\ PodsInv /\ WorkInv /\ UIDsNameOne /\ MetricsTypeOK /\ HistoryTypeOK
=============================================================================
