# A TLA+ development of Muto

Muto runs jobs of AI agents on Kubernetes or Cloud Foundry. This directory holds
TLA+ modules that model its scheduler, platform adapters, MCP tools, reconcilers,
message buses and processes, TLC configurations that check them on small instances,
and TLAPS proofs of their safety properties. Paths below are relative to the
repository root.

Run a check with `tlc -config X.cfg M`, the proofs of a module `MProofs` with `tlapm MProofs.tla`.
`PROJECT.json` lists the components, the runs, the source lines each definition
models, mutations that each property must detect, findings, hazards and theorems.

## The system

Two processes do the work.

**muto-mcp** (`cmd/muto-mcp`) serves MCP tools over stdio. Each tool makes one call
of `DefaultScheduler`, which keeps its jobs in a map in memory and starts, watches
and stops agents through a `PlatformAdapter`.

**muto-operator** (`cmd/muto-operator`) runs three controllers on the custom
resources AgentJob, Tenant and AgentFleet. They work on the API server directly,
with reads from informer caches; they do not use `DefaultScheduler`.

| component | state | operations | interacts with |
|---|---|---|---|
| lifecycle (`core/agent/types.go`, `core/scheduler/statemachine.go`) | - | `IsTerminal`, `Transition` | used by the scheduler |
| `DefaultScheduler` (`core/scheduler/scheduler.go`) | `jobs`: record of job, agent IDs, `cancelWatch` | `Schedule`, `Cancel`, `Status`, `ListActive`; goroutine `watchJob` per job | calls the adapter outside its lock; receives its events on channels |
| Kubernetes adapter (`platform/k8s/adapter.go`) | - (pods) | `SpawnAgent`, `TerminateAgent`, `WatchAgent` (a polling goroutine) | API server, by pod name |
| Cloud Foundry adapter (`platform/cf`) | GUID cache with a TTL | the same; `resolveSpaceGUID`, `ensureRunnerApp` | Cloud Controller |
| MCP server and tools (`mcp`) | - | five tools, called concurrently | the scheduler |
| AgentJob reconciler (`platform/k8s/reconcilers/agentjob_reconciler.go`) | AgentJob status, pods; gauges and counters | `Reconcile`, one branch per phase | API server, caches, work queue, garbage collector |
| Tenant reconciler (`platform/k8s/reconcilers/tenant_reconciler.go`) | Tenant status and finalizer, namespace, Secret, Deployment, Service | `Reconcile`, `finalizeTenant` | the same |
| AgentFleet reconciler (`platform/k8s/reconcilers/agentfleet_reconciler.go`) | AgentFleet status | `Reconcile` | reads AgentJobs, whose phases the AgentJob reconciler writes |
| Kafka bus, NATS bus (`core/messaging`) | connections; map from topic to subscription | constructor by registry, `Publish`, `Subscribe` with goroutine or callback, `Close` | client libraries; event watchers subscribe |
| process entry points, exporters, shutdown (`cmd`, `core/tracing`, `core/metrics`, `core/shutdown`) | list of callbacks, exporters | `run`, `Init`, `All` | signals, collectors |
| topic and tenant validation, A2A client, logging, environment | none | - | - |

What is hard in it:

* `Schedule` and `Cancel` release the lock around adapter calls, so two calls for
  one job, or a call and `watchJob`, interleave between the calls; any call can
  fail with part of the work done.
* Kubernetes objects are found by name, and names are reused: by another job, by
  a second attempt, or by an object created again after its deletion. All jobs of
  a tenant that come through MCP share one pod name.
* A session of muto-mcp forgets its jobs when it ends; the pods stay.
* The reconcilers act on caches that lag behind the API server, each at its own
  pace, and are called again after every error, conflict or restart.
* API calls fail, with or without having taken effect; pods are deleted by others.
* Subscriptions end, are replaced and closed by three parties at once; handlers fail.
* A step of the start fails, a collector hangs, signals come at any time.

What makes each part correct:

* scheduler: one accepted `Schedule` per job ID, Cancel is final, a running job is
  always watched, and the outcome is what the agents reported;
* adapters and tools: no agent is left running that nobody accounts for or lists, no
  call stops an agent it has no claim to, and `Succeeded` is what the agents, or who
  stood in for them, have done; on Cloud Foundry an agent runs in its own tenant's space,
  and fails to start only for a reason of its own;
* AgentJob reconciler: jobs live as `AgentJobs` says, metrics follow the jobs, `Succeeded`
  is what the pods that were seen have done, only expired jobs are deleted, and jobs make
  progress;
* AgentFleet reconciler: a status belongs to the list of jobs it is written for, and
  catches up with the jobs;
* Tenant reconciler: the gateway goes before its Tenant (the namespace stays), `Ready`
  is true unless the reconciler was misled, and Tenants become ready or go;
* buses: Close closes what it could know of, what ends is over, messages are handled;
* processes: what was recorded is flushed at exit, and the process does exit.

## Modules

| module | models | composed of |
|---|---|---|
| `Lifecycle` | phases and transition table | |
| `AtomicScheduler` | what the scheduler promises: each call is one step | `Lifecycle` |
| `Scheduler` | `DefaultScheduler` over an arbitrary adapter | `Lifecycle`; implements `AtomicScheduler` |
| `SchedulerProofs` | theorems about `Scheduler`, for any adapter | `Scheduler` |
| `K8sPods` | pods of a namespace (external) | |
| `SchedulerOnK8s` | `Scheduler` with `K8sAdapter` | `Scheduler`, `K8sPods` |
| `MCPServer` | the tools of muto-mcp, and its sessions | `SchedulerOnK8s`; implements `AtomicScheduler` with sessions |
| `MCPServerProofs` | theorems about `SchedulerOnK8s` and `MCPServer` | `MCPServer`, `SchedulerProofs` |
| `SchedulerOnCF` | `Scheduler` with `CFAdapter` on tasks | `Scheduler` |
| `SchedulerOnCFProofs` | theorems about it | `SchedulerOnCF`, `SchedulerProofs` |
| `CFPlacement` | where `CFAdapter.SpawnAgent` starts a task; the GUID cache | |
| `CFPlacementProofs` | theorems about it | `CFPlacement` |
| `AgentJobs` | what the operator promises of AgentJobs: their phases | `Lifecycle` |
| `AgentJobReconciler` | the reconciler with API server, caches, users | `Lifecycle`; implements `AgentJobs` (`INSTANCE AgentJobs WITH phase <- ...`) |
| `AgentJobProofs` | theorems about it | `AgentJobReconciler` |
| `AgentFleetReconciler` | likewise for an AgentFleet, with several operators | its members are an instance of `AgentJobs` |
| `AgentFleetProofs` | theorems about it | `AgentFleetReconciler` |
| `TenantReconciler` | likewise for Tenants | |
| `TenantProofs` | theorems about it | `TenantReconciler` |
| `MessageBus` | what the two buses share | |
| `KafkaBus`, `NATSBus` | the one and the other | `MessageBus` |
| `Buses` | `NewBus` and the users of the bus it makes | instances of both |
| `Process` | `run()` of both programs, exporters, `shutdown.All` | |
| `CoreProofs` | theorems about both | `Buses`, `Process` |

`MC...` modules hold the values of constants. Definitions whose name says how they
differ from the next one (`NoDuplicateCheck`, `AnyVersion`, `FinalizerFirst`, ...) are
mutated forms of that definition and are used by no specification.

### Scheduler

An invocation of `Schedule` or `Cancel` is a member of `Calls`, used once. `pc`,
`res`, `ids`, `next` are its position, outcome, `agentIDs` and loop index. `owner[j]`
is the Schedule call whose record is `s.jobs[j]`; `phase[j]` that record's phase;
`ctxDone` the calls whose `cancelWatch` was called; `wpc`, `completed`, `failed` the
`watchJob` goroutine. A step is one adapter call, one critical section or one step
of a goroutine:

* `ScheduleCall`, `SpawnReturns`/`SpawnFails` (the spawn loop), `WatchReturns`/
  `WatchFails` (the watch loop), `Register` or `RejectDuplicate`/`RejectPhase` (the
  section under the lock), `CleanupTerminate`, `CleanupReturn`;
* `CancelNotFound`/`CancelLookup` (first section), `TerminateReturns`/
  `TerminateFails` (the loop), `CommitCancel` (second section);
* `WatchEvent`, `WatchClose` (a watch), `Collect`, `CollectEOF`, `Finish` (`watchJob`).

The forwarding goroutines of `watchJob` are folded into `Collect`: the results channel
has room for two events per agent and both adapters send at most one. The test that
the record is still there (scheduler.go:138 and :210) always succeeds, because nothing
deletes a record.

### SchedulerOnK8s, SchedulerOnCF

Adapter calls become joint steps of the scheduler and the platform. A pod is
`<<call, index>>`; its AgentID is its name, `muto-<tenant>-<role>`, held as a sequence
of dash-separated words. A task is `<<call, index>>` and its GUID is never reused. The
text of a Cloud Foundry error is the set of its words, since `isTerminalTaskError`
decides by them. API calls fail before or after taking effect, at most `MaxFaults`
times; pods are deleted by others at most `MaxEvictions` times. An event that a watch
sends after its context was cancelled is not told apart from one sent just before:
only `watchJob` reads it and either is legal there.

On Kubernetes `tenant[c]` is the tenant that a Schedule names; the same job can be asked
for with another tenant. `standIns` remembers which pods a watch has reported in place of
its own. On Cloud Foundry an ended task stays known to the API (by default it is pruned
after a month): a `404` occurs only as a call that fails.

### MCPServer

`HandleScheduleAgentJob` and `HandleCancelJob` check their arguments (`Accepted`) and
start a call of the scheduler, for any job with any tenant; `GetJobStatus`, `ListActive` and `DescribeTenant` are
what the reading tools answer. A scheduled job has one agent of role `worker`, so its
pod name is that of the tenant, and a job is listed for the tenant of the call that
registered it. `NewSession` ends the process at any time: calls,
watches and table are gone, calls under way have the outcome `sessionEnded`, and `past`
remembers the calls for the properties. `AtomicScheduler!SessionsSpec` promises the same
as `AtomicScheduler!Spec`, and a table that starts empty with each session.

### CFPlacement

One step per cache access or API call of `resolveSpaceGUID`, `ensureRunnerApp` and
`RunTask`, for concurrent calls. Each API call can fail, with or without having taken
effect (`LookupFails`, `PushFails`, `RunTaskFails`); every error of `GetAppByName` is taken
for an app that is not there (`AppNotReturned`, `AppMissing`), as in
`platform/cf/adapter.go:151`. Orgs and spaces are deleted and made again under new GUIDs,
cache entries expire at any time. The isolation tier is chosen initially.

### The reconcilers

`jobs`, `pods` (`tenants`, `things`, `fleet`) are the objects in the API server, with
uid and version; `seen...` the caches; `queue` (`queued`) the work queue, in which a
name that is to be retried or looked at again later stays; `work` the reconcile in
progress, with the copy of the object it read. Reading the cache and choosing the
branch is one step (`Start`, `Begin`); each API call is another, and the fleet's
members are read one step each. `Unchanged` is the optimistic lock of `Update`;
`Delete` has none, as in the code. An AgentJob's empty phase and `Pending` are one
value, as they are one case of the switch. All jobs refer to one Tenant, which is
created at any time and then stays, and is read as it is; specs of jobs do not change, the list of a fleet does. `ended`,
`settled`, `disturbed`, `skewed`, `named`, `misled` and `countedRefs` record history for
the properties; `expired` also stands for the clock. `depth`, `agents` and `ends` are the
Prometheus gauges and the counter of ended jobs. `misled` holds the Tenants for which a
deleted thing was taken for present, and those that lost one to another's deletion.

The operator is deployed with a configurable number of replicas
(`deploy/helm/muto/templates/deployment-operator.yaml:9`) and `newManager`
(`cmd/muto-operator/main.go:41`) configures no leader election. `AgentFleetReconciler`
has therefore a set of `Operators`, each with its own caches, queue and work, whose
updates conflict with each other. The other two reconcilers have one operator at a time.

Only fleets are watched by the fleet controller. What wakes it for a member is the
informer's periodic `Resync` (ten hours by default).

### MessageBus, KafkaBus, NATSBus, Buses

`conns` are the connections that `New` opens and `Close` closes. A member of `Subs` is
one call of `Subscribe`; `Track` is its second half, which enters it in the map. On
Kafka, `HandleMessage`, `Leave` and `Untrack` are its goroutine and the deferred
function; on NATS, `Callback` is a delivery, first or repeated. `CloseTracked` and
`CloseConnection(s)` are the two halves of `Close`. The brokers can refuse a `Subscribe`
of an open bus. `robbed` (whose entry another's deferred function removed) and `late` (who
had not come to the map when Close took the lock) record history. A handler is one step: a delivery
that is repeated because an acknowledgement was late is left out, and so is a message
that a Kafka goroutine takes out of the channel of a consumer just closed.

### Process

`todo` is what is left of the start, `shutdowns` the list of callbacks, `exporter[e]`
what has become of an exporter: `closed`, or `lost` when its flush failed. `RunReturns`
is the deferred closure, which reads the list when `run` returns. `DeadlinePasses` is
the five seconds, taken to be enough for a collector that answers. `RunInit`, `RunNext`
and `RunSpec` are the initial states, steps and behaviours of `run()`.

## Runs

Deadlock checking is off throughout: every instance has a bounded number of calls,
objects or failures, after which the system rightly rests.

| run | instance | states | properties |
|---|---|---|---|
| `mcp` | 2 jobs, 2 tenants, 3 tool calls; 2 of: 1 fault, 1 foreign deletion, 1 new session | 1 394 288 | `RunningAgentsAreListed`, `SucceededUnlessOvertaken`, `StopsOwnOrSuccessor`, `AtomicSessions` (refinement) |
| `k8s_liveness` | 1 job, 1 or 2 agents, 2 calls, 1 fault, 1 foreign deletion | 212 146 | `LiveAgentsAreAccountedFor`, `EndedJobSettles`, `CancelledWatchesEnd` |
| `cf` | 1 job, 3 calls, 2 faults, legal and illegal input phase; up to 2 agents for one Schedule, 1 when several race | 344 418 | `CFInv`, `AtMostOneScheduled`, `RunningIsWatched`, `CancelSticks`, `RunningTasksAreAccountedFor`, `CancelFailsOnlyOnFault`, `SucceededTasks`, `AtomicSpec` (refinement) |
| `cf_placement` | 3 spawns of 2 tenants, both tiers, at least one re-creation, 1 failed API call | 3 519 268 | `PlacementInv`, `TasksInOwnSpace`, `FailureIsExplained` |
| `job_names` | 2 jobs with one pod name, or one created twice; 1 restart or eviction | 4 988 707 | `MetricsFollowJobs`, `SucceededUnlessDisturbed`, `AgentJobsSpec` (refinement), `DeletesForExpired` |
| `job` | 1 job of 2 pods, 1 fault or 1 restart | 643 081 | `JobInv`, `PendingJobStarts`, `EndedJobFinishes`, `ExpiredJobIsRemoved` |
| `tenant` | 2 creations in one namespace: a Tenant with gateway and again the same, with 1 fault and 1 restart, or another without gateway | 114 953 | `TenantInv`, `ReadyUnlessMisled`, `NothingIsLeftBehind`, `TenantSettles`, `DeletedTenantGoes` |
| `buses` | either bus, 2 subscriptions to a topic, 3 messages, 2 handler errors | 263 753 | `LostOnlyIfRobbed`, `CloseMissesOnlyLate`, `DoneMeansEnded`, `EventuallyHandled` |
| `fleet` | a fleet of 1 or 3 references to 2 jobs, 2 edits, 1 fault, 1 restart; or 2 operators, 1 or no references to 1 job, 2 edits, 3 versions | 742 753 | `FleetIsNotForgotten`, `StatusIsForItsRefs`, `FleetCatchesUp` |
| `process` | both programs, any endpoints and collectors, 2 signals, 1 restart | 4 936 | `FlushedAtExit`, `ProcessSettles` |
| `cancel_twice` | 1 job, the scheduler alone | - | `CancelIsIdempotent` is violated |
| `cf_cancel_text` | as `cf`, one agent | - | `CancelledJobHasStopped` is violated |

`CFInv`, `PlacementInv`, `JobInv` and `TenantInv` are inductive invariants, which the
proofs need; each contains the type invariant of its module, and `CFInv` contains `Inv`,
that of the scheduler. The others (`K8sInv`, `MCPInv`, `FleetInv`, `BusesInv`,
`ProcessInv`) hold in the instances of `mcp`, `fleet`, `buses` and `process`
too; they are in no run, since they are proved.

### Why these bounds

Three calls are the smallest number with two actors on either side of a third: two
Schedules racing a Cancel, or a Cancel repeated while the job ends. Two agents are
needed for a loop that stops in the middle. Two uids make every confusion between
an object and its namesake. One fault and one restart, at any step, are enough for
every single interruption; `cf` has two, so that a retry can fail as well. Two
subscriptions to a topic are one that is replaced and its successor; three messages
let one be refused, one be handled and one be published later. A fleet that names a
job twice counts it twice. Two operators whose caches differ overwrite each other's
counts until the caches agree, so that no bound on edits bounds the versions of a fleet:
the constraint `SmallInstances` does, and gives two operators no faults and a job that
does not end. Three versions are a creation, a count and an edit or a second count,
each in conflict with what the other operator is about to write. What is proved
(below) holds for all bounds. Calls are symmetric where a run checks no liveness.

Where all that the constants allow together is more than TLC can go through, a run has
constraints, and shows less than its constants say:

* `cf`: several Schedule calls only with one agent each (`RacesAreSmall`).
* `mcp`: of a failed call, a foreign deletion and a new session two happen, not all three
  (`TwoAccidents`).
* `job`: a failed call or a restart, not both (`OneMishap`), and no eviction
  (`NoEviction`); `job_names` has evictions.
* `tenant`: the first Tenant has a gateway (`GatewayFirst`); when the second has another
  name, so that there are two reconciles to interleave, nothing fails (`CalmTogether`).
* `fleet`: `SmallInstances`, above. Liveness is cut at the third version with two
  operators, and is complete with one.

### Fairness

* `K8sFairSpec`: weak fairness of each call in progress, each watch and each
  `watchJob` (goroutines that can run do run, adapter calls return), and of the
  kubelet stopping a deleted pod. No agent has to end by itself and nobody has to
  call anything.
* `FairSpec` of the AgentJob and Tenant reconcilers: weak fairness of the API calls of
  a reconcile in progress and of the caches; strong fairness of `Start` for each name,
  because the work queue hands out names in order and delays end, while another
  name's reconcile disables it again and again. Nothing is assumed of users, agents,
  the TTL or the garbage collector.
* `FairSpec` of the AgentFleet reconciler: weak fairness of each operator's reconcile,
  caches and resync (`MCFairSpec`: of each operator that is deployed). Nothing is assumed of users, members and restarts.
* `FairSpec` of `Buses`: weak fairness of goroutines, callbacks and of a Close that has
  begun; strong fairness of `Leave`, because `select` chooses among the cases that are
  ready at random and so takes a done context in the end. Nobody has to close anything.
* `RunFairSpec` of `Process`: weak fairness of `run` and its callbacks. Nothing ends
  serving and nothing starts the process again.

### What the runs show

The two violations are disagreements with the text of the repository:

* `docs/api-reference/mcp-tools.md:460` calls cancelling idempotent; a second Cancel
  is refused, because the table has no transition from `Terminating`.
* `platform/cf/adapter.go:65` says that errors of ended tasks are swallowed; so is
  every error whose text contains "failed", and the task runs on while the job is
  `Terminating`.

Several passing properties hold with a named exception. Each exception is a
behaviour of the code, reachable in the model, that a reader should know:

* `SucceededUnlessOvertaken` (mcp-tools.md:242): a watch follows a pod *name*
  (`platform/k8s/adapter.go:73`). When the pod is deleted and another takes the name
  before the next poll, that one's success is reported; only such a pod excuses a
  `Succeeded`, not one that had the name earlier or later.
* `FailureIsExplained`: a failed lookup of the runner app is taken for a missing app
  (`platform/cf/adapter.go:151`), and the push of an app that exists fails the spawn; so
  does the second push of two concurrent spawns, and a GUID cached for a place that is
  gone.
* `StopsOwnOrSuccessor`: in the same way a Cancel, once the job's own pod is gone,
  stops the pod of another job of the tenant (`mcp/server/server.go:170`).
* `RunningAgentsAreListed`, `LiveAgentsAreAccountedFor`, `RunningTasksAreAccountedFor`:
  a Schedule that fails to spawn its second agent leaves the first running
  (`scheduler.go:53`); a refused Schedule ignores failed terminations (`:84`, `:101`);
  a new session of muto-mcp knows none of the agents of the last; on Cloud Foundry one
  failed `GetTask` makes a running task count as failed (`platform/cf/adapter.go:89`).
* `SucceededUnlessDisturbed` (`docs/api-reference/crd-types.md:121`): an AgentJob
  counts as Succeeded when the pods the cache *shows* have succeeded
  (`agentjob_reconciler.go:93`), and takes a pod of its name for its own (`:65`).
* `DeletesForExpired` (crd-types.md:111): the expired job is deleted by name
  (`:157`), so a job just created under that name goes in its place.
* `MetricsFollowJobs`: the gauges drift by a restart, by the deletion of a Running job and
  by an update whose answer is lost.
* `EndedJobFinishes`: a Running job whose pods are all gone stays Running.
* `NothingIsLeftBehind`: the namespace stays, as `docs/configuration/multi-tenant-setup.md:62`
  says it does.
* `ReadyUnlessMisled` (multi-tenant-setup.md:7): a Tenant can be Ready without a gateway
  when the cache still showed that of an earlier Tenant (`tenant_reconciler.go:164`), or
  when another Tenant of the namespace was deleted, since the names of the gateway's
  objects are fixed (`:121`); nothing watches the gateway.
* `LostOnlyIfRobbed` (`core/messaging/kafka/kafka.go:75`): a subscription that ends
  removes the map entry of a newer one to its topic, and Close misses that one.
* `CloseMissesOnlyLate`: on Kafka such a consumer, and one whose Subscribe had not come to
  the map when Close emptied it, is still open after Close. (On NATS a subscription that
  was replaced in the map ends with the connection, which is the library's doing.)
* `EventuallyHandled`: on Kafka only messages of partition 0 after the start, and each
  once, whatever its handler returned (`kafka.go:61`, `:85`); on NATS the end of the
  context does not stop a subscription (`nats.go:55`).
* `FlushedAtExit`: a second signal to the operator, or one that comes before the
  handler is installed, ends the process without a flush.

Places where the text of the repository and the code differ, seen while modelling and
not made runs of:

* `platform/k8s/metrics/metrics.go:42`, `core/metrics/metrics.go:94`,
  `docs/operations/monitoring-observability.md:111`, `agentjob_types.go:78` and
  crd-types.md:129 speak of agents *currently running*. `activeAgents` and the gauge are
  the agents that were started, all of them, until all have ended (`agentjob_reconciler.go:70`,
  `:103`).
* crd-types.md:237 has `status.ready` mean that RBAC and a dedicated message bus are
  provisioned, crd-types.md:229 promises a NATS StatefulSet or Kafka broker. The code makes
  a namespace and, for type `a2a`, a gateway; multi-tenant-setup.md:12 and :35 say so.
* mcp-tools.md:439 gives an error for cancelling an ended job; Cancel takes it to
  Terminating (`statemachine.go:31`).
* `docs/api/reconcilers.md:52` names changes of member jobs as a trigger of the fleet
  reconciler; `SetupWithManager` watches fleets only.
* `mcp/server/server.go:67` describes `ttl` as the time "before cleanup"; the scheduler
  never reads `TTLAfterCompletion`.
* `docs/api/index.md:132` promises at-least-once delivery; Kafka's is not.
* `docs/api-reference/message-api.md:402` promises order within a topic; a message
  that a NATS handler has refused comes again after later ones.
* `mcp/server/server.go:104` describes `describe_tenant` by tier, bus, namespace and
  readiness; it returns the number of active jobs and a note.

## Proofs

All safety properties and refinements that the passing runs check are proved for every
value of the constants. There are any number of jobs, calls, agents, tenants, fleet
operators, faults, restarts, evictions and objects created anew.

| module | theorem | states |
|---|---|---|
| `SchedulerProofs` | `Invariance`, `TypeCorrect` | `Spec => []Inv`, `Spec => []TypeOK` |
| | `OneScheduleWins` | `Spec => []AtMostOneScheduled` |
| | `NoRunningJobIsForgotten` | `Spec => []RunningIsWatched` |
| | `OutcomeIsReported` | `Spec => []OutcomeMatchesEvents` |
| | `CancelIsFinal` | `Spec => []CancelSticks` |
| | `PhasesFollowTheTable` | `Spec => PhaseFollowsTable` |
| | `SchedulerIsAtomic` | `Spec => AtomicSpec` |
| `SchedulerOnCFProofs` | `CFInvariance` | `CFSpec => []CFInv` |
| | `CFIsScheduler`, `CFIsAtomic` | `CFSpec => Spec`, `CFSpec => AtomicSpec` |
| | `NoTaskIsForgotten` | `CFSpec => []RunningTasksAreAccountedFor` |
| | `CancelFailsOnFault` | `CFSpec => []CancelFailsOnlyOnFault` |
| | `SucceededIsTrue` | `CFSpec => []SucceededTasks` |
| `MCPServerProofs` | `K8sInvariance` | `K8sSpec => []K8sInv` |
| | `K8sIsScheduler`, `K8sIsAtomic` | `K8sSpec => Spec`, `K8sSpec => AtomicSpec` |
| | `NoAgentIsForgotten` | `K8sSpec => []LiveAgentsAreAccountedFor` |
| | `MCPInvariance` | `MCPSpec => []MCPInv` |
| | `AgentsAreListed` | `MCPSpec => []RunningAgentsAreListed` |
| | `SuccessIsTrue` | `MCPSpec => []SucceededUnlessOvertaken` |
| | `StopsOnlyItsOwn` | `MCPSpec => StopsOwnOrSuccessor` |
| | `SessionsAreAtomic` | `MCPSpec => AtomicSessions` |
| `CFPlacementProofs` | `PlacementInvariance` | `Spec => []PlacementInv` |
| | `AgentsRunAtHome` | `Spec => []TasksInOwnSpace` |
| | `FailuresHaveReasons` | `Spec => []FailureIsExplained` |
| `AgentJobProofs` | `JobInvariance`, `JobTypeCorrect` | `Spec => []JobInv`, `Spec => []TypeOK` |
| | `SucceededIsEarned` | `Spec => []SucceededUnlessDisturbed` |
| | `MetricsFollow` | `Spec => []MetricsFollowJobs` |
| | `ReconcilerIsAgentJobs` | `Spec => AgentJobsSpec` |
| | `DeletedWhenExpired` | `Spec => DeletesForExpired` |
| `TenantProofs` | `TenantInvariance` | `Spec => []TenantInv` |
| | `ReadyUnlessMisledHolds` | `Spec => []ReadyUnlessMisled` |
| | `TenantsLeaveNothing` | `Spec => NothingIsLeftBehind` |
| `AgentFleetProofs` | `FleetInvariance` | `Spec => []FleetInv` |
| | `FleetIsRemembered` | `Spec => []FleetIsNotForgotten` |
| | `StatusFitsItsRefs` | `Spec => StatusIsForItsRefs` |
| `CoreProofs` | `BusesInvariance` | `Spec => []BusesInv` |
| | `OnlyTheRobbedAreLost` | `Spec => []LostOnlyIfRobbed` |
| | `CloseClosesWhatItKnew` | `Spec => []CloseMissesOnlyLate` |
| | `ProcessInvariance` | `RunSpec => []ProcessInv` |
| | `ExitFlushes` | `RunSpec => []FlushedAtExit` |

### Assumptions

Each module names what it assumes of its constants; TLC evaluates it in every run.
`SchedulerAssumption`: sizes are naturals, phases are phases or empty, and the two null
values are none of the calls and jobs. `K8sAssumption`, `CFAssumption`: an agent is
named by its call and its index, and the names of pods are agent IDs.
`PlacesAssumption`: each tenant has an org and a space at the start, every place once.
`ReconcilerAssumption`: finitely many jobs, each with a list of agents in natural
numbers; the empty name is no job's. `TenantAssumption`, `FleetAssumption`,
`BusAssumption`, `NameAssumption`: null values are apart, bounds are naturals, partition
0 is one of the topic's.

### Inductive invariants

`Inv` (scheduler) adds to the properties what they need of each other.
`CallsConsistent` ties a call's position, kind and outcome, and says that a Cancel
between its two critical sections still holds the stored record. `RecordsConsistent`
makes records and accepted Schedule calls describe each other; one accepted call per
job follows. `CancelledConsistent` says that the watches of a stored record are
cancelled only when its job is Terminating; without it a watch could close early and
`watchJob` give up on a Running job. `CountersConsistent` equates the two counters
with the number of watches whose event was taken; without it `Finish` could not tell
that *every* agent has reported. `WatchesConsistent` gives `watchJob` one watch per
agent. There is one lemma per conjunct, with one step per action; `RegisterEffect`,
`CommitEffect` and `FinishEffect` say once what the three writes to the table do, and
the `Positions...` lemmas are the cardinality facts behind the counters. Refinement
(`AtomicStep`) maps every variable to itself; adapter calls and goroutine steps
stutter, and `Inv` supplies that an accepted Schedule finds no record and that a Cancel
decides on the record it has looked up.

`CFInv` and `K8sInv` add a platform. That a step on the platform is one of the scheduler
(`CFIsScheduler`, `K8sIsScheduler`) needs `TasksNumbered`/`PodsNumbered`: the n-th agent
of a call is what its n-th `SpawnAgent` has made. `ReportsTrue` says that what a watch
has sent, or `watchJob` has counted, is so and stays so; `LoopsStop` that the agents
which a loop of terminations has passed no longer run. From both it follows that a
running job's agents are the only ones left over when a call returns. On Kubernetes
`NamesUnique` is what makes deletion by name stop an agent of the call's own or its
successor.

`MCPInv` keeps of this what survives a new session, in which the scheduler's `Inv` holds
again from the start: calls of earlier sessions are over (`PastIsOver`), and a pod that
this session has made under the name of an earlier one has found it gone
(`PastPodsWereFirst`). `StopsOnlyItsOwn` needs the latter. For `SessionsAreAtomic` a
step of a session is one of `AtomicScheduler` by `AtomicStep`, since `Inv` holds in each,
and `NewSessionEndsTheLast` maps the end of a session to `EndSession`.

`PlacementInv` rests on what cannot become stale: a GUID stands for one place for ever.
So what a call has resolved (`OrgsResolved`, `SpacesResolved`) and what the cache holds
(`CacheTrue`) is right even when the place has been deleted. `PlacesUnique`,
`TenantsPlaced`, `AppsPushed` and `AppsStay` are for `FailureIsExplained`: a place that is
not found has been deleted, and an app that is in the way of a push was pushed by another
call for the same runner.

`JobInv` compares four views of a job: the API server's, the cache's, that of the work in
progress and the owners of pods. The version counts the phases a job has been through, so
a copy that still has the version of the job is in its phase (`CopyOf`), which is why an
update that is accepted (`AcceptedMeans`) is a step of `AgentJobs`. `UIDsNameOne` keeps a
uid to one name, so that no pod of an earlier job of a name counts for a later one.
`PodsInPlace`, `MadeSoFar`, `VerdictTrue` and `DeletingExplained` follow the pods from
their creation to the verdict; each has the exception `disturbed`. `SettledOnce` is for
the counter of ended jobs. `MetricsFollowJobs` is inductive with it (`MetricsStep`).

`TenantInv` is of the same kind: the version counts the bits of a Tenant, a thing exists
only for a Tenant that holds its finalizer (`FinalizerHolds`), and `RemovedSoFar` and
`MadeSoFar` say how far a reconcile has come. `NothingIsLeftBehind` follows from the first
two. `MadeSoFar` excepts a Tenant in `misled`, and is what `ReadyUnlessMisled` needs when
the status is written; a removal that would break either puts the Tenant in `misled`.

`FleetInv` says that what each operator has read of the fleet is told by its version; a
conflict is then noticed whenever the list has changed, whoever changed it. A write makes
a version that no operator has seen (`NewVersion`), so that all but the writer have the
fleet still to come (`WriteStep`), and the writer has counted the list that is there.
`MembersAreAgentJobs` says that a fleet's members do what `ReconcilerIsAgentJobs` proves
of AgentJobs. `BusesInv` says that Kafka has one consumer
per topic, that the map holds only those not at their end (`MapConsistent`), that a
Subscribe which comes to the map after Close is in `late` (`LateIsLate`), and that a bus
not in use has no connection. Close empties a map that, by `LostOnlyIfRobbed`, held all
consumers at work but the robbed ones; hence `CloseMissesOnlyLate`. `ProcessInv` says that an exporter that is open is owned
by the Init at work on it or by a callback that is still to run (`OpenIsOwned`), and that
a callback that hangs has its deadline to come (`DeadlineForHanging`); when the list of
callbacks is done nothing is open.

Two recursive functions are dealt with: `FlattenSeq`, which lists the pods of a job
(`Flattened`: it yields a sequence), and the sum of the agents of the Running jobs
(`Sums`, `SumsAgree`, `OneMore`: the order of adding does not matter). Induction is by
a least counterexample, from the well-foundedness of `<` (`Least`, `Smallest`).

### Only model-checked

* All liveness; fairness and ENABLED are out of the prover's reach: `EndedJobSettles`,
  `CancelledWatchesEnd`, `PendingJobStarts`, `EndedJobFinishes`, `ExpiredJobIsRemoved`,
  `TenantSettles`, `DeletedTenantGoes`, `DoneMeansEnded`, `EventuallyHandled`,
  `FleetCatchesUp`, `ProcessSettles`.

## Not modelled

* `core/tenant`: `Validate` and `ValidateTopic` have no caller, `TopicPrefix` makes a
  topic that is stored and not read: three stateless functions on strings.
* A2A client: one HTTP request per call, no state between calls, no caller.
* Tracing wrappers, logging, environment, generated code: no control of their own.
* Duration histograms, the counter of reconciles, and the OTLP copies of the metrics, which
  `RecordJobStarted` and `RecordJobFinished` move once `core/metrics.Init` has run.
* The deletion of a Tenant while AgentJobs refer to it, and Cloud Foundry tasks that the API
  has pruned.
* Labels, images, environment variables, tokens, credentials and the wording of
  errors, except where a property depends on them.
* Two operators at work at the same time on AgentJobs or Tenants: their pod and gateway
  calls would interleave. A second set of caches and steps is too large for the instances
  that show the other hazards.
* Changes to the spec of an AgentJob or Tenant.

## What could come next

* A second operator in `AgentJobReconciler` and `TenantReconciler`, on instances reduced
  to the status updates and one pod or one gateway object.
* Failures and restarts while two Tenants share a namespace, in the run `tenant`.
