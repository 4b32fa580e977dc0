------------------------------ MODULE Scheduler ------------------------------
(***************************************************************************)
(* DefaultScheduler (core/scheduler/scheduler.go) over an arbitrary        *)
(* PlatformAdapter: SpawnAgent, WatchAgent and TerminateAgent may return   *)
(* or fail at any call, and a watch may report at any time.  Each          *)
(* invocation of Schedule or Cancel is a thread of its own; a step is one  *)
(* adapter call, one critical section under s.mu, or one step of the       *)
(* watchJob goroutine that Schedule starts.  Status and ListActive only    *)
(* read, under the lock.                                                   *)
(*                                                                         *)
(* The per-agent forwarders of watchJob are folded into Collect: a watch   *)
(* delivers at most one event before its channel closes, and the results   *)
(* channel has room for two per agent, so a forwarder never blocks.        *)
(***************************************************************************)
EXTENDS Lifecycle, Integers, Sequences, FiniteSets

CONSTANTS Jobs,         \* job identifiers
          Calls,        \* invocations of Schedule and Cancel, each used once
          AgentIDs,     \* what SpawnAgent can return
          Sizes,        \* possible values of len(job.Spec.Agents)
          InputPhases   \* possible phases of the job a caller passes in

NoCall == "noCall"

ASSUME SchedulerAssumption ==
  /\ NoCall \notin Calls
  /\ "none" \notin Jobs
  /\ Sizes \subseteq Nat
  /\ InputPhases \subseteq Phases \cup {""}

VARIABLES
  owner,     \* owner[j]: the Schedule call whose jobRecord is s.jobs[j]
  phase,     \* phase[j]: the record's job.Status.Phase, "absent" without one
  op,        \* op[c]: what invocation c does
  pc,        \* pc[c]: where it is
  job,       \* job[c]: the job it names
  res,       \* res[c]: what it returns, once that is decided
  want,      \* want[c]: number of agents Schedule must start
  ids,       \* ids[c]: agentIDs, in spawn order
  rec,       \* rec[c]: the record Cancel copied agentIDs and cancelWatch from
  next,      \* next[c]: agents passed over by a termination loop so far
  ctxDone,   \* Schedule calls whose cancelWatch has been called
  watch,     \* watch[c]: the state of each watch, in agent order
  wpc,       \* wpc[c]: the watchJob goroutine of call c
  completed, \* completed[c], failed[c]: its counters
  failed

callVars == <<op, job, want>>
watchVars == <<wpc, completed, failed>>
vars == <<owner, phase, op, pc, job, res, want, ids, rec, next, ctxDone,
          watch, wpc, completed, failed>>

\* "sessionEnded" stands for whatever a call had come to when its process ended
\* (module MCPServer).
Outcomes == {"none", "scheduled", "spawnFailed", "watchFailed", "duplicate",
             "badPhase", "notFound", "terminateFailed", "cancelled",
             "badTransition", "sessionEnded"}

\* A watch polls, has put its one event in the channel, has had it counted by
\* watchJob, or has closed its channel without one.
Sent == {"Completed", "Failed"}
Counted == {"gotCompleted", "gotFailed"}
WatchStates == {"polling", "closed"} \cup Sent \cup Counted

TypeOK ==
  /\ owner \in [Jobs -> Calls \cup {NoCall}]
  /\ phase \in [Jobs -> Phases \cup {"absent"}]
  /\ op \in [Calls -> {"none", "schedule", "cancel"}]
  /\ pc \in [Calls -> {"idle", "setup", "reject", "terminate", "returned"}]
  /\ job \in [Calls -> Jobs \cup {"none"}]
  /\ res \in [Calls -> Outcomes]
  /\ want \in [Calls -> Nat]
  /\ ids \in [Calls -> Seq(AgentIDs)]
  /\ rec \in [Calls -> Calls \cup {NoCall}]
  /\ next \in [Calls -> Nat]
  /\ ctxDone \in SUBSET Calls
  /\ watch \in [Calls -> Seq(WatchStates)]
  /\ wpc \in [Calls -> {"off", "collect", "done"}]
  /\ completed \in [Calls -> Nat]
  /\ failed \in [Calls -> Nat]

Init ==
  /\ owner = [j \in Jobs |-> NoCall]
  /\ phase = [j \in Jobs |-> "absent"]
  /\ op = [c \in Calls |-> "none"]
  /\ pc = [c \in Calls |-> "idle"]
  /\ job = [c \in Calls |-> "none"]
  /\ res = [c \in Calls |-> "none"]
  /\ want = [c \in Calls |-> 0]
  /\ ids = [c \in Calls |-> <<>>]
  /\ rec = [c \in Calls |-> NoCall]
  /\ next = [c \in Calls |-> 0]
  /\ ctxDone = {}
  /\ watch = [c \in Calls |-> <<>>]
  /\ wpc = [c \in Calls |-> "off"]
  /\ completed = [c \in Calls |-> 0]
  /\ failed = [c \in Calls |-> 0]

-----------------------------------------------------------------------------
(* Schedule *)

Return(c, r) ==
  /\ pc' = [pc EXCEPT ![c] = "returned"]
  /\ res' = [res EXCEPT ![c] = r]

ScheduleCall(c, j, n) ==
  /\ pc[c] = "idle"
  /\ op' = [op EXCEPT ![c] = "schedule"]
  /\ pc' = [pc EXCEPT ![c] = "setup"]
  /\ job' = [job EXCEPT ![c] = j]
  /\ want' = [want EXCEPT ![c] = n]
  /\ UNCHANGED <<owner, phase, res, ids, rec, next, ctxDone, watch, watchVars>>

Spawning(c) == pc[c] = "setup" /\ Len(ids[c]) < want[c]
Watching(c) == pc[c] = "setup" /\ Len(ids[c]) = want[c] /\ Len(watch[c]) < want[c]
Ready(c)    == pc[c] = "setup" /\ Len(ids[c]) = want[c] /\ Len(watch[c]) = want[c]

SpawnReturns(c, id) ==
  /\ Spawning(c)
  /\ ids' = [ids EXCEPT ![c] = Append(@, id)]
  /\ UNCHANGED <<owner, phase, callVars, pc, res, rec, next, ctxDone, watch, watchVars>>

\* The agents spawned so far are left as they are.
SpawnFails(c) ==
  /\ Spawning(c)
  /\ Return(c, "spawnFailed")
  /\ UNCHANGED <<owner, phase, callVars, ids, rec, next, ctxDone, watch, watchVars>>

WatchReturns(c) ==
  /\ Watching(c)
  /\ watch' = [watch EXCEPT ![c] = Append(@, "polling")]
  /\ UNCHANGED <<owner, phase, callVars, pc, res, ids, rec, next, ctxDone, watchVars>>

\* The watches are cancelled; the agents are left as they are.
WatchFails(c) ==
  /\ Watching(c)
  /\ ctxDone' = ctxDone \cup {c}
  /\ Return(c, "watchFailed")
  /\ UNCHANGED <<owner, phase, callVars, ids, rec, next, watch, watchVars>>

\* The duplicate check, made under the lock.
NoDuplicateCheck(j) == FALSE
AlreadyScheduled(j) == owner[j] # NoCall

\* An unset phase is initialised to Pending before the transition.
SpawnedPhase(ph) == Transition(IF ph = "" THEN "Pending" ELSE ph, "Spawned")

Register(c, ph) ==
  /\ Ready(c)
  /\ ~AlreadyScheduled(job[c])
  /\ SpawnedPhase(ph) # Invalid
  /\ owner' = [owner EXCEPT ![job[c]] = c]
  /\ phase' = [phase EXCEPT ![job[c]] = SpawnedPhase(ph)]
  /\ wpc' = [wpc EXCEPT ![c] = "collect"]
  /\ Return(c, "scheduled")
  /\ UNCHANGED <<callVars, ids, rec, next, ctxDone, watch, completed, failed>>

\* A refused attempt cancels its own watches and goes on to terminate its agents.
RejectWithoutCleanup(c, r) ==
  /\ Ready(c)
  /\ Return(c, r)
  /\ ctxDone' = ctxDone \cup {c}
  /\ UNCHANGED <<owner, phase, callVars, ids, rec, next, watch, watchVars>>
Reject(c, r) ==
  /\ Ready(c)
  /\ pc' = [pc EXCEPT ![c] = "reject"]
  /\ res' = [res EXCEPT ![c] = r]
  /\ ctxDone' = ctxDone \cup {c}
  /\ UNCHANGED <<owner, phase, callVars, ids, rec, next, watch, watchVars>>

RejectDuplicate(c) == Reject(c, "duplicate") /\ AlreadyScheduled(job[c])

RejectPhase(c, ph) ==
  /\ Reject(c, "badPhase")
  /\ ~AlreadyScheduled(job[c])
  /\ SpawnedPhase(ph) = Invalid

\* The cleanup loop ignores what TerminateAgent returns.
CleanupTerminate(c) ==
  /\ pc[c] = "reject" /\ next[c] < Len(ids[c])
  /\ next' = [next EXCEPT ![c] = @ + 1]
  /\ UNCHANGED <<owner, phase, callVars, pc, res, ids, rec, ctxDone, watch, watchVars>>

CleanupReturn(c) ==
  /\ pc[c] = "reject" /\ next[c] = Len(ids[c])
  /\ Return(c, res[c])
  /\ UNCHANGED <<owner, phase, callVars, ids, rec, next, ctxDone, watch, watchVars>>

-----------------------------------------------------------------------------
(* Cancel *)

CancelStart(c, j) ==
  /\ pc[c] = "idle"
  /\ op' = [op EXCEPT ![c] = "cancel"]
  /\ job' = [job EXCEPT ![c] = j]

CancelNotFound(c, j) ==
  /\ CancelStart(c, j)
  /\ owner[j] = NoCall
  /\ Return(c, "notFound")
  /\ UNCHANGED <<owner, phase, want, ids, rec, next, ctxDone, watch, watchVars>>

\* First critical section: the record's agentIDs and cancelWatch are copied.
\* The watches are left alone until the agents have been terminated.
CancelLookupStopsWatch(c, j) ==
  /\ CancelStart(c, j)
  /\ owner[j] # NoCall
  /\ rec' = [rec EXCEPT ![c] = owner[j]]
  /\ pc' = [pc EXCEPT ![c] = "terminate"]
  /\ ctxDone' = ctxDone \cup {owner[j]}
  /\ UNCHANGED <<owner, phase, res, want, ids, next, watch, watchVars>>
CancelDropsRecord(c, j) ==
  /\ CancelStart(c, j)
  /\ owner[j] # NoCall
  /\ rec' = [rec EXCEPT ![c] = owner[j]]
  /\ pc' = [pc EXCEPT ![c] = "terminate"]
  /\ owner' = [owner EXCEPT ![j] = NoCall]
  /\ UNCHANGED <<phase, res, want, ids, next, ctxDone, watch, watchVars>>
CancelLookup(c, j) ==
  /\ CancelStart(c, j)
  /\ owner[j] # NoCall
  /\ rec' = [rec EXCEPT ![c] = owner[j]]
  /\ pc' = [pc EXCEPT ![c] = "terminate"]
  /\ UNCHANGED <<owner, phase, res, want, ids, next, ctxDone, watch, watchVars>>

Terminating(c) == pc[c] = "terminate" /\ next[c] < Len(ids[rec[c]])

TerminateReturns(c) ==
  /\ Terminating(c)
  /\ next' = [next EXCEPT ![c] = @ + 1]
  /\ UNCHANGED <<owner, phase, callVars, pc, res, ids, rec, ctxDone, watch, watchVars>>

\* The first error ends Cancel: later agents, the watches and the phase stay.
TerminateFails(c) ==
  /\ Terminating(c)
  /\ Return(c, "terminateFailed")
  /\ UNCHANGED <<owner, phase, callVars, ids, rec, next, ctxDone, watch, watchVars>>

\* Second critical section: the watches are cancelled whatever the phase is; the
\* phase is read again.  The record cannot be gone: nothing deletes one.
CommitCancel(c) ==
  LET to == Transition(phase[job[c]], "Cancelled") IN
  /\ pc[c] = "terminate" /\ next[c] = Len(ids[rec[c]])
  /\ ctxDone' = ctxDone \cup {rec[c]}
  /\ IF to = Invalid
       THEN Return(c, "badTransition") /\ UNCHANGED phase
       ELSE Return(c, "cancelled") /\ phase' = [phase EXCEPT ![job[c]] = to]
  /\ UNCHANGED <<owner, callVars, ids, rec, next, watch, watchVars>>

-----------------------------------------------------------------------------
(* The goroutines of WatchAgent and watchJob *)

SetWatch(c, i, s) == watch' = [watch EXCEPT ![c][i] = s]

\* The watch of agent i of call c reports ev and closes its channel.
WatchEvent(c, i, ev) ==
  /\ watch[c][i] = "polling"
  /\ SetWatch(c, i, ev)
  /\ UNCHANGED <<owner, phase, callVars, pc, res, ids, rec, next, ctxDone, watchVars>>

\* A cancelled watch closes its channel without an event.
WatchClose(c, i) ==
  /\ watch[c][i] = "polling"
  /\ c \in ctxDone
  /\ SetWatch(c, i, "closed")
  /\ UNCHANGED <<owner, phase, callVars, pc, res, ids, rec, next, ctxDone, watchVars>>

AllReported(c) == completed[c] + failed[c] >= want[c]

\* watchJob takes one event from the fan-in channel.
Collect(c, i) ==
  /\ wpc[c] = "collect" /\ ~AllReported(c)
  /\ \/ /\ watch[c][i] = "Completed"
        /\ SetWatch(c, i, "gotCompleted")
        /\ completed' = [completed EXCEPT ![c] = @ + 1]
        /\ UNCHANGED failed
     \/ /\ watch[c][i] = "Failed"
        /\ SetWatch(c, i, "gotFailed")
        /\ failed' = [failed EXCEPT ![c] = @ + 1]
        /\ UNCHANGED completed
  /\ UNCHANGED <<owner, phase, callVars, pc, res, ids, rec, next, ctxDone, wpc>>

\* Every forwarder has ended and the channel is drained: watchJob gives up.
ResultsNeverClosed(c) == FALSE
CollectEOF(c) ==
  /\ wpc[c] = "collect" /\ ~AllReported(c)
  /\ \A i \in DOMAIN watch[c] : watch[c][i] \in Counted \cup {"closed"}
  /\ wpc' = [wpc EXCEPT ![c] = "done"]
  /\ UNCHANGED <<owner, phase, callVars, pc, res, ids, rec, next, ctxDone, watch,
                 completed, failed>>

\* watchJob's last write leaves a phase alone that Cancel or an end has set.
NoSettleGuard(p) == TRUE
MayBeSettled(p) == p # "Terminating" /\ ~IsTerminal(p)

LastOutcomeOnly(c) == IF completed[c] > 0 THEN "Succeeded" ELSE "Failed"
Outcome(c) == IF failed[c] > 0 THEN "Failed" ELSE "Succeeded"

Finish(c) ==
  /\ wpc[c] = "collect" /\ AllReported(c)
  /\ wpc' = [wpc EXCEPT ![c] = "done"]
  /\ phase' = IF MayBeSettled(phase[job[c]])
                THEN [phase EXCEPT ![job[c]] = Outcome(c)] ELSE phase
  /\ UNCHANGED <<owner, callVars, pc, res, ids, rec, next, ctxDone, watch,
                 completed, failed>>

-----------------------------------------------------------------------------
ScheduleStep(c) ==
  \/ \E j \in Jobs, n \in Sizes : ScheduleCall(c, j, n)
  \/ \E id \in AgentIDs : SpawnReturns(c, id)
  \/ SpawnFails(c) \/ WatchReturns(c) \/ WatchFails(c)
  \/ \E ph \in InputPhases : Register(c, ph) \/ RejectPhase(c, ph)
  \/ RejectDuplicate(c) \/ CleanupTerminate(c) \/ CleanupReturn(c)

CancelStep(c) ==
  \/ \E j \in Jobs : CancelNotFound(c, j) \/ CancelLookup(c, j)
  \/ TerminateReturns(c) \/ TerminateFails(c) \/ CommitCancel(c)

WatchStep(c) ==
  \/ \E i \in DOMAIN watch[c] :
        \/ \E ev \in Sent : WatchEvent(c, i, ev)
        \/ WatchClose(c, i) \/ Collect(c, i)
  \/ CollectEOF(c) \/ Finish(c)

Next == \E c \in Calls : ScheduleStep(c) \/ CancelStep(c) \/ WatchStep(c)

Spec == Init /\ [][Next]_vars

-----------------------------------------------------------------------------
(* Properties *)

\* However Schedule calls for one job ID interleave, at most one returns nil: the
\* check under the lock is what decides, not the order of spawning.
AtMostOneScheduled ==
  \A c, d \in Calls :
    res[c] = "scheduled" /\ res[d] = "scheduled" /\ job[c] = job[d] => c = d

\* A job that is Running always has its watchJob goroutine at work: a Cancel that
\* fails half-way, or races with the last event, leaves no running job that
\* nothing will ever settle.
RunningIsWatched ==
  \A j \in Jobs : phase[j] = "Running" =>
    /\ owner[j] # NoCall
    /\ wpc[owner[j]] = "collect"
    /\ owner[j] \notin ctxDone

\* The phase watchJob wrote agrees with what the watches of the stored record
\* reported: Succeeded only if every agent completed, Failed only if every agent
\* reported and one of them failed.
OutcomeMatches(p, reports) ==
  /\ p = "Succeeded" => \A i \in DOMAIN reports : reports[i] = "gotCompleted"
  /\ p = "Failed" => /\ \A i \in DOMAIN reports : reports[i] \in Counted
                     /\ \E i \in DOMAIN reports : reports[i] = "gotFailed"
OutcomeMatchesEvents ==
  \A j \in Jobs : owner[j] # NoCall => OutcomeMatches(phase[j], watch[owner[j]])

\* Once Cancel has returned nil the job is Terminating, whatever watchJob or
\* another call does afterwards.
CancelSticks ==
  \A c \in Calls : res[c] = "cancelled" => phase[job[c]] = "Terminating"

\* A phase, once recorded, changes only along the transition table, although
\* watchJob writes it without calling Transition.
PhaseFollowsTable ==
  [][\A j \in Jobs : phase[j] \notin {"absent", phase'[j]} =>
        \E e \in Triggers : phase'[j] = Transition(phase[j], e)]_vars

\* "Cancelling an already-cancelled job succeeds": no Cancel is refused because of
\* the phase it finds.
CancelIsIdempotent == \A c \in Calls : res[c] # "badTransition"

\* The detailed scheduler implements the atomic one: whatever adapter calls fail and
\* however invocations interleave between the two critical sections of Cancel, each
\* takes effect at one instant or not at all.
Atomic == INSTANCE AtomicScheduler
AtomicSpec == Atomic!Spec

-----------------------------------------------------------------------------
(* The inductive invariant behind these properties *)

\* Where an invocation is, what it has decided and which record it holds.
CallConsistent(c) ==
  /\ pc[c] = "idle" => op[c] = "none" /\ res[c] = "none"
  /\ pc[c] # "idle" => job[c] \in Jobs
  /\ pc[c] = "setup" => op[c] = "schedule" /\ res[c] = "none"
  /\ pc[c] = "reject" => op[c] = "schedule" /\ res[c] \in {"duplicate", "badPhase"}
  /\ pc[c] = "terminate" => op[c] = "cancel" /\ res[c] = "none"
  /\ pc[c] = "terminate" => rec[c] = owner[job[c]] /\ rec[c] # NoCall
  /\ pc[c] = "returned" => op[c] # "none" /\ res[c] # "none"
CallsConsistent == \A c \in Calls : CallConsistent(c)

\* s.jobs and the Schedule calls that returned nil describe each other.
RecordConsistent(j) ==
  /\ owner[j] = NoCall => phase[j] = "absent"
  /\ owner[j] # NoCall =>
       /\ phase[j] \in {"Running", "Succeeded", "Failed", "Terminating"}
       /\ job[owner[j]] = j /\ res[owner[j]] = "scheduled" /\ pc[owner[j]] = "returned"
RecordsConsistent ==
  /\ \A j \in Jobs : RecordConsistent(j)
  /\ \A c \in Calls :
       res[c] = "scheduled" => job[c] \in Jobs /\ owner[job[c]] = c

\* The watches of a stored record are cancelled only when its job is Terminating.
CancelledConsistent ==
  \A c \in ctxDone :
    /\ pc[c] \in {"reject", "returned"}
    /\ res[c] = "scheduled" => phase[job[c]] = "Terminating"

\* The agents whose watch is in state v, of a watch list w.
Positions(w, v) == {i \in DOMAIN w : w[i] = v}

\* The counters of watchJob are the numbers of events it has taken.
CountsRight(c) ==
  /\ completed[c] = Cardinality(Positions(watch[c], "gotCompleted"))
  /\ failed[c] = Cardinality(Positions(watch[c], "gotFailed"))

CountersConsistent == \A c \in Calls : CountsRight(c)

\* watchJob runs for an accepted call, with one watch per agent, and a watch ends
\* without an event only when it is cancelled.
WatchLinked(c) ==
  /\ wpc[c] # "off" => res[c] = "scheduled" /\ Len(watch[c]) = want[c]
  /\ \A i \in DOMAIN watch[c] : watch[c][i] = "closed" => c \in ctxDone
WatchesConsistent == \A c \in Calls : WatchLinked(c)

\* Agents are spawned, then watched, then, of a job that is refused or cancelled,
\* terminated one by one: none of these loops runs past the list it goes through.
LoopConsistent(c) ==
  /\ Len(watch[c]) <= Len(ids[c]) /\ Len(ids[c]) <= want[c]
  /\ pc[c] = "idle" => ids[c] = <<>>
  /\ pc[c] = "setup" => want[c] \in Sizes
  /\ res[c] = "scheduled" => Len(watch[c]) = want[c]
  /\ res[c] = "spawnFailed" => Len(ids[c]) < want[c]
  /\ pc[c] \in {"idle", "setup"} => next[c] = 0
  /\ pc[c] = "reject" => next[c] <= Len(ids[c])
  /\ pc[c] = "terminate" => next[c] <= Len(ids[rec[c]])
LoopsConsistent == \A c \in Calls : LoopConsistent(c)

\* Records, invocations, watches and counters agree at every step of every
\* interleaving; with it each of the properties above is inductive.
Inv ==
  /\ TypeOK
  /\ CallsConsistent
  /\ RecordsConsistent
  /\ CancelledConsistent
  /\ CountersConsistent
  /\ WatchesConsistent
  /\ LoopsConsistent
  /\ RunningIsWatched
  /\ OutcomeMatchesEvents
  /\ CancelSticks
=============================================================================
