------------------------ MODULE AgentFleetReconciler ------------------------
(***************************************************************************)
(* AgentFleetReconciler (platform/k8s/reconcilers/agentfleet_reconciler.go)*)
(* for one AgentFleet: it counts the jobs the fleet names, by their phase, *)
(* and writes the counts to the fleet's status.  Fleet and jobs are read   *)
(* from informer caches that lag behind the API server, a job at a time.   *)
(* cmd/muto-operator configures no leader election, so that several        *)
(* operators, of a rolling update or of several replicas, work at the same *)
(* time, each with its own caches, queue and worker.                       *)
(*                                                                         *)
(* The API server, the caches and the work queue are external.  Only the   *)
(* fleet is watched: a change of a member wakes nothing, but the informer  *)
(* hands every fleet out again from time to time (SyncPeriod, ten hours by *)
(* default).  The members change phase as module AgentJobs says.           *)
(***************************************************************************)
EXTENDS Lifecycle, Integers, Sequences

CONSTANTS Operators,   \* processes of muto-operator
          Jobs,        \* names of AgentJobs
          JobRefs,     \* the lists users put in spec.jobRefs
          MaxCreates,  \* bound on jobs created
          MaxEdits,    \* bound on what users do to the fleet
          MaxFaults,   \* bound on failed status updates
          MaxCrashes   \* bound on restarts of the operator

ASSUME FleetAssumption ==
  /\ \A refs \in JobRefs : refs \in Seq(Jobs)
  /\ {MaxCreates, MaxEdits, MaxFaults, MaxCrashes} \subseteq Nat

Zero == [total |-> 0, running |-> 0, completed |-> 0]
NoFleet == [version |-> 0, refs |-> <<>>, status |-> Zero]
Idle == [at |-> "idle", obj |-> NoFleet, todo |-> <<>>, count |-> Zero]

VARIABLES
  fleet,        \* the AgentFleet in the API server
  jobPhase,     \* the phases of the AgentJobs there
  version,      \* the last resourceVersion of the fleet
  seenFleet,    \* seenFleet[o], seenPhase[o]: the informer caches of operator o
  seenPhase,
  queued,       \* the operators with the fleet in their work queue
  work,         \* work[o]: the reconcile in progress
  countedRefs,  \* the jobRefs the current status was computed from
  creates, edits, faults, crashes

api == <<fleet, jobPhase, version>>
caches == <<seenFleet, seenPhase>>
bounds == <<creates, edits, faults, crashes>>
vars == <<api, caches, queued, work, countedRefs, bounds>>

Members == INSTANCE AgentJobs WITH phase <- jobPhase

Exists(f) == f.version # 0

Counts == [total : Nat, running : Nat, completed : Nat]
Fleets == [version : Nat, refs : JobRefs \cup {<<>>}, status : Counts]
Works == [at : {"idle", "counting"}, obj : Fleets, todo : Seq(Jobs), count : Counts]

TypeOK ==
  /\ fleet \in Fleets /\ version \in Nat
  /\ jobPhase \in [Jobs -> Phases \cup {"absent"}]
  /\ seenFleet \in [Operators -> Fleets]
  /\ seenPhase \in [Operators -> [Jobs -> Phases \cup {"absent"}]]
  /\ queued \subseteq Operators
  /\ work \in [Operators -> Works]
  /\ countedRefs \in JobRefs \cup {<<>>}
  /\ {creates, edits, faults, crashes} \subseteq Nat

Init ==
  /\ fleet = NoFleet /\ version = 0
  /\ Members!Init
  /\ seenFleet = [o \in Operators |-> NoFleet]
  /\ seenPhase = [o \in Operators |-> jobPhase]
  /\ queued = {}
  /\ work = [o \in Operators |-> Idle]
  /\ countedRefs = <<>>
  /\ creates = 0 /\ edits = 0 /\ faults = 0 /\ crashes = 0

-----------------------------------------------------------------------------
(* Reconcile *)

Goto(o, w) == work' = [work EXCEPT ![o] = w]

\* A fleet that is not in the cache is nothing to do.
Begin(o) ==
  /\ work[o].at = "idle" /\ o \in queued
  /\ queued' = queued \ {o}
  /\ Goto(o, IF Exists(seenFleet[o])
                THEN [Idle EXCEPT !.at = "counting", !.obj = seenFleet[o], !.todo = seenFleet[o].refs]
                ELSE Idle)
  /\ UNCHANGED <<api, caches, countedRefs, bounds>>

\* One member more, by the phase the cache has it in.
CountMissing(n, p) ==
  [total |-> n.total + 1,
   running |-> n.running + (IF p = "Running" THEN 1 ELSE 0),
   completed |-> n.completed + (IF IsTerminal(p) THEN 1 ELSE 0)]
Count(n, p) ==
  IF p = "absent" THEN n
  ELSE [total |-> n.total + 1,
        running |-> n.running + (IF p = "Running" THEN 1 ELSE 0),
        completed |-> n.completed + (IF IsTerminal(p) THEN 1 ELSE 0)]

ReadMember(o) ==
  LET w == work[o] IN
  /\ w.at = "counting" /\ w.todo # <<>>
  /\ Goto(o, [w EXCEPT !.todo = Tail(@), !.count = Count(@, seenPhase[o][Head(w.todo)])])
  /\ UNCHANGED <<api, caches, queued, countedRefs, bounds>>

\* Status().Update is refused unless the object is still the one that was read.
StillThere(f) == Exists(fleet)
Unchanged(f) == fleet.version = f.version

\* An update that changes nothing makes no new version.
StatusWritten(w) ==
  /\ fleet' = IF fleet.status = w.count THEN fleet
              ELSE [fleet EXCEPT !.status = w.count, !.version = version + 1]
  /\ version' = IF fleet.status = w.count THEN version ELSE version + 1
  /\ countedRefs' = w.obj.refs
  /\ UNCHANGED jobPhase

Counted(o) == work[o].at = "counting" /\ work[o].todo = <<>>

UpdateStatus(o) ==
  /\ Counted(o)
  /\ Unchanged(work[o].obj)
  /\ StatusWritten(work[o])
  /\ Goto(o, Idle)
  /\ UNCHANGED <<caches, queued, bounds>>

\* Any error is returned, and the fleet reconciled again: a conflict, or a call that
\* failed, with or without its effect.
DropOnError(o) == Goto(o, Idle) /\ UNCHANGED queued
RetryOnError(o) == Goto(o, Idle) /\ queued' = queued \cup {o}

UpdateConflict(o) ==
  /\ Counted(o)
  /\ ~Unchanged(work[o].obj)
  /\ RetryOnError(o)
  /\ UNCHANGED <<api, caches, countedRefs, bounds>>

UpdateFails(o) ==
  /\ Counted(o) /\ faults < MaxFaults
  /\ faults' = faults + 1
  /\ \/ UNCHANGED <<api, countedRefs>>
     \/ Unchanged(work[o].obj) /\ StatusWritten(work[o])
  /\ RetryOnError(o)
  /\ UNCHANGED <<caches, creates, edits, crashes>>

-----------------------------------------------------------------------------
(* Caches *)

SyncFleet(o) ==
  /\ seenFleet[o] # fleet
  /\ seenFleet' = [seenFleet EXCEPT ![o] = fleet]
  /\ queued' = queued \cup {o}
  /\ UNCHANGED <<api, seenPhase, work, countedRefs, bounds>>

\* SetupWithManager watches fleets only: a member's change wakes nothing.
SyncMember(o, j) ==
  /\ seenPhase[o][j] # jobPhase[j]
  /\ seenPhase' = [seenPhase EXCEPT ![o][j] = jobPhase[j]]
  /\ UNCHANGED <<api, seenFleet, queued, work, countedRefs, bounds>>

Resync(o) ==
  /\ Exists(seenFleet[o])
  /\ queued' = queued \cup {o}
  /\ UNCHANGED <<api, caches, work, countedRefs, bounds>>

\* A new process lists everything.
OperatorRestarts(o) ==
  /\ crashes < MaxCrashes
  /\ crashes' = crashes + 1
  /\ Goto(o, Idle)
  /\ seenFleet' = [seenFleet EXCEPT ![o] = fleet]
  /\ seenPhase' = [seenPhase EXCEPT ![o] = jobPhase]
  /\ queued' = (queued \ {o}) \cup {p \in {o} : Exists(fleet)}
  /\ UNCHANGED <<api, countedRefs, creates, edits, faults>>

-----------------------------------------------------------------------------
(* Users, and the jobs *)

UserWrites(f) ==
  /\ edits < MaxEdits
  /\ edits' = edits + 1
  /\ fleet' = f
  /\ version' = version + 1
  /\ UNCHANGED <<jobPhase, caches, queued, work, creates, faults, crashes>>

UserCreatesFleet(refs) ==
  /\ ~Exists(fleet)
  /\ UserWrites([version |-> version + 1, refs |-> refs, status |-> Zero])
  /\ countedRefs' = <<>>
UserEditsFleet(refs) ==
  /\ Exists(fleet)
  /\ refs # fleet.refs
  /\ UserWrites([fleet EXCEPT !.refs = refs, !.version = version + 1])
  /\ UNCHANGED countedRefs
UserDeletesFleet ==
  /\ Exists(fleet)
  /\ UserWrites(NoFleet)
  /\ UNCHANGED countedRefs

MemberChanges(j) ==
  /\ \/ Members!Create(j) /\ creates < MaxCreates /\ creates' = creates + 1
     \/ /\ Members!Start(j) \/ Members!Settle(j) \/ Members!Expire(j) \/ Members!Remove(j)
        /\ UNCHANGED creates
  /\ UNCHANGED <<fleet, version, caches, queued, work, countedRefs, edits, faults, crashes>>

Environment ==
  \/ \E refs \in JobRefs : UserCreatesFleet(refs) \/ UserEditsFleet(refs)
  \/ UserDeletesFleet
  \/ \E j \in Jobs : MemberChanges(j)

Reconcile(o) == Begin(o) \/ ReadMember(o) \/ UpdateStatus(o) \/ UpdateConflict(o)

Operator(o) ==
  \/ Reconcile(o) \/ UpdateFails(o)
  \/ SyncFleet(o) \/ Resync(o) \/ (\E j \in Jobs : SyncMember(o, j))
  \/ OperatorRestarts(o)

Next == (\E o \in Operators : Operator(o)) \/ Environment

Spec == Init /\ [][Next]_vars

\* The workers go on, caches catch up and the informers hand the fleet out again.
\* Nothing is assumed of users, jobs or restarts.
FairSpec ==
  /\ Spec
  /\ \A o \in Operators :
       /\ WF_vars(Reconcile(o)) /\ WF_vars(SyncFleet(o)) /\ WF_vars(Resync(o))
       /\ \A j \in Jobs : WF_vars(SyncMember(o, j))

-----------------------------------------------------------------------------
(* Properties *)

\* A status is never written over a list of jobs it was not computed from, however old
\* the fleet was that the operator read which writes it: users edit it at any time, and
\* so do other operators.
StatusIsForItsRefs ==
  [][fleet.status # fleet'.status /\ Exists(fleet) /\ Exists(fleet')
       => \E o \in Operators : /\ work[o].at = "counting" /\ work'[o].at = "idle"
                               /\ work[o].obj.refs = fleet'.refs]_vars

\* The counts the jobs of refs make up, when they have the phases ph.
Select(refs, ph, P) == Len(SelectSeq(refs, LAMBDA j : ph[j] \in P))
TrueCount(refs, ph) ==
  [total |-> Select(refs, ph, Phases), running |-> Select(refs, ph, {"Running"}),
   completed |-> Select(refs, ph, {"Succeeded", "Failed"})]

\* A fleet that an operator has seen as it is, with nothing queued and nothing in
\* progress there, has a status for the jobs it names now: a conflict (with a user or with
\* another operator), a failed update, an edit during a reconcile or a restart is never
\* the last that happens to it.
Rests(o) == seenFleet[o] = fleet /\ o \notin queued /\ work[o].at = "idle"
FleetIsNotForgotten ==
  \A o \in Operators : Exists(fleet) /\ Rests(o) => countedRefs = fleet.refs

\* The counts catch up with the members once those stop changing, although nothing
\* wakes the reconciler for a member.  (Changes stop here because they are bounded.)
FleetCatchesUp ==
  <>[](Exists(fleet) => fleet.status = TrueCount(fleet.refs, jobPhase))

-----------------------------------------------------------------------------
(* The inductive invariant behind these properties *)

\* What was read of the fleet, and when, is told by its version.
Snapshot(f) ==
  /\ f.version <= version
  /\ f.version = 0 => f = NoFleet
  /\ f.version = fleet.version => f = fleet
SnapshotsConsistent ==
  Snapshot(fleet) /\ \A o \in Operators : Snapshot(seenFleet[o]) /\ Snapshot(work[o].obj)

FleetInv == TypeOK /\ SnapshotsConsistent /\ FleetIsNotForgotten
=============================================================================
