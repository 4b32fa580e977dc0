-------------------------- MODULE AgentFleetProofs --------------------------
(***************************************************************************)
(* Proofs about module AgentFleetReconciler, for any operators, any    *)
(* lists of jobs and any number of edits, failures and restarts.           *)
(***************************************************************************)
EXTENDS AgentFleetReconciler, TLAPS

\* The values that stand for no fleet, no work and no counts have their types.
LEMMA InitialValues ==
  /\ Zero \in Counts /\ NoFleet \in Fleets /\ NoFleet.version = 0
  /\ Idle \in Works
  /\ Idle.at = "idle" /\ Idle.obj = NoFleet
BY DEF Zero, NoFleet, Idle, Counts, Fleets, Works

\* Counting a member keeps counts.
LEMMA CountType ==
  ASSUME NEW n \in Counts, NEW p
  PROVE  Count(n, p) \in Counts
BY DEF Count, Counts

\* A fleet with other fields is a fleet.
LEMMA FleetUpdate ==
  ASSUME NEW R, NEW C, NEW f \in [version : Nat, refs : R, status : C],
         NEW v \in Nat, NEW r \in R, NEW c \in C
  PROVE  /\ [f EXCEPT !.status = c, !.version = v] \in [version : Nat, refs : R, status : C]
         /\ [f EXCEPT !.status = c, !.version = v].refs = f.refs
         /\ [f EXCEPT !.status = c, !.version = v].version = v
         /\ [f EXCEPT !.status = c, !.version = v].status = c
         /\ [f EXCEPT !.refs = r, !.version = v] \in [version : Nat, refs : R, status : C]
         /\ [f EXCEPT !.refs = r, !.version = v].version = v
OBVIOUS

\* A list in a fleet's spec is a list of jobs.
LEMMA RefsType ==
  ASSUME NEW f \in Fleets
  PROVE  f.refs \in JobRefs \cup {<<>>} /\ f.refs \in Seq(Jobs)
<1>1. f.refs \in JobRefs \cup {<<>>}
  BY DEF Fleets
<1>2. <<>> \in Seq(Jobs)
  OBVIOUS
<1> QED
  BY <1>1, <1>2, FleetAssumption

\* A step of one operator leaves the work of the others as it was.
LEMMA GotoEffect ==
  ASSUME TypeOK, NEW o \in Operators, NEW w \in Works, Goto(o, w)
  PROVE  /\ work' \in [Operators -> Works]
         /\ work'[o] = w
         /\ \A p \in Operators : work'[p] = w \/ work'[p] = work[p]
         /\ \A p \in Operators : p # o => work'[p] = work[p]
BY DEF Goto, TypeOK

\* What Status().Update does to a fleet it finds unchanged.
LEMMA StatusWrittenEffect ==
  ASSUME TypeOK, SnapshotsConsistent, NEW o \in Operators, Unchanged(work[o].obj), StatusWritten(work[o])
  PROVE  /\ fleet' \in Fleets /\ version' \in Nat
         /\ countedRefs' = fleet.refs /\ fleet'.refs = fleet.refs /\ jobPhase' = jobPhase
         /\ work[o].obj = fleet
         /\ \/ fleet' = fleet /\ version' = version
            \/ fleet'.version = version + 1 /\ version' = version + 1
<1> DEFINE w == work[o]
<1>1. w.obj = fleet
  BY DEF Unchanged, SnapshotsConsistent, Snapshot
<1>2. w \in Works /\ w.count \in Counts /\ fleet \in Fleets /\ version \in Nat
  BY DEF TypeOK, Works
<1>3. StatusWritten(w)
  OBVIOUS
<1> HIDE DEF w
<1>4. CASE fleet.status = w.count
  BY <1>1, <1>2, <1>3, <1>4 DEF StatusWritten, w
<1>5. CASE fleet.status # w.count
  <2>1. fleet' = [fleet EXCEPT !.status = w.count, !.version = version + 1] /\ version' = version + 1
    BY <1>3, <1>5 DEF StatusWritten
  <2>2. fleet \in [version : Nat, refs : JobRefs \cup {<<>>}, status : Counts]
    BY <1>2 DEF Fleets
  <2>3. fleet.refs \in JobRefs \cup {<<>>} /\ version + 1 \in Nat
    BY <1>2, RefsType
  <2>4. [fleet EXCEPT !.status = w.count, !.version = version + 1]
          \in [version : Nat, refs : JobRefs \cup {<<>>}, status : Counts]
    BY <1>2, <2>2, <2>3, FleetUpdate, Zenon
  <2>5. fleet'.refs = fleet.refs /\ fleet'.version = version + 1
    BY <1>2, <2>1, <2>2, <2>3, FleetUpdate, Zenon
  <2>6. fleet' \in Fleets
    BY <2>1, <2>4, Zenon DEF Fleets
  <2> QED
    BY <1>1, <1>2, <1>3, <2>1, <2>5, <2>6 DEF StatusWritten, w
<1> QED
  BY <1>4, <1>5

\* Reading more, or giving up, keeps the invariant when the fleet and what is known of it
\* stay: an operator is then idle with a fleet that was counted, or has it queued.
LEMMA WorkStep ==
  ASSUME FleetInv, NEW o \in Operators, NEW w \in Works, Goto(o, w), Snapshot(w.obj),
         queued' \subseteq Operators, queued \ {o} \subseteq queued',
         w.at = "counting" \/ o \in queued' \/ seenFleet[o] = NoFleet,
         UNCHANGED <<api, caches, countedRefs>>, {creates, edits, faults, crashes}' \subseteq Nat
  PROVE  FleetInv'
<1>0. TypeOK /\ SnapshotsConsistent /\ FleetIsNotForgotten
  BY DEF FleetInv
<1>1. /\ work' \in [Operators -> Works] /\ work'[o] = w
      /\ \A p \in Operators : p # o => work'[p] = work[p]
  BY <1>0, GotoEffect, Zenon
<1>2. UNCHANGED <<fleet, jobPhase, version, seenFleet, seenPhase, countedRefs>>
  BY DEF api, caches
<1>3. TypeOK'
  BY <1>0, <1>1, <1>2 DEF TypeOK
<1>4. SnapshotsConsistent'
  <2>1. Snapshot(fleet)' /\ Snapshot(w.obj)
    BY <1>0, <1>2 DEF SnapshotsConsistent, Snapshot
  <2>2. ASSUME NEW p \in Operators PROVE Snapshot(seenFleet[p])' /\ Snapshot(work[p].obj)'
    <3>1. Snapshot(seenFleet[p]) /\ Snapshot(work[p].obj)
      BY <1>0 DEF SnapshotsConsistent
    <3> QED
      BY <1>1, <1>2, <2>1, <3>1 DEF Snapshot
  <2> QED
    BY <2>1, <2>2 DEF SnapshotsConsistent
<1>5. FleetIsNotForgotten'
  <2> SUFFICES ASSUME NEW p \in Operators, Exists(fleet)', Rests(p)' PROVE (countedRefs = fleet.refs)'
    BY DEF FleetIsNotForgotten
  <2>1. CASE p = o
    <3>1. w.at = "idle" /\ o \notin queued' /\ seenFleet[o] = fleet /\ Exists(fleet)
      BY <1>1, <1>2, <2>1 DEF Rests, Exists
    <3>2. FALSE
      BY <3>1, InitialValues DEF Exists
    <3> QED
      BY <3>2
  <2>2. CASE p # o
    BY <1>0, <1>1, <1>2, <2>2 DEF FleetIsNotForgotten, Rests, Exists
  <2> QED
    BY <2>1, <2>2
<1> QED
  BY <1>3, <1>4, <1>5 DEF FleetInv

\* Steps of operator o that leave the API server alone and go on, or give up.
LEMMA WorkSteps ==
  ASSUME FleetInv, NEW o \in Operators, Begin(o) \/ ReadMember(o) \/ UpdateConflict(o)
  PROVE  FleetInv'
<1>0. TypeOK /\ SnapshotsConsistent
  BY DEF FleetInv
<1>1. /\ UNCHANGED <<api, caches, countedRefs>> /\ UNCHANGED bounds
      /\ {creates, edits, faults, crashes}' \subseteq Nat
  BY <1>0 DEF Begin, ReadMember, UpdateConflict, RetryOnError, bounds, TypeOK
<1>2. /\ work[o] \in Works /\ seenFleet[o] \in Fleets
      /\ Snapshot(seenFleet[o]) /\ Snapshot(work[o].obj)
      /\ queued \subseteq Operators
  BY <1>0 DEF TypeOK, SnapshotsConsistent
<1>3. Snapshot(NoFleet)
  BY <1>0, InitialValues DEF Snapshot, SnapshotsConsistent, TypeOK, Fleets
<1>4. ASSUME Begin(o) PROVE FleetInv'
  <2>1. queued' = queued \ {o}
    BY <1>4 DEF Begin
  <2>2. CASE Exists(seenFleet[o])
    <3> DEFINE w == [Idle EXCEPT !.at = "counting", !.obj = seenFleet[o], !.todo = seenFleet[o].refs]
    <3>1. seenFleet[o].refs \in Seq(Jobs)
      BY <1>2, RefsType
    <3>2. w \in Works /\ w.at = "counting" /\ w.obj = seenFleet[o]
      BY <1>2, <3>1, InitialValues DEF Idle, Works
    <3>3. Goto(o, w)
      BY <1>4, <2>2 DEF Begin
    <3> HIDE DEF w
    <3> QED
      BY <1>1, <1>2, <2>1, <3>2, <3>3, WorkStep
  <2>3. CASE ~Exists(seenFleet[o])
    <3>1. Goto(o, Idle)
      BY <1>4, <2>3 DEF Begin
    <3>2. seenFleet[o] = NoFleet
      BY <1>2, <2>3 DEF Snapshot, Exists
    <3> QED
      BY <1>1, <1>2, <1>3, <2>1, <3>1, <3>2, InitialValues, WorkStep
  <2> QED
    BY <2>2, <2>3
<1>5. ASSUME ReadMember(o) PROVE FleetInv'
  <2> DEFINE c == Count(work[o].count, seenPhase[o][Head(work[o].todo)])
             w == [work[o] EXCEPT !.todo = Tail(@), !.count = c]
  <2>1. c \in Counts
    BY <1>2, CountType DEF Works
  <2>2. work[o].at = "counting" /\ Tail(work[o].todo) \in Seq(Jobs)
    BY <1>2, <1>5 DEF ReadMember, Works
  <2>3. Goto(o, w) /\ queued' = queued
    BY <1>5 DEF ReadMember
  <2> HIDE DEF c
  <2>4. w \in Works /\ w.at = "counting" /\ w.obj = work[o].obj
    BY <1>2, <2>1, <2>2 DEF Works
  <2> HIDE DEF w
  <2> QED
    BY <1>1, <1>2, <2>3, <2>4, WorkStep
<1>6. ASSUME UpdateConflict(o) PROVE FleetInv'
  <2>1. Goto(o, Idle) /\ queued' = queued \cup {o}
    BY <1>6 DEF UpdateConflict, RetryOnError
  <2>2. queued' \subseteq Operators /\ queued \ {o} \subseteq queued' /\ o \in queued'
    BY <1>2, <2>1
  <2> QED
    BY <1>1, <1>3, <2>1, <2>2, InitialValues, WorkStep
<1> QED
  BY <1>4, <1>5, <1>6

\* What comes from the API server to the caches of operator o, and a restart.
LEMMA CacheSteps ==
  ASSUME FleetInv, NEW o \in Operators,
         SyncFleet(o) \/ Resync(o) \/ (\E j \in Jobs : SyncMember(o, j)) \/ OperatorRestarts(o)
  PROVE  FleetInv'
<1>0. TypeOK /\ SnapshotsConsistent /\ FleetIsNotForgotten
  BY DEF FleetInv
<1>1. /\ UNCHANGED <<fleet, jobPhase, version, countedRefs>>
      /\ {creates, edits, faults, crashes}' \subseteq Nat
  BY <1>0 DEF SyncFleet, Resync, SyncMember, OperatorRestarts, api, bounds, TypeOK
<1>2. \/ UNCHANGED work
      \/ Goto(o, Idle)
  BY DEF SyncFleet, Resync, SyncMember, OperatorRestarts
<1>3. /\ work' \in [Operators -> Works]
      /\ \A p \in Operators : work'[p] = Idle \/ work'[p] = work[p]
      /\ \A p \in Operators : p # o => work'[p] = work[p]
  BY <1>0, <1>2, GotoEffect, InitialValues DEF TypeOK
<1>4. /\ seenFleet' \in [Operators -> Fleets]
      /\ seenFleet'[o] \in {fleet, seenFleet[o]}
      /\ \A p \in Operators : p # o => seenFleet'[p] = seenFleet[p]
  BY <1>0 DEF SyncFleet, Resync, SyncMember, OperatorRestarts, caches, TypeOK
<1>5. seenPhase' \in [Operators -> [Jobs -> Phases \cup {"absent"}]]
  <2>1. CASE \E j \in Jobs : SyncMember(o, j)
    <3>1. PICK j \in Jobs : seenPhase' = [seenPhase EXCEPT ![o][j] = jobPhase[j]]
      BY <2>1 DEF SyncMember
    <3>2. jobPhase[j] \in Phases \cup {"absent"} /\ seenPhase[o] \in [Jobs -> Phases \cup {"absent"}]
      BY <1>0 DEF TypeOK
    <3>3. [seenPhase[o] EXCEPT ![j] = jobPhase[j]] \in [Jobs -> Phases \cup {"absent"}]
      BY <3>2
    <3> QED
      BY <1>0, <3>1, <3>3 DEF TypeOK
  <2>2. CASE ~ \E j \in Jobs : SyncMember(o, j)
    BY <1>0, <2>2 DEF SyncFleet, Resync, OperatorRestarts, caches, TypeOK
  <2> QED
    BY <2>1, <2>2
<1>6. /\ queued' \subseteq Operators
      /\ \A p \in Operators : p # o => (p \in queued' <=> p \in queued)
  BY <1>0 DEF SyncFleet, Resync, SyncMember, OperatorRestarts, TypeOK
<1>7. Exists(fleet) => o \in queued' \/ UNCHANGED <<seenFleet, queued, work>>
  BY DEF SyncFleet, Resync, SyncMember, OperatorRestarts
<1>8. TypeOK'
  BY <1>0, <1>1, <1>3, <1>4, <1>5, <1>6 DEF TypeOK
<1>9. SnapshotsConsistent'
  <2>1. Snapshot(fleet) /\ Snapshot(NoFleet)
    BY <1>0, InitialValues DEF Snapshot, SnapshotsConsistent, TypeOK, Fleets
  <2>2. ASSUME NEW p \in Operators PROVE Snapshot(seenFleet'[p]) /\ Snapshot(work'[p].obj)
    BY <1>0, <1>3, <1>4, <2>1, InitialValues DEF SnapshotsConsistent
  <2> QED
    BY <1>1, <2>1, <2>2 DEF SnapshotsConsistent, Snapshot
<1>10. FleetIsNotForgotten'
  <2> SUFFICES ASSUME NEW p \in Operators, Exists(fleet)', Rests(p)' PROVE (countedRefs = fleet.refs)'
    BY DEF FleetIsNotForgotten
  <2>1. CASE p = o
    BY <1>0, <1>1, <1>7, <2>1 DEF FleetIsNotForgotten, Rests, Exists
  <2>2. CASE p # o
    BY <1>0, <1>1, <1>3, <1>4, <1>6, <2>2 DEF FleetIsNotForgotten, Rests, Exists
  <2> QED
    BY <2>1, <2>2
<1> QED
  BY <1>8, <1>9, <1>10 DEF FleetInv

\* What an operator or a user writes is newer than everything that was read before.
LEMMA NewVersion ==
  ASSUME TypeOK, SnapshotsConsistent, NEW f \in Fleets, f.version = version + 1
  PROVE  /\ f.version # 0
         /\ \A o \in Operators : \A g \in {NoFleet, seenFleet[o], work[o].obj} :
              /\ g.version <= version + 1
              /\ g.version = 0 => g = NoFleet
              /\ g.version # f.version
<1>1. version \in Nat
  BY DEF TypeOK
<1>2. SUFFICES ASSUME NEW o \in Operators
               PROVE  \A g \in {NoFleet, seenFleet[o], work[o].obj} :
                        /\ g.version <= version + 1
                        /\ g.version = 0 => g = NoFleet
                        /\ g.version # f.version
  BY <1>1
<1>3. seenFleet[o].version \in Nat /\ work[o].obj.version \in Nat
  BY DEF TypeOK, Fleets, Works
<1>4. Snapshot(seenFleet[o]) /\ Snapshot(work[o].obj)
  BY DEF SnapshotsConsistent
<1> QED
  BY <1>1, <1>3, <1>4, InitialValues DEF Snapshot

\* A new version of the fleet f, written by an operator that then is idle or by a user, is
\* not what any operator has seen.
LEMMA WriteStep ==
  ASSUME FleetInv, NEW f \in Fleets, fleet' = f, version' = version + 1,
         f = NoFleet \/ f.version = version + 1,
         UNCHANGED <<jobPhase, caches>>, queued' \subseteq Operators,
         work' \in [Operators -> Works],
         \A o \in Operators : work'[o] = Idle \/ work'[o] = work[o],
         countedRefs' \in JobRefs \cup {<<>>}, {creates, edits, faults, crashes}' \subseteq Nat
  PROVE  FleetInv'
<1>0. TypeOK /\ SnapshotsConsistent
  BY DEF FleetInv
<1>1. UNCHANGED <<jobPhase, seenFleet, seenPhase>> /\ version \in Nat
  BY <1>0 DEF caches, TypeOK
<1>2. TypeOK'
  BY <1>0, <1>1 DEF TypeOK
<1>3. CASE f = NoFleet
  <2>1. Snapshot(NoFleet)'
    BY <1>0, <1>1, <1>3, InitialValues DEF Snapshot
  <2>2. ASSUME NEW o \in Operators PROVE Snapshot(seenFleet[o])' /\ Snapshot(work[o].obj)'
    <3>1. /\ seenFleet[o] \in Fleets /\ work[o].obj \in Fleets
          /\ Snapshot(seenFleet[o]) /\ Snapshot(work[o].obj)
      BY <1>0 DEF TypeOK, Works, SnapshotsConsistent
    <3>2. Snapshot(seenFleet[o])' /\ Snapshot(work[o].obj)'
      BY <1>0, <1>1, <1>3, <3>1, InitialValues DEF Snapshot, Fleets
    <3> QED
      BY <1>1, <2>1, <3>2, InitialValues DEF Snapshot
  <2>3. SnapshotsConsistent'
    BY <1>3, <2>1, <2>2 DEF SnapshotsConsistent, Snapshot
  <2>4. FleetIsNotForgotten'
    BY <1>3, InitialValues DEF FleetIsNotForgotten, Exists
  <2> QED
    BY <1>2, <2>3, <2>4 DEF FleetInv
<1>4. CASE f.version = version + 1
  <2>1. /\ f.version # 0
        /\ \A o \in Operators : \A g \in {NoFleet, seenFleet[o], work[o].obj} :
             /\ g.version <= version + 1
             /\ g.version = 0 => g = NoFleet
             /\ g.version # f.version
    BY <1>0, <1>4, NewVersion
  <2>2. ASSUME NEW o \in Operators, NEW g \in {NoFleet, seenFleet[o], work[o].obj}
        PROVE  /\ g.version <= version'
               /\ g.version = 0 => g = NoFleet
               /\ g.version = fleet'.version => g = fleet'
    BY <2>1
  <2>3. ASSUME NEW o \in Operators PROVE Snapshot(seenFleet[o])' /\ Snapshot(work[o].obj)'
    <3>1. work'[o].obj = NoFleet \/ work'[o].obj = work[o].obj
      BY InitialValues
    <3> QED
      BY <1>1, <2>2, <3>1 DEF Snapshot
  <2>4. Snapshot(fleet)'
    BY <1>1, <1>4, <2>1 DEF Snapshot
  <2>5. FleetIsNotForgotten'
    BY <1>1, <2>1 DEF FleetIsNotForgotten, Rests
  <2> QED
    BY <1>2, <2>3, <2>4, <2>5 DEF FleetInv, SnapshotsConsistent
<1> QED
  BY <1>3, <1>4

\* A status that is written, or not.
LEMMA StatusSteps ==
  ASSUME FleetInv, NEW o \in Operators, UpdateStatus(o) \/ UpdateFails(o)
  PROVE  FleetInv'
<1>0. TypeOK /\ SnapshotsConsistent /\ FleetIsNotForgotten
  BY DEF FleetInv
<1>1. /\ Goto(o, Idle) /\ UNCHANGED caches
      /\ queued' = queued \/ queued' = queued \cup {o}
      /\ {creates, edits, faults, crashes}' \subseteq Nat
  BY <1>0 DEF UpdateStatus, UpdateFails, RetryOnError, bounds, TypeOK
<1>2. /\ work' \in [Operators -> Works]
      /\ \A p \in Operators : work'[p] = Idle \/ work'[p] = work[p]
      /\ \A p \in Operators : p # o => work'[p] = work[p]
  BY <1>0, <1>1, GotoEffect, InitialValues
<1>3. queued' \subseteq Operators /\ queued \subseteq queued'
  BY <1>0, <1>1 DEF TypeOK
<1>4. CASE UNCHANGED <<api, countedRefs>> /\ queued' = queued \cup {o}
  <2>1. Snapshot(NoFleet)
    BY <1>0, InitialValues DEF Snapshot, SnapshotsConsistent, TypeOK, Fleets
  <2>2. Idle \in Works /\ Snapshot(Idle.obj)
    BY <2>1, InitialValues
  <2>3. queued \ {o} \subseteq queued' /\ o \in queued'
    BY <1>4
  <2> QED
    BY <1>1, <1>3, <1>4, <2>2, <2>3, WorkStep
<1>5. CASE Unchanged(work[o].obj) /\ StatusWritten(work[o])
  <2>1. /\ fleet' \in Fleets /\ version' \in Nat
        /\ countedRefs' = fleet.refs /\ fleet'.refs = fleet.refs /\ jobPhase' = jobPhase
        /\ \/ fleet' = fleet /\ version' = version
           \/ fleet'.version = version + 1 /\ version' = version + 1
    BY <1>0, <1>5, StatusWrittenEffect
  <2>2. countedRefs' \in JobRefs \cup {<<>>}
    BY <1>0, <2>1, RefsType DEF TypeOK
  <2>3. CASE fleet' = fleet /\ version' = version
    <3>1. TypeOK'
      BY <1>0, <1>1, <1>2, <1>3, <2>1, <2>2, <2>3 DEF TypeOK, caches
    <3>2. Snapshot(NoFleet)
      BY <1>0, InitialValues DEF Snapshot, SnapshotsConsistent, TypeOK, Fleets
    <3>3. ASSUME NEW p \in Operators PROVE Snapshot(seenFleet[p])' /\ Snapshot(work[p].obj)'
      <4>1. Snapshot(seenFleet[p]) /\ Snapshot(work[p].obj)
        BY <1>0 DEF SnapshotsConsistent
      <4> QED
        BY <1>1, <1>2, <2>3, <3>2, <4>1, InitialValues DEF Snapshot, caches
    <3>4. Snapshot(fleet)'
      BY <1>0, <2>3 DEF SnapshotsConsistent, Snapshot
    <3>5. FleetIsNotForgotten'
      BY <2>1, <2>3 DEF FleetIsNotForgotten
    <3> QED
      BY <3>1, <3>3, <3>4, <3>5 DEF FleetInv, SnapshotsConsistent
  <2>4. CASE fleet'.version = version + 1 /\ version' = version + 1
    BY <1>1, <1>2, <1>3, <2>1, <2>2, <2>4, WriteStep
  <2> QED
    BY <2>1, <2>3, <2>4
<1>6. CASE UpdateStatus(o)
  BY <1>5, <1>6 DEF UpdateStatus
<1>7. CASE UpdateFails(o)
  BY <1>4, <1>5, <1>7 DEF UpdateFails, RetryOnError
<1> QED
  BY <1>6, <1>7

\* What users do to the fleet.
LEMMA UserSteps ==
  ASSUME FleetInv,
         (\E refs \in JobRefs : UserCreatesFleet(refs) \/ UserEditsFleet(refs)) \/ UserDeletesFleet
  PROVE  FleetInv'
<1>0. TypeOK
  BY DEF FleetInv
<1>1. ASSUME NEW f \in Fleets, UserWrites(f), f = NoFleet \/ f.version = version + 1,
             countedRefs' \in JobRefs \cup {<<>>}
      PROVE  FleetInv'
  <2>1. /\ fleet' = f /\ version' = version + 1 /\ edits' = edits + 1
        /\ UNCHANGED <<jobPhase, caches, queued, work, creates, faults, crashes>>
    BY <1>1 DEF UserWrites
  <2>2. /\ {creates, edits, faults, crashes}' \subseteq Nat
        /\ queued' \subseteq Operators /\ work' \in [Operators -> Works]
    BY <1>0, <2>1 DEF TypeOK
  <2> QED
    BY <1>1, <2>1, <2>2, WriteStep
<1>2. ASSUME NEW refs \in JobRefs, UserCreatesFleet(refs) PROVE FleetInv'
  <2> DEFINE f == [version |-> version + 1, refs |-> refs, status |-> Zero]
  <2>1. f \in Fleets /\ f.version = version + 1
    BY <1>0, InitialValues DEF TypeOK, Fleets
  <2>2. UserWrites(f) /\ countedRefs' = <<>>
    BY <1>2 DEF UserCreatesFleet
  <2> HIDE DEF f
  <2> QED
    BY <1>1, <2>1, <2>2
<1>3. ASSUME NEW refs \in JobRefs, UserEditsFleet(refs) PROVE FleetInv'
  <2> DEFINE f == [fleet EXCEPT !.refs = refs, !.version = version + 1]
  <2>1. f \in Fleets /\ f.version = version + 1
    <3>1. /\ fleet \in [version : Nat, refs : JobRefs \cup {<<>>}, status : Counts]
          /\ refs \in JobRefs \cup {<<>>} /\ version + 1 \in Nat /\ fleet.status \in Counts
      BY <1>0 DEF TypeOK, Fleets
    <3>2. /\ f \in [version : Nat, refs : JobRefs \cup {<<>>}, status : Counts]
          /\ f.version = version + 1
      BY <3>1, FleetUpdate, Zenon
    <3> QED
      BY <3>2 DEF Fleets
  <2>2. UserWrites(f) /\ countedRefs' = countedRefs
    BY <1>3 DEF UserEditsFleet
  <2>3. countedRefs' \in JobRefs \cup {<<>>}
    BY <1>0, <2>2 DEF TypeOK
  <2> HIDE DEF f
  <2> QED
    BY <1>1, <2>1, <2>2, <2>3
<1>4. ASSUME UserDeletesFleet PROVE FleetInv'
  <2>1. UserWrites(NoFleet) /\ countedRefs' = countedRefs
    BY <1>4 DEF UserDeletesFleet
  <2>2. countedRefs' \in JobRefs \cup {<<>>}
    BY <1>0, <2>1 DEF TypeOK
  <2> QED
    BY <1>1, <2>1, <2>2, InitialValues
<1> QED
  BY <1>2, <1>3, <1>4

\* What the jobs do.
LEMMA MemberSteps ==
  ASSUME FleetInv, NEW j \in Jobs, MemberChanges(j)
  PROVE  FleetInv'
<1>0. TypeOK /\ SnapshotsConsistent
  BY DEF FleetInv
<1>1. /\ UNCHANGED <<fleet, version, seenFleet, seenPhase, queued, work, countedRefs, edits, faults, crashes>>
      /\ creates' = creates + 1 \/ creates' = creates
  BY DEF MemberChanges, caches
<1>2. \E p \in Phases \cup {"absent"} : jobPhase' = [jobPhase EXCEPT ![j] = p]
  BY DEF MemberChanges, Members!Create, Members!Start, Members!Settle, Members!Expire, Members!Remove,
     Members!Become, Phases
<1>3. TypeOK'
  <2>1. {creates, edits, faults, crashes}' \subseteq Nat
    BY <1>0, <1>1 DEF TypeOK
  <2>2. jobPhase' \in [Jobs -> Phases \cup {"absent"}]
    BY <1>0, <1>2 DEF TypeOK
  <2> QED
    BY <1>0, <1>1, <2>1, <2>2 DEF TypeOK
<1> QED
  BY <1>1, <1>3 DEF FleetInv, SnapshotsConsistent, Snapshot, FleetIsNotForgotten, Rests, Exists

\* At the start nothing has been read.
LEMMA FleetInvInit == Init => FleetInv
<1> SUFFICES ASSUME Init PROVE FleetInv
  OBVIOUS
<1>1. TypeOK
  <2>1. {creates, edits, faults, crashes} \subseteq Nat
    BY DEF Init
  <2>2. jobPhase \in [Jobs -> Phases \cup {"absent"}]
    BY DEF Init, Members!Init
  <2> QED
    BY <2>1, <2>2, InitialValues DEF Init, TypeOK
<1>2. SnapshotsConsistent
  BY InitialValues DEF Init, SnapshotsConsistent, Snapshot
<1> QED
  BY <1>1, <1>2, InitialValues DEF Init, FleetInv, FleetIsNotForgotten, Exists

\* Every step keeps the invariant.
LEMMA FleetInvStep == FleetInv /\ [Next]_vars => FleetInv'
<1> SUFFICES ASSUME FleetInv, [Next]_vars PROVE FleetInv'
  OBVIOUS
<1>1. CASE UNCHANGED vars
  BY <1>1 DEF vars, api, caches, bounds, FleetInv, TypeOK, SnapshotsConsistent, Snapshot,
     FleetIsNotForgotten, Rests, Exists
<1>2. ASSUME NEW o \in Operators, Operator(o) PROVE FleetInv'
  <2>1. CASE Begin(o) \/ ReadMember(o) \/ UpdateConflict(o)
    BY <2>1, WorkSteps
  <2>2. CASE SyncFleet(o) \/ Resync(o) \/ (\E j \in Jobs : SyncMember(o, j)) \/ OperatorRestarts(o)
    BY <2>2, CacheSteps
  <2>3. CASE UpdateStatus(o) \/ UpdateFails(o)
    BY <2>3, StatusSteps
  <2> QED
    BY <1>2, <2>1, <2>2, <2>3 DEF Operator, Reconcile
<1>3. CASE Environment
  BY <1>3, UserSteps, MemberSteps DEF Environment
<1> QED
  BY <1>1, <1>2, <1>3 DEF Next

\* However many operators there are, and whatever the caches, the users, the jobs and
\* failed calls do: what was read of the fleet is told by its version, and a fleet left
\* alone has been counted.
THEOREM FleetInvariance == Spec => []FleetInv
BY FleetInvInit, FleetInvStep, PTL DEF Spec

\* A conflict, with a user or another operator, a failed update, an edit during a
\* reconcile or a restart is never the last that happens to a fleet.
THEOREM FleetIsRemembered == Spec => []FleetIsNotForgotten
<1>1. FleetInv => FleetIsNotForgotten
  BY DEF FleetInv
<1> QED
  BY <1>1, FleetInvariance, PTL

\* Status().Update never puts a count on a fleet whose jobRefs are others than those the
\* operator read that counted.
THEOREM StatusFitsItsRefs == Spec => StatusIsForItsRefs
<1> DEFINE Fits == \E o \in Operators : /\ work[o].at = "counting" /\ work'[o].at = "idle"
                                        /\ work[o].obj.refs = fleet'.refs
<1>1. ASSUME FleetInv, [Next]_vars
      PROVE  [fleet.status # fleet'.status /\ Exists(fleet) /\ Exists(fleet') => Fits]_vars
  <2> SUFFICES ASSUME fleet.status # fleet'.status, Exists(fleet), Exists(fleet')
               PROVE  Fits
    OBVIOUS
  <2>0. TypeOK /\ SnapshotsConsistent
    BY <1>1 DEF FleetInv
  <2>1. fleet' # fleet
    OBVIOUS
  <2>2. ASSUME NEW o \in Operators, Operator(o) PROVE Fits
    <3>1. UpdateStatus(o) \/ UpdateFails(o)
      BY <2>1, <2>2 DEF Operator, Reconcile, Begin, ReadMember, UpdateConflict, SyncFleet, Resync,
         SyncMember, OperatorRestarts, api
    <3>2. /\ work[o].at = "counting" /\ Goto(o, Idle)
          /\ Unchanged(work[o].obj) /\ StatusWritten(work[o])
      BY <2>1, <3>1 DEF UpdateStatus, UpdateFails, Counted, RetryOnError, api
    <3>3. work'[o].at = "idle"
      BY <2>0, <3>2, GotoEffect, InitialValues
    <3>4. work[o].obj.refs = fleet'.refs
      BY <2>0, <3>2, StatusWrittenEffect
    <3> QED
      BY <3>2, <3>3, <3>4
  <2>3. CASE \E refs \in JobRefs : UserCreatesFleet(refs)
    BY <2>3 DEF UserCreatesFleet
  <2>4. ASSUME NEW refs \in JobRefs, UserEditsFleet(refs) PROVE FALSE
    <3>1. fleet' = [fleet EXCEPT !.refs = refs, !.version = version + 1]
      BY <2>4 DEF UserEditsFleet, UserWrites
    <3>2. fleet \in [version : Nat, refs : JobRefs \cup {<<>>}, status : Counts]
      BY <2>0 DEF TypeOK, Fleets
    <3> QED
      BY <3>1, <3>2
  <2>5. CASE UserDeletesFleet
    BY <2>5, InitialValues DEF UserDeletesFleet, UserWrites, Exists
  <2>6. CASE \E j \in Jobs : MemberChanges(j)
    BY <2>1, <2>6 DEF MemberChanges
  <2>7. CASE UNCHANGED vars
    BY <2>1, <2>7 DEF vars, api
  <2> QED
    BY <1>1, <2>2, <2>3, <2>4, <2>5, <2>6, <2>7 DEF Next, Environment
<1> QED
  BY <1>1, FleetInvariance, PTL DEF Spec, StatusIsForItsRefs

\* The members are what AgentJobReconciler makes of AgentJobs: of it no more is assumed
\* here than module AgentJobs says, which AgentJobProofs proves of that reconciler.
LEMMA MembersAreAgentJobs == Spec => Members!Spec
<1>1. Init => Members!Init
  BY DEF Init
<1>2. [Next]_vars => [Members!Next]_Members!vars
  <2> SUFFICES ASSUME Next PROVE Members!Next \/ UNCHANGED jobPhase
    BY DEF vars, api, Members!vars
  <2>1. ASSUME NEW j \in Jobs, MemberChanges(j) PROVE Members!Next
    BY <2>1 DEF MemberChanges, Members!Next, Members!Step
  <2>2. ASSUME NEW o \in Operators, Operator(o) PROVE UNCHANGED jobPhase
    BY <2>2 DEF Operator, Reconcile, Begin, ReadMember, UpdateStatus, UpdateConflict, UpdateFails,
       StatusWritten, SyncFleet, Resync, SyncMember, OperatorRestarts, api
  <2>3. CASE (\E refs \in JobRefs : UserCreatesFleet(refs) \/ UserEditsFleet(refs)) \/ UserDeletesFleet
    BY <2>3 DEF UserCreatesFleet, UserEditsFleet, UserDeletesFleet, UserWrites
  <2> QED
    BY <2>1, <2>2, <2>3 DEF Next, Environment
<1> QED
  BY <1>1, <1>2, PTL DEF Spec, Members!Spec
=============================================================================
