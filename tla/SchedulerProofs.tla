--------------------------- MODULE SchedulerProofs ---------------------------
(***************************************************************************)
(* Proofs about module Scheduler, for any number of jobs, invocations and  *)
(* agents and any adapter.                                                 *)
(***************************************************************************)
EXTENDS Scheduler, FiniteSetTheorems, TLAPS

-----------------------------------------------------------------------------
(* Lemmas about the operators *)

\* Replacing one element of a watch list by a watch state leaves a watch list of
\* the same length.
LEMMA SetWatchType ==
  ASSUME NEW s \in Seq(WatchStates), NEW i \in DOMAIN s, NEW v \in WatchStates
  PROVE  /\ [s EXCEPT ![i] = v] \in Seq(WatchStates)
         /\ Len([s EXCEPT ![i] = v]) = Len(s)
         /\ DOMAIN [s EXCEPT ![i] = v] = DOMAIN s
         /\ \A k \in DOMAIN s : [s EXCEPT ![i] = v][k] = IF k = i THEN v ELSE s[k]
OBVIOUS

\* Counting one more event keeps a counter a natural number.
LEMMA CounterType ==
  ASSUME NEW f \in [Calls -> Nat], NEW c \in Calls, NEW g,
         g = f \/ g = [f EXCEPT ![c] = @ + 1]
  PROVE  g \in [Calls -> Nat]
OBVIOUS

\* The states of a watch are distinct strings.
LEMMA WatchStatesFacts ==
  /\ "polling" \in WatchStates /\ "closed" \in WatchStates
  /\ Sent \subseteq WatchStates /\ Counted \subseteq WatchStates
  /\ "Completed" \in WatchStates /\ "Failed" \in WatchStates
  /\ "gotCompleted" \in WatchStates /\ "gotFailed" \in WatchStates
BY DEF WatchStates, Sent, Counted

\* Spawned leads from Pending to Running and is invalid everywhere else.
LEMMA SpawnedPhaseValue ==
  ASSUME NEW ph \in InputPhases
  PROVE  SpawnedPhase(ph) \in {"Running", Invalid}
BY SchedulerAssumption DEF SpawnedPhase, Transition, Invalid, Phases, IsTerminal

\* Cancelled leads to Terminating from Running, Succeeded and Failed only.
LEMMA CancelledPhaseValue ==
  ASSUME NEW p \in Phases \cup {"absent"}
  PROVE  /\ p \in {"Running", "Succeeded", "Failed"} =>
              Transition(p, "Cancelled") = "Terminating"
         /\ p \notin {"Running", "Succeeded", "Failed"} =>
              Transition(p, "Cancelled") = Invalid
         /\ Invalid # "Terminating"
BY DEF Transition, Invalid, Phases, IsTerminal

-----------------------------------------------------------------------------
(* Types *)

\* Every step of every action keeps the types of the variables; that the record a
\* Cancel holds is one needs CallsConsistent.
LEMMA TypeStep == TypeOK /\ CallsConsistent /\ [Next]_vars => TypeOK'
<1> SUFFICES ASSUME TypeOK, CallsConsistent, [Next]_vars PROVE TypeOK'
  OBVIOUS
<1> USE DEF TypeOK, callVars, watchVars, Outcomes, Return
<1>1. ASSUME NEW c \in Calls, ScheduleStep(c) PROVE TypeOK'
  <2>1. ASSUME NEW j \in Jobs, NEW n \in Sizes, ScheduleCall(c, j, n) PROVE TypeOK'
    BY <2>1, SchedulerAssumption DEF ScheduleCall
  <2>2. ASSUME NEW id \in AgentIDs, SpawnReturns(c, id) PROVE TypeOK'
    BY <2>2 DEF SpawnReturns
  <2>3. CASE SpawnFails(c)
    BY <2>3 DEF SpawnFails
  <2>4. CASE WatchReturns(c)
    BY <2>4, WatchStatesFacts DEF WatchReturns
  <2>5. CASE WatchFails(c)
    BY <2>5 DEF WatchFails
  <2>6. ASSUME NEW ph \in InputPhases, Register(c, ph) PROVE TypeOK'
    BY <2>6, SpawnedPhaseValue DEF Register, Phases
  <2>7. ASSUME NEW ph \in InputPhases, RejectPhase(c, ph) PROVE TypeOK'
    BY <2>7 DEF RejectPhase, Reject
  <2>8. CASE RejectDuplicate(c)
    BY <2>8 DEF RejectDuplicate, Reject
  <2>9. CASE CleanupTerminate(c)
    BY <2>9 DEF CleanupTerminate
  <2>10. CASE CleanupReturn(c)
    BY <2>10 DEF CleanupReturn
  <2> QED
    BY <1>1, <2>1, <2>2, <2>3, <2>4, <2>5, <2>6, <2>7, <2>8, <2>9, <2>10 DEF ScheduleStep
<1>2. ASSUME NEW c \in Calls, CancelStep(c) PROVE TypeOK'
  <2>1. ASSUME NEW j \in Jobs, CancelNotFound(c, j) PROVE TypeOK'
    BY <2>1 DEF CancelNotFound, CancelStart
  <2>2. ASSUME NEW j \in Jobs, CancelLookup(c, j) PROVE TypeOK'
    BY <2>2 DEF CancelLookup, CancelStart
  <2>3. CASE TerminateReturns(c)
    BY <2>3 DEF TerminateReturns
  <2>4. CASE TerminateFails(c)
    BY <2>4 DEF TerminateFails
  <2>5. CASE CommitCancel(c)
    <3>0. pc[c] = "terminate"
      BY <2>5 DEF CommitCancel
    <3>1. rec[c] \in Calls /\ job[c] \in Jobs
      BY <3>0 DEF CallsConsistent, CallConsistent
    <3>2. phase' = phase \/ phase' = [phase EXCEPT ![job[c]] = "Terminating"]
      BY <2>5, <3>1, CancelledPhaseValue DEF CommitCancel
    <3>3. phase' \in [Jobs -> Phases \cup {"absent"}]
      BY <3>1, <3>2 DEF Phases
    <3>4. UNCHANGED <<owner, callVars, ids, rec, next, watch, watchVars>>
      BY <2>5 DEF CommitCancel
    <3>5. /\ pc' = [pc EXCEPT ![c] = "returned"] /\ ctxDone' = ctxDone \cup {rec[c]}
          /\ res' = [res EXCEPT ![c] = "badTransition"] \/ res' = [res EXCEPT ![c] = "cancelled"]
      BY <2>5 DEF CommitCancel
    <3> QED
      BY <3>1, <3>3, <3>4, <3>5
  <2> QED
    BY <1>2, <2>1, <2>2, <2>3, <2>4, <2>5 DEF CancelStep
<1>3. ASSUME NEW c \in Calls, WatchStep(c) PROVE TypeOK'
  <2>1. ASSUME NEW i \in DOMAIN watch[c], NEW ev \in Sent, WatchEvent(c, i, ev)
        PROVE  TypeOK'
    BY <2>1, SetWatchType, WatchStatesFacts DEF WatchEvent, SetWatch
  <2>2. ASSUME NEW i \in DOMAIN watch[c], WatchClose(c, i) PROVE TypeOK'
    BY <2>2, SetWatchType, WatchStatesFacts DEF WatchClose, SetWatch
  <2>3. ASSUME NEW i \in DOMAIN watch[c], Collect(c, i) PROVE TypeOK'
    <3>1. \E v \in WatchStates : watch' = [watch EXCEPT ![c][i] = v]
      BY <2>3, WatchStatesFacts DEF Collect, SetWatch
    <3>2. watch' \in [Calls -> Seq(WatchStates)]
      BY <3>1, SetWatchType
    <3>3. completed' = completed \/ completed' = [completed EXCEPT ![c] = @ + 1]
      BY <2>3 DEF Collect
    <3>4. failed' = failed \/ failed' = [failed EXCEPT ![c] = @ + 1]
      BY <2>3 DEF Collect
    <3>5. completed' \in [Calls -> Nat]
      BY <3>3, CounterType, Zenon
    <3>6. failed' \in [Calls -> Nat]
      BY <3>4, CounterType, Zenon
    <3> QED
      BY <2>3, <3>2, <3>5, <3>6 DEF Collect
  <2>4. CASE CollectEOF(c)
    BY <2>4 DEF CollectEOF
  <2>5. CASE Finish(c)
    BY <2>5 DEF Finish, Outcome, Phases
  <2> QED
    BY <1>3, <2>1, <2>2, <2>3, <2>4, <2>5 DEF WatchStep
<1>4. CASE UNCHANGED vars
  BY <1>4 DEF vars
<1> QED
  BY <1>1, <1>2, <1>3, <1>4 DEF Next

-----------------------------------------------------------------------------
(* The inductive invariant *)

\* A call is never NoCall.
LEMMA CallIsCall == ASSUME NEW c \in Calls PROVE c # NoCall
BY SchedulerAssumption

\* What a Schedule that is accepted finds and does.
RegisterEffects(c) ==
  /\ job[c] \in Jobs /\ pc[c] = "setup" /\ op[c] = "schedule" /\ res[c] = "none"
  /\ owner[job[c]] = NoCall /\ phase[job[c]] = "absent"
  /\ Len(watch[c]) = want[c]
  /\ owner' = [owner EXCEPT ![job[c]] = c]
  /\ phase' = [phase EXCEPT ![job[c]] = "Running"]
  /\ pc' = [pc EXCEPT ![c] = "returned"]
  /\ res' = [res EXCEPT ![c] = "scheduled"]
  /\ wpc' = [wpc EXCEPT ![c] = "collect"]
  /\ UNCHANGED <<op, job, want, ids, rec, next, ctxDone, watch, completed, failed>>

\* Register has these effects.
LEMMA RegisterEffect ==
  ASSUME TypeOK, CallsConsistent, RecordsConsistent,
         NEW c \in Calls, NEW ph \in InputPhases, Register(c, ph)
  PROVE  RegisterEffects(c)
<1>1. pc[c] = "setup"
  BY DEF Register, Ready
<1>2. job[c] \in Jobs /\ op[c] = "schedule" /\ res[c] = "none"
  BY <1>1 DEF CallsConsistent, CallConsistent
<1>3. owner[job[c]] = NoCall /\ phase[job[c]] = "absent"
  BY <1>2 DEF Register, AlreadyScheduled, RecordsConsistent, RecordConsistent
<1>4. SpawnedPhase(ph) = "Running"
  BY SpawnedPhaseValue DEF Register
<1> QED
  BY <1>1, <1>2, <1>3, <1>4 DEF Register, Ready, Return, callVars, RegisterEffects

\* What the second critical section of Cancel finds and does.
CommitEffects(c) ==
  /\ job[c] \in Jobs /\ pc[c] = "terminate" /\ op[c] = "cancel" /\ res[c] = "none"
  /\ rec[c] \in Calls /\ rec[c] = owner[job[c]]
  /\ job[rec[c]] = job[c] /\ res[rec[c]] = "scheduled" /\ pc[rec[c]] = "returned"
  /\ ctxDone' = ctxDone \cup {rec[c]}
  /\ pc' = [pc EXCEPT ![c] = "returned"]
  /\ \/ /\ phase[job[c]] \in {"Running", "Succeeded", "Failed"}
        /\ phase' = [phase EXCEPT ![job[c]] = "Terminating"]
        /\ res' = [res EXCEPT ![c] = "cancelled"]
     \/ /\ phase[job[c]] = "Terminating"
        /\ phase' = phase
        /\ res' = [res EXCEPT ![c] = "badTransition"]
  /\ UNCHANGED <<owner, op, job, want, ids, rec, next, watch, wpc, completed, failed>>

\* CommitCancel has these effects.
LEMMA CommitEffect ==
  ASSUME TypeOK, CallsConsistent, RecordsConsistent, NEW c \in Calls, CommitCancel(c)
  PROVE  CommitEffects(c)
<1>1. pc[c] = "terminate"
  BY DEF CommitCancel
<1>2. /\ job[c] \in Jobs /\ op[c] = "cancel" /\ res[c] = "none"
      /\ rec[c] \in Calls /\ rec[c] = owner[job[c]]
  BY <1>1 DEF CallsConsistent, CallConsistent, TypeOK
<1>3. /\ phase[job[c]] \in {"Running", "Succeeded", "Failed", "Terminating"}
      /\ job[rec[c]] = job[c] /\ res[rec[c]] = "scheduled" /\ pc[rec[c]] = "returned"
  BY <1>2, CallIsCall DEF RecordsConsistent, RecordConsistent
<1>4. CASE phase[job[c]] = "Terminating"
  <2>1. Transition(phase[job[c]], "Cancelled") = Invalid
    BY <1>4, CancelledPhaseValue DEF Phases
  <2> QED
    BY <1>1, <1>2, <1>3, <1>4, <2>1 DEF CommitCancel, Return, callVars, watchVars, CommitEffects
<1>5. CASE phase[job[c]] # "Terminating"
  <2>1. Transition(phase[job[c]], "Cancelled") = "Terminating" /\ Invalid # "Terminating"
    BY <1>3, <1>5, CancelledPhaseValue DEF Phases
  <2> QED
    BY <1>1, <1>2, <1>3, <1>5, <2>1 DEF CommitCancel, Return, callVars, watchVars, CommitEffects
<1> QED
  BY <1>4, <1>5

\* What the end of watchJob finds and does.
FinishEffects(c) ==
  /\ job[c] \in Jobs /\ res[c] = "scheduled" /\ owner[job[c]] = c
  /\ wpc[c] = "collect" /\ completed[c] + failed[c] >= want[c]
  /\ Len(watch[c]) = want[c]
  /\ wpc' = [wpc EXCEPT ![c] = "done"]
  /\ \/ /\ phase[job[c]] = "Running"
        /\ phase' = [phase EXCEPT ![job[c]] = Outcome(c)]
     \/ /\ phase[job[c]] # "Running"
        /\ phase' = phase
  /\ Outcome(c) \in {"Succeeded", "Failed"}
  /\ UNCHANGED <<owner, op, pc, job, res, want, ids, rec, next, ctxDone, watch,
                 completed, failed>>

\* Finish has these effects.
LEMMA FinishEffect ==
  ASSUME TypeOK, RecordsConsistent, WatchesConsistent, NEW c \in Calls, Finish(c)
  PROVE  FinishEffects(c)
<1>1. wpc[c] = "collect" /\ completed[c] + failed[c] >= want[c]
  BY DEF Finish, AllReported
<1>2. res[c] = "scheduled" /\ Len(watch[c]) = want[c]
  BY <1>1 DEF WatchesConsistent, WatchLinked
<1>3. job[c] \in Jobs /\ owner[job[c]] = c
  BY <1>2 DEF RecordsConsistent
<1>4. phase[job[c]] \in {"Running", "Succeeded", "Failed", "Terminating"}
  BY <1>3, CallIsCall DEF RecordsConsistent, RecordConsistent
<1>5. MayBeSettled(phase[job[c]]) <=> phase[job[c]] = "Running"
  BY <1>4 DEF MayBeSettled, IsTerminal
<1>6. Outcome(c) \in {"Succeeded", "Failed"}
  BY DEF Outcome
<1> QED
  BY <1>1, <1>2, <1>3, <1>5, <1>6 DEF Finish, callVars, FinishEffects

\* An invocation's position, outcome and record stay in step.
LEMMA CallsStep == TypeOK /\ CallsConsistent /\ RecordsConsistent /\ [Next]_vars => CallsConsistent'
<1> SUFFICES ASSUME TypeOK, CallsConsistent, RecordsConsistent, [Next]_vars PROVE CallsConsistent'
  OBVIOUS
<1> USE DEF TypeOK, CallsConsistent, CallConsistent, RecordsConsistent, RecordConsistent, callVars, watchVars, Return
<1>1. ASSUME NEW c \in Calls, ScheduleStep(c) PROVE CallsConsistent'
  <2>1. ASSUME NEW j \in Jobs, NEW n \in Sizes, ScheduleCall(c, j, n) PROVE CallsConsistent'
    <3> SUFFICES ASSUME NEW d \in Calls PROVE CallConsistent(d)'
      BY DEF CallsConsistent
    <3>1. CASE d = c
      BY <2>1, <3>1 DEF ScheduleCall
    <3>2. CASE d # c
      BY <2>1, <3>2 DEF ScheduleCall
    <3> QED
      BY <3>1, <3>2
  <2>2. ASSUME NEW id \in AgentIDs, SpawnReturns(c, id) PROVE CallsConsistent'
    BY <2>2 DEF SpawnReturns, Spawning
  <2>3. CASE SpawnFails(c)
    BY <2>3 DEF SpawnFails, Spawning
  <2>4. CASE WatchReturns(c)
    BY <2>4 DEF WatchReturns, Watching
  <2>5. CASE WatchFails(c)
    BY <2>5 DEF WatchFails, Watching
  <2>6. ASSUME NEW ph \in InputPhases, Register(c, ph) PROVE CallsConsistent'
    <3> SUFFICES ASSUME NEW d \in Calls PROVE CallConsistent(d)'
      BY DEF CallsConsistent
    <3>1. CASE d = c
      BY <2>6, <3>1 DEF Register, Ready
    <3>2. CASE d # c
      BY <2>6, <3>2 DEF Register, Ready, AlreadyScheduled
    <3> QED
      BY <3>1, <3>2
  <2>7. ASSUME NEW ph \in InputPhases, RejectPhase(c, ph) PROVE CallsConsistent'
    BY <2>7 DEF RejectPhase, Reject, Ready
  <2>8. CASE RejectDuplicate(c)
    BY <2>8 DEF RejectDuplicate, Reject, Ready
  <2>9. CASE CleanupTerminate(c)
    BY <2>9 DEF CleanupTerminate
  <2>10. CASE CleanupReturn(c)
    BY <2>10 DEF CleanupReturn
  <2> QED
    BY <1>1, <2>1, <2>2, <2>3, <2>4, <2>5, <2>6, <2>7, <2>8, <2>9, <2>10 DEF ScheduleStep
<1>2. ASSUME NEW c \in Calls, CancelStep(c) PROVE CallsConsistent'
  <2>1. ASSUME NEW j \in Jobs, CancelNotFound(c, j) PROVE CallsConsistent'
    BY <2>1 DEF CancelNotFound, CancelStart
  <2>2. ASSUME NEW j \in Jobs, CancelLookup(c, j) PROVE CallsConsistent'
    BY <2>2 DEF CancelLookup, CancelStart
  <2>3. CASE TerminateReturns(c)
    BY <2>3 DEF TerminateReturns
  <2>4. CASE TerminateFails(c)
    BY <2>4 DEF TerminateFails, Terminating
  <2>5. CASE CommitCancel(c)
    <3> SUFFICES ASSUME NEW d \in Calls PROVE CallConsistent(d)'
      BY DEF CallsConsistent
    <3>1. CASE d = c
      BY <2>5, <3>1 DEF CommitCancel
    <3>2. CASE d # c
      BY <2>5, <3>2 DEF CommitCancel
    <3> QED
      BY <3>1, <3>2
  <2> QED
    BY <1>2, <2>1, <2>2, <2>3, <2>4, <2>5 DEF CancelStep
<1>3. ASSUME NEW c \in Calls, WatchStep(c) PROVE CallsConsistent'
  <2>1. ASSUME NEW i \in DOMAIN watch[c], NEW ev \in Sent, WatchEvent(c, i, ev) PROVE CallsConsistent'
    BY <2>1 DEF WatchEvent
  <2>2. ASSUME NEW i \in DOMAIN watch[c], WatchClose(c, i) PROVE CallsConsistent'
    BY <2>2 DEF WatchClose
  <2>3. ASSUME NEW i \in DOMAIN watch[c], Collect(c, i) PROVE CallsConsistent'
    BY <2>3 DEF Collect
  <2>4. CASE CollectEOF(c)
    BY <2>4 DEF CollectEOF
  <2>5. CASE Finish(c)
    BY <2>5 DEF Finish
  <2> QED
    BY <1>3, <2>1, <2>2, <2>3, <2>4, <2>5 DEF WatchStep
<1>4. CASE UNCHANGED vars
  BY <1>4 DEF vars
<1> QED
  BY <1>1, <1>2, <1>3, <1>4 DEF Next

\* s.jobs and the outcomes of Schedule stay in step: only a free entry is taken.
LEMMA RecordsStep == TypeOK /\ CallsConsistent /\ RecordsConsistent /\ WatchesConsistent /\ [Next]_vars => RecordsConsistent'
<1> SUFFICES ASSUME TypeOK, CallsConsistent, RecordsConsistent, WatchesConsistent, [Next]_vars PROVE RecordsConsistent'
  OBVIOUS
<1>a. ASSUME NEW c \in Calls, NEW ph \in InputPhases, Register(c, ph) PROVE RegisterEffects(c)
  BY <1>a, RegisterEffect
<1>b. ASSUME NEW c \in Calls, CommitCancel(c) PROVE CommitEffects(c)
  BY <1>b, CommitEffect
<1>c. ASSUME NEW c \in Calls, Finish(c) PROVE FinishEffects(c)
  BY <1>c, FinishEffect
<1> USE DEF TypeOK, CallsConsistent, CallConsistent, RecordsConsistent, RecordConsistent, callVars, watchVars, Return
<1>1. ASSUME NEW c \in Calls, ScheduleStep(c) PROVE RecordsConsistent'
  <2>1. ASSUME NEW j \in Jobs, NEW n \in Sizes, ScheduleCall(c, j, n) PROVE RecordsConsistent'
    <3>1. ASSUME NEW k \in Jobs PROVE RecordConsistent(k)'
      BY <2>1 DEF ScheduleCall
    <3>2. ASSUME NEW d \in Calls, (res[d] = "scheduled")'
          PROVE  (job[d] \in Jobs /\ owner[job[d]] = d)'
      BY <2>1, <3>2 DEF ScheduleCall
    <3> QED
      BY <3>1, <3>2
  <2>2. ASSUME NEW id \in AgentIDs, SpawnReturns(c, id) PROVE RecordsConsistent'
    BY <2>2 DEF SpawnReturns, Spawning
  <2>3. CASE SpawnFails(c)
    BY <2>3 DEF SpawnFails, Spawning
  <2>4. CASE WatchReturns(c)
    BY <2>4 DEF WatchReturns, Watching
  <2>5. CASE WatchFails(c)
    BY <2>5 DEF WatchFails, Watching
  <2>6. ASSUME NEW ph \in InputPhases, Register(c, ph) PROVE RecordsConsistent'
    <3>0. RegisterEffects(c)
      BY <2>6, <1>a
    <3>1. ASSUME NEW k \in Jobs PROVE RecordConsistent(k)'
      <4>1. CASE k = job[c]
        BY <3>0, <4>1, CallIsCall DEF RegisterEffects
      <4>2. CASE k # job[c]
        BY <3>0, <4>2, CallIsCall DEF RegisterEffects
      <4> QED
        BY <4>1, <4>2
    <3>2. ASSUME NEW d \in Calls, (res[d] = "scheduled")'
          PROVE  (job[d] \in Jobs /\ owner[job[d]] = d)'
      <4>1. CASE d = c
        BY <3>0, <3>2, <4>1, CallIsCall DEF RegisterEffects
      <4>2. CASE d # c
        BY <3>0, <3>2, <4>2, CallIsCall DEF RegisterEffects
      <4> QED
        BY <4>1, <4>2
    <3> QED
      BY <3>1, <3>2
  <2>7. ASSUME NEW ph \in InputPhases, RejectPhase(c, ph) PROVE RecordsConsistent'
    BY <2>7 DEF RejectPhase, Reject, Ready
  <2>8. CASE RejectDuplicate(c)
    BY <2>8 DEF RejectDuplicate, Reject, Ready
  <2>9. CASE CleanupTerminate(c)
    BY <2>9 DEF CleanupTerminate
  <2>10. CASE CleanupReturn(c)
    BY <2>10 DEF CleanupReturn
  <2> QED
    BY <1>1, <2>1, <2>2, <2>3, <2>4, <2>5, <2>6, <2>7, <2>8, <2>9, <2>10 DEF ScheduleStep
<1>2. ASSUME NEW c \in Calls, CancelStep(c) PROVE RecordsConsistent'
  <2>1. ASSUME NEW j \in Jobs, CancelNotFound(c, j) PROVE RecordsConsistent'
    BY <2>1 DEF CancelNotFound, CancelStart
  <2>2. ASSUME NEW j \in Jobs, CancelLookup(c, j) PROVE RecordsConsistent'
    BY <2>2 DEF CancelLookup, CancelStart
  <2>3. CASE TerminateReturns(c)
    BY <2>3 DEF TerminateReturns
  <2>4. CASE TerminateFails(c)
    BY <2>4 DEF TerminateFails, Terminating
  <2>5. CASE CommitCancel(c)
    <3>0. CommitEffects(c)
      BY <2>5, <1>b
    <3>1. ASSUME NEW k \in Jobs PROVE RecordConsistent(k)'
      <4>1. CASE k = job[c]
        BY SMTT(30), <3>0, <4>1, CallIsCall DEF CommitEffects
      <4>2. CASE k # job[c]
        BY SMTT(30), <3>0, <4>2, CallIsCall DEF CommitEffects
      <4> QED
        BY <4>1, <4>2
    <3>2. ASSUME NEW d \in Calls, (res[d] = "scheduled")'
          PROVE  (job[d] \in Jobs /\ owner[job[d]] = d)'
      <4>1. CASE d = c
        BY <3>0, <3>2, <4>1, CallIsCall DEF CommitEffects
      <4>2. CASE d # c
        BY SMTT(30), <3>0, <3>2, <4>2, CallIsCall DEF CommitEffects
      <4> QED
        BY <4>1, <4>2
    <3> QED
      BY <3>1, <3>2
  <2> QED
    BY <1>2, <2>1, <2>2, <2>3, <2>4, <2>5 DEF CancelStep
<1>3. ASSUME NEW c \in Calls, WatchStep(c) PROVE RecordsConsistent'
  <2>1. ASSUME NEW i \in DOMAIN watch[c], NEW ev \in Sent, WatchEvent(c, i, ev) PROVE RecordsConsistent'
    BY <2>1 DEF WatchEvent
  <2>2. ASSUME NEW i \in DOMAIN watch[c], WatchClose(c, i) PROVE RecordsConsistent'
    BY <2>2 DEF WatchClose
  <2>3. ASSUME NEW i \in DOMAIN watch[c], Collect(c, i) PROVE RecordsConsistent'
    BY <2>3 DEF Collect
  <2>4. CASE CollectEOF(c)
    BY <2>4 DEF CollectEOF
  <2>5. CASE Finish(c)
    <3>0. FinishEffects(c)
      BY <2>5, <1>c
    <3>1. ASSUME NEW k \in Jobs PROVE RecordConsistent(k)'
      <4>1. CASE k = job[c]
        BY <3>0, <4>1 DEF FinishEffects
      <4>2. CASE k # job[c]
        BY <3>0, <4>2 DEF FinishEffects
      <4> QED
        BY <4>1, <4>2
    <3>2. ASSUME NEW d \in Calls, (res[d] = "scheduled")'
          PROVE  (job[d] \in Jobs /\ owner[job[d]] = d)'
      BY <3>0, <3>2 DEF FinishEffects
    <3> QED
      BY <3>1, <3>2
  <2> QED
    BY <1>3, <2>1, <2>2, <2>3, <2>4, <2>5 DEF WatchStep
<1>4. CASE UNCHANGED vars
  BY <1>4 DEF vars
<1> QED
  BY <1>1, <1>2, <1>3, <1>4 DEF Next

\* Only the watches of a refused attempt or of a Terminating job are cancelled.
LEMMA CancelledStep == TypeOK /\ CallsConsistent /\ RecordsConsistent /\ WatchesConsistent /\ CancelledConsistent /\ [Next]_vars => CancelledConsistent'
<1> SUFFICES ASSUME TypeOK, CallsConsistent, RecordsConsistent, WatchesConsistent, CancelledConsistent, [Next]_vars PROVE CancelledConsistent'
  OBVIOUS
<1>a. ASSUME NEW c \in Calls, NEW ph \in InputPhases, Register(c, ph) PROVE RegisterEffects(c)
  BY <1>a, RegisterEffect
<1>b. ASSUME NEW c \in Calls, CommitCancel(c) PROVE CommitEffects(c)
  BY <1>b, CommitEffect
<1>c. ASSUME NEW c \in Calls, Finish(c) PROVE FinishEffects(c)
  BY <1>c, FinishEffect
<1> USE DEF TypeOK, CallsConsistent, CallConsistent, RecordsConsistent, RecordConsistent, CancelledConsistent, callVars, watchVars, Return
<1>1. ASSUME NEW c \in Calls, ScheduleStep(c) PROVE CancelledConsistent'
  <2>1. ASSUME NEW j \in Jobs, NEW n \in Sizes, ScheduleCall(c, j, n) PROVE CancelledConsistent'
    <3>1. ASSUME NEW d \in ctxDone'
          PROVE  /\ pc'[d] \in {"reject", "returned"}
                 /\ res'[d] = "scheduled" => phase'[job'[d]] = "Terminating"
      BY <2>1 DEF ScheduleCall
    <3> QED
      BY <3>1
  <2>2. ASSUME NEW id \in AgentIDs, SpawnReturns(c, id) PROVE CancelledConsistent'
    BY <2>2 DEF SpawnReturns, Spawning
  <2>3. CASE SpawnFails(c)
    BY <2>3 DEF SpawnFails, Spawning
  <2>4. CASE WatchReturns(c)
    BY <2>4 DEF WatchReturns, Watching
  <2>5. CASE WatchFails(c)
    BY <2>5 DEF WatchFails, Watching
  <2>6. ASSUME NEW ph \in InputPhases, Register(c, ph) PROVE CancelledConsistent'
    <3>0. RegisterEffects(c)
      BY <2>6, <1>a
    <3>1. ASSUME NEW d \in ctxDone'
          PROVE  /\ pc'[d] \in {"reject", "returned"}
                 /\ res'[d] = "scheduled" => phase'[job'[d]] = "Terminating"
      <4>1. CASE d = c
        BY <3>0, <4>1 DEF RegisterEffects
      <4>2. CASE d # c
        BY <3>0, <4>2 DEF RegisterEffects
      <4> QED
        BY <4>1, <4>2
    <3> QED
      BY <3>1
  <2>7. ASSUME NEW ph \in InputPhases, RejectPhase(c, ph) PROVE CancelledConsistent'
    BY <2>7 DEF RejectPhase, Reject, Ready
  <2>8. CASE RejectDuplicate(c)
    BY <2>8 DEF RejectDuplicate, Reject, Ready
  <2>9. CASE CleanupTerminate(c)
    BY <2>9 DEF CleanupTerminate
  <2>10. CASE CleanupReturn(c)
    BY <2>10 DEF CleanupReturn
  <2> QED
    BY <1>1, <2>1, <2>2, <2>3, <2>4, <2>5, <2>6, <2>7, <2>8, <2>9, <2>10 DEF ScheduleStep
<1>2. ASSUME NEW c \in Calls, CancelStep(c) PROVE CancelledConsistent'
  <2>1. ASSUME NEW j \in Jobs, CancelNotFound(c, j) PROVE CancelledConsistent'
    BY <2>1 DEF CancelNotFound, CancelStart
  <2>2. ASSUME NEW j \in Jobs, CancelLookup(c, j) PROVE CancelledConsistent'
    BY SMTT(30), <2>2 DEF CancelLookup, CancelStart
  <2>3. CASE TerminateReturns(c)
    BY <2>3 DEF TerminateReturns
  <2>4. CASE TerminateFails(c)
    BY SMTT(30), <2>4 DEF TerminateFails, Terminating
  <2>5. CASE CommitCancel(c)
    <3>0. CommitEffects(c)
      BY <2>5, <1>b
    <3>1. ASSUME NEW d \in ctxDone'
          PROVE  /\ pc'[d] \in {"reject", "returned"}
                 /\ res'[d] = "scheduled" => phase'[job'[d]] = "Terminating"
      <4>1. CASE job[d] = job[c]
        BY SMTT(30), <3>0, <4>1 DEF CommitEffects
      <4>2. CASE job[d] # job[c]
        BY SMTT(30), <3>0, <4>2 DEF CommitEffects
      <4> QED
        BY <4>1, <4>2
    <3> QED
      BY <3>1
  <2> QED
    BY <1>2, <2>1, <2>2, <2>3, <2>4, <2>5 DEF CancelStep
<1>3. ASSUME NEW c \in Calls, WatchStep(c) PROVE CancelledConsistent'
  <2>1. ASSUME NEW i \in DOMAIN watch[c], NEW ev \in Sent, WatchEvent(c, i, ev) PROVE CancelledConsistent'
    BY <2>1 DEF WatchEvent
  <2>2. ASSUME NEW i \in DOMAIN watch[c], WatchClose(c, i) PROVE CancelledConsistent'
    BY <2>2 DEF WatchClose
  <2>3. ASSUME NEW i \in DOMAIN watch[c], Collect(c, i) PROVE CancelledConsistent'
    BY <2>3 DEF Collect
  <2>4. CASE CollectEOF(c)
    BY <2>4 DEF CollectEOF
  <2>5. CASE Finish(c)
    <3>0. FinishEffects(c)
      BY <2>5, <1>c
    <3>1. ASSUME NEW d \in ctxDone'
          PROVE  /\ pc'[d] \in {"reject", "returned"}
                 /\ res'[d] = "scheduled" => phase'[job'[d]] = "Terminating"
      <4>1. CASE job[d] = job[c]
        BY <3>0, <4>1 DEF FinishEffects
      <4>2. CASE job[d] # job[c]
        BY <3>0, <4>2 DEF FinishEffects
      <4> QED
        BY <4>1, <4>2
    <3> QED
      BY <3>1
  <2> QED
    BY <1>3, <2>1, <2>2, <2>3, <2>4, <2>5 DEF WatchStep
<1>4. CASE UNCHANGED vars
  BY <1>4 DEF vars
<1> QED
  BY <1>1, <1>2, <1>3, <1>4 DEF Next

\* No step takes a job out of Terminating.
LEMMA CancelSticksStep == TypeOK /\ CallsConsistent /\ RecordsConsistent /\ WatchesConsistent /\ CancelSticks /\ [Next]_vars => CancelSticks'
<1> SUFFICES ASSUME TypeOK, CallsConsistent, RecordsConsistent, WatchesConsistent, CancelSticks, [Next]_vars PROVE CancelSticks'
  OBVIOUS
<1>a. ASSUME NEW c \in Calls, NEW ph \in InputPhases, Register(c, ph) PROVE RegisterEffects(c)
  BY <1>a, RegisterEffect
<1>b. ASSUME NEW c \in Calls, CommitCancel(c) PROVE CommitEffects(c)
  BY <1>b, CommitEffect
<1>c. ASSUME NEW c \in Calls, Finish(c) PROVE FinishEffects(c)
  BY <1>c, FinishEffect
<1> USE DEF TypeOK, CallsConsistent, CallConsistent, RecordsConsistent, RecordConsistent, CancelSticks, callVars, watchVars, Return
<1>1. ASSUME NEW c \in Calls, ScheduleStep(c) PROVE CancelSticks'
  <2>1. ASSUME NEW j \in Jobs, NEW n \in Sizes, ScheduleCall(c, j, n) PROVE CancelSticks'
    <3>1. ASSUME NEW d \in Calls, res'[d] = "cancelled"
          PROVE  phase'[job'[d]] = "Terminating"
      BY <2>1, <3>1 DEF ScheduleCall
    <3> QED
      BY <3>1
  <2>2. ASSUME NEW id \in AgentIDs, SpawnReturns(c, id) PROVE CancelSticks'
    BY <2>2 DEF SpawnReturns, Spawning
  <2>3. CASE SpawnFails(c)
    BY <2>3 DEF SpawnFails, Spawning
  <2>4. CASE WatchReturns(c)
    BY <2>4 DEF WatchReturns, Watching
  <2>5. CASE WatchFails(c)
    BY <2>5 DEF WatchFails, Watching
  <2>6. ASSUME NEW ph \in InputPhases, Register(c, ph) PROVE CancelSticks'
    <3>0. RegisterEffects(c)
      BY <2>6, <1>a
    <3>1. ASSUME NEW d \in Calls, res'[d] = "cancelled"
          PROVE  phase'[job'[d]] = "Terminating"
      <4>1. CASE job[d] = job[c]
        BY <3>0, <3>1, <4>1 DEF RegisterEffects
      <4>2. CASE job[d] # job[c]
        BY <3>0, <3>1, <4>2 DEF RegisterEffects
      <4> QED
        BY <4>1, <4>2
    <3> QED
      BY <3>1
  <2>7. ASSUME NEW ph \in InputPhases, RejectPhase(c, ph) PROVE CancelSticks'
    BY <2>7 DEF RejectPhase, Reject, Ready
  <2>8. CASE RejectDuplicate(c)
    BY <2>8 DEF RejectDuplicate, Reject, Ready
  <2>9. CASE CleanupTerminate(c)
    BY <2>9 DEF CleanupTerminate
  <2>10. CASE CleanupReturn(c)
    BY <2>10 DEF CleanupReturn
  <2> QED
    BY <1>1, <2>1, <2>2, <2>3, <2>4, <2>5, <2>6, <2>7, <2>8, <2>9, <2>10 DEF ScheduleStep
<1>2. ASSUME NEW c \in Calls, CancelStep(c) PROVE CancelSticks'
  <2>1. ASSUME NEW j \in Jobs, CancelNotFound(c, j) PROVE CancelSticks'
    BY <2>1 DEF CancelNotFound, CancelStart
  <2>2. ASSUME NEW j \in Jobs, CancelLookup(c, j) PROVE CancelSticks'
    BY SMTT(30), <2>2 DEF CancelLookup, CancelStart
  <2>3. CASE TerminateReturns(c)
    BY <2>3 DEF TerminateReturns
  <2>4. CASE TerminateFails(c)
    BY <2>4 DEF TerminateFails, Terminating
  <2>5. CASE CommitCancel(c)
    <3>0. CommitEffects(c)
      BY <2>5, <1>b
    <3>1. ASSUME NEW d \in Calls, res'[d] = "cancelled"
          PROVE  phase'[job'[d]] = "Terminating"
      <4>1. CASE d = c
        BY <3>0, <3>1, <4>1 DEF CommitEffects
      <4>2. CASE d # c /\ job[d] = job[c]
        BY SMTT(30), <3>0, <3>1, <4>2 DEF CommitEffects
      <4>3. CASE job[d] # job[c]
        BY <3>0, <3>1, <4>3 DEF CommitEffects
      <4> QED
        BY <4>1, <4>2, <4>3
    <3> QED
      BY <3>1
  <2> QED
    BY <1>2, <2>1, <2>2, <2>3, <2>4, <2>5 DEF CancelStep
<1>3. ASSUME NEW c \in Calls, WatchStep(c) PROVE CancelSticks'
  <2>1. ASSUME NEW i \in DOMAIN watch[c], NEW ev \in Sent, WatchEvent(c, i, ev) PROVE CancelSticks'
    BY <2>1 DEF WatchEvent
  <2>2. ASSUME NEW i \in DOMAIN watch[c], WatchClose(c, i) PROVE CancelSticks'
    BY <2>2 DEF WatchClose
  <2>3. ASSUME NEW i \in DOMAIN watch[c], Collect(c, i) PROVE CancelSticks'
    BY <2>3 DEF Collect
  <2>4. CASE CollectEOF(c)
    BY <2>4 DEF CollectEOF
  <2>5. CASE Finish(c)
    <3>0. FinishEffects(c)
      BY <2>5, <1>c
    <3>1. ASSUME NEW d \in Calls, res'[d] = "cancelled"
          PROVE  phase'[job'[d]] = "Terminating"
      <4>1. CASE job[d] = job[c]
        BY <3>0, <3>1, <4>1 DEF FinishEffects
      <4>2. CASE job[d] # job[c]
        BY <3>0, <3>1, <4>2 DEF FinishEffects
      <4> QED
        BY <4>1, <4>2
    <3> QED
      BY <3>1
  <2> QED
    BY <1>3, <2>1, <2>2, <2>3, <2>4, <2>5 DEF WatchStep
<1>4. CASE UNCHANGED vars
  BY <1>4 DEF vars
<1> QED
  BY <1>1, <1>2, <1>3, <1>4 DEF Next

-----------------------------------------------------------------------------
(* Counting events *)

\* The positions of a state in a watch list are finitely many of its positions.
LEMMA PositionsFinite ==
  ASSUME NEW w \in Seq(WatchStates), NEW v
  PROVE  /\ Positions(w, v) \subseteq 1..Len(w)
         /\ IsFiniteSet(Positions(w, v))
         /\ Cardinality(Positions(w, v)) \in Nat
<1>1. Positions(w, v) \subseteq 1..Len(w)
  BY DEF Positions
<1>2. IsFiniteSet(1..Len(w))
  BY FS_Interval
<1> QED
  BY <1>1, <1>2, FS_Subset, FS_CardinalityType

\* A new watch, which polls, is not among those that were counted.
LEMMA PositionsAppend ==
  ASSUME NEW w \in Seq(WatchStates), NEW v \in Counted
  PROVE  Positions(Append(w, "polling"), v) = Positions(w, v)
<1>1. v # "polling"
  BY DEF Counted
<1>2. DOMAIN Append(w, "polling") = 1..(Len(w) + 1) /\ DOMAIN w = 1..Len(w) /\ Len(w) \in Nat
  BY WatchStatesFacts
<1>3. Append(w, "polling")[Len(w) + 1] = "polling"
  BY WatchStatesFacts
<1>4. \A i \in 1..Len(w) : Append(w, "polling")[i] = w[i]
  BY WatchStatesFacts
<1> QED
  BY <1>1, <1>2, <1>3, <1>4 DEF Positions

\* A watch that changes between two other states leaves the positions of v alone.
LEMMA PositionsOther ==
  ASSUME NEW w \in Seq(WatchStates), NEW i \in DOMAIN w, NEW u \in WatchStates, NEW v,
         w[i] # v, u # v
  PROVE  Positions([w EXCEPT ![i] = u], v) = Positions(w, v)
BY SetWatchType DEF Positions

\* A watch that changes to v adds one to the positions of v.
LEMMA PositionsAdd ==
  ASSUME NEW w \in Seq(WatchStates), NEW i \in DOMAIN w, NEW v \in WatchStates, w[i] # v
  PROVE  Cardinality(Positions([w EXCEPT ![i] = v], v)) = Cardinality(Positions(w, v)) + 1
<1>1. Positions([w EXCEPT ![i] = v], v) = Positions(w, v) \cup {i}
  BY SetWatchType DEF Positions
<1>2. i \notin Positions(w, v)
  BY DEF Positions
<1> QED
  BY <1>1, <1>2, PositionsFinite, FS_AddElement

\* The counted watches are all watches exactly when the two counts add up to their
\* number.
LEMMA CountedAll ==
  ASSUME NEW w \in Seq(WatchStates)
  PROVE  (\A i \in DOMAIN w : w[i] \in Counted) <=>
           Cardinality(Positions(w, "gotCompleted")) + Cardinality(Positions(w, "gotFailed"))
             >= Len(w)
<1> DEFINE C == Positions(w, "gotCompleted")
           F == Positions(w, "gotFailed")
<1>1. C \cap F = {}
  BY DEF Positions
<1>2. IsFiniteSet(C) /\ IsFiniteSet(F) /\ C \cup F \in SUBSET (1..Len(w))
  BY PositionsFinite
<1>3. Cardinality(C \cup F) = Cardinality(C) + Cardinality(F)
  <2>1. Cardinality(C \cup F) = Cardinality(C) + Cardinality(F) - Cardinality(C \cap F)
    BY <1>2, FS_Union
  <2>2. Cardinality(C \cap F) = 0
    BY <1>1, FS_EmptySet
  <2>3. Cardinality(C) \in Nat /\ Cardinality(F) \in Nat
    BY PositionsFinite
  <2> HIDE DEF C, F
  <2> QED
    BY <2>1, <2>2, <2>3
<1>4. IsFiniteSet(1..Len(w)) /\ Cardinality(1..Len(w)) = Len(w) /\ Len(w) \in Nat
  <2>1. Len(w) \in Nat
    OBVIOUS
  <2>2. /\ IsFiniteSet(1..Len(w))
        /\ Cardinality(1..Len(w)) = IF 1 > Len(w) THEN 0 ELSE Len(w) - 1 + 1
    BY <2>1, FS_Interval
  <2> QED
    BY <2>1, <2>2
<1>5. /\ Cardinality(C \cup F) <= Len(w)
      /\ Cardinality(C \cup F) = Len(w) => C \cup F = 1..Len(w)
  BY <1>2, <1>4, FS_Subset
<1>6. Cardinality(C \cup F) \in Nat
  <2>1. Cardinality(C) \in Nat /\ Cardinality(F) \in Nat
    BY PositionsFinite
  <2> HIDE DEF C, F
  <2> QED
    BY <1>3, <2>1
<1>7. (\A i \in DOMAIN w : w[i] \in Counted) <=> C \cup F = 1..Len(w)
  BY DEF Positions, Counted
<1>8. C \cup F = 1..Len(w) <=> Cardinality(C \cup F) >= Len(w)
  <2> HIDE DEF C, F
  <2>1. C \cup F = 1..Len(w) => Cardinality(C \cup F) = Len(w)
    BY <1>4, Zenon
  <2>2. Cardinality(C \cup F) >= Len(w) => Cardinality(C \cup F) = Len(w)
    BY <1>4, <1>5, <1>6
  <2>3. Cardinality(C \cup F) = Len(w) => Cardinality(C \cup F) >= Len(w)
    BY <1>4
  <2> QED
    BY <1>5, <2>1, <2>2, <2>3
<1> QED
  BY <1>3, <1>7, <1>8

\* Apart from opening a watch, its report, its end and its being counted, no step
\* touches the watches or the counters.
LEMMA WatchMoves ==
  ASSUME [Next]_vars
  PROVE  \/ UNCHANGED <<watch, completed, failed>>
         \/ \E c \in Calls :
              \/ WatchReturns(c)
              \/ \E i \in DOMAIN watch[c] :
                   (\E ev \in Sent : WatchEvent(c, i, ev)) \/ WatchClose(c, i) \/ Collect(c, i)
<1> USE DEF watchVars
<1>1. ASSUME NEW c \in Calls, ScheduleStep(c)
      PROVE  UNCHANGED <<watch, completed, failed>> \/ WatchReturns(c)
  BY <1>1 DEF ScheduleStep, ScheduleCall, SpawnReturns, SpawnFails, WatchFails, Register,
              RejectPhase, RejectDuplicate, Reject, CleanupTerminate, CleanupReturn
<1>2. ASSUME NEW c \in Calls, CancelStep(c) PROVE UNCHANGED <<watch, completed, failed>>
  BY <1>2 DEF CancelStep, CancelNotFound, CancelLookup, TerminateReturns, TerminateFails,
              CommitCancel
<1>3. ASSUME NEW c \in Calls, CollectEOF(c) \/ Finish(c)
      PROVE  UNCHANGED <<watch, completed, failed>>
  BY <1>3 DEF CollectEOF, Finish
<1>4. CASE UNCHANGED vars
  BY <1>4 DEF vars
<1> QED
  BY <1>1, <1>2, <1>3, <1>4 DEF Next, WatchStep

\* The counters stay equal to the numbers of events taken.
LEMMA CountsStep ==
  ASSUME TypeOK, CountersConsistent, [Next]_vars
  PROVE  CountersConsistent'
<1> SUFFICES \A d \in Calls : CountsRight(d)'
  BY DEF CountersConsistent
<1>0. \A d \in Calls : CountsRight(d)
  BY DEF CountersConsistent
<1>1. CASE UNCHANGED <<watch, completed, failed>>
  BY <1>0, <1>1 DEF CountsRight
<1>2. ASSUME NEW c \in Calls, WatchReturns(c) PROVE \A d \in Calls : CountsRight(d)'
  <2>1. watch' = [watch EXCEPT ![c] = Append(@, "polling")] /\ UNCHANGED <<completed, failed>>
    BY <1>2 DEF WatchReturns, watchVars
  <2> SUFFICES ASSUME NEW d \in Calls PROVE CountsRight(d)'
    OBVIOUS
  <2>2. CASE d # c
    BY <1>0, <2>1, <2>2 DEF CountsRight, TypeOK
  <2>3. CASE d = c
    <3>1. watch[c] \in Seq(WatchStates) /\ watch'[c] = Append(watch[c], "polling")
      BY <2>1 DEF TypeOK
    <3>2. \A v \in Counted : Positions(watch'[c], v) = Positions(watch[c], v)
      BY <3>1, PositionsAppend
    <3> QED
      BY <1>0, <2>1, <2>3, <3>2 DEF CountsRight, Counted
  <2> QED
    BY <2>2, <2>3
<1>3. ASSUME NEW c \in Calls, NEW i \in DOMAIN watch[c],
             (\E ev \in Sent : WatchEvent(c, i, ev)) \/ WatchClose(c, i)
      PROVE  \A d \in Calls : CountsRight(d)'
  <2>1. PICK u \in {"Completed", "Failed", "closed"} :
          watch' = [watch EXCEPT ![c][i] = u]
    BY <1>3 DEF WatchEvent, WatchClose, SetWatch, Sent
  <2>2. watch[c][i] = "polling" /\ UNCHANGED <<completed, failed>>
    BY <1>3 DEF WatchEvent, WatchClose, watchVars
  <2> SUFFICES ASSUME NEW d \in Calls PROVE CountsRight(d)'
    OBVIOUS
  <2>3. CASE d # c
    BY <1>0, <2>1, <2>2, <2>3 DEF CountsRight, TypeOK
  <2>4. CASE d = c
    <3>1. watch[c] \in Seq(WatchStates) /\ watch'[c] = [watch[c] EXCEPT ![i] = u]
      BY <2>1 DEF TypeOK
    <3>2. \A v \in Counted : Positions(watch'[c], v) = Positions(watch[c], v)
      BY <2>1, <2>2, <3>1, PositionsOther, WatchStatesFacts DEF Counted
    <3> QED
      BY <1>0, <2>2, <2>4, <3>2 DEF CountsRight, Counted
  <2> QED
    BY <2>3, <2>4
<1>4. ASSUME NEW c \in Calls, NEW i \in DOMAIN watch[c], Collect(c, i)
      PROVE  \A d \in Calls : CountsRight(d)'
  <2> SUFFICES ASSUME NEW d \in Calls PROVE CountsRight(d)'
    OBVIOUS
  <2>1. CASE d # c
    BY <1>0, <1>4, <2>1 DEF Collect, SetWatch, CountsRight, TypeOK
  <2>2. CASE d = c
    <3>0. watch[c] \in Seq(WatchStates) /\ completed[c] \in Nat /\ failed[c] \in Nat
      BY DEF TypeOK
    <3>1. CASE watch[c][i] = "Completed"
      <4>1. watch'[c] = [watch[c] EXCEPT ![i] = "gotCompleted"]
        BY <1>4, <3>1 DEF Collect, SetWatch, TypeOK
      <4>2. completed'[c] = completed[c] + 1 /\ failed'[c] = failed[c]
        BY <1>4, <3>1 DEF Collect, TypeOK
      <4>3. Positions(watch'[c], "gotFailed") = Positions(watch[c], "gotFailed")
        BY <3>0, <3>1, <4>1, PositionsOther, WatchStatesFacts
      <4>4. Cardinality(Positions(watch'[c], "gotCompleted")) =
              Cardinality(Positions(watch[c], "gotCompleted")) + 1
        BY <3>0, <3>1, <4>1, PositionsAdd, WatchStatesFacts
      <4> QED
        BY <1>0, <2>2, <4>2, <4>3, <4>4 DEF CountsRight
    <3>2. CASE watch[c][i] = "Failed"
      <4>1. watch'[c] = [watch[c] EXCEPT ![i] = "gotFailed"]
        BY <1>4, <3>2 DEF Collect, SetWatch, TypeOK
      <4>2. completed'[c] = completed[c] /\ failed'[c] = failed[c] + 1
        BY <1>4, <3>2 DEF Collect, TypeOK
      <4>3. Positions(watch'[c], "gotCompleted") = Positions(watch[c], "gotCompleted")
        BY <3>0, <3>2, <4>1, PositionsOther, WatchStatesFacts
      <4>4. Cardinality(Positions(watch'[c], "gotFailed")) =
              Cardinality(Positions(watch[c], "gotFailed")) + 1
        BY <3>0, <3>2, <4>1, PositionsAdd, WatchStatesFacts
      <4> QED
        BY <1>0, <2>2, <4>2, <4>3, <4>4 DEF CountsRight
    <3> QED
      BY <1>4, <3>1, <3>2 DEF Collect
  <2> QED
    BY <2>1, <2>2
<1> QED
  BY <1>1, <1>2, <1>3, <1>4, WatchMoves

\* A watch list is complete before watchJob starts and only cancelled watches end
\* silently.
LEMMA WatchesStep == TypeOK /\ CallsConsistent /\ RecordsConsistent /\ WatchesConsistent /\ [Next]_vars => WatchesConsistent'
<1> SUFFICES ASSUME TypeOK, CallsConsistent, RecordsConsistent, WatchesConsistent, [Next]_vars PROVE WatchesConsistent'
  OBVIOUS
<1>a. ASSUME NEW c \in Calls, NEW ph \in InputPhases, Register(c, ph) PROVE RegisterEffects(c)
  BY <1>a, RegisterEffect
<1>b. ASSUME NEW c \in Calls, CommitCancel(c) PROVE CommitEffects(c)
  BY <1>b, CommitEffect
<1>c. ASSUME NEW c \in Calls, Finish(c) PROVE FinishEffects(c)
  BY <1>c, FinishEffect
<1>d. \A d \in Calls : wpc[d] # "off" => res[d] = "scheduled" /\ pc[d] = "returned"
  BY CallIsCall DEF TypeOK, WatchesConsistent, WatchLinked, RecordsConsistent, RecordConsistent
<1> USE DEF TypeOK, WatchesConsistent, WatchLinked, callVars, watchVars, Return
<1>1. ASSUME NEW c \in Calls, ScheduleStep(c) PROVE WatchesConsistent'
  <2>1. ASSUME NEW j \in Jobs, NEW n \in Sizes, ScheduleCall(c, j, n) PROVE WatchesConsistent'
    BY <2>1, SchedulerAssumption, <1>d DEF ScheduleCall
  <2>2. ASSUME NEW id \in AgentIDs, SpawnReturns(c, id) PROVE WatchesConsistent'
    BY <2>2, <1>d DEF SpawnReturns, Spawning
  <2>3. CASE SpawnFails(c)
    BY <2>3, <1>d DEF SpawnFails, Spawning
  <2>4. CASE WatchReturns(c)
    BY <2>4, <1>d DEF WatchReturns, Watching
  <2>5. CASE WatchFails(c)
    BY <2>5, <1>d DEF WatchFails, Watching
  <2>6. ASSUME NEW ph \in InputPhases, Register(c, ph) PROVE WatchesConsistent'
    BY <2>6, <1>a DEF RegisterEffects
  <2>7. ASSUME NEW ph \in InputPhases, RejectPhase(c, ph) PROVE WatchesConsistent'
    BY <2>7, <1>d DEF RejectPhase, Reject, Ready
  <2>8. CASE RejectDuplicate(c)
    BY <2>8, <1>d DEF RejectDuplicate, Reject, Ready
  <2>9. CASE CleanupTerminate(c)
    BY <2>9, <1>d DEF CleanupTerminate
  <2>10. CASE CleanupReturn(c)
    BY <2>10, <1>d DEF CleanupReturn
  <2> QED
    BY <1>1, <2>1, <2>2, <2>3, <2>4, <2>5, <2>6, <2>7, <2>8, <2>9, <2>10 DEF ScheduleStep
<1>2. ASSUME NEW c \in Calls, CancelStep(c) PROVE WatchesConsistent'
  <2>1. ASSUME NEW j \in Jobs, CancelNotFound(c, j) PROVE WatchesConsistent'
    BY <2>1, <1>d DEF CancelNotFound, CancelStart
  <2>2. ASSUME NEW j \in Jobs, CancelLookup(c, j) PROVE WatchesConsistent'
    BY <2>2, <1>d DEF CancelLookup, CancelStart
  <2>3. CASE TerminateReturns(c)
    BY <2>3, <1>d DEF TerminateReturns
  <2>4. CASE TerminateFails(c)
    BY <2>4, <1>d DEF TerminateFails, Terminating
  <2>5. CASE CommitCancel(c)
    <3>0. CommitEffects(c)
      BY <2>5, <1>b
    <3> SUFFICES ASSUME NEW d \in Calls PROVE WatchLinked(d)'
      BY DEF WatchesConsistent
    <3>1. wpc[d] # "off" => d # c
      BY <3>0, <1>d DEF CommitEffects
    <3> QED
      BY <3>0, <3>1 DEF CommitEffects
  <2> QED
    BY <1>2, <2>1, <2>2, <2>3, <2>4, <2>5 DEF CancelStep
<1>3. ASSUME NEW c \in Calls, WatchStep(c) PROVE WatchesConsistent'
  <2>1. ASSUME NEW i \in DOMAIN watch[c], NEW ev \in Sent, WatchEvent(c, i, ev) PROVE WatchesConsistent'
    <3>1. PICK u \in Sent : watch' = [watch EXCEPT ![c][i] = u]
      BY <2>1 DEF WatchEvent, SetWatch
    <3>2. UNCHANGED <<res, want, wpc, ctxDone>>
      BY <2>1 DEF WatchEvent
    <3> SUFFICES ASSUME NEW d \in Calls PROVE WatchLinked(d)'
      BY DEF WatchesConsistent
    <3>3. CASE d # c
      BY <3>1, <3>2, <3>3
    <3>4. CASE d = c
      <4>1. watch[c] \in Seq(WatchStates) /\ watch'[c] = [watch[c] EXCEPT ![i] = u]
        BY <3>1
      <4>2. /\ Len(watch'[c]) = Len(watch[c]) /\ DOMAIN watch'[c] = DOMAIN watch[c]
            /\ \A k \in DOMAIN watch[c] : watch'[c][k] = IF k = i THEN u ELSE watch[c][k]
        BY <4>1, SetWatchType, WatchStatesFacts
      <4>3. u = "closed" => c \in ctxDone
        BY <3>1 DEF Sent
      <4> QED
        BY <3>2, <3>4, <4>2, <4>3
    <3> QED
      BY <3>3, <3>4
  <2>2. ASSUME NEW i \in DOMAIN watch[c], WatchClose(c, i) PROVE WatchesConsistent'
    <3>1. PICK u \in {"closed"} : watch' = [watch EXCEPT ![c][i] = u]
      BY <2>2 DEF WatchClose, SetWatch
    <3>2. UNCHANGED <<res, want, wpc, ctxDone>>
      BY <2>2 DEF WatchClose
    <3> SUFFICES ASSUME NEW d \in Calls PROVE WatchLinked(d)'
      BY DEF WatchesConsistent
    <3>3. CASE d # c
      BY <3>1, <3>2, <3>3
    <3>4. CASE d = c
      <4>1. watch[c] \in Seq(WatchStates) /\ watch'[c] = [watch[c] EXCEPT ![i] = u]
        BY <3>1
      <4>2. /\ Len(watch'[c]) = Len(watch[c]) /\ DOMAIN watch'[c] = DOMAIN watch[c]
            /\ \A k \in DOMAIN watch[c] : watch'[c][k] = IF k = i THEN u ELSE watch[c][k]
        BY <4>1, SetWatchType, WatchStatesFacts
      <4>3. u = "closed" => c \in ctxDone
        BY <2>2 DEF WatchClose
      <4> QED
        BY <3>2, <3>4, <4>2, <4>3
    <3> QED
      BY <3>3, <3>4
  <2>3. ASSUME NEW i \in DOMAIN watch[c], Collect(c, i) PROVE WatchesConsistent'
    <3>1. PICK u \in Counted : watch' = [watch EXCEPT ![c][i] = u]
      BY <2>3 DEF Collect, SetWatch, Counted
    <3>2. UNCHANGED <<res, want, wpc, ctxDone>>
      BY <2>3 DEF Collect
    <3> SUFFICES ASSUME NEW d \in Calls PROVE WatchLinked(d)'
      BY DEF WatchesConsistent
    <3>3. CASE d # c
      BY <3>1, <3>2, <3>3
    <3>4. CASE d = c
      <4>1. watch[c] \in Seq(WatchStates) /\ watch'[c] = [watch[c] EXCEPT ![i] = u]
        BY <3>1
      <4>2. /\ Len(watch'[c]) = Len(watch[c]) /\ DOMAIN watch'[c] = DOMAIN watch[c]
            /\ \A k \in DOMAIN watch[c] : watch'[c][k] = IF k = i THEN u ELSE watch[c][k]
        BY <4>1, SetWatchType, WatchStatesFacts
      <4>3. u = "closed" => c \in ctxDone
        BY <3>1 DEF Counted
      <4> QED
        BY <3>2, <3>4, <4>2, <4>3
    <3> QED
      BY <3>3, <3>4
  <2>4. CASE CollectEOF(c)
    BY <2>4, <1>d DEF CollectEOF
  <2>5. CASE Finish(c)
    BY <2>5, <1>c DEF FinishEffects
  <2> QED
    BY <1>3, <2>1, <2>2, <2>3, <2>4, <2>5 DEF WatchStep
<1>4. CASE UNCHANGED vars
  BY <1>4 DEF vars
<1> QED
  BY <1>1, <1>2, <1>3, <1>4 DEF Next

\* The loops over agents stay within their lists.
LEMMA LoopsStep ==
  ASSUME TypeOK, CallsConsistent, RecordsConsistent, WatchesConsistent, LoopsConsistent,
         [Next]_vars
  PROVE  LoopsConsistent'
<1>a. \A d \in Calls : pc[d] = "terminate" =>
        rec[d] \in Calls /\ pc[rec[d]] = "returned" /\ res[rec[d]] = "scheduled"
  <2> SUFFICES ASSUME NEW d \in Calls, pc[d] = "terminate"
               PROVE  rec[d] \in Calls /\ pc[rec[d]] = "returned" /\ res[rec[d]] = "scheduled"
    OBVIOUS
  <2>1. job[d] \in Jobs /\ rec[d] = owner[job[d]] /\ rec[d] # NoCall /\ rec[d] \in Calls
    BY DEF CallsConsistent, CallConsistent, TypeOK
  <2> QED
    BY <2>1 DEF RecordsConsistent, RecordConsistent
<1>b. \A d \in Calls : LoopConsistent(d)
  BY DEF LoopsConsistent
<1>c. \A d \in Calls : pc[d] \in {"idle", "setup", "reject", "terminate"} =>
        res[d] \notin {"scheduled", "spawnFailed"}
  BY DEF CallsConsistent, CallConsistent
<1>d. \A d \in Calls : Len(ids[d]) \in Nat /\ Len(watch[d]) \in Nat /\ want[d] \in Nat
                           /\ next[d] \in Nat
  BY DEF TypeOK
<1> SUFFICES ASSUME NEW d \in Calls PROVE LoopConsistent(d)'
  BY DEF LoopsConsistent
<1> USE DEF TypeOK, LoopConsistent, callVars, watchVars, Return
<1>1. ASSUME NEW c \in Calls, ScheduleStep(c) PROVE LoopConsistent(d)'
  <2>1. ASSUME NEW j \in Jobs, NEW n \in Sizes, ScheduleCall(c, j, n) PROVE LoopConsistent(d)'
    <3>1. pc[c] = "idle" /\ n \in Nat /\ Len(<<>>) = 0
      BY <2>1, SchedulerAssumption DEF ScheduleCall
    <3>2. Len(ids[c]) = 0 /\ Len(watch[c]) = 0 /\ next[c] = 0
          /\ res[c] \notin {"scheduled", "spawnFailed"}
      BY <3>1, <1>b, <1>c, <1>d
    <3>3. CASE d = c
      BY <2>1, <3>1, <3>2, <3>3, <1>b DEF ScheduleCall
    <3>4. CASE d # c
      BY <2>1, <3>4, <1>b DEF ScheduleCall
    <3> QED
      BY <3>3, <3>4
  <2>2. ASSUME NEW id \in AgentIDs, SpawnReturns(c, id) PROVE LoopConsistent(d)'
    BY <2>2, <1>a, <1>b, <1>c, <1>d DEF SpawnReturns, Spawning
  <2>3. CASE SpawnFails(c)
    BY <2>3, <1>a, <1>b, <1>c, <1>d DEF SpawnFails, Spawning
  <2>4. CASE WatchReturns(c)
    BY <2>4, <1>a, <1>b, <1>c, <1>d, WatchStatesFacts DEF WatchReturns, Watching
  <2>5. CASE WatchFails(c)
    BY <2>5, <1>a, <1>b, <1>c, <1>d DEF WatchFails, Watching
  <2>6. ASSUME NEW ph \in InputPhases, Register(c, ph) PROVE LoopConsistent(d)'
    BY <2>6, <1>a, <1>b, <1>c, <1>d DEF Register, Ready
  <2>7. CASE RejectDuplicate(c) \/ \E ph \in InputPhases : RejectPhase(c, ph)
    BY <2>7, <1>a, <1>b, <1>c, <1>d DEF RejectDuplicate, RejectPhase, Reject, Ready
  <2>9. CASE CleanupTerminate(c)
    BY SMTT(30), <2>9, <1>a, <1>b, <1>c, <1>d DEF CleanupTerminate
  <2>10. CASE CleanupReturn(c)
    BY <2>10, <1>a, <1>b, <1>c, <1>d DEF CleanupReturn, CallsConsistent, CallConsistent
  <2> QED
    BY <1>1, <2>1, <2>2, <2>3, <2>4, <2>5, <2>6, <2>7, <2>9, <2>10 DEF ScheduleStep
<1>2. ASSUME NEW c \in Calls, CancelStep(c) PROVE LoopConsistent(d)'
  <2>1. CASE \E j \in Jobs : CancelNotFound(c, j)
    BY <2>1, <1>a, <1>b, <1>c, <1>d DEF CancelNotFound, CancelStart
  <2>2. ASSUME NEW j \in Jobs, CancelLookup(c, j) PROVE LoopConsistent(d)'
    <3>1. owner[j] \in Calls /\ next[c] = 0 /\ pc[c] = "idle"
      BY <2>2, <1>b DEF CancelLookup, CancelStart
    <3> QED
      BY <2>2, <3>1, <1>a, <1>b, <1>c, <1>d DEF CancelLookup, CancelStart
  <2>3. CASE TerminateReturns(c)
    <3>1. pc[c] = "terminate" /\ next[c] < Len(ids[rec[c]]) /\ Len(ids[rec[c]]) \in Nat
      BY <2>3, <1>a, <1>d DEF TerminateReturns, Terminating
    <3>2. CASE d = c
      BY <2>3, <3>1, <3>2, <1>b, <1>d DEF TerminateReturns
    <3>3. CASE d # c
      BY <2>3, <3>3, <1>b DEF TerminateReturns
    <3> QED
      BY <3>2, <3>3
  <2>4. CASE TerminateFails(c)
    BY <2>4, <1>a, <1>b, <1>c, <1>d DEF TerminateFails, Terminating
  <2>5. CASE CommitCancel(c)
    <3>1. CommitEffects(c)
      BY <2>5, CommitEffect
    <3> QED
      BY SMTT(30), <3>1, <1>a, <1>b, <1>c, <1>d DEF CommitEffects
  <2> QED
    BY <1>2, <2>1, <2>2, <2>3, <2>4, <2>5 DEF CancelStep
<1>3. ASSUME NEW c \in Calls, WatchStep(c) PROVE LoopConsistent(d)'
  <2>1. ASSUME NEW i \in DOMAIN watch[c],
               (\E ev \in Sent : WatchEvent(c, i, ev)) \/ WatchClose(c, i) \/ Collect(c, i)
        PROVE  LoopConsistent(d)'
    <3>1. PICK v \in WatchStates : watch' = [watch EXCEPT ![c][i] = v]
      BY <2>1, WatchStatesFacts DEF WatchEvent, WatchClose, Collect, SetWatch
    <3>2. UNCHANGED <<pc, res, want, ids, rec, next>>
      BY <2>1 DEF WatchEvent, WatchClose, Collect
    <3>3. Len(watch'[d]) = Len(watch[d])
      BY <3>1, SetWatchType
    <3> QED
      BY <3>2, <3>3, <1>b
  <2>2. CASE CollectEOF(c) \/ Finish(c)
    BY <2>2, <1>b DEF CollectEOF, Finish
  <2> QED
    BY <1>3, <2>1, <2>2 DEF WatchStep
<1>4. CASE UNCHANGED vars
  BY <1>4, <1>b DEF vars
<1> QED
  BY <1>1, <1>2, <1>3, <1>4 DEF Next

\* A job that stays or becomes Running stays or becomes watched.
LEMMA RunningStep == TypeOK /\ CallsConsistent /\ RecordsConsistent /\ WatchesConsistent /\ CancelledConsistent /\ CountersConsistent /\ RunningIsWatched /\ [Next]_vars => RunningIsWatched'
<1> SUFFICES ASSUME TypeOK, CallsConsistent, RecordsConsistent, WatchesConsistent, CancelledConsistent, CountersConsistent, RunningIsWatched, [Next]_vars PROVE RunningIsWatched'
  OBVIOUS
<1>a. ASSUME NEW c \in Calls, NEW ph \in InputPhases, Register(c, ph) PROVE RegisterEffects(c)
  BY <1>a, RegisterEffect
<1>b. ASSUME NEW c \in Calls, CommitCancel(c) PROVE CommitEffects(c)
  BY <1>b, CommitEffect
<1>c. ASSUME NEW c \in Calls, Finish(c) PROVE FinishEffects(c)
  BY <1>c, FinishEffect
<1>d. \A d \in Calls : wpc[d] # "off" => res[d] = "scheduled" /\ pc[d] = "returned"
  BY CallIsCall DEF TypeOK, WatchesConsistent, WatchLinked, RecordsConsistent, RecordConsistent
<1> USE DEF TypeOK, CallsConsistent, CallConsistent, RecordsConsistent, RecordConsistent, CancelledConsistent, RunningIsWatched, callVars, watchVars, Return
<1>1. ASSUME NEW c \in Calls, ScheduleStep(c) PROVE RunningIsWatched'
  <2>1. ASSUME NEW j \in Jobs, NEW n \in Sizes, ScheduleCall(c, j, n) PROVE RunningIsWatched'
    BY <2>1, <1>d DEF ScheduleCall
  <2>2. ASSUME NEW id \in AgentIDs, SpawnReturns(c, id) PROVE RunningIsWatched'
    BY <2>2, <1>d DEF SpawnReturns, Spawning
  <2>3. CASE SpawnFails(c)
    BY <2>3, <1>d DEF SpawnFails, Spawning
  <2>4. CASE WatchReturns(c)
    BY <2>4, <1>d DEF WatchReturns, Watching
  <2>5. CASE WatchFails(c)
    BY <2>5, <1>d DEF WatchFails, Watching
  <2>6. ASSUME NEW ph \in InputPhases, Register(c, ph) PROVE RunningIsWatched'
    <3>0. RegisterEffects(c)
      BY <2>6, <1>a
    <3>1. ASSUME NEW k \in Jobs, phase'[k] = "Running"
          PROVE  owner'[k] # NoCall /\ wpc'[owner'[k]] = "collect" /\ owner'[k] \notin ctxDone'
      <4>1. CASE k = job[c]
        BY <3>0, <3>1, <4>1, CallIsCall DEF RegisterEffects
      <4>2. CASE k # job[c]
        BY <3>0, <3>1, <4>2, CallIsCall DEF RegisterEffects
      <4> QED
        BY <4>1, <4>2
    <3> QED
      BY <3>1
  <2>7. ASSUME NEW ph \in InputPhases, RejectPhase(c, ph) PROVE RunningIsWatched'
    BY <2>7, <1>d DEF RejectPhase, Reject, Ready
  <2>8. CASE RejectDuplicate(c)
    BY <2>8, <1>d DEF RejectDuplicate, Reject, Ready
  <2>9. CASE CleanupTerminate(c)
    BY <2>9, <1>d DEF CleanupTerminate
  <2>10. CASE CleanupReturn(c)
    BY <2>10, <1>d DEF CleanupReturn
  <2> QED
    BY <1>1, <2>1, <2>2, <2>3, <2>4, <2>5, <2>6, <2>7, <2>8, <2>9, <2>10 DEF ScheduleStep
<1>2. ASSUME NEW c \in Calls, CancelStep(c) PROVE RunningIsWatched'
  <2>1. ASSUME NEW j \in Jobs, CancelNotFound(c, j) PROVE RunningIsWatched'
    BY <2>1, <1>d DEF CancelNotFound, CancelStart
  <2>2. ASSUME NEW j \in Jobs, CancelLookup(c, j) PROVE RunningIsWatched'
    BY <2>2, <1>d DEF CancelLookup, CancelStart
  <2>3. CASE TerminateReturns(c)
    BY <2>3, <1>d DEF TerminateReturns
  <2>4. CASE TerminateFails(c)
    BY <2>4, <1>d DEF TerminateFails, Terminating
  <2>5. CASE CommitCancel(c)
    <3>0. CommitEffects(c)
      BY <2>5, <1>b
    <3>1. ASSUME NEW k \in Jobs, phase'[k] = "Running"
          PROVE  owner'[k] # NoCall /\ wpc'[owner'[k]] = "collect" /\ owner'[k] \notin ctxDone'
      <4>1. CASE k = job[c]
        BY <3>0, <3>1, <4>1 DEF CommitEffects
      <4>2. CASE k # job[c]
        BY <3>0, <3>1, <4>2 DEF CommitEffects
      <4> QED
        BY <4>1, <4>2
    <3> QED
      BY <3>1
  <2> QED
    BY <1>2, <2>1, <2>2, <2>3, <2>4, <2>5 DEF CancelStep
<1>3. ASSUME NEW c \in Calls, WatchStep(c) PROVE RunningIsWatched'
  <2>1. ASSUME NEW i \in DOMAIN watch[c], NEW ev \in Sent, WatchEvent(c, i, ev) PROVE RunningIsWatched'
    BY <2>1, <1>d DEF WatchEvent
  <2>2. ASSUME NEW i \in DOMAIN watch[c], WatchClose(c, i) PROVE RunningIsWatched'
    BY <2>2, <1>d DEF WatchClose
  <2>3. ASSUME NEW i \in DOMAIN watch[c], Collect(c, i) PROVE RunningIsWatched'
    BY <2>3, <1>d DEF Collect
  <2>4. CASE CollectEOF(c)
    <3>1. ASSUME phase[job[c]] = "Running", owner[job[c]] = c, job[c] \in Jobs PROVE FALSE
      <4>1. c \notin ctxDone
        BY <3>1
      <4>2. \A i \in DOMAIN watch[c] : watch[c][i] \in Counted
        BY <2>4, <4>1 DEF CollectEOF, WatchesConsistent, WatchLinked
      <4>3. Len(watch[c]) = want[c]
        BY <2>4 DEF CollectEOF, WatchesConsistent, WatchLinked
      <4>4. completed[c] + failed[c] >= Len(watch[c])
        BY <4>2, CountedAll DEF CountersConsistent, CountsRight
      <4> QED
        BY <2>4, <4>3, <4>4 DEF CollectEOF, AllReported
    <3>2. \A k \in Jobs : phase[k] = "Running" => owner[k] # c
      BY <3>1, CallIsCall
    <3> QED
      BY <2>4, <3>2 DEF CollectEOF
  <2>5. CASE Finish(c)
    <3>0. FinishEffects(c)
      BY <2>5, <1>c
    <3>1. ASSUME NEW k \in Jobs, phase'[k] = "Running"
          PROVE  owner'[k] # NoCall /\ wpc'[owner'[k]] = "collect" /\ owner'[k] \notin ctxDone'
      <4>1. CASE k = job[c]
        BY <3>0, <3>1, <4>1 DEF FinishEffects
      <4>2. CASE k # job[c]
        BY <3>0, <3>1, <4>2 DEF FinishEffects
      <4> QED
        BY <4>1, <4>2
    <3> QED
      BY <3>1
  <2> QED
    BY <1>3, <2>1, <2>2, <2>3, <2>4, <2>5 DEF WatchStep
<1>4. CASE UNCHANGED vars
  BY <1>4 DEF vars
<1> QED
  BY <1>1, <1>2, <1>3, <1>4 DEF Next

\* The phase watchJob writes agrees with the events, and the events stay.
LEMMA OutcomeStep == TypeOK /\ CallsConsistent /\ RecordsConsistent /\ WatchesConsistent /\ CountersConsistent /\ OutcomeMatchesEvents /\ [Next]_vars => OutcomeMatchesEvents'
<1> SUFFICES ASSUME TypeOK, CallsConsistent, RecordsConsistent, WatchesConsistent, CountersConsistent, OutcomeMatchesEvents, [Next]_vars PROVE OutcomeMatchesEvents'
  OBVIOUS
<1>a. ASSUME NEW c \in Calls, NEW ph \in InputPhases, Register(c, ph) PROVE RegisterEffects(c)
  BY <1>a, RegisterEffect
<1>b. ASSUME NEW c \in Calls, CommitCancel(c) PROVE CommitEffects(c)
  BY <1>b, CommitEffect
<1>c. ASSUME NEW c \in Calls, Finish(c) PROVE FinishEffects(c)
  BY <1>c, FinishEffect
<1> USE DEF TypeOK, CallsConsistent, CallConsistent, RecordsConsistent, RecordConsistent, OutcomeMatchesEvents, callVars, watchVars, Return
<1>1. ASSUME NEW c \in Calls, ScheduleStep(c) PROVE OutcomeMatchesEvents'
  <2>1. ASSUME NEW j \in Jobs, NEW n \in Sizes, ScheduleCall(c, j, n) PROVE OutcomeMatchesEvents'
    BY <2>1, SchedulerAssumption DEF ScheduleCall
  <2>2. ASSUME NEW id \in AgentIDs, SpawnReturns(c, id) PROVE OutcomeMatchesEvents'
    BY <2>2 DEF SpawnReturns, Spawning
  <2>3. CASE SpawnFails(c)
    BY <2>3 DEF SpawnFails, Spawning
  <2>4. CASE WatchReturns(c)
    <3>1. pc[c] = "setup" /\ watch' = [watch EXCEPT ![c] = Append(@, "polling")] /\ UNCHANGED <<owner, phase>>
      BY <2>4 DEF WatchReturns, Watching
    <3>2. ASSUME NEW k \in Jobs, owner'[k] # NoCall
          PROVE  OutcomeMatches(phase'[k], watch'[owner'[k]])
      <4>1. owner[k] \in Calls /\ owner[k] # c
        BY <3>1, <3>2
      <4> QED
        BY <3>1, <3>2, <4>1
    <3> QED
      BY <3>2
  <2>5. CASE WatchFails(c)
    BY <2>5 DEF WatchFails, Watching
  <2>6. ASSUME NEW ph \in InputPhases, Register(c, ph) PROVE OutcomeMatchesEvents'
    <3>0. RegisterEffects(c)
      BY <2>6, <1>a
    <3>1. ASSUME NEW k \in Jobs, owner'[k] # NoCall
          PROVE  OutcomeMatches(phase'[k], watch'[owner'[k]])
      <4>1. CASE k = job[c]
        BY <3>0, <3>1, <4>1, CallIsCall DEF RegisterEffects, OutcomeMatches
      <4>2. CASE k # job[c]
        BY <3>0, <3>1, <4>2, CallIsCall DEF RegisterEffects, OutcomeMatches
      <4> QED
        BY <4>1, <4>2
    <3> QED
      BY <3>1
  <2>7. ASSUME NEW ph \in InputPhases, RejectPhase(c, ph) PROVE OutcomeMatchesEvents'
    BY <2>7 DEF RejectPhase, Reject, Ready
  <2>8. CASE RejectDuplicate(c)
    BY <2>8 DEF RejectDuplicate, Reject, Ready
  <2>9. CASE CleanupTerminate(c)
    BY <2>9 DEF CleanupTerminate
  <2>10. CASE CleanupReturn(c)
    BY <2>10 DEF CleanupReturn
  <2> QED
    BY <1>1, <2>1, <2>2, <2>3, <2>4, <2>5, <2>6, <2>7, <2>8, <2>9, <2>10 DEF ScheduleStep
<1>2. ASSUME NEW c \in Calls, CancelStep(c) PROVE OutcomeMatchesEvents'
  <2>1. ASSUME NEW j \in Jobs, CancelNotFound(c, j) PROVE OutcomeMatchesEvents'
    BY <2>1 DEF CancelNotFound, CancelStart
  <2>2. ASSUME NEW j \in Jobs, CancelLookup(c, j) PROVE OutcomeMatchesEvents'
    BY <2>2 DEF CancelLookup, CancelStart
  <2>3. CASE TerminateReturns(c)
    BY <2>3 DEF TerminateReturns
  <2>4. CASE TerminateFails(c)
    BY <2>4 DEF TerminateFails, Terminating
  <2>5. CASE CommitCancel(c)
    <3>0. CommitEffects(c)
      BY <2>5, <1>b
    <3>1. ASSUME NEW k \in Jobs, owner'[k] # NoCall
          PROVE  OutcomeMatches(phase'[k], watch'[owner'[k]])
      <4>1. CASE k = job[c]
        BY <3>0, <3>1, <4>1 DEF CommitEffects, OutcomeMatches
      <4>2. CASE k # job[c]
        BY SMTT(30), <3>0, <3>1, <4>2 DEF CommitEffects, OutcomeMatches
      <4> QED
        BY <4>1, <4>2
    <3> QED
      BY <3>1
  <2> QED
    BY <1>2, <2>1, <2>2, <2>3, <2>4, <2>5 DEF CancelStep
<1>3. ASSUME NEW c \in Calls, WatchStep(c) PROVE OutcomeMatchesEvents'
  <2>1. ASSUME NEW i \in DOMAIN watch[c], NEW ev \in Sent, WatchEvent(c, i, ev) PROVE OutcomeMatchesEvents'
    <3>1. watch[c][i] \notin Counted /\ watch[c][i] # "gotCompleted"
      BY <2>1 DEF WatchEvent, Counted
    <3>2. PICK u \in WatchStates : watch' = [watch EXCEPT ![c][i] = u]
      BY <2>1, WatchStatesFacts DEF WatchEvent, SetWatch
    <3>3. UNCHANGED <<owner, phase>>
      BY <2>1 DEF WatchEvent
    <3>4. ASSUME NEW k \in Jobs, owner'[k] # NoCall
          PROVE  OutcomeMatches(phase'[k], watch'[owner'[k]])
      <4>1. CASE owner[k] # c
        BY <3>2, <3>3, <3>4, <4>1
      <4>2. CASE owner[k] = c
        <5>1. phase[k] \notin {"Succeeded", "Failed"}
          BY <3>1, <3>3, <3>4, <4>2 DEF OutcomeMatches
        <5> QED
          BY <3>3, <5>1 DEF OutcomeMatches
      <4> QED
        BY <4>1, <4>2
    <3> QED
      BY <3>3, <3>4
  <2>2. ASSUME NEW i \in DOMAIN watch[c], WatchClose(c, i) PROVE OutcomeMatchesEvents'
    <3>1. watch[c][i] \notin Counted /\ watch[c][i] # "gotCompleted"
      BY <2>2 DEF WatchClose, Counted
    <3>2. PICK u \in WatchStates : watch' = [watch EXCEPT ![c][i] = u]
      BY <2>2, WatchStatesFacts DEF WatchClose, SetWatch
    <3>3. UNCHANGED <<owner, phase>>
      BY <2>2 DEF WatchClose
    <3>4. ASSUME NEW k \in Jobs, owner'[k] # NoCall
          PROVE  OutcomeMatches(phase'[k], watch'[owner'[k]])
      <4>1. CASE owner[k] # c
        BY <3>2, <3>3, <3>4, <4>1
      <4>2. CASE owner[k] = c
        <5>1. phase[k] \notin {"Succeeded", "Failed"}
          BY <3>1, <3>3, <3>4, <4>2 DEF OutcomeMatches
        <5> QED
          BY <3>3, <5>1 DEF OutcomeMatches
      <4> QED
        BY <4>1, <4>2
    <3> QED
      BY <3>3, <3>4
  <2>3. ASSUME NEW i \in DOMAIN watch[c], Collect(c, i) PROVE OutcomeMatchesEvents'
    <3>1. watch[c][i] \notin Counted /\ watch[c][i] # "gotCompleted"
      BY <2>3 DEF Collect, Counted
    <3>2. PICK u \in WatchStates : watch' = [watch EXCEPT ![c][i] = u]
      BY <2>3, WatchStatesFacts DEF Collect, SetWatch
    <3>3. UNCHANGED <<owner, phase>>
      BY <2>3 DEF Collect
    <3>4. ASSUME NEW k \in Jobs, owner'[k] # NoCall
          PROVE  OutcomeMatches(phase'[k], watch'[owner'[k]])
      <4>1. CASE owner[k] # c
        BY <3>2, <3>3, <3>4, <4>1
      <4>2. CASE owner[k] = c
        <5>1. phase[k] \notin {"Succeeded", "Failed"}
          BY <3>1, <3>3, <3>4, <4>2 DEF OutcomeMatches
        <5> QED
          BY <3>3, <5>1 DEF OutcomeMatches
      <4> QED
        BY <4>1, <4>2
    <3> QED
      BY <3>3, <3>4
  <2>4. CASE CollectEOF(c)
    BY <2>4 DEF CollectEOF
  <2>5. CASE Finish(c)
    <3>0. FinishEffects(c)
      BY <2>5, <1>c
    <3>1. ASSUME NEW k \in Jobs, owner'[k] # NoCall
          PROVE  OutcomeMatches(phase'[k], watch'[owner'[k]])
      <4>1. CASE k # job[c] \/ phase[job[c]] # "Running"
        BY <3>0, <3>1, <4>1 DEF FinishEffects
      <4>2. CASE k = job[c] /\ phase[job[c]] = "Running"
        <5>1. owner'[k] = c /\ watch' = watch /\ phase'[k] = Outcome(c)
          BY <3>0, <4>2 DEF FinishEffects
        <5>2. watch[c] \in Seq(WatchStates) /\ completed[c] + failed[c] >= Len(watch[c])
          BY <3>0 DEF FinishEffects
        <5>3. /\ completed[c] = Cardinality(Positions(watch[c], "gotCompleted"))
              /\ failed[c] = Cardinality(Positions(watch[c], "gotFailed"))
          BY DEF CountersConsistent, CountsRight
        <5>4. \A i \in DOMAIN watch[c] : watch[c][i] \in Counted
          BY <5>2, <5>3, CountedAll
        <5>5. failed[c] > 0 <=> Positions(watch[c], "gotFailed") # {}
          BY <5>2, <5>3, PositionsFinite, FS_EmptySet
        <5>6. Positions(watch[c], "gotFailed") # {} <=>
                \E i \in DOMAIN watch[c] : watch[c][i] = "gotFailed"
          BY DEF Positions
        <5> QED
          BY <5>1, <5>4, <5>5, <5>6 DEF OutcomeMatches, Outcome, Counted
      <4> QED
        BY <4>1, <4>2
    <3> QED
      BY <3>1
  <2> QED
    BY <1>3, <2>1, <2>2, <2>3, <2>4, <2>5 DEF WatchStep
<1>4. CASE UNCHANGED vars
  BY <1>4 DEF vars
<1> QED
  BY <1>1, <1>2, <1>3, <1>4 DEF Next

-----------------------------------------------------------------------------
(* The theorems *)

\* The invariant holds at the start.
LEMMA InvInit == Init => Inv
<1> SUFFICES ASSUME Init PROVE Inv
  OBVIOUS
<1>0. TypeOK
  BY DEF Init, TypeOK, Outcomes
<1>1. CallsConsistent /\ RecordsConsistent /\ CancelledConsistent /\ CancelSticks
  BY DEF Init, CallsConsistent, CallConsistent, RecordsConsistent, RecordConsistent,
         CancelledConsistent, CancelSticks
<1>2. CountersConsistent
  <2> SUFFICES ASSUME NEW c \in Calls PROVE CountsRight(c)
    BY DEF CountersConsistent
  <2>1. watch[c] = <<>> /\ completed[c] = 0 /\ failed[c] = 0
    BY DEF Init
  <2>2. \A v : Positions(<<>>, v) = {}
    BY DEF Positions
  <2> QED
    BY <2>1, <2>2, FS_EmptySet DEF CountsRight
<1>3. WatchesConsistent /\ RunningIsWatched /\ OutcomeMatchesEvents
  BY DEF Init, WatchesConsistent, WatchLinked, RunningIsWatched, OutcomeMatchesEvents
<1>4. LoopsConsistent
  BY DEF Init, LoopsConsistent, LoopConsistent
<1> QED
  BY <1>0, <1>1, <1>2, <1>3, <1>4 DEF Inv

\* Every step preserves the invariant.
LEMMA InvStep == Inv /\ [Next]_vars => Inv'
BY TypeStep, CallsStep, RecordsStep, CancelledStep, CancelSticksStep, CountsStep,
   WatchesStep, LoopsStep, RunningStep, OutcomeStep DEF Inv

\* Records, invocations, watches and counters agree in every reachable state, for
\* any number of jobs, invocations and agents.
THEOREM Invariance == Spec => []Inv
BY InvInit, InvStep, PTL DEF Spec

\* The variables keep their types; in particular a Cancel that terminates agents
\* holds the record of a job.
THEOREM TypeCorrect == Spec => []TypeOK
<1>1. Inv => TypeOK
  BY DEF Inv
<1> QED
  BY <1>1, Invariance, PTL

\* However Schedule calls interleave, at most one returns nil for a job ID.
THEOREM OneScheduleWins == Spec => []AtMostOneScheduled
<1>1. Inv => AtMostOneScheduled
  BY DEF Inv, RecordsConsistent, AtMostOneScheduled
<1> QED
  BY <1>1, Invariance, PTL

\* A Running job is always watched by a goroutine that can still settle it.
THEOREM NoRunningJobIsForgotten == Spec => []RunningIsWatched
<1>1. Inv => RunningIsWatched
  BY DEF Inv
<1> QED
  BY <1>1, Invariance, PTL

\* Succeeded and Failed are what the agents of the job reported.
THEOREM OutcomeIsReported == Spec => []OutcomeMatchesEvents
<1>1. Inv => OutcomeMatchesEvents
  BY DEF Inv
<1> QED
  BY <1>1, Invariance, PTL

\* A job whose Cancel returned nil is Terminating for ever.
THEOREM CancelIsFinal == Spec => []CancelSticks
<1>1. Inv => CancelSticks
  BY DEF Inv
<1> QED
  BY <1>1, Invariance, PTL

\* Which steps write a phase.
LEMMA PhaseMoves ==
  ASSUME [Next]_vars
  PROVE  \/ UNCHANGED phase
         \/ \E c \in Calls :
              (\E ph \in InputPhases : Register(c, ph)) \/ CommitCancel(c) \/ Finish(c)
<1>1. ASSUME NEW c \in Calls, ScheduleStep(c)
      PROVE  UNCHANGED phase \/ \E ph \in InputPhases : Register(c, ph)
  BY <1>1 DEF ScheduleStep, ScheduleCall, SpawnReturns, SpawnFails, WatchReturns, WatchFails,
              RejectPhase, RejectDuplicate, Reject, CleanupTerminate, CleanupReturn
<1>2. ASSUME NEW c \in Calls, CancelStep(c) PROVE UNCHANGED phase \/ CommitCancel(c)
  BY <1>2 DEF CancelStep, CancelNotFound, CancelLookup, TerminateReturns, TerminateFails
<1>3. ASSUME NEW c \in Calls, WatchStep(c) PROVE UNCHANGED phase \/ Finish(c)
  BY <1>3 DEF WatchStep, WatchEvent, WatchClose, Collect, CollectEOF
<1>4. CASE UNCHANGED vars
  BY <1>4 DEF vars
<1> QED
  BY <1>1, <1>2, <1>3, <1>4 DEF Next

\* The entries of the transition table that the scheduler's own writes follow.
LEMMA TableEntries ==
  /\ Transition("Running", "AllComplete") = "Succeeded"
  /\ Transition("Running", "AgentFailed") = "Failed"
  /\ \A p \in {"Running", "Succeeded", "Failed"} : Transition(p, "Cancelled") = "Terminating"
  /\ {"AllComplete", "AgentFailed", "Cancelled"} \subseteq Triggers
BY DEF Transition, IsTerminal, Triggers

\* A recorded phase changes only along the transition table, the direct write of
\* watchJob included.
THEOREM PhasesFollowTheTable == Spec => PhaseFollowsTable
<1> DEFINE Step == \A j \in Jobs : phase[j] \notin {"absent", phase'[j]} =>
                     \E e \in Triggers : phase'[j] = Transition(phase[j], e)
<1>1. Inv /\ [Next]_vars => Step
  <2> SUFFICES ASSUME Inv, [Next]_vars, NEW j \in Jobs,
                      phase[j] # "absent", phase[j] # phase'[j]
               PROVE  \E e \in Triggers : phase'[j] = Transition(phase[j], e)
    OBVIOUS
  <2>0. /\ TypeOK /\ CallsConsistent /\ RecordsConsistent /\ WatchesConsistent
        /\ phase \in [Jobs -> Phases \cup {"absent"}]
    BY DEF Inv, TypeOK
  <2>1. ASSUME NEW c \in Calls, NEW ph \in InputPhases, Register(c, ph) PROVE FALSE
    <3>1. RegisterEffects(c)
      BY <2>0, <2>1, RegisterEffect
    <3> QED
      BY <2>0, <3>1 DEF RegisterEffects
  <2>2. ASSUME NEW c \in Calls, CommitCancel(c)
        PROVE  phase'[j] = Transition(phase[j], "Cancelled")
    <3>1. CommitEffects(c)
      BY <2>0, <2>2, CommitEffect
    <3>2. /\ phase[j] \in {"Running", "Succeeded", "Failed"}
          /\ phase'[j] = "Terminating"
      BY <2>0, <3>1 DEF CommitEffects
    <3> QED
      BY <3>2, TableEntries
  <2>3. ASSUME NEW c \in Calls, Finish(c)
        PROVE  \/ phase'[j] = Transition(phase[j], "AllComplete")
               \/ phase'[j] = Transition(phase[j], "AgentFailed")
    <3>1. FinishEffects(c)
      BY <2>0, <2>3, FinishEffect
    <3>2. phase[j] = "Running" /\ phase'[j] \in {"Succeeded", "Failed"}
      BY <2>0, <3>1 DEF FinishEffects
    <3> QED
      BY <3>2, TableEntries
  <2> QED
    BY <2>1, <2>2, <2>3, PhaseMoves, TableEntries
<1>2. Inv /\ [Next]_vars => [Step]_vars
  BY <1>1
<1> QED
  BY <1>2, Invariance, PTL DEF Spec, PhaseFollowsTable

-----------------------------------------------------------------------------
(* The scheduler implements AtomicScheduler *)

\* Every step of the scheduler is a step of the atomic one or leaves it unchanged.
LEMMA AtomicStep == Inv /\ [Next]_vars => [Atomic!Next]_(Atomic!vars)
<1> SUFFICES ASSUME Inv, [Next]_vars PROVE [Atomic!Next]_(Atomic!vars)
  OBVIOUS
<1>0. TypeOK /\ CallsConsistent /\ RecordsConsistent /\ WatchesConsistent
  BY DEF Inv
<1> USE DEF Atomic!vars, callVars, Return
<1>1. ASSUME NEW c \in Calls, ScheduleStep(c) PROVE [Atomic!Next]_(Atomic!vars)
  <2>1. ASSUME NEW j \in Jobs, NEW n \in Sizes, ScheduleCall(c, j, n)
        PROVE  Atomic!Invoke(c, "schedule", j)
    BY <1>0, <2>1 DEF ScheduleCall, Atomic!Invoke, CallsConsistent, CallConsistent
  <2>2. ASSUME SpawnFails(c) \/ WatchFails(c) \/ RejectDuplicate(c)
                 \/ \E ph \in InputPhases : RejectPhase(c, ph)
        PROVE  Atomic!RefuseSchedule(c)
    <3>1. pc[c] = "setup"
      BY <2>2 DEF SpawnFails, Spawning, WatchFails, Watching, RejectDuplicate, RejectPhase,
                  Reject, Ready
    <3>2. op[c] = "schedule" /\ res[c] = "none" /\ job[c] \in Jobs
      BY <1>0, <3>1 DEF CallsConsistent, CallConsistent
    <3>3. UNCHANGED <<op, job, phase>>
      BY <2>2 DEF SpawnFails, WatchFails, RejectDuplicate, RejectPhase, Reject
    <3>4. PICK r \in {"spawnFailed", "watchFailed", "duplicate", "badPhase"} :
            /\ res' = [res EXCEPT ![c] = r]
            /\ r = "duplicate" => owner[job[c]] # NoCall
      BY <2>2 DEF SpawnFails, WatchFails, RejectDuplicate, RejectPhase, Reject,
                  AlreadyScheduled
    <3>5. r = "duplicate" => phase[job[c]] # "absent"
      BY <1>0, <3>2, <3>4 DEF RecordsConsistent, RecordConsistent
    <3> QED
      BY <3>2, <3>3, <3>4, <3>5 DEF Atomic!RefuseSchedule, Atomic!Decide
  <2>3. ASSUME NEW ph \in InputPhases, Register(c, ph) PROVE Atomic!Accept(c)
    <3>1. RegisterEffects(c)
      BY <1>0, <2>3, RegisterEffect
    <3> QED
      BY <3>1 DEF RegisterEffects, Atomic!Accept, Atomic!Decide
  <2>4. ASSUME (\E id \in AgentIDs : SpawnReturns(c, id)) \/ WatchReturns(c)
                 \/ CleanupTerminate(c) \/ CleanupReturn(c)
        PROVE  UNCHANGED Atomic!vars
    BY <1>0, <2>4 DEF SpawnReturns, WatchReturns, CleanupTerminate, CleanupReturn, TypeOK
  <2> QED
    BY <1>1, <2>1, <2>2, <2>3, <2>4 DEF ScheduleStep, Atomic!Next
<1>2. ASSUME NEW c \in Calls, CancelStep(c) PROVE [Atomic!Next]_(Atomic!vars)
  <2>1. ASSUME NEW j \in Jobs, CancelNotFound(c, j) PROVE Atomic!CancelUnknown(c, j)
    BY <1>0, <2>1 DEF CancelNotFound, CancelStart, Atomic!CancelUnknown, CallsConsistent,
                      CallConsistent, RecordsConsistent, RecordConsistent
  <2>2. ASSUME NEW j \in Jobs, CancelLookup(c, j) PROVE Atomic!Invoke(c, "cancel", j)
    BY <1>0, <2>2 DEF CancelLookup, CancelStart, Atomic!Invoke, CallsConsistent,
                      CallConsistent
  <2>3. CASE TerminateReturns(c)
    BY <2>3 DEF TerminateReturns
  <2>4. ASSUME TerminateFails(c) PROVE Atomic!RefuseCancel(c)
    BY <1>0, <2>4 DEF TerminateFails, Terminating, Atomic!RefuseCancel, Atomic!Decide,
                      CallsConsistent, CallConsistent
  <2>5. ASSUME CommitCancel(c) PROVE Atomic!AcceptCancel(c) \/ Atomic!RefuseCancel(c)
    <3>1. CommitEffects(c)
      BY <1>0, <2>5, CommitEffect
    <3> QED
      BY <3>1 DEF CommitEffects, Atomic!AcceptCancel, Atomic!RefuseCancel, Atomic!Decide
  <2> QED
    BY <1>2, <2>1, <2>2, <2>3, <2>4, <2>5 DEF CancelStep, Atomic!Next
<1>3. ASSUME NEW c \in Calls, WatchStep(c) PROVE [Atomic!Next]_(Atomic!vars)
  <2>1. ASSUME Finish(c) PROVE UNCHANGED Atomic!vars \/ \E j \in Jobs : Atomic!Settle(j)
    <3>1. FinishEffects(c)
      BY <1>0, <2>1, FinishEffect
    <3> QED
      BY <3>1 DEF FinishEffects, Atomic!Settle
  <2>2. ASSUME \/ CollectEOF(c)
               \/ \E i \in DOMAIN watch[c] : \/ \E ev \in Sent : WatchEvent(c, i, ev)
                                             \/ WatchClose(c, i) \/ Collect(c, i)
        PROVE  UNCHANGED Atomic!vars
    BY <2>2 DEF CollectEOF, WatchEvent, WatchClose, Collect
  <2> QED
    BY <1>3, <2>1, <2>2 DEF WatchStep, Atomic!Next
<1>4. CASE UNCHANGED vars
  BY <1>4 DEF vars
<1> QED
  BY <1>1, <1>2, <1>3, <1>4 DEF Next

\* Each Schedule and each Cancel takes effect at one instant, or not at all.
THEOREM SchedulerIsAtomic == Spec => AtomicSpec
<1>1. Init => Atomic!Init
  BY DEF Init, Atomic!Init
<1> QED
  BY <1>1, AtomicStep, Invariance, PTL DEF Spec, AtomicSpec, Atomic!Spec
-----------------------------------------------------------------------------
(* What a step of the scheduler means for the agents, whatever the adapter: the *)
(* lemmas that the proofs about the platforms rest on.                       *)

\* The actions in which nothing but an agent list, a watch, a counter or the state of a
\* watchJob changes.
LEMMA QuietSteps ==
  ASSUME NEW c \in Calls,
         \/ \E id \in AgentIDs : SpawnReturns(c, id)
         \/ WatchReturns(c) \/ WatchStep(c)
  PROVE  UNCHANGED <<pc, res, rec, next, job, owner>>
BY DEF SpawnReturns, WatchReturns, WatchStep, WatchEvent, WatchClose, Collect, CollectEOF,
       Finish, callVars

\* What a call has returned stays.
LEMMA OutcomeStays ==
  ASSUME TypeOK, [Next]_vars, NEW d \in Calls, pc[d] = "returned"
  PROVE  pc'[d] = "returned" /\ res'[d] = res[d]
<1> USE DEF TypeOK, Return
<1>1. ASSUME NEW c \in Calls, ScheduleStep(c) PROVE pc'[d] = "returned" /\ res'[d] = res[d]
  <2>1. CASE WatchReturns(c) \/ \E id \in AgentIDs : SpawnReturns(c, id)
    BY <2>1, QuietSteps
  <2>2. CASE \E j \in Jobs, n \in Sizes : ScheduleCall(c, j, n)
    BY <2>2 DEF ScheduleCall
  <2>3. CASE SpawnFails(c) \/ WatchFails(c) \/ \E ph \in InputPhases : Register(c, ph)
    BY <2>3 DEF SpawnFails, Spawning, WatchFails, Watching, Register, Ready
  <2>4. CASE RejectDuplicate(c) \/ \E ph \in InputPhases : RejectPhase(c, ph)
    BY <2>4 DEF RejectDuplicate, RejectPhase, Reject, Ready
  <2>5. CASE CleanupTerminate(c) \/ CleanupReturn(c)
    BY <2>5 DEF CleanupTerminate, CleanupReturn
  <2> QED
    BY <1>1, <2>1, <2>2, <2>3, <2>4, <2>5 DEF ScheduleStep
<1>2. ASSUME NEW c \in Calls, CancelStep(c) PROVE pc'[d] = "returned" /\ res'[d] = res[d]
  <2>1. CASE \E j \in Jobs : CancelNotFound(c, j) \/ CancelLookup(c, j)
    BY <2>1 DEF CancelNotFound, CancelLookup, CancelStart
  <2>2. CASE TerminateReturns(c) \/ TerminateFails(c)
    BY <2>2 DEF TerminateReturns, TerminateFails, Terminating
  <2>3. CASE CommitCancel(c)
    <3>1. pc[c] = "terminate" /\ \E r : Return(c, r)
      BY <2>3 DEF CommitCancel
    <3> QED
      BY <3>1
  <2> QED
    BY <1>2, <2>1, <2>2, <2>3 DEF CancelStep
<1>3. ASSUME NEW c \in Calls, WatchStep(c) PROVE pc'[d] = "returned" /\ res'[d] = res[d]
  BY <1>3, QuietSteps
<1>4. CASE UNCHANGED vars
  BY <1>4 DEF vars
<1> QED
  BY <1>1, <1>2, <1>3, <1>4 DEF Next

\* The job a call names does not change once the call has begun.
LEMMA JobStays ==
  ASSUME TypeOK, [Next]_vars, NEW d \in Calls, pc[d] # "idle"
  PROVE  job'[d] = job[d] /\ op'[d] = op[d] /\ want'[d] = want[d]
<1>1. ASSUME NEW c \in Calls, ScheduleStep(c)
      PROVE  job'[d] = job[d] /\ op'[d] = op[d] /\ want'[d] = want[d]
  BY <1>1 DEF ScheduleStep, ScheduleCall, SpawnReturns, SpawnFails, WatchReturns, WatchFails,
              Register, RejectPhase, RejectDuplicate, Reject, CleanupTerminate, CleanupReturn,
              TypeOK, callVars
<1>2. ASSUME NEW c \in Calls, CancelStep(c)
      PROVE  job'[d] = job[d] /\ op'[d] = op[d] /\ want'[d] = want[d]
  BY <1>2 DEF CancelStep, CancelNotFound, CancelLookup, CancelStart, TerminateReturns,
              TerminateFails, CommitCancel, TypeOK, callVars
<1>3. ASSUME NEW c \in Calls, WatchStep(c)
      PROVE  job'[d] = job[d] /\ op'[d] = op[d] /\ want'[d] = want[d]
  BY <1>3 DEF WatchStep, WatchEvent, WatchClose, Collect, CollectEOF, Finish, callVars
<1>4. CASE UNCHANGED vars
  BY <1>4 DEF vars, callVars
<1> QED
  BY <1>1, <1>2, <1>3, <1>4 DEF Next

\* A call that has begun does not become one that has not.
LEMMA BegunStays ==
  ASSUME TypeOK, [Next]_vars, NEW d \in Calls, pc[d] # "idle"
  PROVE  pc'[d] # "idle"
<1> USE DEF TypeOK, Return
<1>1. ASSUME NEW c \in Calls, ScheduleStep(c) PROVE pc'[d] # "idle"
  <2>1. CASE WatchReturns(c) \/ \E id \in AgentIDs : SpawnReturns(c, id)
    BY <2>1, QuietSteps
  <2>2. CASE \E j \in Jobs, n \in Sizes : ScheduleCall(c, j, n)
    BY <2>2 DEF ScheduleCall
  <2>3. CASE SpawnFails(c) \/ WatchFails(c) \/ \E ph \in InputPhases : Register(c, ph)
    BY <2>3 DEF SpawnFails, WatchFails, Register
  <2>4. CASE RejectDuplicate(c) \/ \E ph \in InputPhases : RejectPhase(c, ph)
    BY <2>4 DEF RejectDuplicate, RejectPhase, Reject
  <2>5. CASE CleanupTerminate(c) \/ CleanupReturn(c)
    BY <2>5 DEF CleanupTerminate, CleanupReturn
  <2> QED
    BY <1>1, <2>1, <2>2, <2>3, <2>4, <2>5 DEF ScheduleStep
<1>2. ASSUME NEW c \in Calls, CancelStep(c) PROVE pc'[d] # "idle"
  <2>1. CASE \E j \in Jobs : CancelNotFound(c, j) \/ CancelLookup(c, j)
    BY <2>1 DEF CancelNotFound, CancelLookup
  <2>2. CASE TerminateReturns(c) \/ TerminateFails(c)
    BY <2>2 DEF TerminateReturns, TerminateFails
  <2>3. CASE CommitCancel(c)
    <3>1. \E r : Return(c, r)
      BY <2>3 DEF CommitCancel
    <3> QED
      BY <3>1
  <2> QED
    BY <1>2, <2>1, <2>2, <2>3 DEF CancelStep
<1>3. ASSUME NEW c \in Calls, WatchStep(c) PROVE pc'[d] # "idle"
  BY <1>3, QuietSteps
<1>4. CASE UNCHANGED vars
  BY <1>4 DEF vars
<1> QED
  BY <1>1, <1>2, <1>3, <1>4 DEF Next

\* Only SpawnAgent adds to an agent list.
LEMMA IdsMove ==
  ASSUME [Next]_vars
  PROVE  UNCHANGED ids \/ \E c \in Calls, id \in AgentIDs : SpawnReturns(c, id)
<1>1. ASSUME NEW c \in Calls, ScheduleStep(c)
      PROVE  UNCHANGED ids \/ \E id \in AgentIDs : SpawnReturns(c, id)
  BY <1>1 DEF ScheduleStep, ScheduleCall, SpawnFails, WatchReturns, WatchFails, Register,
              RejectPhase, RejectDuplicate, Reject, CleanupTerminate, CleanupReturn
<1>2. ASSUME NEW c \in Calls, CancelStep(c) \/ WatchStep(c) PROVE UNCHANGED ids
  BY <1>2 DEF CancelStep, CancelNotFound, CancelLookup, TerminateReturns, TerminateFails,
              CommitCancel, WatchStep, WatchEvent, WatchClose, Collect, CollectEOF, Finish
<1>3. CASE UNCHANGED vars
  BY <1>3 DEF vars
<1> QED
  BY <1>1, <1>2, <1>3 DEF Next

\* A new watch polls; the earlier ones are left as they were.
LEMMA WatchAdded ==
  ASSUME NEW w \in Seq(WatchStates), NEW i \in DOMAIN Append(w, "polling")
  PROVE  \/ Append(w, "polling")[i] = "polling"
         \/ i \in DOMAIN w /\ Append(w, "polling")[i] = w[i]
<1>1. /\ DOMAIN Append(w, "polling") = 1..(Len(w) + 1) /\ DOMAIN w = 1..Len(w) /\ Len(w) \in Nat
      /\ Append(w, "polling")[Len(w) + 1] = "polling"
      /\ \A k \in 1..Len(w) : Append(w, "polling")[k] = w[k]
  BY WatchStatesFacts
<1>2. i \in 1..Len(w) \/ i = Len(w) + 1
  BY <1>1
<1> QED
  BY <1>1, <1>2

\* A termination loop starts at the first agent and goes on by TerminateAgent.
LoopMove(d) ==
  \/ next'[d] = 0
  \/ /\ pc[d] = pc'[d] /\ rec[d] = rec'[d]
     /\ next'[d] = next[d] \/ TerminateReturns(d) \/ CleanupTerminate(d)

\* The loop of a call over the agents moves that way.
LEMMA LoopMoves ==
  ASSUME TypeOK, CallsConsistent, LoopsConsistent, [Next]_vars, NEW d \in Calls,
         pc'[d] \in {"reject", "terminate"}
  PROVE  LoopMove(d)
<1>0. pc[d] \in {"idle", "setup"} => next[d] = 0
  BY DEF LoopsConsistent, LoopConsistent
<1> USE DEF TypeOK, Return, LoopMove
<1>1. ASSUME NEW c \in Calls, ScheduleStep(c) PROVE LoopMove(d)
  <2>1. CASE WatchReturns(c) \/ \E id \in AgentIDs : SpawnReturns(c, id)
    BY <2>1, QuietSteps
  <2>2. CASE \E j \in Jobs, n \in Sizes : ScheduleCall(c, j, n)
    BY <2>2, <1>0 DEF ScheduleCall
  <2>3. CASE SpawnFails(c) \/ WatchFails(c) \/ \E ph \in InputPhases : Register(c, ph)
    BY <2>3, <1>0 DEF SpawnFails, Spawning, WatchFails, Watching, Register, Ready
  <2>4. CASE RejectDuplicate(c) \/ \E ph \in InputPhases : RejectPhase(c, ph)
    BY <2>4, <1>0 DEF RejectDuplicate, RejectPhase, Reject, Ready
  <2>5. CASE CleanupTerminate(c)
    BY <2>5 DEF CleanupTerminate
  <2>6. CASE CleanupReturn(c)
    BY <2>6 DEF CleanupReturn
  <2> QED
    BY <1>1, <2>1, <2>2, <2>3, <2>4, <2>5, <2>6 DEF ScheduleStep
<1>2. ASSUME NEW c \in Calls, CancelStep(c) PROVE LoopMove(d)
  <2>1. CASE \E j \in Jobs : CancelNotFound(c, j) \/ CancelLookup(c, j)
    BY <2>1, <1>0 DEF CancelNotFound, CancelLookup, CancelStart
  <2>2. CASE TerminateReturns(c)
    BY <2>2 DEF TerminateReturns
  <2>4. CASE TerminateFails(c)
    BY <2>4 DEF TerminateFails, Terminating
  <2>3. CASE CommitCancel(c)
    <3>1. pc[c] = "terminate" /\ (\E r : Return(c, r)) /\ UNCHANGED <<rec, next>>
      BY <2>3 DEF CommitCancel
    <3> QED
      BY <3>1
  <2> QED
    BY <1>2, <2>1, <2>2, <2>3, <2>4 DEF CancelStep
<1>3. ASSUME NEW c \in Calls, WatchStep(c) PROVE LoopMove(d)
  BY <1>3, QuietSteps
<1>4. CASE UNCHANGED vars
  BY <1>4 DEF vars
<1> QED
  BY <1>1, <1>2, <1>3, <1>4 DEF Next

\* Somebody is responsible for the agents of a call: the call itself, watchJob, or,
\* when the spawning has failed, nobody any more.
Busy(c) ==
  \/ pc[c] \in {"setup", "reject"}
  \/ res[c] = "scheduled" /\ phase[job[c]] = "Running"
  \/ res[c] = "spawnFailed"

\* How that ends: every agent has been terminated or has been reported ended.
Released(c) ==
  \/ WatchFails(c)
  \/ pc[c] = "reject" /\ next[c] = Len(ids[c])
  \/ res[c] = "scheduled" /\ \A i \in DOMAIN ids[c] :
        i \in DOMAIN watch[c] /\ watch[c][i] \in Counted
  \/ \E d \in Calls : pc[d] = "terminate" /\ rec[d] = c /\ next[d] = Len(ids[c])

\* A call that ceases to be busy has been released.
LEMMA ReleasedInTheEnd ==
  ASSUME Inv, [Next]_vars, NEW c \in Calls, Busy(c), ~Busy(c)'
  PROVE  Released(c)
<1>0. TypeOK /\ CallsConsistent /\ RecordsConsistent /\ WatchesConsistent /\ LoopsConsistent
        /\ CountersConsistent
  BY DEF Inv
<1>1. pc[c] = "returned" \/ pc[c] \in {"setup", "reject"}
  BY <1>0 DEF Busy, TypeOK, CallsConsistent, CallConsistent
<1>2. CASE pc[c] = "setup"
  <2> USE DEF TypeOK, Return, Busy
  <2>1. ASSUME NEW d \in Calls, ScheduleStep(d) PROVE Released(c)
    <3>1. CASE WatchReturns(d) \/ \E id \in AgentIDs : SpawnReturns(d, id)
      BY <1>0, <1>2, <3>1, QuietSteps
    <3>2. CASE \E j \in Jobs, n \in Sizes : ScheduleCall(d, j, n)
      BY <1>0, <1>2, <3>2 DEF ScheduleCall
    <3>3. CASE SpawnFails(d)
      BY <1>0, <1>2, <3>3 DEF SpawnFails
    <3>4. CASE WatchFails(d)
      <4>1. CASE c = d
        BY <3>4, <4>1 DEF Released
      <4>2. CASE c # d
        BY <1>0, <1>2, <3>4, <4>2 DEF WatchFails
      <4> QED
        BY <4>1, <4>2
    <3>5. ASSUME NEW ph \in InputPhases, Register(d, ph) PROVE Released(c)
      <4>1. RegisterEffects(d)
        BY <1>0, <3>5, RegisterEffect
      <4> QED
        BY <1>0, <1>2, <4>1 DEF RegisterEffects
    <3>6. CASE RejectDuplicate(d) \/ \E ph \in InputPhases : RejectPhase(d, ph)
      BY <1>0, <1>2, <3>6 DEF RejectDuplicate, RejectPhase, Reject
    <3>7. CASE CleanupTerminate(d) \/ CleanupReturn(d)
      BY <1>0, <1>2, <3>7 DEF CleanupTerminate, CleanupReturn
    <3> QED
      BY <2>1, <3>1, <3>2, <3>3, <3>4, <3>5, <3>6, <3>7 DEF ScheduleStep
  <2>2. ASSUME NEW d \in Calls, CancelStep(d) PROVE Released(c)
    <3>1. CASE \E j \in Jobs : CancelNotFound(d, j) \/ CancelLookup(d, j)
      BY <1>0, <1>2, <3>1 DEF CancelNotFound, CancelLookup, CancelStart
    <3>2. CASE TerminateReturns(d) \/ TerminateFails(d)
      BY <1>0, <1>2, <3>2 DEF TerminateReturns, TerminateFails, Terminating
    <3>3. CASE CommitCancel(d)
      <4>1. pc[d] = "terminate" /\ \E r : Return(d, r)
        BY <3>3 DEF CommitCancel
      <4> QED
        BY <1>0, <1>2, <4>1
    <3> QED
      BY <2>2, <3>1, <3>2, <3>3 DEF CancelStep
  <2>3. ASSUME NEW d \in Calls, WatchStep(d) PROVE Released(c)
    BY <1>0, <1>2, <2>3, QuietSteps
  <2>4. CASE UNCHANGED vars
    BY <1>2, <2>4 DEF vars
  <2> QED
    BY <2>1, <2>2, <2>3, <2>4 DEF Next
<1>3. CASE pc[c] = "reject"
  <2> USE DEF TypeOK, Return, Busy
  <2>1. ASSUME NEW d \in Calls, ScheduleStep(d) PROVE Released(c)
    <3>1. CASE WatchReturns(d) \/ \E id \in AgentIDs : SpawnReturns(d, id)
      BY <1>0, <1>3, <3>1, QuietSteps
    <3>2. CASE \E j \in Jobs, n \in Sizes : ScheduleCall(d, j, n)
      BY <1>0, <1>3, <3>2 DEF ScheduleCall
    <3>3. CASE SpawnFails(d) \/ WatchFails(d) \/ \E ph \in InputPhases : Register(d, ph)
      BY <1>0, <1>3, <3>3 DEF SpawnFails, Spawning, WatchFails, Watching, Register, Ready
    <3>6. CASE RejectDuplicate(d) \/ \E ph \in InputPhases : RejectPhase(d, ph)
      BY <1>0, <1>3, <3>6 DEF RejectDuplicate, RejectPhase, Reject
    <3>7. CASE CleanupTerminate(d)
      BY <1>0, <1>3, <3>7 DEF CleanupTerminate
    <3>8. CASE CleanupReturn(d)
      <4>1. CASE c = d
        BY <1>3, <3>8, <4>1 DEF CleanupReturn, Released
      <4>2. CASE c # d
        BY <1>0, <1>3, <3>8, <4>2 DEF CleanupReturn
      <4> QED
        BY <4>1, <4>2
    <3> QED
      BY <2>1, <3>1, <3>2, <3>3, <3>6, <3>7, <3>8 DEF ScheduleStep
  <2>2. ASSUME NEW d \in Calls, CancelStep(d) PROVE Released(c)
    <3>1. CASE \E j \in Jobs : CancelNotFound(d, j) \/ CancelLookup(d, j)
      BY <1>0, <1>3, <3>1 DEF CancelNotFound, CancelLookup, CancelStart
    <3>2. CASE TerminateReturns(d) \/ TerminateFails(d)
      BY <1>0, <1>3, <3>2 DEF TerminateReturns, TerminateFails, Terminating
    <3>3. CASE CommitCancel(d)
      <4>1. pc[d] = "terminate" /\ \E r : Return(d, r)
        BY <3>3 DEF CommitCancel
      <4> QED
        BY <1>0, <1>3, <4>1
    <3> QED
      BY <2>2, <3>1, <3>2, <3>3 DEF CancelStep
  <2>3. ASSUME NEW d \in Calls, WatchStep(d) PROVE Released(c)
    BY <1>0, <1>3, <2>3, QuietSteps
  <2>4. CASE UNCHANGED vars
    BY <1>3, <2>4 DEF vars
  <2> QED
    BY <2>1, <2>2, <2>3, <2>4 DEF Next
<1>4. CASE pc[c] = "returned"
  <2>0. pc'[c] = "returned" /\ res'[c] = res[c]
    BY <1>0, <1>4, OutcomeStays
  <2>1. res[c] = "scheduled" /\ phase[job[c]] = "Running" /\ job[c] \in Jobs /\ owner[job[c]] = c
    BY <1>0, <1>4, <2>0 DEF Busy, RecordsConsistent
  <2>2. job'[c] = job[c]
    BY <1>0, <1>4, <2>1, JobStays
  <2>3. phase'[job[c]] # "Running"
    BY <2>0, <2>1, <2>2 DEF Busy
  <2>4. ASSUME NEW d \in Calls, NEW ph \in InputPhases, Register(d, ph) PROVE FALSE
    <3>1. RegisterEffects(d)
      BY <1>0, <2>4, RegisterEffect
    <3> QED
      BY <1>0, <2>1, <2>3, <3>1 DEF RegisterEffects, TypeOK
  <2>5. ASSUME NEW d \in Calls, CommitCancel(d) PROVE Released(c)
    <3>1. CommitEffects(d)
      BY <1>0, <2>5, CommitEffect
    <3>2. job[d] = job[c] /\ rec[d] = c
      BY SMTT(30), <1>0, <2>1, <2>3, <3>1 DEF CommitEffects, TypeOK
    <3>3. pc[d] = "terminate" /\ next[d] = Len(ids[rec[d]])
      BY <2>5 DEF CommitCancel
    <3> QED
      BY <3>2, <3>3 DEF Released
  <2>6. ASSUME NEW d \in Calls, Finish(d) PROVE Released(c)
    <3>1. FinishEffects(d)
      BY <1>0, <2>6, FinishEffect
    <3>2. d = c
      BY <1>0, <2>1, <2>3, <3>1 DEF FinishEffects, TypeOK
    <3>3. \A i \in DOMAIN watch[c] : watch[c][i] \in Counted
      BY <1>0, <3>1, <3>2, CountedAll DEF FinishEffects, CountersConsistent, CountsRight, TypeOK
    <3>4. DOMAIN watch[c] = DOMAIN ids[c]
      BY <1>0, <2>1 DEF LoopsConsistent, LoopConsistent, TypeOK
    <3> QED
      BY <2>1, <3>3, <3>4 DEF Released
  <2> QED
    BY <2>1, <2>3, <2>4, <2>5, <2>6, PhaseMoves
<1> QED
  BY <1>1, <1>2, <1>3, <1>4

=============================================================================
