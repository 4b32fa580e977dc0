---------------------------- MODULE AgentJobProofs ----------------------------
(***************************************************************************)
(* Proofs about module AgentJobReconciler, for any jobs and agents, names  *)
(* of pods shared or not, and any number of failures, restarts, evictions  *)
(* and jobs created anew.                                                  *)
(***************************************************************************)
EXTENDS AgentJobReconciler, FiniteSetTheorems, WellFoundedInduction, TLAPS

\* A set of natural numbers has a least one.
LEMMA Least ==
  ASSUME NEW S \in SUBSET Nat, NEW n \in S
  PROVE  \E m \in S : \A k \in S : m <= k
<1>1. PICK m \in S : \A k \in S : ~(<<k, m>> \in OpToRel(<, Nat))
  BY NatLessThanWellFounded, WFMin
<1>2. \A k \in S : ~(k < m)
  BY <1>1 DEF OpToRel
<1> QED
  BY <1>2

\* FlattenSeq puts sequences together.
LEMMA Flattened ==
  ASSUME NEW T, NEW s \in Seq(Seq(T))
  PROVE  FlattenSeq(s) \in Seq(T)
<1> DEFINE Equation(f, n) == f = [i \in 1..n |-> IF i = 1 THEN s[i] ELSE f[i - 1] \o s[i]]
<1>1. \A n \in Nat : \E f : Equation(f, n)
  <2> DEFINE Bad == {n \in Nat : ~\E f : Equation(f, n)}
  <2> SUFFICES ASSUME Bad # {} PROVE FALSE
    OBVIOUS
  <2>1. PICK m \in Bad : \A k \in Bad : m <= k
    <3> HIDE DEF Bad
    <3>1. Bad \in SUBSET Nat
      BY DEF Bad
    <3> QED
      BY <3>1, Least
  <2>2. m \in Nat /\ ~\E f : Equation(f, m)
    OBVIOUS
  <2> HIDE DEF Equation
  <2>3. CASE m = 0
    <3>1. Equation(<<>>, 0)
      BY DEF Equation
    <3> QED
      BY <2>2, <2>3, <3>1
  <2>4. CASE m # 0
    <3>1. m - 1 \in Nat /\ ~(m <= m - 1)
      BY <2>2, <2>4
    <3>2. PICK f : Equation(f, m - 1)
      BY <2>1, <3>1
    <3> USE DEF Equation
    <3> DEFINE g == [i \in 1..m |-> IF i \in 1..(m - 1) THEN f[i]
                                   ELSE IF m = 1 THEN s[1] ELSE f[m - 1] \o s[m]]
    <3>3. \A i \in 1..(m - 1) : f[i] = IF i = 1 THEN s[i] ELSE f[i - 1] \o s[i]
      BY <3>2
    <3>4. \A i \in 1..m : g[i] = IF i = 1 THEN s[i] ELSE g[i - 1] \o s[i]
      BY <2>2, <2>4, <3>3
    <3>5. Equation(g, m)
      BY <3>4
    <3> QED
      BY <2>2, <3>5
  <2> QED
    BY <2>3, <2>4
<1> DEFINE F == CHOOSE f : Equation(f, Len(s))
<1>2. FlattenSeq(s) = IF Len(s) = 0 THEN s ELSE F[Len(s)]
  BY DEF FlattenSeq
<1>3. Equation(F, Len(s))
  <2>1. Len(s) \in Nat
    OBVIOUS
  <2> HIDE DEF Equation
  <2>2. \E f : Equation(f, Len(s))
    BY <1>1, <2>1
  <2> QED
    BY <2>2
<1> HIDE DEF F
<1>4. \A i \in 1..Len(s) : F[i] = IF i = 1 THEN s[i] ELSE F[i - 1] \o s[i]
  BY <1>3
<1>5. \A i \in 1..Len(s) : F[i] \in Seq(T)
  <2> DEFINE Bad == {i \in 1..Len(s) : F[i] \notin Seq(T)}
  <2> SUFFICES ASSUME Bad # {} PROVE FALSE
    OBVIOUS
  <2>1. PICK m \in Bad : \A k \in Bad : m <= k
    <3>1. Bad \in SUBSET Nat
      OBVIOUS
    <3> HIDE DEF Bad
    <3> QED
      BY <3>1, Least
  <2>2. m \in 1..Len(s) /\ F[m] \notin Seq(T)
    OBVIOUS
  <2>3. s[m] \in Seq(T)
    BY <2>2
  <2>4. m # 1 => m - 1 \in 1..Len(s) /\ F[m - 1] \in Seq(T)
    BY <2>1, <2>2
  <2> HIDE DEF Bad
  <2>5. F[m] = IF m = 1 THEN s[m] ELSE F[m - 1] \o s[m]
    BY <1>4, <2>2
  <2> QED
    BY <2>2, <2>3, <2>4, <2>5
<1> QED
  BY <1>2, <1>5

\* The pods of a job are a list of names.
LEMMA PodLists ==
  ASSUME NEW j \in Jobs
  PROVE  /\ AgentPods(j) \in Seq(PodNames) /\ Len(AgentPods(j)) \in Nat
         /\ Range(AgentPods(j)) \subseteq PodNames
<1> DEFINE T == {PodName(j, Agents[j][k], i) : k \in DOMAIN Agents[j], i \in Nat}
           of(k) == [i \in 1..Replicas(Agents[j][k]) |-> PodName(j, Agents[j][k], i)]
<1>1. Agents[j] \in Seq([role : Seq(STRING), replicas : Nat])
  BY ReconcilerAssumption
<1>2. ASSUME NEW k \in DOMAIN Agents[j] PROVE of(k) \in Seq(T)
  <2>1. Replicas(Agents[j][k]) \in Nat
    <3>1. Agents[j][k] \in [role : Seq(STRING), replicas : Nat]
      <4> DEFINE R == [role : Seq(STRING), replicas : Nat]
      <4>1. Agents[j] \in Seq(R)
        BY <1>1
      <4> HIDE DEF R
      <4>2. Agents[j][k] \in R
        BY <4>1
      <4> QED
        BY <4>2 DEF R
    <3> QED
      BY <3>1 DEF Replicas
  <2>2. \A i \in 1..Replicas(Agents[j][k]) : PodName(j, Agents[j][k], i) \in T
    BY <2>1
  <2> HIDE DEF T
  <2> QED
    BY <2>1, <2>2
<1>3. [k \in DOMAIN Agents[j] |-> of(k)] \in Seq(Seq(T))
  <2>1. DOMAIN Agents[j] = 1..Len(Agents[j]) /\ Len(Agents[j]) \in Nat
    BY <1>1
  <2> HIDE DEF T, of
  <2> QED
    BY <1>2, <2>1
<1>4. AgentPods(j) \in Seq(T)
  <2>1. AgentPods(j) = FlattenSeq([k \in DOMAIN Agents[j] |-> of(k)])
    BY DEF AgentPods
  <2> HIDE DEF T, of
  <2> QED
    BY <1>3, <2>1, Flattened
<1>5. Len(AgentPods(j)) \in Nat /\ DOMAIN AgentPods(j) = 1..Len(AgentPods(j))
  <2> HIDE DEF T
  <2> QED
    BY <1>4
<1>6. Range(AgentPods(j)) \subseteq PodNames
  BY DEF PodNames
<1>7. AgentPods(j) \in Seq(PodNames)
  <2> HIDE DEF T
  <2>1. \A i \in 1..Len(AgentPods(j)) : AgentPods(j)[i] \in PodNames
    BY <1>5, <1>6 DEF Range
  <2>2. AgentPods(j) = [i \in 1..Len(AgentPods(j)) |-> AgentPods(j)[i]]
    BY <1>4
  <2> QED
    BY <1>5, <2>1, <2>2
<1> QED
  BY <1>5, <1>6, <1>7

\* The rank of a phase says which it is.
LEMMA Ranks ==
  ASSUME NEW p \in Phases \cup {"absent"}
  PROVE  /\ Rank(p) \in 0..4
         /\ Rank(p) = 0 <=> p = "absent"
         /\ Rank(p) = 1 <=> p = "Pending"
         /\ Rank(p) = 2 <=> p = "Running"
         /\ Rank(p) = 3 <=> p \in Ends
         /\ Rank(p) = 4 <=> p = "Terminating"
BY DEF Rank, Phases, Ends

\* The values that stand for no job, no pod and no work.
LEMMA NothingValues ==
  /\ NoJob \in JobObjects /\ ~Exists(NoJob) /\ NoJob.phase = "absent" /\ NoJob.version = 0 /\ NoJob.uid = 0
  /\ NoPod \in PodObjects /\ NoPod.owner = 0 /\ ~NoPod.deleting /\ NoPod.phase = "absent"
  /\ Idle \in WorkObjects /\ Idle.at = "idle" /\ Idle.delete = {}
BY DEF NoJob, JobObjects, Exists, NoPod, PodObjects, Idle, WorkObjects

\* Without work nothing is to be said of it.
LEMMA WorkEnds ==
  ASSUME work' = Idle
  PROVE  WorkInv'
BY NothingValues DEF WorkInv, WorkTypeOK, WorkConsistent, MadeSoFar, VerdictTrue

\* Nothing holds a uid under a name that did not before.
LEMMA NamesStay ==
  ASSUME UIDsNameOne, \A u \in UIDs : \A n : HeldBy(u, n)' => HeldBy(u, n)
  PROVE  UIDsNameOne'
BY DEF UIDsNameOne, UIDs

\* What has happened to a copy has still happened to the job.
LEMMA CopyStays ==
  ASSUME JobsTypeOK, NEW j \in Jobs, NEW o \in JobObjects, CopyOf(j, o),
         uids' \in Nat, uids <= uids', expired \subseteq expired',
         \/ jobs'[j].uid \notin 1..uids
         \/ jobs'[j].uid = jobs[j].uid /\ jobs[j].version <= jobs'[j].version /\ jobs'[j].version \in Nat
  PROVE  CopyOf(j, o)'
<1>1. o.uid # 0 => o.uid \in 1..uids
  BY ReconcilerAssumption DEF JobObjects, UIDs, JobsTypeOK, CopyOf
<1>2. o.version \in Nat /\ jobs[j].version \in Nat /\ o.uid \in Nat /\ uids \in Nat
  <2>1. jobs[j] \in JobObjects /\ uids \in Nat
    BY ReconcilerAssumption DEF JobsTypeOK
  <2>2. \A q \in JobObjects : q.version \in Nat /\ q.uid \in Nat
    BY ReconcilerAssumption DEF JobObjects, UIDs
  <2> QED
    BY <2>1, <2>2
<1> QED
  BY <1>1, <1>2 DEF CopyOf, Exists

\* An update that is accepted was made from a copy in the phase the job is in.
LEMMA AcceptedMeans ==
  ASSUME JobInv, work.at # "idle", Unchanged(work.obj)
  PROVE  /\ work.job \in Jobs /\ jobs[work.job] \in JobObjects /\ jobs[work.job].uid = work.obj.uid
         /\ work.obj.uid \in UIDs /\ jobs[work.job].version = work.obj.version
         /\ work.at = "create" => jobs[work.job].phase = "Pending" /\ work.obj.version = 1
         /\ work.at = "finish" => /\ jobs[work.job].phase = "Running" /\ work.obj.version = 2
                                  /\ jobs[work.job].active = work.obj.active
         /\ work.at = "expire" => jobs[work.job].phase \in Ends /\ work.obj.version = 3
<1>1. /\ JobsTypeOK /\ CopiesConsistent /\ WorkTypeOK /\ WorkConsistent
  BY DEF JobInv, JobsInv, WorkInv
<1>2. /\ work.job \in Jobs /\ jobs[work.job] \in JobObjects /\ work.obj.uid \in UIDs /\ work.obj \in JobObjects
      /\ jobs[work.job].uid = work.obj.uid /\ jobs[work.job].version = work.obj.version
  BY <1>1 DEF WorkTypeOK, JobsTypeOK, Unchanged, WorkObjects
<1>3. /\ CopyOf(work.job, work.obj) /\ CopyOf(work.job, jobs[work.job])
  BY <1>1, <1>2 DEF WorkConsistent, CopiesConsistent
<1>4. /\ Rank(jobs[work.job].phase) = Rank(work.obj.phase) /\ work.obj.version = Rank(work.obj.phase)
      /\ jobs[work.job].phase \in Phases \cup {"absent"} /\ work.obj.phase \in Phases \cup {"absent"}
  BY <1>2, <1>3 DEF CopyOf, JobObjects
<1>5. /\ work.obj.phase = "Running" => work.obj.active = Len(AgentPods(work.job))
      /\ jobs[work.job].phase = "Running" => jobs[work.job].active = Len(AgentPods(work.job))
  BY <1>3 DEF CopyOf
<1> QED
  BY <1>1, <1>2, <1>4, <1>5, Ranks DEF WorkConsistent

\* The work in progress is the same, save for what it still has to delete.
SameWork ==
  /\ WorkTypeOK'
  /\ work'.at = work.at /\ work'.job = work.job /\ work'.obj = work.obj
  /\ work'.verdict = work.verdict /\ work'.create = work.create
  /\ work'.delete \subseteq work.delete

\* Work that goes on is still right if its job and its pods have not been taken back.
LEMMA WorkStays ==
  ASSUME JobInv, SameWork, disturbed \subseteq disturbed', ended \subseteq ended',
         expired \subseteq expired',
         work.at # "idle" => CopyOf(work.job, work.obj)',
         work.at # "idle" /\ Unchanged(work.obj)' => Unchanged(work.obj),
         \A p \in PodNames : work.at = "create" /\ Undisturbed /\ pods[p].owner = work.obj.uid =>
                               pods'[p].owner = work.obj.uid
  PROVE  WorkInv'
<1>1. WorkConsistent /\ MadeSoFar /\ VerdictTrue /\ WorkTypeOK
  BY DEF JobInv, WorkInv
<1>2. WorkConsistent'
  BY <1>1 DEF WorkConsistent, SameWork
<1>3. work.at # "idle" /\ Undisturbed' => Undisturbed
  BY DEF Undisturbed, SameWork
<1>4. MadeSoFar'
  <2>1. work.job \in Jobs => Range(AgentPods(work.job)) \subseteq PodNames
    BY PodLists
  <2> QED
    BY <1>1, <1>3, <2>1 DEF MadeSoFar, SameWork, WorkTypeOK
<1>5. VerdictTrue'
  BY <1>1, <1>3 DEF VerdictTrue, SameWork
<1> QED
  BY <1>2, <1>4, <1>5 DEF WorkInv, SameWork

\* Jobs go forward, or are gone or made anew: copies stay copies, and an update that would
\* now be accepted would have been before.
LEMMA JobsGoOn ==
  ASSUME JobInv, uids' \in Nat, uids <= uids', expired \subseteq expired',
         jobs' \in [Jobs -> JobObjects],
         \A j \in Jobs : \/ jobs'[j].uid \notin 1..uids
                         \/ jobs'[j].uid = jobs[j].uid /\ jobs[j].version <= jobs'[j].version
  PROVE  /\ \A j \in Jobs, o \in JobObjects : CopyOf(j, o) => CopyOf(j, o)'
         /\ SameWork /\ work.at # "idle" =>
              CopyOf(work.job, work.obj)' /\ (Unchanged(work.obj)' => Unchanged(work.obj))
<1>1. JobsTypeOK /\ WorkTypeOK /\ WorkConsistent
  BY DEF JobInv, JobsInv, WorkInv
<1>2. \A j \in Jobs : jobs'[j].version \in Nat
  BY DEF JobObjects
<1>3. ASSUME NEW j \in Jobs, NEW o \in JobObjects, CopyOf(j, o) PROVE CopyOf(j, o)'
  BY <1>1, <1>2, <1>3, CopyStays
<1>4. ASSUME SameWork, work.at # "idle"
      PROVE  CopyOf(work.job, work.obj)' /\ (Unchanged(work.obj)' => Unchanged(work.obj))
  <2>1. work.job \in Jobs /\ work.obj \in JobObjects /\ CopyOf(work.job, work.obj) /\ work.obj.uid \in UIDs
    BY <1>1, <1>4 DEF WorkTypeOK, WorkConsistent, WorkObjects
  <2>2. \A j \in Jobs, o \in JobObjects : CopyOf(j, o) /\ j = work.job /\ o = work.obj =>
          CopyOf(work.job, work.obj)'
    BY <1>3, <1>4 DEF SameWork, CopyOf
  <2>3. Unchanged(work.obj)' => Unchanged(work.obj)
    <3>1. work.obj.uid \in 1..uids /\ work.obj.version \in Nat
      BY <1>1, <2>1, ReconcilerAssumption DEF CopyOf, JobObjects, JobsTypeOK, UIDs
    <3>2. jobs[work.job].uid = work.obj.uid => work.obj.version <= jobs[work.job].version
      BY <2>1, <3>1 DEF CopyOf, Exists
    <3>3. jobs[work.job].version \in Nat /\ jobs'[work.job].version \in Nat
      BY <1>1, <1>2, <2>1 DEF JobsTypeOK, JobObjects
    <3> QED
      BY <1>4, <2>1, <3>1, <3>2, <3>3 DEF Unchanged, SameWork
  <2> QED
    BY <2>1, <2>2, <2>3
<1> QED
  BY <1>3, <1>4

\* A status update that is accepted takes the job to its next phase.
LEMMA JobWritten ==
  ASSUME JobInv, work.at \in {"create", "finish", "expire"}, Unchanged(work.obj),
         NEW ph \in Phases, NEW n \in Nat, StatusWritten(ph, n), Rank(ph) = work.obj.version + 1,
         ph = "Running" => work.at = "create" /\ work.create = <<>> /\ n = Len(AgentPods(work.job)),
         ph = "Succeeded" => work.at = "finish" /\ work.verdict = "Succeeded",
         ph = "Terminating" => work.obj.uid \in expired,
         UNCHANGED <<pods, uids, tenant, seen, seenPods, expired, ended, disturbed>>,
         \/ settled' = settled
         \/ settled' = settled \cup {<<work.obj.uid, ph>>} /\ ph \in Ends,
         queue' \subseteq Jobs, work' = Idle
  PROVE  /\ JobsInv' /\ PodsInv' /\ UIDsNameOne' /\ WorkInv'
         /\ jobs' = [jobs EXCEPT ![work.job] = Written(jobs[work.job], ph, n)]
         /\ jobs'[work.job].phase = ph /\ jobs'[work.job].active = n
<1> PICK x, o : x = work.job /\ o = Written(jobs[x], ph, n)
  OBVIOUS
<1>0. /\ JobsTypeOK /\ CopiesConsistent /\ SettledOnce /\ PodsInv /\ UIDsNameOne /\ WorkTypeOK /\ MadeSoFar
      /\ VerdictTrue
  BY DEF JobInv, JobsInv, WorkInv
<1>1. /\ x \in Jobs /\ jobs[x] \in JobObjects /\ jobs[x].uid = work.obj.uid
      /\ jobs[x].uid \in UIDs /\ jobs[x].version = work.obj.version
      /\ jobs[x].phase # "Terminating"
  BY AcceptedMeans DEF Ends
<1>2. /\ o \in JobObjects /\ o.uid = jobs[x].uid /\ o.version = jobs[x].version + 1
      /\ o.phase = ph /\ o.active = n /\ o.version = Rank(ph) /\ o.version \in 0..4
  <2>1. jobs[x].version + 1 \in 0..4
    BY <1>1, Ranks
  <2> QED
    BY <1>1, <2>1 DEF Written, JobObjects
<1>3. jobs' = [jobs EXCEPT ![x] = o]
  BY <1>0, <1>1 DEF StatusWritten, JobsTypeOK
<1>4. jobs'[x] = o /\ jobs' \in [Jobs -> JobObjects] /\ \A j \in Jobs \ {x} : jobs'[j] = jobs[j]
  BY <1>0, <1>1, <1>2, <1>3 DEF JobsTypeOK
<1>5. \A j \in Jobs : jobs'[j].uid = jobs[j].uid /\ jobs[j].version <= jobs'[j].version
  <2>1. \A j \in Jobs : jobs[j] \in JobObjects
    BY <1>0 DEF JobsTypeOK
  <2>2. \A q \in JobObjects : q.version \in Int
    BY DEF JobObjects
  <2> QED
    BY <1>1, <1>2, <1>4, <2>1, <2>2
<1>6. uids \in Nat /\ \A j \in Jobs, c \in JobObjects : CopyOf(j, c) => CopyOf(j, c)'
  <2>1. uids \in Nat /\ uids' = uids /\ expired' = expired
    BY <1>0, ReconcilerAssumption DEF JobsTypeOK
  <2> QED
    BY <1>4, <1>5, <2>1, JobsGoOn
<1>7. CopiesConsistent'
  <2>1. CopyOf(x, o)'
    <3>1. ph # "absent" /\ o.uid # 0 /\ o.uid <= uids
      BY <1>0, <1>1, <1>2, ReconcilerAssumption DEF CopiesConsistent, CopyOf, UIDs, Phases
    <3> QED
      BY <1>1, <1>2, <1>4, <3>1 DEF CopyOf, Exists
  <2>2. \A j \in Jobs : CopyOf(j, seen[j])' /\ CopyOf(j, jobs[j])'
    BY <1>0, <1>4, <1>6, <2>1 DEF CopiesConsistent, JobsTypeOK
  <2> QED
    BY <2>2 DEF CopiesConsistent
<1>8. SettledOnce'
  <2>1. ASSUME NEW j \in Jobs, jobs[j].uid = work.obj.uid PROVE j = x
    BY <1>0, <1>1, <2>1 DEF UIDsNameOne, HeldBy
  <2>2. ph \in Ends => o.version = 3
    BY <1>2, Ranks
  <2>3. work.obj.uid <= uids
    BY <1>0, <1>1 DEF CopiesConsistent, CopyOf
  <2> SUFFICES ASSUME NEW u \in UIDs, NEW v \in Ends, <<u, v>> \in settled'
               PROVE  u <= uids /\ \A j \in Jobs : jobs'[j].uid = u => jobs'[j].version >= 3
    BY <1>3 DEF SettledOnce
  <2>4. CASE <<u, v>> \in settled
    <3>1. u <= uids /\ \A j \in Jobs : jobs[j].uid = u => jobs[j].version >= 3
      BY <1>0, <2>4 DEF SettledOnce
    <3>2. ASSUME NEW j \in Jobs, jobs'[j].uid = u PROVE jobs'[j].version >= 3
      <4>1. jobs[j] \in JobObjects /\ jobs'[j] \in JobObjects
        BY <1>0, <1>4 DEF JobsTypeOK
      <4>2. jobs[j].version \in Int /\ jobs'[j].version \in Int
        BY <4>1 DEF JobObjects
      <4>3. jobs[j].version >= 3
        BY <1>5, <3>1, <3>2
      <4> QED
        BY <1>5, <4>2, <4>3
    <3> QED
      BY <3>1, <3>2
  <2>5. CASE <<u, v>> \notin settled
    <3>1. u = work.obj.uid /\ ph \in Ends
      BY <2>5
    <3>2. \A j \in Jobs : jobs'[j].uid = u => jobs'[j].version = 3
      BY <1>4, <1>5, <2>1, <2>2, <3>1
    <3> QED
      BY <2>3, <3>1, <3>2
  <2> QED
    BY <2>4, <2>5
<1>9. JobsInv'
  BY <1>0, <1>4, <1>7, <1>8 DEF JobsInv, JobsTypeOK
<1>10. PodsTypeOK' /\ PodsConsistent'
  BY <1>0 DEF PodsInv, PodsTypeOK, PodsConsistent, PodIs
<1>11. DeletingExplained'
  BY <1>0, <1>1, <1>4, <1>5 DEF PodsInv, DeletingExplained
<1>12. PodsInPlace'
  <2> SUFFICES ASSUME NEW j \in Jobs, jobs'[j].phase = "Running", jobs'[j].uid \notin disturbed,
                      NEW p \in Range(AgentPods(j))
               PROVE  pods[p].owner = jobs'[j].uid
    BY DEF PodsInPlace
  <2>1. CASE j = x
    <3>1. Undisturbed /\ work.at = "create" /\ Range(work.create) = {}
      BY <1>1, <1>2, <1>4, <2>1 DEF Undisturbed, Range
    <3> QED
      BY <1>0, <1>1, <1>5, <2>1, <3>1 DEF MadeSoFar
  <2>2. CASE j # x
    BY <1>0, <1>4, <2>2 DEF PodsInv, PodsInPlace
  <2> QED
    BY <2>1, <2>2
<1>13. SucceededUnlessDisturbed'
  <2> SUFFICES ASSUME NEW j \in Jobs, jobs'[j].phase = "Succeeded", jobs'[j].uid \notin disturbed,
                      NEW p \in Range(AgentPods(j))
               PROVE  <<jobs'[j].uid, p>> \in ended
    BY DEF SucceededUnlessDisturbed, AllSucceeded
  <2>1. CASE j = x
    <3>1. Undisturbed /\ work.at = "finish" /\ work.verdict = "Succeeded"
      BY <1>1, <1>2, <1>4, <2>1 DEF Undisturbed
    <3> QED
      BY <1>0, <1>1, <1>5, <2>1, <3>1 DEF VerdictTrue
  <2>2. CASE j # x
    BY <1>0, <1>4, <2>2 DEF PodsInv, SucceededUnlessDisturbed, AllSucceeded
  <2> QED
    BY <2>1, <2>2
<1>14. UIDsNameOne'
  <2>1. \A u \in UIDs : \A m : HeldBy(u, m)' => HeldBy(u, m)
    BY <1>5, NothingValues DEF HeldBy
  <2> QED
    BY <1>0, <2>1, NamesStay
<1> QED
  BY <1>2, <1>3, <1>4, <1>9, <1>10, <1>11, <1>12, <1>13, <1>14, WorkEnds DEF PodsInv

\* A step that leaves the jobs alone: what is said of them, and of the work's copy, stays.
LEMMA JobsStay ==
  ASSUME JobInv, UNCHANGED <<jobs, uids, settled>>, tenant' \in BOOLEAN, queue' \subseteq Jobs,
         expired \subseteq expired',
         \/ seen' = seen
         \/ seen' \in [Jobs -> JobObjects] /\ \A j \in Jobs : seen'[j] \in {seen[j], jobs[j]}
  PROVE  /\ JobsInv'
         /\ SameWork /\ work.at # "idle" =>
              CopyOf(work.job, work.obj)' /\ (Unchanged(work.obj)' => Unchanged(work.obj))
<1>0. JobsTypeOK /\ CopiesConsistent /\ SettledOnce /\ uids \in Nat
  BY ReconcilerAssumption DEF JobInv, JobsInv, JobsTypeOK
<1>1. JobsTypeOK' /\ SettledOnce'
  BY <1>0 DEF JobsTypeOK, SettledOnce
<1>2. CopiesConsistent'
  BY <1>0 DEF CopiesConsistent, CopyOf
<1>3. \A j \in Jobs : jobs[j].version \in Nat
  BY <1>0 DEF JobsTypeOK, JobObjects
<1> QED
  BY <1>0, <1>1, <1>2, <1>3, JobsGoOn DEF JobsInv, JobsTypeOK

\* A job is gone.
LEMMA JobGone ==
  ASSUME JobInv, NEW x \in Jobs, jobs' = [jobs EXCEPT ![x] = NoJob],
         UNCHANGED <<pods, uids, tenant, seen, seenPods, expired, ended, settled, disturbed>>,
         queue' \subseteq Jobs, work' = Idle \/ work' = work
  PROVE  JobsInv' /\ PodsInv' /\ UIDsNameOne' /\ WorkInv'
<1>0. /\ JobsTypeOK /\ CopiesConsistent /\ SettledOnce /\ PodsInv /\ UIDsNameOne /\ WorkTypeOK
      /\ uids \in Nat
  BY ReconcilerAssumption DEF JobInv, JobsInv, WorkInv, JobsTypeOK
<1>1. /\ jobs' \in [Jobs -> JobObjects] /\ jobs'[x] = NoJob /\ \A j \in Jobs \ {x} : jobs'[j] = jobs[j]
  BY <1>0, NothingValues DEF JobsTypeOK
<1>2. \A j \in Jobs : \/ jobs'[j].uid \notin 1..uids
                      \/ jobs'[j].uid = jobs[j].uid /\ jobs[j].version <= jobs'[j].version
  <2>1. \A j \in Jobs : jobs[j].version \in Int
    BY <1>0 DEF JobsTypeOK, JobObjects
  <2> QED
    BY <1>0, <1>1, <2>1, NothingValues
<1>3. /\ \A j \in Jobs, c \in JobObjects : CopyOf(j, c) => CopyOf(j, c)'
      /\ SameWork /\ work.at # "idle" =>
           CopyOf(work.job, work.obj)' /\ (Unchanged(work.obj)' => Unchanged(work.obj))
  BY <1>0, <1>1, <1>2, JobsGoOn
<1>4. CopiesConsistent'
  <2>1. CopyOf(x, NoJob)'
    <3>1. Rank("absent") = 0
      BY Ranks
    <3> QED
      BY <1>0, <3>1, NothingValues DEF CopyOf, Exists
  <2>2. \A j \in Jobs : CopyOf(j, seen[j])' /\ CopyOf(j, jobs[j])'
    BY <1>0, <1>1, <1>3, <2>1 DEF CopiesConsistent, JobsTypeOK
  <2> QED
    BY <2>2 DEF CopiesConsistent
<1>5. JobsInv'
  BY <1>0, <1>1, <1>4, NothingValues DEF JobsInv, JobsTypeOK, SettledOnce, UIDs
<1>6. DeletingExplained'
  <2>1. \A p \in PodNames : pods[p].owner = 0 => ~pods[p].deleting
    BY <1>0, NothingValues DEF PodsInv, PodsConsistent, PodIs
  <2> QED
    BY <1>0, <1>1, <2>1, NothingValues DEF PodsInv, DeletingExplained
<1>7. PodsInv'
  BY <1>0, <1>1, <1>6, NothingValues DEF PodsInv, PodsTypeOK, PodsConsistent, PodIs, PodsInPlace,
     SucceededUnlessDisturbed, AllSucceeded
<1>8. UIDsNameOne'
  <2>1. \A u \in UIDs : \A m : HeldBy(u, m)' => HeldBy(u, m)
    BY <1>1, NothingValues DEF HeldBy, UIDs
  <2> QED
    BY <1>0, <2>1, NamesStay
<1>9. ASSUME work' = work PROVE WorkInv'
  <2>1. SameWork
    BY <1>0, <1>9 DEF SameWork, WorkTypeOK
  <2> QED
    BY <1>3, <2>1, WorkStays
<1> QED
  BY <1>5, <1>7, <1>8, <1>9, WorkEnds

\* A pod is made, if there is none of that name.
LEMMA PodMade ==
  ASSUME JobInv, work.at = "create", work.create # <<>>, PodCreated,
         UNCHANGED <<jobs, uids, tenant, seen, seenPods, expired, ended, settled>>,
         queue' \subseteq Jobs, disturbed \subseteq disturbed',
         work' = Idle \/ (work'.at = work.at /\ work'.obj = work.obj /\ work'.job = work.job)
  PROVE  /\ JobsInv' /\ PodsInv' /\ UIDsNameOne'
         /\ \A p \in PodNames : pods[p].owner # 0 => pods'[p] = pods[p]
         /\ LET h == Head(work.create) IN
              h \in PodNames /\ pods'[h].owner = IF pods[h].owner = 0 THEN work.obj.uid ELSE pods[h].owner
<1>0. /\ JobsTypeOK /\ PodsTypeOK /\ PodsConsistent /\ UIDsNameOne /\ WorkTypeOK /\ WorkConsistent
      /\ PodsInv
  BY DEF JobInv, JobsInv, PodsInv, WorkInv
<1> PICK h : h = Head(work.create)
  OBVIOUS
<1> PICK o : o = [owner |-> work.obj.uid, job |-> work.job, phase |-> "Running", deleting |-> FALSE]
  OBVIOUS
<1>1. h \in PodNames /\ work.job \in Jobs /\ work.obj.uid \in UIDs /\ work.obj.uid <= uids
  BY <1>0 DEF WorkTypeOK, WorkConsistent, CopyOf, WorkObjects
<1>2. o \in PodObjects /\ o.owner = work.obj.uid /\ o.owner # 0 /\ o.phase = "Running" /\ ~o.deleting /\ o.job = work.job
  BY <1>1 DEF PodObjects, UIDs
<1>3. pods' = IF pods[h] # NoPod THEN pods ELSE [pods EXCEPT ![h] = o]
  BY DEF PodCreated
<1>4. /\ pods' \in [PodNames -> PodObjects] /\ \A p \in PodNames \ {h} : pods'[p] = pods[p]
      /\ pods'[h] = IF pods[h] # NoPod THEN pods[h] ELSE o
  BY <1>0, <1>1, <1>2, <1>3 DEF PodsTypeOK
<1>5. \A p \in PodNames : pods[p].owner = 0 <=> pods[p] = NoPod
  BY <1>0, NothingValues DEF PodsConsistent, PodIs
<1>6. PodsTypeOK' /\ PodsConsistent'
  <2>1. PodsTypeOK'
    BY <1>0, <1>4 DEF PodsTypeOK
  <2>2. ASSUME NEW p \in PodNames, p # h PROVE pods'[p] = pods[p]
    BY <1>4, <2>2
  <2>3. UNCHANGED <<uids, ended, seenPods>> /\ \A p \in PodNames : PodIs(p, pods[p]) /\ PodIs(p, seenPods[p])
    BY <1>0 DEF PodsConsistent
  <2>4. PodIs(h, o)
    BY <1>1, <1>2 DEF PodIs
  <2>5. \A p \in PodNames : PodIs(p, pods'[p]) /\ PodIs(p, seenPods'[p])
    BY <1>4, <2>2, <2>3, <2>4
  <2>6. PodsConsistent'
    BY <2>3, <2>5 DEF PodsConsistent, PodIs
  <2> QED
    BY <2>1, <2>6
<1>7. DeletingExplained' /\ PodsInPlace' /\ SucceededUnlessDisturbed'
  <2>1. DeletingExplained'
    BY <1>0, <1>2, <1>4 DEF PodsInv, DeletingExplained
  <2>2. PodsInPlace'
    <3>1. \A j \in Jobs : jobs[j].phase = "Running" => jobs[j].uid # 0
      BY <1>0 DEF JobInv, JobsInv, CopiesConsistent, CopyOf, Exists
    <3>2. \A j \in Jobs : Range(AgentPods(j)) \subseteq PodNames
      BY PodLists
    <3> QED
      BY <1>0, <1>4, <1>5, <3>1, <3>2 DEF PodsInv, PodsInPlace
  <2>3. SucceededUnlessDisturbed'
    BY <1>0 DEF PodsInv, SucceededUnlessDisturbed, AllSucceeded
  <2> QED
    BY <2>1, <2>2, <2>3
<1>8. UIDsNameOne'
  <2>1. \A u \in UIDs : \A m : HeldBy(u, m)' => HeldBy(u, m)
    BY <1>2, <1>4, NothingValues DEF HeldBy
  <2> QED
    BY <1>0, <2>1, NamesStay
<1>9. JobsInv'
  BY <1>0, JobsStay DEF JobsTypeOK
<1> QED
  BY <1>1, <1>2, <1>4, <1>5, <1>6, <1>7, <1>8, <1>9 DEF PodsInv

\* A pod is marked for deletion: its job has been disturbed, is at its end or is gone.
LEMMA PodMarked ==
  ASSUME JobInv, NEW x \in PodNames, pods' = [pods EXCEPT ![x].deleting = TRUE], pods[x] # NoPod,
         \A j \in Jobs : jobs[j].uid = pods[x].owner =>
                           jobs[j].uid \in disturbed' \/ jobs[j].phase = "Terminating",
         UNCHANGED <<jobs, uids, tenant, seen, seenPods, expired, ended, settled>>,
         queue' \subseteq Jobs, disturbed \subseteq disturbed', work' = Idle \/ SameWork
  PROVE  JobsInv' /\ PodsInv' /\ UIDsNameOne' /\ WorkInv'
<1>0. /\ JobsTypeOK /\ PodsTypeOK /\ PodsConsistent /\ UIDsNameOne /\ PodsInv
  BY DEF JobInv, JobsInv, PodsInv
<1>1. /\ pods' \in [PodNames -> PodObjects] /\ pods'[x].deleting /\ pods'[x].owner # 0
      /\ \A p \in PodNames : /\ pods'[p].owner = pods[p].owner /\ pods'[p].job = pods[p].job
                             /\ pods'[p].phase = pods[p].phase
                             /\ p # x => pods'[p] = pods[p]
  <2>1. pods[x] \in PodObjects /\ pods[x].owner # 0
    BY <1>0 DEF PodsTypeOK, PodsConsistent, PodIs
  <2> QED
    BY <1>0, <2>1 DEF PodsTypeOK, PodObjects
<1>2. PodsTypeOK' /\ PodsConsistent'
  BY <1>0, <1>1 DEF PodsTypeOK, PodsConsistent, PodIs
<1>3. DeletingExplained'
  BY <1>0, <1>1 DEF PodsInv, DeletingExplained
<1>4. PodsInPlace' /\ SucceededUnlessDisturbed'
  <2>1. \A j \in Jobs : Range(AgentPods(j)) \subseteq PodNames
    BY PodLists
  <2> QED
    BY <1>0, <1>1, <2>1 DEF PodsInv, PodsInPlace, SucceededUnlessDisturbed, AllSucceeded
<1>5. UIDsNameOne'
  <2>1. \A u \in UIDs : \A m : HeldBy(u, m)' => HeldBy(u, m)
    BY <1>1, NothingValues DEF HeldBy, SameWork
  <2> QED
    BY <1>0, <2>1, NamesStay
<1>6. JobsInv' /\ (SameWork /\ work.at # "idle" =>
         CopyOf(work.job, work.obj)' /\ (Unchanged(work.obj)' => Unchanged(work.obj)))
  BY <1>0, JobsStay DEF JobsTypeOK
<1>7. SameWork => WorkInv'
  BY <1>1, <1>6, WorkStays
<1> QED
  BY <1>2, <1>3, <1>4, <1>5, <1>6, <1>7, WorkEnds DEF PodsInv

\* A step that leaves the jobs and the pods alone.
LEMMA ObjectsStay ==
  ASSUME JobInv, UNCHANGED <<jobs, pods, uids, ended, settled>>,
         \/ seen' = seen
         \/ seen' \in [Jobs -> JobObjects] /\ \A j \in Jobs : seen'[j] \in {seen[j], jobs[j]},
         seenPods' = seenPods \/ seenPods' = pods,
         tenant' \in BOOLEAN, queue' \subseteq Jobs,
         expired \subseteq expired', disturbed \subseteq disturbed',
         \/ work' = Idle \/ SameWork
         \/ \E j \in Jobs : work'.job = j /\ work'.obj = seen[j]
  PROVE  JobsInv' /\ PodsInv' /\ UIDsNameOne' /\ (work' = Idle \/ SameWork => WorkInv')
<1>0. /\ JobsTypeOK /\ PodsTypeOK /\ PodsConsistent /\ UIDsNameOne /\ PodsInv
  BY DEF JobInv, JobsInv, PodsInv
<1>1. PodsInv'
  BY <1>0 DEF PodsInv, PodsTypeOK, PodsConsistent, PodIs, DeletingExplained, PodsInPlace,
     SucceededUnlessDisturbed, AllSucceeded
<1>2. UIDsNameOne'
  <2>1. \A u \in UIDs : \A m : HeldBy(u, m)' => HeldBy(u, m)
    BY NothingValues DEF HeldBy, SameWork
  <2> QED
    BY <1>0, <2>1, NamesStay
<1>3. JobsInv' /\ (SameWork /\ work.at # "idle" =>
         CopyOf(work.job, work.obj)' /\ (Unchanged(work.obj)' => Unchanged(work.obj)))
  BY JobsStay
<1>4. SameWork => WorkInv'
  BY <1>3, WorkStays
<1> QED
  BY <1>1, <1>2, <1>3, <1>4, WorkEnds

\* The job whose end was seen in the pods has ended so, if nothing has disturbed it.
LEMMA SeenEndIsTrue ==
  ASSUME JobInv, NEW j \in Jobs, seen[j].phase = "Running", AllDone(j), Verdict(j) = "Succeeded",
         jobs[j].uid = seen[j].uid, jobs[j].version = seen[j].version, ~StaleList(j),
         jobs[j].uid \notin disturbed, NEW p \in Range(AgentPods(j))
  PROVE  <<jobs[j].uid, p>> \in ended
<1>0. /\ JobsTypeOK /\ CopiesConsistent /\ PodsTypeOK /\ PodsConsistent /\ UIDsNameOne /\ PodsInPlace
  BY DEF JobInv, JobsInv, PodsInv
<1>1. jobs[j].phase = "Running" /\ Exists(jobs[j]) /\ jobs[j].uid \in UIDs
  <2>1. /\ jobs[j].phase \in Phases \cup {"absent"} /\ seen[j].phase \in Phases \cup {"absent"}
        /\ jobs[j].uid \in {0} \cup UIDs
    BY <1>0 DEF JobsTypeOK, JobObjects
  <2>2. Rank(jobs[j].phase) = Rank(seen[j].phase)
    BY <1>0 DEF CopiesConsistent, CopyOf
  <2>3. jobs[j].phase = "Running"
    BY <2>1, <2>2, Ranks
  <2> QED
    BY <1>0, <2>1, <2>3 DEF CopiesConsistent, CopyOf, Exists
<1>2. p \in PodNames /\ pods[p].owner = jobs[j].uid
  BY <1>0, <1>1, PodLists DEF PodsInPlace
<1>3. /\ pods[p].job \in Jobs \cup {<<>>} /\ seenPods[p].job \in Jobs \cup {<<>>}
      /\ seenPods[p].phase \in {"absent", "Running", "Succeeded", "Failed"}
  BY <1>0, <1>2 DEF PodsTypeOK, PodObjects
<1>4. pods[p].job = j
  BY <1>0, <1>1, <1>2, <1>3 DEF UIDsNameOne, HeldBy
<1>5. seenPods[p].owner = jobs[j].uid
  BY <1>2, <1>4 DEF StaleList
<1>6. seenPods[p].job = j
  BY <1>0, <1>1, <1>2, <1>3, <1>5 DEF UIDsNameOne, HeldBy
<1>7. seenPods[p].phase = "Succeeded"
  BY <1>2, <1>6 DEF AllDone, Done, Verdict, Listed
<1> QED
  BY <1>0, <1>2, <1>5, <1>7 DEF PodsConsistent, PodIs

\* Work that has been taken up from the cache.
LEMMA TakenUp ==
  ASSUME JobInv, NEW j \in Jobs, Exists(seen[j]), UNCHANGED <<jobs, uids, seen, expired>>,
         NEW w \in WorkObjects, NEW place \in {"create", "finish", "expire", "delete"}, GoOn(j, place, w),
         place = "create" => seen[j].phase = "Pending" /\ w.create = AgentPods(j),
         place = "finish" => /\ seen[j].phase = "Running" /\ w.verdict \in Ends
                             /\ w.verdict = "Succeeded" /\ jobs[j].uid = seen[j].uid
                                  /\ jobs[j].version = seen[j].version /\ jobs[j].uid \notin disturbed' =>
                                    \A p \in Range(AgentPods(j)) : <<jobs[j].uid, p>> \in ended',
         place = "expire" => seen[j].phase \in Ends /\ seen[j].uid \in expired,
         IF place = "delete" THEN seen[j].phase = "Terminating" ELSE w.delete = {}
  PROVE  WorkInv' /\ work'.job = j /\ work'.obj = seen[j]
<1>0. JobsTypeOK /\ CopiesConsistent
  BY DEF JobInv, JobsInv
<1>2. work' = [w EXCEPT !.at = place, !.job = j, !.obj = seen[j]]
  BY DEF GoOn
<1>3. seen[j] \in JobObjects /\ CopyOf(j, seen[j]) /\ seen[j].uid \in UIDs
  BY <1>0 DEF JobsTypeOK, CopiesConsistent, JobObjects, Exists
<1>4. /\ work'.at = place /\ work'.job = j /\ work'.obj = seen[j] /\ work'.create = w.create
      /\ work'.verdict = w.verdict /\ work'.delete = w.delete
      /\ WorkTypeOK'
  BY <1>2, <1>3 DEF WorkTypeOK, WorkObjects
<1>5. WorkConsistent'
  BY <1>3, <1>4 DEF WorkConsistent, CopyOf
<1>6. MadeSoFar' /\ VerdictTrue'
  BY <1>4 DEF MadeSoFar, VerdictTrue, Undisturbed, Unchanged
<1> QED
  BY <1>4, <1>5, <1>6 DEF WorkInv

\* The worker takes a job up, or sees that there is nothing to do yet.
LEMMA StartStep ==
  ASSUME JobInv, NEW j \in Jobs, Start(j)
  PROVE  JobInv' /\ UNCHANGED <<jobs, metrics, settled, skewed>>
<1>0. /\ JobsTypeOK /\ CopiesConsistent /\ PodsTypeOK /\ WorkTypeOK /\ HistoryTypeOK /\ MetricsTypeOK
      /\ seen[j] \in JobObjects
  BY DEF JobInv, JobsInv, PodsInv, WorkInv, JobsTypeOK
<1>1. /\ work.at = "idle" /\ j \in queue /\ UNCHANGED <<jobs, pods, uids, tenant, seen, seenPods, metrics, bounds>>
      /\ queue' \subseteq Jobs /\ UNCHANGED <<expired, ended, settled, skewed>>
      /\ disturbed' = disturbed \/ (StartFinish(j) /\ disturbed' = disturbed \cup {seen[j].uid})
  BY <1>0 DEF Start, NothingToDo, TenantMissing, StartPending, KeepWatching, StartFinish, WaitForTTL,
     StartExpire, StartDelete, Cached, TerminalInCache, Begin, Return, ReturnLater, GoOn, api, history,
     JobsTypeOK
<1>2. MetricsTypeOK'
  BY <1>0, <1>1 DEF MetricsTypeOK, metrics
<1>3. seen[j].phase # "absent" => Exists(seen[j]) /\ seen[j].uid \in UIDs
  BY <1>0 DEF CopiesConsistent, CopyOf, Exists, JobObjects
<1>4. HistoryTypeOK'
  <2>1. StartFinish(j) => seen[j].uid \in UIDs
    BY <1>3 DEF StartFinish, Cached
  <2> QED
    BY <1>0, <1>1, <2>1 DEF HistoryTypeOK, bounds
<1>5. ASSUME SameWork \/ (WorkInv' /\ work'.job = j /\ work'.obj = seen[j])
      PROVE  JobInv'
  BY <1>0, <1>1, <1>2, <1>4, <1>5, ObjectsStay DEF JobInv, JobsTypeOK
<1>6. ASSUME work' = work PROVE SameWork
  BY <1>0, <1>6 DEF SameWork, WorkTypeOK
<1>7. CASE NothingToDo(j) \/ TenantMissing(j) \/ KeepWatching(j) \/ WaitForTTL(j)
  BY <1>1, <1>5, <1>6, <1>7 DEF NothingToDo, TenantMissing, KeepWatching, WaitForTTL, Return, ReturnLater
<1>8. /\ Idle \in WorkObjects /\ Idle.delete = {} /\ AgentPods(j) \in Seq(PodNames) /\ Listed(j) \in SUBSET PodNames
  BY NothingValues, PodLists DEF Listed
<1>10. CASE StartPending(j)
  <2> PICK w : w = [Idle EXCEPT !.create = AgentPods(j)]
    OBVIOUS
  <2>1. seen[j].phase = "Pending" /\ GoOn(j, "create", w)
    BY <1>10 DEF StartPending, Cached
  <2>2. w \in WorkObjects /\ w.create = AgentPods(j) /\ w.delete = {}
    BY <1>8 DEF WorkObjects
  <2> QED
    BY <1>1, <1>3, <1>5, <2>1, <2>2, TakenUp
<1>11. CASE StartFinish(j)
  <2> PICK w : w = [Idle EXCEPT !.verdict = Verdict(j)]
    OBVIOUS
  <2>1. /\ seen[j].phase = "Running" /\ AllDone(j) /\ Verdict(j) \in Ends /\ GoOn(j, "finish", w)
        /\ disturbed' = IF StaleList(j) THEN disturbed \cup {seen[j].uid} ELSE disturbed
    BY <1>11 DEF StartFinish, Cached, Verdict, Ends
  <2>2. Verdict(j) = "Succeeded" /\ jobs[j].uid = seen[j].uid /\ jobs[j].version = seen[j].version
          /\ jobs[j].uid \notin disturbed' =>
            \A p \in Range(AgentPods(j)) : <<jobs[j].uid, p>> \in ended'
    BY <1>1, <2>1, SeenEndIsTrue
  <2>3. w \in WorkObjects /\ w.verdict = Verdict(j) /\ w.delete = {}
    BY <1>8, <2>1 DEF WorkObjects
  <2> QED
    BY <1>1, <1>3, <1>5, <2>1, <2>2, <2>3, TakenUp
<1>12. CASE StartExpire(j)
  <2>1. seen[j].phase \in Ends /\ seen[j].uid \in expired /\ GoOn(j, "expire", Idle)
    BY <1>12 DEF StartExpire, TerminalInCache, TTLElapsed, IsTerminal, Ends
  <2>2. seen[j].phase # "absent"
    BY <2>1 DEF Ends
  <2> QED
    BY <1>1, <1>3, <1>5, <1>8, <2>1, <2>2, TakenUp
<1>13. CASE StartDelete(j)
  <2> PICK w : w = [Idle EXCEPT !.delete = Listed(j)]
    OBVIOUS
  <2>1. seen[j].phase = "Terminating" /\ GoOn(j, "delete", w)
    BY <1>13 DEF StartDelete, Cached
  <2>2. w \in WorkObjects
    BY <1>8 DEF WorkObjects
  <2> QED
    BY <1>1, <1>3, <1>5, <2>1, <2>2, TakenUp
<1>14. JobInv'
  BY <1>7, <1>10, <1>11, <1>12, <1>13 DEF Start
<1> QED
  BY <1>1, <1>14

\* The elements of a list are its head and those of its tail.
LEMMA TailElements ==
  ASSUME NEW S, NEW s \in Seq(S), s # <<>>
  PROVE  /\ Tail(s) \in Seq(S) /\ Head(s) \in S
         /\ Range(s) \subseteq {Head(s)} \cup Range(Tail(s))
<1>1. Tail(s) \in Seq(S) /\ Head(s) \in S /\ s[1] = Head(s)
  OBVIOUS
<1>2. ASSUME NEW i \in DOMAIN s, i # 1
      PROVE  i - 1 \in DOMAIN Tail(s) /\ Tail(s)[i - 1] = s[i]
  <2>1. DOMAIN s = 1..Len(s) /\ Len(s) \in Nat /\ i \in 2..Len(s)
    BY <1>2
  <2>2. DOMAIN Tail(s) = 1..(Len(s) - 1)
    BY <1>1, <2>1
  <2>3. \A m \in 1..(Len(s) - 1) : Tail(s)[m] = s[m + 1]
    BY <2>1
  <2> QED
    BY <2>1, <2>2, <2>3
<1> QED
  BY <1>1, <1>2 DEF Range

\* The next pod is made, or one of its name is taken for it.
LEMMA CreateStep ==
  ASSUME JobInv, CreatePod
  PROVE  JobInv' /\ UNCHANGED <<jobs, metrics, settled, skewed>>
<1>0. /\ JobsTypeOK /\ WorkTypeOK /\ WorkConsistent /\ MadeSoFar /\ HistoryTypeOK /\ MetricsTypeOK
  BY DEF JobInv, JobsInv, WorkInv
<1>1. /\ work.at = "create" /\ work.create # <<>> /\ PodCreated
      /\ work' = [work EXCEPT !.create = Tail(@)]
      /\ disturbed' = IF Adopts THEN disturbed \cup {work.obj.uid} ELSE disturbed
      /\ UNCHANGED <<jobs, uids, tenant, seen, seenPods, queue, metrics, expired, ended, settled, skewed, bounds>>
  BY DEF CreatePod
<1> PICK h : h = Head(work.create)
  OBVIOUS
<1>2. /\ Tail(work.create) \in Seq(PodNames) /\ h \in PodNames
      /\ Range(work.create) \subseteq {h} \cup Range(Tail(work.create))
  BY <1>0, <1>1, TailElements DEF WorkTypeOK, WorkObjects
<1>3. /\ work'.at = "create" /\ work'.job = work.job /\ work'.obj = work.obj
      /\ work'.create = Tail(work.create) /\ work.job \in Jobs /\ work.obj.uid \in UIDs
      /\ WorkTypeOK'
  BY <1>0, <1>1, <1>2 DEF WorkTypeOK, WorkObjects
<1>4. /\ JobsInv' /\ PodsInv' /\ UIDsNameOne'
      /\ \A p \in PodNames : pods[p].owner # 0 => pods'[p] = pods[p]
      /\ pods'[h].owner = IF pods[h].owner = 0 THEN work.obj.uid ELSE pods[h].owner
  <2>1. queue' \subseteq Jobs /\ disturbed \subseteq disturbed'
    BY <1>0, <1>1 DEF JobsTypeOK
  <2> QED
    BY <1>1, <1>3, <2>1, PodMade
<1>5. WorkConsistent'
  BY <1>0, <1>1, <1>3 DEF WorkConsistent, CopyOf
<1>6. MadeSoFar'
  <2> SUFFICES ASSUME Undisturbed', NEW p \in Range(AgentPods(work.job))
               PROVE  p \in Range(Tail(work.create)) \/ pods'[p].owner = work.obj.uid
    BY <1>3 DEF MadeSoFar
  <2>1. Undisturbed /\ ~Adopts /\ p \in PodNames
    BY <1>1, <1>3, PodLists DEF Undisturbed, Unchanged
  <2>2. p \in {h} \cup Range(Tail(work.create)) \/ pods[p].owner = work.obj.uid
    BY <1>0, <1>1, <1>2, <2>1 DEF MadeSoFar
  <2>3. pods[h].owner \in {0, work.obj.uid}
    BY <2>1 DEF Adopts
  <2> QED
    BY <1>3, <1>4, <2>1, <2>2, <2>3 DEF UIDs
<1>7. VerdictTrue' /\ HistoryTypeOK' /\ MetricsTypeOK'
  BY <1>0, <1>1, <1>3 DEF VerdictTrue, HistoryTypeOK, MetricsTypeOK, metrics, bounds
<1> QED
  BY <1>1, <1>3, <1>4, <1>5, <1>6, <1>7 DEF JobInv, WorkInv

\* The three status updates.
LEMMA RunningWritten ==
  ASSUME JobInv, work.at = "create", work.create = <<>>, Unchanged(work.obj),
         StatusWritten("Running", Len(AgentPods(work.job))),
         UNCHANGED <<pods, uids, tenant, seen, seenPods, expired, ended, disturbed, settled>>,
         queue' \subseteq Jobs, work' = Idle
  PROVE  /\ JobsInv' /\ PodsInv' /\ UIDsNameOne' /\ WorkInv' /\ work.job \in Jobs
         /\ jobs[work.job].phase = "Pending" /\ jobs'[work.job].phase = "Running"
         /\ jobs'[work.job].active = Len(AgentPods(work.job))
         /\ \A j \in Jobs \ {work.job} : jobs'[j] = jobs[j]
<1>1. /\ work.job \in Jobs /\ work.obj.version = 1 /\ jobs[work.job].phase = "Pending"
  BY AcceptedMeans
<1>2. Len(AgentPods(work.job)) \in Nat /\ "Running" \in Phases /\ Rank("Running") = 2
  BY <1>1, PodLists, Ranks DEF Phases
<1>3. /\ JobsInv' /\ PodsInv' /\ UIDsNameOne' /\ WorkInv'
      /\ jobs' = [jobs EXCEPT ![work.job] = Written(jobs[work.job], "Running", Len(AgentPods(work.job)))]
      /\ jobs'[work.job].phase = "Running" /\ jobs'[work.job].active = Len(AgentPods(work.job))
  BY <1>1, <1>2, JobWritten
<1> QED
  BY <1>1, <1>3 DEF JobInv, JobsInv, JobsTypeOK

\* The end of a job is written, and has not been noted before.
LEMMA EndWritten ==
  ASSUME JobInv, work.at = "finish", Unchanged(work.obj), StatusWritten(work.verdict, 0),
         UNCHANGED <<pods, uids, tenant, seen, seenPods, expired, ended, disturbed>>,
         settled' = settled \cup {<<work.obj.uid, work.verdict>>},
         queue' \subseteq Jobs, work' = Idle
  PROVE  /\ JobsInv' /\ PodsInv' /\ UIDsNameOne' /\ WorkInv' /\ work.job \in Jobs
         /\ settled' \subseteq UIDs \X Ends /\ work.verdict \in Ends /\ <<work.obj.uid, work.verdict>> \notin settled
         /\ jobs[work.job].phase = "Running" /\ jobs'[work.job].phase = work.verdict
         /\ jobs[work.job].active = work.obj.active /\ jobs'[work.job].active = 0
         /\ \A j \in Jobs \ {work.job} : jobs'[j] = jobs[j]
<1>1. /\ work.job \in Jobs /\ work.obj.version = 2 /\ jobs[work.job].phase = "Running"
      /\ jobs[work.job].active = work.obj.active /\ work.obj.uid \in UIDs
      /\ jobs[work.job].uid = work.obj.uid /\ jobs[work.job].version = work.obj.version
  BY AcceptedMeans
<1>2. work.verdict \in Ends /\ work.verdict \in Phases /\ work.verdict \notin {"Running", "Terminating"}
  BY DEF JobInv, WorkInv, WorkConsistent, Ends, Phases
<1>3. Rank(work.verdict) = 3
  BY <1>2, Ranks
<1>4. /\ JobsInv' /\ PodsInv' /\ UIDsNameOne' /\ WorkInv'
      /\ jobs' = [jobs EXCEPT ![work.job] = Written(jobs[work.job], work.verdict, 0)]
      /\ jobs'[work.job].phase = work.verdict /\ jobs'[work.job].active = 0
  BY <1>1, <1>2, <1>3, JobWritten
<1>5. <<work.obj.uid, work.verdict>> \notin settled
  BY <1>1, <1>2 DEF JobInv, JobsInv, SettledOnce
<1>6. settled' \subseteq UIDs \X Ends
  BY <1>1, <1>2 DEF JobInv, HistoryTypeOK
<1> QED
  BY <1>1, <1>2, <1>4, <1>5, <1>6 DEF JobInv, JobsInv, JobsTypeOK

\* A job whose TTL is over is written Terminating.
LEMMA TerminatingWritten ==
  ASSUME JobInv, work.at = "expire", Unchanged(work.obj), StatusWritten("Terminating", work.obj.active),
         UNCHANGED <<pods, uids, tenant, seen, seenPods, expired, ended, disturbed, settled>>,
         queue' \subseteq Jobs, work' = Idle
  PROVE  /\ JobsInv' /\ PodsInv' /\ UIDsNameOne' /\ WorkInv' /\ work.job \in Jobs
         /\ jobs[work.job].phase \in Ends /\ jobs'[work.job].phase = "Terminating"
         /\ \A j \in Jobs \ {work.job} : jobs'[j] = jobs[j]
<1>1. /\ work.job \in Jobs /\ work.obj.version = 3 /\ jobs[work.job].phase \in Ends
  BY AcceptedMeans
<1>2. /\ work.obj.active \in Nat /\ work.obj.uid \in expired
  BY DEF JobInv, WorkInv, WorkConsistent, WorkTypeOK, WorkObjects, JobObjects
<1>3. "Terminating" \in Phases /\ Rank("Terminating") = 4
  BY Ranks DEF Phases
<1>4. /\ JobsInv' /\ PodsInv' /\ UIDsNameOne' /\ WorkInv'
      /\ jobs' = [jobs EXCEPT ![work.job] = Written(jobs[work.job], "Terminating", work.obj.active)]
      /\ jobs'[work.job].phase = "Terminating"
  BY <1>1, <1>2, <1>3, JobWritten
<1> QED
  BY <1>1, <1>4 DEF JobInv, JobsInv, JobsTypeOK

\* A pod is deleted for a job at its end.
LEMMA PodDeletedFor ==
  ASSUME JobInv, work.at = "delete", NEW p \in work.delete, PodDeleted(p),
         disturbed' = disturbed \cup ({pods[p].owner} \ {0, work.obj.uid}),
         UNCHANGED <<jobs, uids, tenant, seen, seenPods, expired, ended, settled>>,
         queue' \subseteq Jobs, work' = Idle \/ SameWork
  PROVE  JobsInv' /\ PodsInv' /\ UIDsNameOne' /\ WorkInv' /\ disturbed' \subseteq UIDs
<1>0. /\ JobsTypeOK /\ CopiesConsistent /\ PodsTypeOK /\ UIDsNameOne /\ WorkTypeOK /\ WorkConsistent
      /\ HistoryTypeOK
  BY DEF JobInv, JobsInv, PodsInv, WorkInv
<1>1. /\ p \in PodNames /\ work.job \in Jobs /\ work.obj \in JobObjects /\ work.obj.uid \in UIDs
      /\ CopyOf(work.job, work.obj) /\ work.obj.phase = "Terminating" /\ pods[p].owner \in {0} \cup UIDs
  BY <1>0 DEF WorkTypeOK, WorkObjects, WorkConsistent, PodsTypeOK, PodObjects
<1>2. disturbed' \subseteq UIDs /\ disturbed \subseteq disturbed'
  BY <1>0, <1>1 DEF HistoryTypeOK
<1>3. ASSUME NEW j \in Jobs, jobs[j].uid = pods[p].owner, pods[p].owner = work.obj.uid
      PROVE  jobs[j].phase = "Terminating"
  <2>1. j = work.job
    BY <1>0, <1>1, <1>3 DEF UIDsNameOne, HeldBy
  <2>2. jobs[j] \in JobObjects /\ CopyOf(j, jobs[j])
    BY <1>0 DEF JobsTypeOK, CopiesConsistent
  <2>3. jobs[j].version >= 4
    <3>1. work.obj.version = 4
      <4>1. work.obj.version = Rank("Terminating") /\ Rank("Terminating") = 4
        BY <1>1 DEF CopyOf, Rank, Ends
      <4> QED
        BY <4>1
    <3> QED
      BY <1>1, <1>3, <2>1, <3>1 DEF CopyOf, Exists, UIDs
  <2>4. jobs[j].phase \in Phases \cup {"absent"} /\ jobs[j].version = Rank(jobs[j].phase)
    BY <2>2 DEF JobObjects, CopyOf
  <2>5. Rank(jobs[j].phase) = 4
    BY <2>3, <2>4, Ranks
  <2> QED
    BY <2>4, <2>5, Ranks
<1>4. CASE pods[p] = NoPod
  <2>1. pods' = pods
    BY <1>4 DEF PodDeleted
  <2> QED
    BY <1>0, <1>2, <2>1, ObjectsStay DEF JobsTypeOK
<1>5. CASE pods[p] # NoPod
  <2>1. pods' = [pods EXCEPT ![p].deleting = TRUE]
    BY <1>5 DEF PodDeleted
  <2>2. \A j \in Jobs : jobs[j].uid = pods[p].owner =>
                          jobs[j].uid \in disturbed' \/ jobs[j].phase = "Terminating"
    <3>1. pods[p].owner # 0
      BY <1>1, <1>5 DEF JobInv, PodsInv, PodsConsistent, PodIs
    <3> QED
      BY <1>3, <3>1
  <2> QED
    BY <1>1, <1>2, <1>5, <2>1, <2>2, PodMarked
<1> QED
  BY <1>4, <1>5

\* A call of the API server that is answered.
LEMMA CallSteps ==
  ASSUME JobInv, APICall
  PROVE  JobInv'
<1>0. /\ JobsTypeOK /\ WorkTypeOK /\ HistoryTypeOK /\ MetricsTypeOK
  BY DEF JobInv, JobsInv, WorkInv
<1>1. /\ work.at # "idle" => work.job \in Jobs /\ work.obj.uid \in UIDs
      /\ work.obj.active \in Nat /\ queue \subseteq Jobs /\ tenant \in BOOLEAN
  BY <1>0 DEF WorkTypeOK, WorkObjects, JobObjects, JobsTypeOK
<1>2. CASE CreatePod
  BY <1>2, CreateStep
<1>3. CASE Conflict
  <2>1. /\ work' = Idle /\ queue' = queue \cup {work.job} /\ work.at # "idle"
        /\ UNCHANGED <<jobs, pods, uids, tenant, seen, seenPods, metrics, history, bounds>>
    BY <1>3 DEF Conflict, EndLater, api
  <2>2. JobsInv' /\ PodsInv' /\ UIDsNameOne' /\ WorkInv'
    BY <1>1, <2>1, ObjectsStay DEF history
  <2>3. HistoryTypeOK' /\ MetricsTypeOK'
    BY <1>0, <2>1 DEF HistoryTypeOK, MetricsTypeOK, history, metrics, bounds
  <2> QED
    BY <2>2, <2>3 DEF JobInv
<1>4. CASE MarkRunning
  <2>1. JobsInv' /\ PodsInv' /\ UIDsNameOne' /\ WorkInv' /\ work.job \in Jobs
    BY <1>1, <1>4, RunningWritten DEF MarkRunning, End, history
  <2>2. HistoryTypeOK'
    BY <1>0, <1>4 DEF MarkRunning, HistoryTypeOK, history, bounds
  <2>3. MetricsTypeOK'
    <3>1. Len(AgentPods(work.job)) \in Nat
      BY <2>1, PodLists
    <3> QED
      BY <1>0, <1>4, <3>1 DEF MarkRunning, JobStarted, MetricsTypeOK
  <2> QED
    BY <2>1, <2>2, <2>3 DEF JobInv
<1>5. CASE MarkFinished
  <2>1. work' = Idle /\ queue' \subseteq Jobs
    BY <1>1, <1>5 DEF MarkFinished, End, EndLater
  <2>2. /\ JobsInv' /\ PodsInv' /\ UIDsNameOne' /\ WorkInv'
        /\ settled' \subseteq UIDs \X Ends /\ work.verdict \in Ends
    BY <1>5, <2>1, EndWritten DEF MarkFinished
  <2>3. HistoryTypeOK'
    BY <1>0, <1>5, <2>2 DEF MarkFinished, HistoryTypeOK, bounds
  <2>4. MetricsTypeOK'
    BY <1>0, <1>1, <1>5, <2>2 DEF MarkFinished, JobFinished, MetricsTypeOK
  <2> QED
    BY <2>2, <2>3, <2>4 DEF JobInv
<1>6. CASE MarkTerminating
  <2>1. JobsInv' /\ PodsInv' /\ UIDsNameOne' /\ WorkInv'
    BY <1>1, <1>6, TerminatingWritten DEF MarkTerminating, End, history
  <2>2. HistoryTypeOK' /\ MetricsTypeOK'
    BY <1>0, <1>6 DEF MarkTerminating, HistoryTypeOK, MetricsTypeOK, history, metrics, bounds
  <2> QED
    BY <2>1, <2>2 DEF JobInv
<1>7. ASSUME NEW p \in PodNames, DeletePod(p) PROVE JobInv'
  <2>1. /\ work.at = "delete" /\ p \in work.delete /\ PodDeleted(p)
        /\ disturbed' = disturbed \cup ({pods[p].owner} \ {0, work.obj.uid})
        /\ work' = [work EXCEPT !.delete = @ \ {p}]
        /\ UNCHANGED <<jobs, uids, tenant, seen, seenPods, queue, metrics, expired, ended, settled, skewed, bounds>>
    BY <1>7 DEF DeletePod
  <2>2. SameWork
    BY <1>0, <2>1 DEF SameWork, WorkTypeOK, WorkObjects
  <2>3. JobsInv' /\ PodsInv' /\ UIDsNameOne' /\ WorkInv' /\ disturbed' \subseteq UIDs
    BY <1>1, <2>1, <2>2, PodDeletedFor
  <2>4. HistoryTypeOK' /\ MetricsTypeOK'
    BY <1>0, <2>1, <2>3 DEF HistoryTypeOK, MetricsTypeOK, metrics, bounds
  <2> QED
    BY <2>3, <2>4 DEF JobInv
<1>8. CASE DeleteJob
  <2>1. JobsInv' /\ PodsInv' /\ UIDsNameOne' /\ WorkInv'
    BY <1>1, <1>8, JobGone DEF DeleteJob, JobDeleted, End
  <2>2. HistoryTypeOK' /\ MetricsTypeOK'
    BY <1>0, <1>8 DEF DeleteJob, LosesRunning, HistoryTypeOK, MetricsTypeOK, metrics, bounds
  <2> QED
    BY <2>1, <2>2 DEF JobInv
<1> QED
  BY <1>2, <1>3, <1>4, <1>5, <1>6, <1>7, <1>8 DEF APICall

\* A call that fails, with or without its effect.
LEMMA FailureStep ==
  ASSUME JobInv, CallFails
  PROVE  JobInv' /\ UNCHANGED metrics
<1>0. /\ JobsTypeOK /\ WorkTypeOK /\ HistoryTypeOK /\ MetricsTypeOK
  BY DEF JobInv, JobsInv, WorkInv
<1>1. /\ work.at # "idle" /\ work' = Idle /\ queue' = queue \cup {work.job} /\ work.job \in Jobs
      /\ queue' \subseteq Jobs /\ tenant' \in BOOLEAN
      /\ UNCHANGED <<uids, tenant, seen, seenPods, metrics, expired, ended, accidents>>
      /\ faults' = faults + 1
  BY <1>0 DEF CallFails, EndLater, WorkTypeOK, JobsTypeOK
<1>2. MetricsTypeOK'
  BY <1>0, <1>1 DEF MetricsTypeOK, metrics
<1>3. ASSUME settled' \subseteq UIDs \X Ends, disturbed' \subseteq UIDs, skewed' \in BOOLEAN
      PROVE  HistoryTypeOK'
  BY <1>0, <1>1, <1>3 DEF HistoryTypeOK
<1>4. /\ settled \subseteq UIDs \X Ends /\ disturbed \subseteq UIDs /\ skewed \in BOOLEAN
      /\ LosesRunning \in BOOLEAN
  BY <1>0 DEF HistoryTypeOK, LosesRunning
<1>5. CASE UNCHANGED <<jobs, pods, settled, disturbed, skewed>>
  BY <1>1, <1>2, <1>3, <1>4, <1>5, ObjectsStay DEF JobInv
<1>6. CASE /\ work.at = "create" /\ work.create # <<>>
           /\ PodCreated /\ UNCHANGED <<jobs, settled, disturbed, skewed>>
  <2>1. JobsInv' /\ PodsInv' /\ UIDsNameOne'
    BY <1>1, <1>6, PodMade
  <2> QED
    BY <1>1, <1>2, <1>3, <1>4, <1>6, <2>1, WorkEnds DEF JobInv
<1>7. CASE /\ work.at = "create" /\ work.create = <<>> /\ Unchanged(work.obj)
           /\ StatusWritten("Running", Len(AgentPods(work.job)))
           /\ skewed' = TRUE /\ UNCHANGED <<pods, settled, disturbed>>
  BY <1>1, <1>2, <1>3, <1>4, <1>7, RunningWritten DEF JobInv
<1>8. CASE /\ work.at = "finish" /\ Unchanged(work.obj) /\ StatusWritten(work.verdict, 0)
           /\ settled' = settled \cup {<<work.obj.uid, work.verdict>>}
           /\ skewed' = TRUE /\ UNCHANGED <<pods, disturbed>>
  <2>1. JobsInv' /\ PodsInv' /\ UIDsNameOne' /\ WorkInv' /\ settled' \subseteq UIDs \X Ends
    BY <1>1, <1>8, EndWritten
  <2> QED
    BY <1>1, <1>2, <1>3, <1>4, <1>8, <2>1 DEF JobInv
<1>9. CASE /\ work.at = "expire" /\ Unchanged(work.obj) /\ StatusWritten("Terminating", work.obj.active)
           /\ UNCHANGED <<pods, settled, disturbed, skewed>>
  BY <1>1, <1>2, <1>3, <1>4, <1>9, TerminatingWritten DEF JobInv
<1>10. CASE \E p \in work.delete :
              /\ PodDeleted(p)
              /\ disturbed' = disturbed \cup ({pods[p].owner} \ {0, work.obj.uid})
              /\ UNCHANGED <<jobs, settled, skewed>>
  <2> PICK p \in work.delete :
         /\ PodDeleted(p)
         /\ disturbed' = disturbed \cup ({pods[p].owner} \ {0, work.obj.uid})
         /\ UNCHANGED <<jobs, settled, skewed>>
    BY <1>10
  <2>1. work.at = "delete"
    BY DEF JobInv, WorkInv, WorkConsistent
  <2>2. JobsInv' /\ PodsInv' /\ UIDsNameOne' /\ WorkInv' /\ disturbed' \subseteq UIDs
    BY <1>1, <2>1, PodDeletedFor
  <2> QED
    BY <1>1, <1>2, <1>3, <1>4, <2>2 DEF JobInv
<1>11. CASE /\ work.at = "delete" /\ work.delete = {} /\ JobDeleted
            /\ skewed' = (skewed \/ LosesRunning) /\ UNCHANGED <<pods, settled, disturbed>>
  <2>1. JobsInv' /\ PodsInv' /\ UIDsNameOne' /\ WorkInv'
    BY <1>1, <1>11, JobGone DEF JobDeleted
  <2> QED
    BY <1>1, <1>2, <1>3, <1>4, <1>11, <2>1 DEF JobInv
<1> QED
  BY <1>1, <1>5, <1>6, <1>7, <1>8, <1>9, <1>10, <1>11 DEF CallFails

\* A step that changes pods, none of which it makes: what is said of the jobs and the work
\* stays, if no pod that counts is taken away.
LEMMA PodsChange ==
  ASSUME JobInv, UNCHANGED <<jobs, uids, tenant, seen, seenPods, queue, work, settled, expired, disturbed>>,
         ended \subseteq ended',
         \A p \in PodNames : pods'[p].owner # 0 => /\ pods'[p].owner = pods[p].owner
                                                   /\ pods'[p].job = pods[p].job,
         \A p \in PodNames, j \in Jobs :
           pods[p].owner = jobs[j].uid /\ Exists(jobs[j]) /\ jobs[j].uid \notin disturbed
             /\ jobs[j].phase # "Terminating" => pods'[p].owner = jobs[j].uid
  PROVE  JobsInv' /\ UIDsNameOne' /\ WorkInv' /\ PodsInPlace' /\ SucceededUnlessDisturbed'
<1>0. /\ JobsTypeOK /\ CopiesConsistent /\ PodsInv /\ UIDsNameOne /\ WorkTypeOK
  BY DEF JobInv, JobsInv, WorkInv
<1>1. SameWork
  BY <1>0 DEF SameWork, WorkTypeOK
<1>2. JobsInv' /\ (work.at # "idle" =>
         CopyOf(work.job, work.obj)' /\ (Unchanged(work.obj)' => Unchanged(work.obj)))
  BY <1>0, <1>1, JobsStay DEF JobsTypeOK
<1>3. UIDsNameOne'
  <2>1. \A u \in UIDs : \A m : HeldBy(u, m)' => HeldBy(u, m)
    BY DEF HeldBy, UIDs
  <2> QED
    BY <1>0, <2>1, NamesStay
<1>4. WorkInv'
  <2>1. \A p \in PodNames : work.at = "create" /\ Undisturbed /\ pods[p].owner = work.obj.uid =>
                              pods'[p].owner = work.obj.uid
    <3> SUFFICES ASSUME NEW p \in PodNames, work.at = "create", Undisturbed, pods[p].owner = work.obj.uid
                 PROVE  pods'[p].owner = work.obj.uid
      OBVIOUS
    <3>1. /\ work.job \in Jobs /\ jobs[work.job].uid = work.obj.uid /\ jobs[work.job].phase = "Pending"
          /\ work.obj.uid \in UIDs
      BY AcceptedMeans DEF Undisturbed
    <3> QED
      BY <3>1 DEF Undisturbed, Exists, UIDs
  <2> QED
    BY <1>1, <1>2, <2>1, WorkStays
<1>5. PodsInPlace'
  <2> SUFFICES ASSUME NEW j \in Jobs, jobs[j].phase = "Running", jobs[j].uid \notin disturbed,
                      NEW p \in Range(AgentPods(j))
               PROVE  pods'[p].owner = jobs[j].uid
    BY DEF PodsInPlace
  <2>1. p \in PodNames /\ pods[p].owner = jobs[j].uid /\ Exists(jobs[j])
    BY <1>0, PodLists DEF PodsInv, PodsInPlace, CopiesConsistent, CopyOf
  <2> QED
    BY <2>1
<1>6. SucceededUnlessDisturbed'
  BY <1>0 DEF PodsInv, SucceededUnlessDisturbed, AllSucceeded
<1> QED
  BY <1>2, <1>3, <1>4, <1>5, <1>6

\* A pod ends.
LEMMA ExitStep ==
  ASSUME JobInv, NEW p \in PodNames, NEW s \in {"Succeeded", "Failed"}, PodExits(p, s)
  PROVE  JobInv'
<1>0. /\ PodsTypeOK /\ PodsConsistent /\ DeletingExplained /\ HistoryTypeOK /\ MetricsTypeOK
  BY DEF JobInv, PodsInv
<1>1. /\ pods[p].phase = "Running" /\ pods' = [pods EXCEPT ![p].phase = s]
      /\ ended' = IF s = "Succeeded" THEN ended \cup {<<pods[p].owner, p>>} ELSE ended
      /\ UNCHANGED <<jobs, uids, tenant, seen, seenPods, queue, work, metrics, expired, settled, disturbed, skewed, bounds>>
  BY DEF PodExits, operator
<1>2. pods[p].owner \in UIDs
  BY <1>0, <1>1, NothingValues DEF PodsTypeOK, PodObjects, PodsConsistent, PodIs
<1>3. /\ PodsTypeOK' /\ pods'[p].phase = s
      /\ \A q \in PodNames : /\ pods'[q].owner = pods[q].owner /\ pods'[q].job = pods[q].job
                             /\ pods'[q].deleting = pods[q].deleting
                             /\ q # p => pods'[q] = pods[q]
  BY <1>0, <1>1 DEF PodsTypeOK, PodObjects
<1>4. PodsConsistent'
  BY <1>0, <1>1, <1>2, <1>3 DEF PodsConsistent, PodIs, UIDs
<1>5. DeletingExplained'
  BY <1>0, <1>1, <1>3 DEF DeletingExplained
<1>6. JobsInv' /\ UIDsNameOne' /\ WorkInv' /\ PodsInPlace' /\ SucceededUnlessDisturbed'
  BY <1>1, <1>3, PodsChange
<1>7. HistoryTypeOK' /\ MetricsTypeOK'
  BY <1>0, <1>1, <1>2 DEF HistoryTypeOK, MetricsTypeOK, metrics, bounds
<1> QED
  BY <1>3, <1>4, <1>5, <1>6, <1>7 DEF JobInv, PodsInv

\* A pod that is being deleted is gone.
LEMMA RemovedStep ==
  ASSUME JobInv, NEW p \in PodNames, PodRemoved(p)
  PROVE  JobInv'
<1>0. /\ PodsTypeOK /\ PodsConsistent /\ DeletingExplained /\ HistoryTypeOK /\ MetricsTypeOK
  BY DEF JobInv, PodsInv
<1>1. /\ pods[p].deleting /\ pods' = [pods EXCEPT ![p] = NoPod]
      /\ UNCHANGED <<jobs, uids, tenant, seen, seenPods, queue, work, metrics, history, bounds>>
  BY DEF PodRemoved, operator
<1>2. /\ PodsTypeOK' /\ pods'[p] = NoPod /\ \A q \in PodNames \ {p} : pods'[q] = pods[q]
  BY <1>0, <1>1, NothingValues DEF PodsTypeOK
<1>3. PodsConsistent'
  <2>1. uids \in Nat
    BY ReconcilerAssumption DEF JobInv, JobsInv, JobsTypeOK
  <2>2. ended' = ended /\ uids' = uids /\ seenPods' = seenPods
    BY <1>1 DEF history
  <2>3. PodIs(p, NoPod)'
    BY <2>1, <2>2, NothingValues DEF PodIs
  <2>4. \A q \in PodNames : PodIs(q, pods[q])' /\ PodIs(q, seenPods[q])'
    BY <1>0, <1>2, <2>2, <2>3 DEF PodsConsistent, PodIs
  <2> QED
    BY <2>4 DEF PodsConsistent
<1>4. DeletingExplained'
  BY <1>0, <1>1, <1>2, NothingValues DEF DeletingExplained, history
<1>5. JobsInv' /\ UIDsNameOne' /\ WorkInv' /\ PodsInPlace' /\ SucceededUnlessDisturbed'
  <2>1. \A q \in PodNames, j \in Jobs :
          pods[q].owner = jobs[j].uid /\ Exists(jobs[j]) /\ jobs[j].uid \notin disturbed
            /\ jobs[j].phase # "Terminating" => pods'[q].owner = jobs[j].uid
    BY <1>0, <1>1, <1>2 DEF DeletingExplained
  <2> QED
    BY <1>1, <1>2, <2>1, NothingValues, PodsChange DEF history
<1>6. HistoryTypeOK' /\ MetricsTypeOK'
  BY <1>0, <1>1 DEF HistoryTypeOK, MetricsTypeOK, metrics, history, bounds
<1> QED
  BY <1>2, <1>3, <1>4, <1>5, <1>6 DEF JobInv, PodsInv

\* A pod is evicted, or collected after its job.
LEMMA LostStep ==
  ASSUME JobInv, NEW p \in PodNames, PodEvicted(p) \/ PodCollected(p)
  PROVE  JobInv'
<1>0. /\ JobsTypeOK /\ PodsTypeOK /\ PodsConsistent /\ HistoryTypeOK /\ MetricsTypeOK /\ WorkTypeOK
  BY DEF JobInv, JobsInv, PodsInv, WorkInv
<1>1. /\ pods[p] # NoPod /\ pods' = [pods EXCEPT ![p].deleting = TRUE]
      /\ disturbed' = disturbed \/ disturbed' = disturbed \cup {pods[p].owner}
      /\ \A j \in Jobs : jobs[j].uid = pods[p].owner => jobs[j].uid \in disturbed'
      /\ UNCHANGED <<jobs, uids, tenant, seen, seenPods, queue, work, metrics, expired, ended, settled, skewed, faults>>
      /\ accidents' \in {accidents, accidents + 1}
  BY DEF PodEvicted, PodCollected, operator, history, bounds
<1>2. pods[p].owner \in UIDs
  BY <1>0, <1>1 DEF PodsTypeOK, PodObjects, PodsConsistent, PodIs
<1>3. SameWork
  BY <1>0, <1>1 DEF SameWork, WorkTypeOK
<1>4. JobsInv' /\ PodsInv' /\ UIDsNameOne' /\ WorkInv'
  BY <1>0, <1>1, <1>3, PodMarked DEF JobsTypeOK
<1>5. HistoryTypeOK' /\ MetricsTypeOK'
  BY <1>0, <1>1, <1>2 DEF HistoryTypeOK, MetricsTypeOK, metrics
<1> QED
  BY <1>4, <1>5 DEF JobInv

\* The caches catch up, a TTL passes, a Tenant is created or the operator starts anew.
LEMMA LookStep ==
  ASSUME JobInv, (\E j \in Jobs : SyncJob(j) \/ TTLPasses(j)) \/ SyncPods \/ OperatorRestarts \/ TenantCreated
  PROVE  JobInv'
<1>0. /\ JobsTypeOK /\ PodsTypeOK /\ HistoryTypeOK /\ MetricsTypeOK /\ WorkTypeOK
  BY DEF JobInv, JobsInv, PodsInv, WorkInv
<1>1. work' = work => SameWork
  BY <1>0 DEF SameWork, WorkTypeOK
<1>2. ASSUME NEW j \in Jobs, SyncJob(j) PROVE JobInv'
  <2>1. /\ seen' = [seen EXCEPT ![j] = jobs[j]] /\ queue' = queue \cup {j}
        /\ UNCHANGED <<jobs, pods, uids, tenant, seenPods, work, metrics, history, bounds>>
    BY <1>2 DEF SyncJob, api
  <2>2. /\ seen' \in [Jobs -> JobObjects] /\ queue' \subseteq Jobs /\ tenant' \in BOOLEAN
        /\ \A i \in Jobs : seen'[i] \in {seen[i], jobs[i]}
    BY <1>0, <2>1 DEF JobsTypeOK
  <2>3. JobsInv' /\ PodsInv' /\ UIDsNameOne' /\ WorkInv'
    BY <1>1, <2>1, <2>2, ObjectsStay DEF history
  <2> QED
    BY <1>0, <2>1, <2>3 DEF JobInv, HistoryTypeOK, MetricsTypeOK, history, metrics, bounds
<1>3. ASSUME NEW j \in Jobs, TTLPasses(j) PROVE JobInv'
  <2>1. /\ IsTerminal(jobs[j].phase) /\ expired' = expired \cup {jobs[j].uid}
        /\ UNCHANGED <<jobs, pods, uids, tenant, seen, seenPods, queue, work, metrics, ended, settled, disturbed, skewed, bounds>>
    BY <1>3 DEF TTLPasses, api, operator
  <2>2. jobs[j].uid \in UIDs
    BY <1>0, <2>1 DEF JobInv, JobsInv, CopiesConsistent, CopyOf, Exists, IsTerminal, JobsTypeOK, JobObjects
  <2>3. JobsInv' /\ PodsInv' /\ UIDsNameOne' /\ WorkInv'
    BY <1>0, <1>1, <2>1, ObjectsStay DEF JobsTypeOK
  <2> QED
    BY <1>0, <2>1, <2>2, <2>3 DEF JobInv, HistoryTypeOK, MetricsTypeOK, metrics, bounds
<1>4. CASE SyncPods
  <2>1. /\ seenPods' = pods
        /\ queue' = queue \cup
             ((UNION {{pods[p].job, seenPods[p].job} : p \in {q \in PodNames : pods[q] # seenPods[q]}})
               \ {<<>>})
        /\ UNCHANGED <<jobs, pods, uids, tenant, seen, work, metrics, history, bounds>>
    BY <1>4 DEF SyncPods, api
  <2>2. queue' \subseteq Jobs
    <3>1. \A p \in PodNames : {pods[p].job, seenPods[p].job} \subseteq Jobs \cup {<<>>}
      BY <1>0 DEF PodsTypeOK, PodObjects
    <3> DEFINE names == UNION {{pods[p].job, seenPods[p].job} : p \in {q \in PodNames : pods[q] # seenPods[q]}}
    <3>2. \A n \in names : n \in Jobs \cup {<<>>}
      BY <3>1
    <3>3. queue' = queue \cup (names \ {<<>>})
      BY <2>1
    <3>4. queue \subseteq Jobs
      BY <1>0 DEF JobsTypeOK
    <3> HIDE DEF names
    <3> QED
      BY <3>2, <3>3, <3>4
  <2>3. JobsInv' /\ PodsInv' /\ UIDsNameOne' /\ WorkInv'
    BY <1>0, <1>1, <2>1, <2>2, ObjectsStay DEF JobsTypeOK, history
  <2> QED
    BY <1>0, <2>1, <2>3 DEF JobInv, HistoryTypeOK, MetricsTypeOK, history, metrics, bounds
<1>5. CASE OperatorRestarts
  <2>1. /\ work' = Idle /\ seen' = jobs /\ seenPods' = pods /\ queue' \subseteq Jobs /\ skewed' = TRUE
        /\ depth' = 0 /\ agents' = 0 /\ ends' = [v \in Ends |-> 0] /\ accidents' = accidents + 1
        /\ UNCHANGED <<jobs, pods, uids, tenant, expired, ended, settled, disturbed, faults>>
    BY <1>5 DEF OperatorRestarts, api
  <2>2. JobsInv' /\ PodsInv' /\ UIDsNameOne' /\ WorkInv'
    BY <1>0, <2>1, ObjectsStay DEF JobsTypeOK
  <2>3. HistoryTypeOK' /\ MetricsTypeOK'
    BY <1>0, <2>1 DEF HistoryTypeOK, MetricsTypeOK
  <2> QED
    BY <2>2, <2>3 DEF JobInv
<1>6. CASE TenantCreated
  <2>1. /\ tenant' = TRUE
        /\ UNCHANGED <<jobs, pods, uids, seen, seenPods, queue, work, metrics, history, bounds>>
    BY <1>6 DEF TenantCreated, operator
  <2>2. JobsInv' /\ PodsInv' /\ UIDsNameOne' /\ WorkInv'
    BY <1>0, <1>1, <2>1, ObjectsStay DEF JobsTypeOK, history
  <2> QED
    BY <1>0, <2>1, <2>2 DEF JobInv, HistoryTypeOK, MetricsTypeOK, history, metrics, bounds
<1> QED
  BY <1>2, <1>3, <1>4, <1>5, <1>6

\* A user creates a job: nothing has its uid yet.
LEMMA CreatedStep ==
  ASSUME JobInv, NEW x \in Jobs, UserCreates(x)
  PROVE  JobInv'
<1> PICK o : o = [uid |-> uids + 1, version |-> 1, phase |-> "Pending", active |-> 0]
  OBVIOUS
<1>0. /\ JobsTypeOK /\ CopiesConsistent /\ SettledOnce /\ PodsInv /\ UIDsNameOne /\ WorkTypeOK
      /\ HistoryTypeOK /\ MetricsTypeOK /\ WorkConsistent
  BY DEF JobInv, JobsInv, WorkInv
<1>1. /\ ~Exists(jobs[x]) /\ uids < MaxUIDs /\ uids' = uids + 1 /\ jobs' = [jobs EXCEPT ![x] = o]
      /\ UNCHANGED <<pods, tenant, seen, seenPods, queue, work, metrics, expired, ended, settled,
                     disturbed, skewed, bounds>>
  BY DEF UserCreates, operator, history
<1>2. /\ uids \in Nat /\ uids + 1 \in UIDs /\ uids' \in 0..MaxUIDs /\ uids <= uids'
  BY <1>0, <1>1, ReconcilerAssumption DEF JobsTypeOK, UIDs
<1>3. /\ o \in JobObjects /\ o.uid = uids + 1 /\ o.version = 1 /\ o.phase = "Pending"
      /\ Rank("Pending") = 1
  <2>1. "Pending" \in Phases /\ Rank("Pending") = 1
    BY Ranks DEF Phases
  <2> QED
    BY <1>2, <2>1 DEF JobObjects
<1>4. /\ jobs' \in [Jobs -> JobObjects] /\ jobs'[x] = o /\ \A j \in Jobs \ {x} : jobs'[j] = jobs[j]
  BY <1>0, <1>1, <1>3 DEF JobsTypeOK
<1>5. \A j \in Jobs : \/ jobs'[j].uid \notin 1..uids
                      \/ jobs'[j].uid = jobs[j].uid /\ jobs[j].version <= jobs'[j].version
  <2>1. \A j \in Jobs : jobs[j].version \in Int
    BY <1>0 DEF JobsTypeOK, JobObjects
  <2> QED
    BY <1>2, <1>3, <1>4, <2>1
<1>6. /\ \A j \in Jobs, c \in JobObjects : CopyOf(j, c) => CopyOf(j, c)'
      /\ SameWork /\ work.at # "idle" =>
           CopyOf(work.job, work.obj)' /\ (Unchanged(work.obj)' => Unchanged(work.obj))
  BY <1>1, <1>2, <1>4, <1>5, JobsGoOn
<1>7. CopiesConsistent'
  <2>1. CopyOf(x, o)'
    BY <1>1, <1>2, <1>3, <1>4 DEF CopyOf, Exists
  <2>2. \A j \in Jobs : CopyOf(j, seen[j])' /\ CopyOf(j, jobs[j])'
    BY <1>0, <1>1, <1>4, <1>6, <2>1 DEF CopiesConsistent, JobsTypeOK
  <2> QED
    BY <2>2 DEF CopiesConsistent
<1>8. SettledOnce'
  BY <1>0, <1>1, <1>2, <1>3, <1>4 DEF SettledOnce, UIDs
<1>9. JobsInv'
  BY <1>0, <1>1, <1>2, <1>4, <1>7, <1>8 DEF JobsInv, JobsTypeOK
<1>10. /\ \A p \in PodNames : pods[p].owner <= uids /\ seenPods[p].owner <= uids
       /\ \A j \in Jobs : seen[j].uid <= uids
       /\ work.at # "idle" => work.obj.uid <= uids
  BY <1>0 DEF PodsInv, PodsConsistent, PodIs, CopiesConsistent, CopyOf, WorkConsistent
<1>11. PodsTypeOK' /\ PodsConsistent'
  <2>1. \A p \in PodNames : pods[p].owner \in Int /\ seenPods[p].owner \in Int
    BY <1>0 DEF PodsInv, PodsTypeOK, PodObjects, UIDs
  <2> QED
    BY <1>0, <1>1, <1>2, <1>10, <2>1 DEF PodsInv, PodsTypeOK, PodsConsistent, PodIs
<1>12. DeletingExplained'
  BY <1>0, <1>1, <1>2, <1>3, <1>4, <1>10 DEF PodsInv, DeletingExplained
<1>13. PodsInPlace' /\ SucceededUnlessDisturbed'
  BY <1>0, <1>1, <1>3, <1>4 DEF PodsInv, PodsInPlace, SucceededUnlessDisturbed, AllSucceeded
<1>14. UIDsNameOne'
  <2> PICK k : k = uids + 1
    OBVIOUS
  <2>1. \A u \in UIDs : \A m : HeldBy(u, m)' => HeldBy(u, m) \/ (u = k /\ m = x)
    BY <1>1, <1>3, <1>4 DEF HeldBy
  <2>2. \A m : HeldBy(k, m)' => m = x
    <3>1. \A j \in Jobs : jobs[j].uid <= uids
      BY <1>0 DEF CopiesConsistent, CopyOf
    <3> QED
      BY <1>1, <1>2, <1>4, <1>10, <3>1 DEF HeldBy
  <2> SUFFICES ASSUME NEW u \in UIDs, NEW m \in Jobs \cup {<<>>}, NEW n \in Jobs \cup {<<>>},
                      HeldBy(u, m)', HeldBy(u, n)'
               PROVE  m = n
    BY DEF UIDsNameOne
  <2>3. CASE u = k
    BY <2>2, <2>3
  <2>4. CASE u # k
    BY <1>0, <2>1, <2>4 DEF UIDsNameOne
  <2> QED
    BY <2>3, <2>4
<1>15. WorkInv'
  <2>1. SameWork
    BY <1>0, <1>1 DEF SameWork, WorkTypeOK
  <2> QED
    BY <1>1, <1>6, <2>1, WorkStays
<1>16. HistoryTypeOK' /\ MetricsTypeOK'
  BY <1>0, <1>1 DEF HistoryTypeOK, MetricsTypeOK, metrics, bounds
<1> QED
  BY <1>9, <1>11, <1>12, <1>13, <1>14, <1>15, <1>16 DEF JobInv, PodsInv

\* A user deletes a job.
LEMMA DeletedStep ==
  ASSUME JobInv, NEW x \in Jobs, UserDeletes(x)
  PROVE  JobInv'
<1>0. JobsTypeOK /\ HistoryTypeOK /\ MetricsTypeOK
  BY DEF JobInv, JobsInv
<1>1. /\ jobs' = [jobs EXCEPT ![x] = NoJob] /\ skewed' = (skewed \/ jobs[x].phase = "Running")
      /\ UNCHANGED <<pods, uids, tenant, seen, seenPods, queue, work, metrics, expired, ended, settled,
                     disturbed, bounds>>
  BY DEF UserDeletes, operator
<1>2. JobsInv' /\ PodsInv' /\ UIDsNameOne' /\ WorkInv'
  BY <1>0, <1>1, JobGone DEF JobsTypeOK
<1>3. HistoryTypeOK' /\ MetricsTypeOK'
  BY <1>0, <1>1 DEF HistoryTypeOK, MetricsTypeOK, metrics, bounds
<1> QED
  BY <1>2, <1>3 DEF JobInv

\* At the start there is nothing.
LEMMA JobInvInit == Init => JobInv
<1> SUFFICES ASSUME Init PROVE JobInv
  OBVIOUS
<1>1. /\ jobs = [j \in Jobs |-> NoJob] /\ seen = jobs
      /\ pods = [p \in PodNames |-> NoPod] /\ seenPods = pods
      /\ uids = 0 /\ tenant \in BOOLEAN /\ queue = {} /\ work = Idle
      /\ depth = 0 /\ agents = 0 /\ ends = [v \in Ends |-> 0]
      /\ expired = {} /\ ended = {} /\ settled = {} /\ disturbed = {} /\ skewed = FALSE
      /\ faults = 0 /\ accidents = 0
  BY DEF Init
<1>2. JobsInv
  <2>1. Rank("absent") = 0
    BY Ranks
  <2>2. \A j \in Jobs : CopyOf(j, NoJob)
    BY <1>1, <2>1, NothingValues DEF CopyOf, Exists
  <2> QED
    BY <1>1, <2>2, NothingValues, ReconcilerAssumption DEF JobsInv, JobsTypeOK, CopiesConsistent, SettledOnce
<1>3. PodsInv
  BY <1>1, NothingValues DEF PodsInv, PodsTypeOK, PodsConsistent, PodIs, DeletingExplained, PodsInPlace,
     SucceededUnlessDisturbed
<1>4. WorkInv
  BY <1>1, NothingValues DEF WorkInv, WorkTypeOK, WorkConsistent, MadeSoFar, VerdictTrue
<1>5. UIDsNameOne
  BY <1>1, NothingValues DEF UIDsNameOne, HeldBy, UIDs
<1>6. MetricsTypeOK
  BY <1>1 DEF MetricsTypeOK
<1>7. HistoryTypeOK
  <2>1. {} \subseteq UIDs /\ {} \subseteq UIDs \X PodNames /\ {} \subseteq UIDs \X Ends
    OBVIOUS
  <2> QED
    BY <1>1, <2>1 DEF HistoryTypeOK
<1> QED
  BY <1>2, <1>3, <1>4, <1>5, <1>6, <1>7 DEF JobInv

\* Nothing happens.
LEMMA StutterStep ==
  ASSUME JobInv, UNCHANGED vars
  PROVE  JobInv'
<1>0. JobsTypeOK /\ WorkTypeOK /\ HistoryTypeOK /\ MetricsTypeOK
  BY DEF JobInv, JobsInv, WorkInv
<1>1. UNCHANGED <<jobs, pods, uids, tenant, seen, seenPods, queue, work, depth, agents, ends, expired, ended,
                  settled, disturbed, skewed, faults, accidents>>
  BY DEF vars, api, operator, metrics, history, bounds
<1>2. SameWork
  BY <1>0, <1>1 DEF SameWork, WorkTypeOK
<1>3. JobsInv' /\ PodsInv' /\ UIDsNameOne' /\ WorkInv'
  BY <1>0, <1>1, <1>2, ObjectsStay DEF JobsTypeOK
<1> QED
  BY <1>0, <1>1, <1>3 DEF JobInv, HistoryTypeOK, MetricsTypeOK

\* Every step keeps the invariant.
LEMMA JobInvStep == JobInv /\ [Next]_vars => JobInv'
<1> SUFFICES ASSUME JobInv, [Next]_vars PROVE JobInv'
  OBVIOUS
<1>1. CASE \E j \in Jobs : Start(j) \/ SyncJob(j)
  BY <1>1, StartStep, LookStep
<1>2. CASE APICall
  BY <1>2, CallSteps
<1>3. CASE CallFails
  BY <1>3, FailureStep
<1>4. CASE SyncPods \/ OperatorRestarts
  BY <1>4, LookStep
<1>5. CASE Environment
  BY <1>5, CreatedStep, DeletedStep, LookStep, ExitStep, RemovedStep, LostStep DEF Environment
<1>6. CASE UNCHANGED vars
  BY <1>6, StutterStep
<1> QED
  BY <1>1, <1>2, <1>3, <1>4, <1>5, <1>6 DEF Next

\* The values of all variables agree with each other in every reachable state: a copy with the
\* version of the job is in its phase, a uid is known under one name, the pods of a Running
\* job are there unless it has been disturbed, and the verdict in work is what its pods said.
THEOREM JobInvariance == Spec => []JobInv
<1> QED
  BY JobInvInit, JobInvStep, PTL DEF Spec

\* Every variable keeps its type.
THEOREM JobTypeCorrect == Spec => []TypeOK
<1>1. JobInv => TypeOK
  BY DEF JobInv, JobsInv, PodsInv, WorkInv, TypeOK
<1> QED
  BY <1>1, JobInvariance, PTL

\* A job is Succeeded only when each pod it asked for has succeeded, unless a pod was deleted
\* under it, one of another job was taken for its own (reconcilePending ignores AlreadyExists)
\* or the pods that reconcileRunning listed were not those in the API server.
THEOREM SucceededIsEarned == Spec => []SucceededUnlessDisturbed
<1>1. JobInv => SucceededUnlessDisturbed
  BY DEF JobInv, PodsInv
<1> QED
  BY <1>1, JobInvariance, PTL

-----------------------------------------------------------------------------
(* Sums over finite sets *)

\* A set of subsets of a finite set has one of the least size.
LEMMA Smallest ==
  ASSUME NEW S, IsFiniteSet(S), NEW X \in SUBSET SUBSET S, X # {}
  PROVE  \E s \in X : \A t \in SUBSET S : Cardinality(t) < Cardinality(s) => t \notin X
<1>1. \A t \in SUBSET S : Cardinality(t) \in Nat
  BY FS_Subset, FS_CardinalityType
<1> DEFINE sizes == {Cardinality(t) : t \in X}
<1>2. sizes \in SUBSET Nat /\ sizes # {}
  BY <1>1
<1> HIDE DEF sizes
<1>3. PICK m \in sizes : \A k \in sizes : m <= k
  BY <1>2, Least
<1>4. PICK s \in X : Cardinality(s) = m
  BY <1>3 DEF sizes
<1>5. \A t \in X : m <= Cardinality(t)
  BY <1>3 DEF sizes
<1> QED
  BY <1>1, <1>4, <1>5

\* The element that is added next, and what is then left.
NextOf(s) == CHOOSE x \in s : TRUE

\* g[s] is the sum of f over s, one element after the other, for every subset of S.
SumTable(g, f, S) ==
  g = [s \in SUBSET S |-> IF s = {} THEN 0 ELSE f[NextOf(s)] + g[s \ {NextOf(s)}]]

\* What the community modules mean by the sum is such a table.
LEMMA SumIs ==
  ASSUME NEW f, NEW S
  PROVE  SumFunctionOnSet(f, S) = (CHOOSE g : SumTable(g, f, S))[S]
BY DEF SumFunctionOnSet, FoldFunctionOnSet, MapThenFoldSet, SumTable, NextOf

\* An element fewer.
LEMMA Rest ==
  ASSUME NEW S, IsFiniteSet(S), NEW s \in SUBSET S, NEW x \in s
  PROVE  /\ s \ {x} \in SUBSET S /\ Cardinality(s) \in Nat /\ Cardinality(s) > 0
         /\ Cardinality(s \ {x}) = Cardinality(s) - 1
<1>1. IsFiniteSet(s)
  BY FS_Subset
<1> QED
  BY <1>1, FS_CardinalityType, FS_RemoveElement, FS_EmptySet

\* The element that is added next is one of the set.
LEMMA NextIsIn ==
  ASSUME NEW s, s # {}
  PROVE  NextOf(s) \in s
BY DEF NextOf

\* Such a table exists.
LEMMA SumTableExists ==
  ASSUME NEW S, IsFiniteSet(S), NEW f, \A x \in S : f[x] \in Int
  PROVE  \E g \in [SUBSET S -> Int] : SumTable(g, f, S)
<1> DEFINE Sub(n) == {s \in SUBSET S : Cardinality(s) <= n}
           Table(g, n) == g = [s \in Sub(n) |-> IF s = {} THEN 0 ELSE f[NextOf(s)] + g[s \ {NextOf(s)}]]
           Bad == {n \in Nat : ~\E g \in [Sub(n) -> Int] : Table(g, n)}
<1>1. Bad = {}
  <2> SUFFICES ASSUME Bad # {} PROVE FALSE
    OBVIOUS
  <2>1. PICK m \in Bad : \A k \in Bad : m <= k
    <3> HIDE DEF Bad
    <3>1. Bad \in SUBSET Nat
      BY DEF Bad
    <3> QED
      BY <3>1, Least
  <2>2. CASE m = 0
    <3>1. \A s \in Sub(0) : s = {}
      <4> SUFFICES ASSUME NEW s \in Sub(0), s # {} PROVE FALSE
        OBVIOUS
      <4>1. Cardinality(s) \in Nat /\ Cardinality(s) > 0
        BY NextIsIn, Rest
      <4> QED
        BY <4>1
    <3> PICK g : g = [s \in Sub(0) |-> 0]
      OBVIOUS
    <3>2. g \in [Sub(0) -> Int] /\ Table(g, 0)
      BY <3>1
    <3> QED
      BY <2>2, <3>2
  <2>3. CASE m # 0
    <3>1. m - 1 \in Nat /\ m - 1 \notin Bad
      <4>1. m \in Nat
        OBVIOUS
      <4> HIDE DEF Bad
      <4> QED
        BY <2>1, <2>3, <4>1
    <3>2. PICK h \in [Sub(m - 1) -> Int] : Table(h, m - 1)
      BY <3>1
    <3> PICK g : g = [s \in Sub(m) |-> IF s = {} THEN 0 ELSE f[NextOf(s)] + h[s \ {NextOf(s)}]]
      OBVIOUS
    <3>3. \A s \in Sub(m) : s # {} => /\ s \ {NextOf(s)} \in Sub(m - 1) /\ NextOf(s) \in S
      BY NextIsIn, Rest
    <3>4. \A s \in Sub(m - 1) : s \in Sub(m)
      BY FS_Subset, FS_CardinalityType
    <3>5. \A s \in Sub(m - 1) : g[s] = h[s]
      BY <3>2, <3>4
    <3>6. g \in [Sub(m) -> Int]
      BY <3>3
    <3>7. Table(g, m)
      BY <3>3, <3>5
    <3> QED
      BY <3>6, <3>7
  <2> QED
    BY <2>2, <2>3
<1>2. Cardinality(S) \in Nat
  BY FS_CardinalityType
<1>3. Sub(Cardinality(S)) = SUBSET S
  BY <1>2, FS_Subset, FS_CardinalityType
<1>4. PICK g \in [Sub(Cardinality(S)) -> Int] : Table(g, Cardinality(S))
  BY <1>1, <1>2
<1> QED
  BY <1>3, <1>4 DEF SumTable

\* A table says the same as another where their functions do.
LEMMA SameSums ==
  ASSUME NEW S, NEW T, IsFiniteSet(S), IsFiniteSet(T), NEW f, NEW g, NEW a, NEW b,
         SumTable(a, f, S), SumTable(b, g, T), NEW s \in SUBSET S, s \subseteq T,
         \A x \in s : f[x] = g[x]
  PROVE  a[s] = b[s]
<1> DEFINE Bad == {t \in SUBSET s : a[t] # b[t]}
<1>0. IsFiniteSet(s)
  BY FS_Subset
<1> SUFFICES ASSUME Bad # {} PROVE FALSE
  OBVIOUS
<1>1. PICK t \in Bad : \A u \in SUBSET s : Cardinality(u) < Cardinality(t) => u \notin Bad
  <2> HIDE DEF Bad
  <2>1. Bad \in SUBSET SUBSET s
    BY DEF Bad
  <2> QED
    BY <1>0, <2>1, Smallest
<1>2. t \in SUBSET S /\ t \in SUBSET T
  OBVIOUS
<1>3. /\ a[t] = IF t = {} THEN 0 ELSE f[NextOf(t)] + a[t \ {NextOf(t)}]
      /\ b[t] = IF t = {} THEN 0 ELSE g[NextOf(t)] + b[t \ {NextOf(t)}]
  BY <1>2 DEF SumTable
<1>4. t # {}
  BY <1>3
<1>5. NextOf(t) \in s /\ t \ {NextOf(t)} \in SUBSET s /\ Cardinality(t \ {NextOf(t)}) < Cardinality(t)
  BY <1>0, <1>4, NextIsIn, Rest
<1>6. a[t \ {NextOf(t)}] = b[t \ {NextOf(t)}]
  BY <1>1, <1>5
<1> QED
  BY <1>3, <1>4, <1>5, <1>6

\* Whichever element is added last.
LEMMA AnyOrder ==
  ASSUME NEW S, IsFiniteSet(S), NEW f, \A x \in S : f[x] \in Int,
         NEW a, \A s \in SUBSET S : a[s] \in Int, SumTable(a, f, S),
         NEW s \in SUBSET S, NEW x \in s
  PROVE  a[s] = f[x] + a[s \ {x}]
<1> DEFINE Bad == {t \in SUBSET S : \E y \in t : a[t] # f[y] + a[t \ {y}]}
<1> SUFFICES ASSUME Bad # {} PROVE FALSE
  OBVIOUS
<1>1. PICK t \in Bad : \A u \in SUBSET S : Cardinality(u) < Cardinality(t) => u \notin Bad
  <2> HIDE DEF Bad
  <2>1. Bad \in SUBSET SUBSET S
    BY DEF Bad
  <2> QED
    BY <2>1, Smallest
<1>2. PICK y \in t : a[t] # f[y] + a[t \ {y}]
  OBVIOUS
<1> PICK c : c = NextOf(t)
  OBVIOUS
<1>3. c \in t /\ a[t] = f[c] + a[t \ {c}] /\ c # y
  BY <1>2, NextIsIn DEF SumTable
<1>4. /\ t \ {c} \in SUBSET S /\ Cardinality(t \ {c}) < Cardinality(t)
      /\ t \ {y} \in SUBSET S /\ Cardinality(t \ {y}) < Cardinality(t)
  BY <1>2, <1>3, Rest
<1>5. a[t \ {c}] = f[y] + a[(t \ {c}) \ {y}]
  BY <1>1, <1>3, <1>4
<1>6. a[t \ {y}] = f[c] + a[(t \ {y}) \ {c}]
  BY <1>1, <1>3, <1>4
<1>7. (t \ {c}) \ {y} = (t \ {y}) \ {c} /\ (t \ {c}) \ {y} \in SUBSET S
  OBVIOUS
<1> PICK fc, fy, r : fc = f[c] /\ fy = f[y] /\ r = a[(t \ {c}) \ {y}]
  OBVIOUS
<1>8. fc \in Int /\ fy \in Int /\ r \in Int
  BY <1>3, <1>7
<1>9. a[t] = fc + (fy + r) /\ a[t \ {y}] = fc + r
  BY <1>3, <1>5, <1>6, <1>7
<1> HIDE DEF Bad
<1> QED
  BY <1>2, <1>8, <1>9


\* The sum of nothing is 0; an element adds its value, whichever it is.
LEMMA Sums ==
  ASSUME NEW S, IsFiniteSet(S), NEW f, \A x \in S : f[x] \in Int
  PROVE  /\ SumFunctionOnSet(f, S) \in Int
         /\ S = {} => SumFunctionOnSet(f, S) = 0
         /\ \A x \in S : SumFunctionOnSet(f, S) = f[x] + SumFunctionOnSet(f, S \ {x})
<1>1. PICK a \in [SUBSET S -> Int] : SumTable(a, f, S)
  BY SumTableExists
<1>2. SumTable(CHOOSE g : SumTable(g, f, S), f, S)
  BY SumTableExists
<1>3. SumFunctionOnSet(f, S) = a[S]
  <2> PICK b : b = CHOOSE g : SumTable(g, f, S)
    OBVIOUS
  <2>1. b[S] = a[S]
    BY <1>1, <1>2, SameSums
  <2> QED
    BY <2>1, SumIs
<1>4. S = {} => a[S] = 0
  BY <1>1 DEF SumTable
<1>5. ASSUME NEW x \in S PROVE SumFunctionOnSet(f, S) = f[x] + SumFunctionOnSet(f, S \ {x})
  <2> PICK T : T = S \ {x}
    OBVIOUS
  <2>1. IsFiniteSet(T) /\ T \subseteq S
    BY FS_Subset
  <2>2. SumTable(CHOOSE g : SumTable(g, f, T), f, T)
    BY <2>1, SumTableExists
  <2> PICK b : b = CHOOSE g : SumTable(g, f, T)
    OBVIOUS
  <2>3. b[T] = a[T]
    BY <1>1, <2>1, <2>2, SameSums
  <2>4. a[S] = f[x] + a[S \ {x}]
    <3>1. S \in SUBSET S /\ \A s \in SUBSET S : a[s] \in Int
      OBVIOUS
    <3> QED
      BY <1>1, <3>1, AnyOrder
  <2> QED
    BY <1>3, <2>3, <2>4, SumIs
<1> QED
  BY <1>1, <1>3, <1>4, <1>5

\* Functions that agree on a set have one sum over it.
LEMMA SumsAgree ==
  ASSUME NEW S, IsFiniteSet(S), NEW f, NEW g, \A x \in S : f[x] \in Int /\ g[x] = f[x]
  PROVE  SumFunctionOnSet(g, S) = SumFunctionOnSet(f, S)
<1> PICK a, b : a = (CHOOSE h : SumTable(h, f, S)) /\ b = (CHOOSE h : SumTable(h, g, S))
  OBVIOUS
<1>1. SumTable(a, f, S) /\ SumTable(b, g, S)
  BY SumTableExists
<1>2. a[S] = b[S]
  BY <1>1, SameSums
<1> QED
  BY <1>2, SumIs

\* g is f on S, in numbers.
Agree(f, g, S) == \A j \in S : f[j] \in Int /\ g[j] = f[j]

\* Some are counted, and their values added.
LEMMA SoMany ==
  ASSUME NEW S, IsFiniteSet(S), NEW f, NEW g, Agree(f, g, S)
  PROVE  Cardinality(S) \in Nat /\ SumFunctionOnSet(f, S) \in Int
BY FS_CardinalityType, Sums DEF Agree

\* One more is counted, and its value added, however the others' values are written.
LEMMA OneMore ==
  ASSUME NEW S, IsFiniteSet(S), NEW x, x \notin S, NEW T, T = S \cup {x}, NEW f, NEW g, Agree(f, g, S),
         NEW n \in Nat, n = Cardinality(S), NEW m \in Int, m = SumFunctionOnSet(f, S), NEW k \in Int, k = g[x]
  PROVE  Cardinality(T) = n + 1 /\ SumFunctionOnSet(g, T) = m + k
<1>1. IsFiniteSet(T) /\ Cardinality(T) = n + 1
  BY FS_AddElement
<1>2. SumFunctionOnSet(g, S) = m
  BY SumsAgree DEF Agree
<1>3. SumFunctionOnSet(g, T) = g[x] + SumFunctionOnSet(g, S)
  <2>1. x \in T /\ T \ {x} = S /\ \A j \in T : g[j] \in Int
    BY DEF Agree
  <2>2. SumFunctionOnSet(g, T) = g[x] + SumFunctionOnSet(g, T \ {x})
    BY <1>1, <2>1, Sums
  <2> QED
    BY <2>1, <2>2
<1> QED
  BY <1>1, <1>2, <1>3

-----------------------------------------------------------------------------
(* The metrics *)

Actives == [j \in Jobs |-> jobs[j].active]
EndedAs(v) == {u \in UIDs : <<u, v>> \in settled}

\* MetricsFollowJobs, in those words.
LEMMA MetricsMean ==
  MetricsFollowJobs <=>
    (~skewed => /\ depth = Cardinality(RunningJobs)
                /\ agents = SumFunctionOnSet(Actives, RunningJobs)
                /\ \A v \in Ends : ends[v] = Cardinality(EndedAs(v)))
BY DEF MetricsFollowJobs, Actives, EndedAs

\* The values that are summed are numbers.
LEMMA ActivesAreNumbers ==
  ASSUME JobsTypeOK
  PROVE  /\ Actives \in [Jobs -> Int] /\ \A j \in Jobs : Actives[j] = jobs[j].active
         /\ RunningJobs \in SUBSET Jobs
         /\ \A j \in Jobs : j \in RunningJobs <=> jobs[j].phase = "Running"
BY DEF JobsTypeOK, JobObjects, Actives, RunningJobs

\* The metrics still follow when no job starts or stops being Running and none is counted.
LEMMA MetricsStay ==
  ASSUME JobInv, JobInv', MetricsFollowJobs, UNCHANGED <<metrics, settled>>, ~skewed' => ~skewed,
         \A j \in Jobs : ~skewed' =>
           jobs'[j] = jobs[j] \/ (jobs[j].phase # "Running" /\ jobs'[j].phase # "Running")
  PROVE  MetricsFollowJobs'
<1>1. JobsTypeOK /\ JobsTypeOK'
  BY DEF JobInv, JobsInv
<1> PICK S, f, g : S = RunningJobs /\ f = Actives /\ g = Actives'
  OBVIOUS
<1>2. S \in SUBSET Jobs /\ \A j \in Jobs : f[j] \in Int /\ f[j] = jobs[j].active /\ (j \in S <=> jobs[j].phase = "Running")
  BY <1>1, ActivesAreNumbers
<1>3. ASSUME ~skewed' PROVE RunningJobs' = S /\ SumFunctionOnSet(g, S) = SumFunctionOnSet(f, S)
  <2>1. \A j \in Jobs : jobs'[j].phase = "Running" <=> jobs[j].phase = "Running"
    BY <1>3
  <2>2. \A j \in S : f[j] \in Int /\ g[j] = f[j]
    BY <1>2, <1>3 DEF Actives
  <2>3. IsFiniteSet(S)
    BY <1>2, ReconcilerAssumption, FS_Subset
  <2> QED
    BY <2>1, <2>2, <2>3, SumsAgree DEF RunningJobs
<1>4. \A v \in Ends : EndedAs(v)' = EndedAs(v)
  BY DEF EndedAs
<1>5. ~skewed' => /\ depth' = Cardinality(RunningJobs')
                  /\ agents' = SumFunctionOnSet(g, RunningJobs')
                  /\ \A v \in Ends : ends'[v] = Cardinality(EndedAs(v)')
  BY <1>3, <1>4, MetricsMean DEF metrics
<1> QED
  BY <1>5 DEF MetricsFollowJobs, Actives, EndedAs

\* A job starts.
LEMMA RunningCounted ==
  ASSUME JobInv, JobInv', MetricsFollowJobs, MarkRunning
  PROVE  MetricsFollowJobs'
<1>1. /\ JobsTypeOK /\ JobsTypeOK' /\ MetricsTypeOK /\ WorkTypeOK /\ work.job \in Jobs
  BY DEF JobInv, JobsInv, WorkInv, MarkRunning, WorkTypeOK
<1>a. PICK x, n : x = work.job /\ n = Len(AgentPods(work.job))
  OBVIOUS
<1>2. /\ x \in Jobs /\ jobs[x].phase = "Pending" /\ jobs'[x].phase = "Running" /\ jobs'[x].active = n
      /\ \A j \in Jobs \ {x} : jobs'[j] = jobs[j]
  <2>1. queue' \subseteq Jobs /\ work' = Idle
    BY <1>1 DEF MarkRunning, End, JobsTypeOK
  <2> QED
    BY <1>a, <2>1, RunningWritten DEF MarkRunning, history
<1>3. /\ depth' = depth + 1 /\ agents' = agents + n /\ ends' = ends /\ settled' = settled /\ skewed' = skewed
  BY <1>a DEF MarkRunning, JobStarted, history
<1>0. PICK S, T, f, g : S = RunningJobs /\ T = RunningJobs' /\ f = Actives /\ g = Actives'
  OBVIOUS
<1>4. /\ S \in SUBSET Jobs /\ x \in Jobs \ S /\ T = S \cup {x}
      /\ \A j \in Jobs : f[j] \in Int /\ g[j] \in Int
      /\ \A j \in S : g[j] = f[j]
      /\ g[x] = n
  <2>1. /\ f \in [Jobs -> Int] /\ \A j \in Jobs : f[j] = jobs[j].active
        /\ g \in [Jobs -> Int] /\ \A j \in Jobs : g[j] = jobs'[j].active
    BY <1>0, <1>1 DEF JobsTypeOK, JobObjects, Actives
  <2>2. T = S \cup {x} /\ x \notin S /\ S \subseteq Jobs
    BY <1>0, <1>1, <1>2 DEF RunningJobs
  <2> QED
    BY <1>1, <1>2, <2>1, <2>2
<1>5. PICK c, m : c = Cardinality(S) /\ m = SumFunctionOnSet(f, S)
  OBVIOUS
<1>6. IsFiniteSet(S) /\ T = S \cup {x} /\ x \notin S /\ Agree(f, g, S) /\ n \in Int
  BY <1>4, ReconcilerAssumption, FS_Subset DEF Agree
<1>7. c \in Nat /\ m \in Int /\ Cardinality(T) = c + 1 /\ SumFunctionOnSet(g, T) = m + n
  <2>1. c \in Nat /\ m \in Int
    BY <1>5, <1>6, SoMany
  <2>2. n = g[x]
    BY <1>4
  <2> QED
    BY <1>5, <1>6, <2>1, <2>2, OneMore
<1>8. \A v \in Ends : EndedAs(v)' = EndedAs(v)
  BY <1>3 DEF EndedAs
<1>9. ~skewed => /\ depth = Cardinality(S) /\ agents = SumFunctionOnSet(f, S)
                 /\ \A v \in Ends : ends[v] = Cardinality(EndedAs(v))
  BY <1>0, MetricsMean
<1>10. ~skewed' => /\ depth' = Cardinality(T)
                   /\ agents' = SumFunctionOnSet(g, T)
                   /\ \A v \in Ends : ends'[v] = Cardinality(EndedAs(v)')
  BY <1>0, <1>3, <1>4, <1>5, <1>6, <1>7, <1>8, <1>9
<1> QED
  BY <1>0, <1>10 DEF MetricsFollowJobs, Actives, EndedAs

\* A job ends: it has not been counted before.
LEMMA EndCounted ==
  ASSUME JobInv, JobInv', MetricsFollowJobs, MarkFinished
  PROVE  MetricsFollowJobs'
<1>1. /\ JobsTypeOK /\ JobsTypeOK' /\ MetricsTypeOK /\ WorkTypeOK /\ work.job \in Jobs /\ HistoryTypeOK
      /\ work.obj.uid \in UIDs
  BY DEF JobInv, JobsInv, WorkInv, MarkFinished, WorkTypeOK
<1>a. PICK x, n, w, u : x = work.job /\ n = work.obj.active /\ w = work.verdict /\ u = work.obj.uid
  OBVIOUS
<1>2. /\ x \in Jobs /\ jobs[x].phase = "Running" /\ jobs'[x].phase = w /\ w \in Ends /\ jobs[x].active = n
      /\ <<u, w>> \notin settled
      /\ \A j \in Jobs \ {x} : jobs'[j] = jobs[j]
  <2>1. queue' \subseteq Jobs /\ work' = Idle
    BY <1>1 DEF MarkFinished, End, EndLater, JobsTypeOK
  <2> QED
    BY <1>a, <2>1, EndWritten DEF MarkFinished
<1>3. /\ depth' = depth - 1 /\ agents' = agents - n /\ ends' = [ends EXCEPT ![w] = @ + 1]
      /\ settled' = settled \cup {<<u, w>>} /\ skewed' = skewed
  BY <1>a DEF MarkFinished, JobFinished
<1>0. PICK S, T, f, g : S = RunningJobs' /\ T = RunningJobs /\ f = Actives' /\ g = Actives
  OBVIOUS
<1>4. /\ S \in SUBSET Jobs /\ x \in Jobs \ S /\ T = S \cup {x}
      /\ \A j \in Jobs : f[j] \in Int /\ g[j] \in Int
      /\ \A j \in S : g[j] = f[j]
      /\ g[x] = n
  <2>1. /\ f \in [Jobs -> Int] /\ \A j \in Jobs : f[j] = jobs'[j].active
        /\ g \in [Jobs -> Int] /\ \A j \in Jobs : g[j] = jobs[j].active
    BY <1>0, <1>1 DEF JobsTypeOK, JobObjects, Actives
  <2>2. T = S \cup {x} /\ x \notin S /\ S \subseteq Jobs
    BY <1>0, <1>1, <1>2 DEF RunningJobs, Ends
  <2> QED
    BY <1>1, <1>2, <2>1, <2>2
<1>5. PICK c, m : c = Cardinality(S) /\ m = SumFunctionOnSet(f, S)
  OBVIOUS
<1>6. IsFiniteSet(S) /\ T = S \cup {x} /\ x \notin S /\ Agree(f, g, S) /\ n \in Int
  BY <1>4, ReconcilerAssumption, FS_Subset DEF Agree
<1>7. c \in Nat /\ m \in Int /\ Cardinality(T) = c + 1 /\ SumFunctionOnSet(g, T) = m + n
  <2>1. c \in Nat /\ m \in Int
    BY <1>5, <1>6, SoMany
  <2>2. n = g[x]
    BY <1>4
  <2> QED
    BY <1>5, <1>6, <2>1, <2>2, OneMore
<1>8. /\ \A v \in Ends \ {w} : EndedAs(v)' = EndedAs(v)
      /\ Cardinality(EndedAs(w)') = Cardinality(EndedAs(w)) + 1
  <2>1. \A v \in Ends \ {w} : EndedAs(v)' = EndedAs(v)
    BY <1>3 DEF EndedAs
  <2>2. EndedAs(w)' = EndedAs(w) \cup {u} /\ u \notin EndedAs(w) /\ EndedAs(w) \subseteq UIDs
    BY <1>1, <1>2, <1>3, <1>a DEF EndedAs
  <2>3. IsFiniteSet(UIDs)
    BY ReconcilerAssumption, FS_Interval, 1 \in Int, MaxUIDs \in Int DEF UIDs
  <2> QED
    BY <2>1, <2>2, <2>3, FS_Subset, FS_AddElement
<1>9. ~skewed => /\ depth = Cardinality(T) /\ agents = SumFunctionOnSet(g, T)
                 /\ \A v \in Ends : ends[v] = Cardinality(EndedAs(v))
  BY <1>0, <1>4, MetricsMean
<1>10. ASSUME ~skewed PROVE \A v \in Ends : ends'[v] = Cardinality(EndedAs(v)')
  <2>1. ends \in [Ends -> Nat]
    BY <1>1 DEF MetricsTypeOK
  <2> QED
    BY <1>2, <1>3, <1>8, <1>9, <1>10, <2>1
<1>11. ~skewed' => /\ depth' = Cardinality(S)
                   /\ agents' = SumFunctionOnSet(f, S)
                   /\ \A v \in Ends : ends'[v] = Cardinality(EndedAs(v)')
  BY <1>3, <1>5, <1>6, <1>7, <1>9, <1>10
<1> QED
  BY <1>0, <1>11 DEF MetricsFollowJobs, Actives, EndedAs

\* A step that is not the worker's starts no job and counts none.
LEMMA EnvironmentCounts ==
  ASSUME JobInv, JobInv', MetricsFollowJobs, Environment
  PROVE  MetricsFollowJobs'
<1>1. UNCHANGED <<metrics, settled>> /\ (~skewed' => ~skewed)
  <2>1. UNCHANGED <<metrics, settled>>
    BY DEF Environment, UserCreates, UserDeletes, TTLPasses, TenantCreated, PodExits, PodRemoved, PodEvicted,
       PodCollected, operator, history
  <2>2. skewed' = skewed \/ \E j \in Jobs : UserDeletes(j)
    BY DEF Environment, UserCreates, TTLPasses, TenantCreated, PodExits, PodRemoved, PodEvicted, PodCollected,
       history
  <2>3. ASSUME NEW j \in Jobs, UserDeletes(j), skewed PROVE skewed'
    BY <2>3 DEF UserDeletes
  <2> QED
    BY <2>1, <2>2, <2>3
<1>2. JobsTypeOK /\ CopiesConsistent
  BY DEF JobInv, JobsInv
<1>3. ASSUME NEW x \in Jobs, UserCreates(x), NEW j \in Jobs
      PROVE  jobs'[j] = jobs[j] \/ (jobs[j].phase # "Running" /\ jobs'[j].phase # "Running")
  BY <1>2, <1>3 DEF UserCreates, JobsTypeOK, CopiesConsistent, CopyOf
<1>4. ASSUME NEW x \in Jobs, UserDeletes(x), NEW j \in Jobs, ~skewed'
      PROVE  jobs'[j] = jobs[j] \/ (jobs[j].phase # "Running" /\ jobs'[j].phase # "Running")
  BY <1>2, <1>4, NothingValues DEF UserDeletes, JobsTypeOK
<1>5. CASE jobs' = jobs
  BY <1>1, <1>5, MetricsStay
<1>6. jobs' = jobs \/ \E x \in Jobs : UserCreates(x) \/ UserDeletes(x)
  BY DEF Environment, TTLPasses, TenantCreated, PodExits, PodRemoved, PodEvicted, PodCollected, api
<1> QED
  BY <1>1, <1>3, <1>4, <1>5, <1>6, MetricsStay

\* A call that fails counts nothing; if it was accepted, and was to be counted, that is noted.
LEMMA FailureCounts ==
  ASSUME JobInv, JobInv', MetricsFollowJobs, CallFails
  PROVE  MetricsFollowJobs'
<1>1. UNCHANGED metrics /\ (~skewed' => ~skewed)
  <2>1. UNCHANGED metrics
    BY FailureStep
  <2>2. skewed' = skewed \/ skewed' = TRUE \/ skewed' = (skewed \/ LosesRunning)
    BY DEF CallFails
  <2>3. skewed \in BOOLEAN
    BY DEF JobInv, HistoryTypeOK
  <2> QED
    BY <2>1, <2>2, <2>3, MetricsMean
<1>2. CASE skewed' = TRUE
  BY <1>1, <1>2 DEF MetricsFollowJobs, metrics
<1>3. CASE UNCHANGED <<jobs, settled>>
  BY <1>1, <1>3, MetricsStay
<1>4. /\ work.at # "idle" /\ work' = Idle /\ queue' \subseteq Jobs /\ work.job \in Jobs /\ JobsTypeOK
      /\ UNCHANGED <<uids, tenant, seen, seenPods, expired, ended>>
  BY DEF CallFails, EndLater, JobInv, JobsInv, JobsTypeOK, WorkInv, WorkTypeOK
<1>5. CASE /\ work.at = "expire" /\ Unchanged(work.obj) /\ StatusWritten("Terminating", work.obj.active)
           /\ UNCHANGED <<pods, settled, disturbed, skewed>>
  <2>1. /\ jobs[work.job].phase \in Ends /\ jobs'[work.job].phase = "Terminating"
        /\ \A j \in Jobs \ {work.job} : jobs'[j] = jobs[j]
    BY <1>4, <1>5, TerminatingWritten
  <2>2. \A j \in Jobs : jobs'[j] = jobs[j] \/ (jobs[j].phase # "Running" /\ jobs'[j].phase # "Running")
    BY <2>1 DEF Ends
  <2> QED
    BY <1>1, <1>5, <2>2, MetricsStay
<1>6. CASE JobDeleted /\ skewed' = (skewed \/ LosesRunning) /\ UNCHANGED <<pods, settled, disturbed>>
  <2>1. \A j \in Jobs : ~skewed' =>
          jobs'[j] = jobs[j] \/ (jobs[j].phase # "Running" /\ jobs'[j].phase # "Running")
    BY <1>4, <1>6, NothingValues DEF JobDeleted, LosesRunning, JobsTypeOK
  <2> QED
    BY <1>1, <1>6, <2>1, MetricsStay
<1> QED
  BY <1>2, <1>3, <1>5, <1>6 DEF CallFails

\* The worker's calls that are answered.
LEMMA CallCounts ==
  ASSUME JobInv, JobInv', MetricsFollowJobs, APICall
  PROVE  MetricsFollowJobs'
<1>1. JobsTypeOK /\ WorkTypeOK /\ skewed \in BOOLEAN
  BY DEF JobInv, JobsInv, WorkInv, HistoryTypeOK
<1>2. CASE CreatePod
  BY <1>2, MetricsStay DEF CreatePod
<1>3. CASE Conflict
  BY <1>3, MetricsStay DEF Conflict, api, history
<1>4. CASE MarkRunning
  BY <1>4, RunningCounted
<1>5. CASE MarkFinished
  BY <1>5, EndCounted
<1>6. CASE MarkTerminating
  <2>1. /\ work.at = "expire" /\ Unchanged(work.obj) /\ StatusWritten("Terminating", work.obj.active)
        /\ UNCHANGED <<pods, uids, tenant, seen, seenPods, metrics, expired, ended, disturbed, settled, skewed>>
        /\ queue' \subseteq Jobs /\ work' = Idle
    BY <1>1, <1>6 DEF MarkTerminating, End, history, JobsTypeOK
  <2>2. /\ jobs[work.job].phase \in Ends /\ jobs'[work.job].phase = "Terminating"
        /\ \A j \in Jobs \ {work.job} : jobs'[j] = jobs[j]
    BY <2>1, TerminatingWritten
  <2>3. \A j \in Jobs : jobs'[j] = jobs[j] \/ (jobs[j].phase # "Running" /\ jobs'[j].phase # "Running")
    BY <2>2 DEF Ends
  <2> QED
    BY <2>1, <2>3, MetricsStay
<1>7. CASE \E p \in PodNames : DeletePod(p)
  BY <1>7, MetricsStay DEF DeletePod
<1>8. CASE DeleteJob
  <2>1. /\ work.job \in Jobs /\ jobs' = [jobs EXCEPT ![work.job] = NoJob] /\ skewed' = (skewed \/ LosesRunning)
        /\ UNCHANGED <<metrics, settled>>
    BY <1>1, <1>8 DEF DeleteJob, JobDeleted, WorkTypeOK
  <2>2. \A j \in Jobs : ~skewed' =>
          jobs'[j] = jobs[j] \/ (jobs[j].phase # "Running" /\ jobs'[j].phase # "Running")
    BY <1>1, <2>1, NothingValues DEF LosesRunning, JobsTypeOK
  <2> QED
    BY <1>1, <2>1, <2>2, MetricsStay
<1> QED
  BY <1>2, <1>3, <1>4, <1>5, <1>6, <1>7, <1>8 DEF APICall

\* After every step the metrics still follow.
LEMMA MetricsStep == JobInv /\ JobInv' /\ MetricsFollowJobs /\ [Next]_vars => MetricsFollowJobs'
<1> SUFFICES ASSUME JobInv, JobInv', MetricsFollowJobs, [Next]_vars PROVE MetricsFollowJobs'
  OBVIOUS
<1>1. CASE \E j \in Jobs : Start(j)
  BY <1>1, StartStep, MetricsStay
<1>2. CASE (\E j \in Jobs : SyncJob(j)) \/ SyncPods
  BY <1>2, MetricsStay DEF SyncJob, SyncPods, api, history
<1>3. CASE OperatorRestarts
  BY <1>3 DEF OperatorRestarts, MetricsFollowJobs
<1>4. CASE UNCHANGED vars
  BY <1>4, MetricsStay DEF vars, api, operator, history
<1> QED
  BY <1>1, <1>2, <1>3, <1>4, CallCounts, FailureCounts, EnvironmentCounts DEF Next

\* The gauges and the counter of metrics.go follow the jobs in the API server, however stale
\* the caches are and whatever is refused and tried again: Running jobs, the agents that their
\* status gives as active, ends by status; unless the operator has been started anew, a Running
\* job has been deleted, or an update has been accepted without its answer.
THEOREM MetricsFollow == Spec => []MetricsFollowJobs
<1>1. Init => MetricsFollowJobs
  <2> SUFFICES ASSUME Init PROVE MetricsFollowJobs
    OBVIOUS
  <2>1. /\ depth = 0 /\ agents = 0 /\ ends = [v \in Ends |-> 0] /\ settled = {}
        /\ RunningJobs = {} /\ \A v \in Ends : EndedAs(v) = {}
    BY DEF Init, RunningJobs, NoJob, EndedAs
  <2>2. IsFiniteSet({}) /\ Cardinality({}) = 0
    BY FS_EmptySet
  <2>3. SumFunctionOnSet(Actives, RunningJobs) = 0
    <3>1. \A x \in RunningJobs : Actives[x] \in Int
      BY <2>1
    <3> QED
      BY <2>1, <2>2, <3>1, Sums
  <2>4. \A v \in Ends : ends[v] = Cardinality(EndedAs(v))
    BY <2>1, <2>2
  <2> QED
    BY <2>1, <2>2, <2>3, <2>4, MetricsMean
<1> QED
  BY <1>1, MetricsStep, JobInvariance, PTL DEF Spec

-----------------------------------------------------------------------------
(* The phases, as AgentJobs has them, and what is deleted *)

PhaseOf == [j \in Jobs |-> jobs[j].phase]

\* One job goes from one phase to another.
PhaseGoes(x, from, to) ==
  /\ x \in Jobs /\ jobs[x].phase = from /\ jobs'[x].phase = to
  /\ \A j \in Jobs \ {x} : jobs'[j] = jobs[j]

\* The phases to which a phase can go.
LEMMA AllowedSteps ==
  ASSUME NEW x, NEW from, NEW to, PhaseGoes(x, from, to),
         \/ from = to
         \/ from = "absent" /\ to = "Pending"
         \/ from = "Pending" /\ to = "Running"
         \/ from = "Running" /\ to \in Ends
         \/ from \in Ends /\ to = "Terminating"
         \/ to = "absent"
  PROVE  [JobLife!Next]_(JobLife!vars)
<1>0. PICK f, g : f = PhaseOf /\ g = PhaseOf'
  OBVIOUS
<1>1. x \in Jobs /\ f = [j \in Jobs |-> jobs[j].phase] /\ g = [j \in Jobs |-> jobs'[j].phase]
  BY <1>0 DEF PhaseGoes, PhaseOf
<1>2. f[x] = from /\ g = [f EXCEPT ![x] = to]
  <2>1. \A j \in Jobs : g[j] = IF j = x THEN to ELSE f[j]
    BY <1>1 DEF PhaseGoes
  <2> QED
    BY <1>1, <2>1 DEF PhaseGoes
<1>3. CASE from = to
  <2>1. g = f
    BY <1>1, <1>2, <1>3
  <2> QED
    BY <1>1, <2>1 DEF JobLife!vars
<1>4. CASE from # to
  <2>1. PICK p : p = to
    OBVIOUS
  <2>2. JobLife!Become(x, p)
    BY <1>1, <1>2, <2>1 DEF JobLife!Become
  <2>3. JobLife!Step(x)
    BY <1>1, <1>2, <1>4, <2>1, <2>2 DEF JobLife!Step, JobLife!Create, JobLife!Start, JobLife!Settle,
       JobLife!Expire, JobLife!Remove, JobLife!IsTerminal, Ends
  <2> QED
    BY <1>1, <2>3 DEF JobLife!Next
<1> QED
  BY <1>3, <1>4

\* No job goes anywhere.
LEMMA NoPhaseMoves ==
  ASSUME UNCHANGED jobs
  PROVE  [JobLife!Next]_(JobLife!vars)
BY DEF JobLife!vars

\* Job x is gone, or was not there.
LEMMA GoneIsRemoved ==
  ASSUME JobsTypeOK, NEW x \in Jobs, jobs' = [jobs EXCEPT ![x] = NoJob]
  PROVE  [JobLife!Next]_(JobLife!vars)
<1> PICK from : from = jobs[x].phase
  OBVIOUS
<1>1. PhaseGoes(x, from, "absent")
  BY NothingValues DEF PhaseGoes, JobsTypeOK
<1> QED
  BY <1>1, AllowedSteps

\* A status update that is accepted.
LEMMA UpdateIsAllowed ==
  ASSUME JobInv, Unchanged(work.obj), work' = Idle, queue' \subseteq Jobs,
         UNCHANGED <<pods, uids, tenant, seen, seenPods, expired, ended, disturbed>>,
         \/ /\ work.at = "create" /\ work.create = <<>> /\ UNCHANGED settled
            /\ StatusWritten("Running", Len(AgentPods(work.job)))
         \/ /\ work.at = "finish" /\ StatusWritten(work.verdict, 0)
            /\ settled' = settled \cup {<<work.obj.uid, work.verdict>>}
         \/ /\ work.at = "expire" /\ StatusWritten("Terminating", work.obj.active) /\ UNCHANGED settled
  PROVE  [JobLife!Next]_(JobLife!vars)
<1> PICK x, from, to : x = work.job /\ from = jobs[work.job].phase /\ to = jobs'[work.job].phase
  OBVIOUS
<1>1. /\ PhaseGoes(x, from, to)
      /\ \/ from = "Pending" /\ to = "Running"
         \/ from = "Running" /\ to \in Ends
         \/ from \in Ends /\ to = "Terminating"
  BY RunningWritten, EndWritten, TerminatingWritten DEF PhaseGoes
<1> QED
  BY <1>1, AllowedSteps

\* Every step of the reconciler and its surroundings is one of the life of a job, or none.
LEMMA JobLifeStep == JobInv /\ [Next]_vars => [JobLife!Next]_(JobLife!vars)
<1> SUFFICES ASSUME JobInv, [Next]_vars PROVE [JobLife!Next]_(JobLife!vars)
  OBVIOUS
<1>0. JobsTypeOK /\ WorkTypeOK /\ CopiesConsistent
  BY DEF JobInv, JobsInv, WorkInv
<1>1. CASE UNCHANGED jobs
  BY <1>1, NoPhaseMoves
<1>2. CASE MarkRunning \/ MarkFinished \/ MarkTerminating
  <2>1. work' = Idle /\ queue' \subseteq Jobs
    BY <1>0, <1>2 DEF MarkRunning, MarkFinished, MarkTerminating, End, EndLater, JobsTypeOK, WorkTypeOK
  <2> QED
    BY <1>2, <2>1, UpdateIsAllowed DEF MarkRunning, MarkFinished, MarkTerminating, history
<1>3. CASE DeleteJob
  BY <1>0, <1>3, GoneIsRemoved DEF DeleteJob, JobDeleted, WorkTypeOK
<1>4. CASE CallFails
  <2>1. /\ work' = Idle /\ queue' \subseteq Jobs /\ work.job \in Jobs
        /\ UNCHANGED <<uids, tenant, seen, seenPods, expired, ended>>
    BY <1>0, <1>4 DEF CallFails, EndLater, JobsTypeOK, WorkTypeOK
  <2>2. \/ UNCHANGED jobs \/ JobDeleted
        \/ /\ Unchanged(work.obj) /\ UNCHANGED <<pods, disturbed>>
           /\ \/ /\ work.at = "create" /\ work.create = <<>> /\ UNCHANGED settled
                 /\ StatusWritten("Running", Len(AgentPods(work.job)))
              \/ /\ work.at = "finish" /\ StatusWritten(work.verdict, 0)
                 /\ settled' = settled \cup {<<work.obj.uid, work.verdict>>}
              \/ /\ work.at = "expire" /\ StatusWritten("Terminating", work.obj.active) /\ UNCHANGED settled
    BY <1>4 DEF CallFails
  <2> QED
    BY <1>0, <2>1, <2>2, NoPhaseMoves, GoneIsRemoved, UpdateIsAllowed DEF JobDeleted
<1>5. ASSUME NEW x \in Jobs, UserCreates(x) PROVE [JobLife!Next]_(JobLife!vars)
  <2>1. PhaseGoes(x, "absent", "Pending")
    BY <1>0, <1>5 DEF UserCreates, PhaseGoes, JobsTypeOK, CopiesConsistent, CopyOf
  <2> QED
    BY <2>1, AllowedSteps
<1>6. ASSUME NEW x \in Jobs, UserDeletes(x) PROVE [JobLife!Next]_(JobLife!vars)
  BY <1>0, <1>6, GoneIsRemoved DEF UserDeletes
<1>7. \/ UNCHANGED jobs \/ MarkRunning \/ MarkFinished \/ MarkTerminating \/ DeleteJob \/ CallFails
      \/ \E x \in Jobs : UserCreates(x) \/ UserDeletes(x)
  <2>1. (\E j \in Jobs : Start(j)) => UNCHANGED jobs
    BY StartStep
  <2>2. CreatePod \/ Conflict \/ (\E p \in PodNames : DeletePod(p)) => UNCHANGED jobs
    BY DEF CreatePod, Conflict, DeletePod, api
  <2>3. (\E j \in Jobs : SyncJob(j)) \/ SyncPods \/ OperatorRestarts \/ UNCHANGED vars => UNCHANGED jobs
    BY DEF SyncJob, SyncPods, OperatorRestarts, vars, api
  <2>4. Environment => UNCHANGED jobs \/ \E x \in Jobs : UserCreates(x) \/ UserDeletes(x)
    BY DEF Environment, TTLPasses, TenantCreated, PodExits, PodRemoved, PodEvicted, PodCollected, api
  <2> QED
    BY <2>1, <2>2, <2>3, <2>4 DEF Next, APICall
<1> QED
  BY <1>1, <1>2, <1>3, <1>4, <1>5, <1>6, <1>7

\* The reconciler implements AgentJobs: whatever is stale, refused, failed or started anew, a job
\* that it looks after is taken through its phases in order and never back.
THEOREM ReconcilerIsAgentJobs == Spec => AgentJobsSpec
<1>1. Init => JobLife!Init
  BY DEF Init, JobLife!Init, NoJob
<1> QED
  BY <1>1, JobLifeStep, JobInvariance, PTL DEF Spec, AgentJobsSpec, JobLife!Spec

\* reconcileTerminating deletes a job only when it has read one that was Terminating, and a job
\* becomes Terminating only when its TTL is over.
THEOREM DeletedWhenExpired == Spec => DeletesForExpired
<1>1. JobInv => \A j \in Jobs : OperatorDeletes(j) => work.obj.uid \in expired
  BY DEF JobInv, WorkInv, WorkConsistent, CopyOf, OperatorDeletes
<1> QED
  BY <1>1, JobInvariance, PTL DEF DeletesForExpired
=============================================================================
