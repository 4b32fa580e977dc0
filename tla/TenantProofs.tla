---------------------------- MODULE TenantProofs ----------------------------
(***************************************************************************)
(* Proofs about module TenantReconciler, for any Tenants and namespaces,   *)
(* shared or not, and any number of failures, restarts and re-creations.   *)
(***************************************************************************)
EXTENDS TenantReconciler, TLAPS

\* The elements of a list are its head and those of its tail.
LEMMA TailElements ==
  ASSUME NEW S, NEW s \in Seq(S), s # <<>>
  PROVE  /\ Tail(s) \in Seq(S) /\ Head(s) \in S
         /\ \A i \in DOMAIN s : s[i] = Head(s) \/ \E j \in DOMAIN Tail(s) : Tail(s)[j] = s[i]
<1>1. Tail(s) \in Seq(S) /\ Head(s) \in S
  OBVIOUS
<1>2. ASSUME NEW i \in DOMAIN s, i # 1
      PROVE  i - 1 \in DOMAIN Tail(s) /\ Tail(s)[i - 1] = s[i]
  <2>1. DOMAIN s = 1..Len(s) /\ Len(s) \in Nat /\ i \in 2..Len(s)
    BY <1>2
  <2>2. DOMAIN Tail(s) = 1..(Len(s) - 1)
    BY <1>1, <2>1
  <2>3. \A m \in 1..(Len(s) - 1) : Tail(s)[m] = s[m + 1]
    BY <2>1
  <2> QED
    BY <2>1, <2>2, <2>3
<1>3. s[1] = Head(s)
  OBVIOUS
<1> QED
  BY <1>1, <1>2, <1>3

\* What is to be made and to be taken away.
LEMMA Lists ==
  /\ \A t : Provisions(t) \in Seq(Kinds)
  /\ Removals \in Seq(Kinds) /\ Gateway = {Removals[i] : i \in DOMAIN Removals}
<1>1. \A t : Provisions(t) \in Seq(Kinds)
  <2>1. <<"namespace">> \in Seq(Kinds) /\ <<"namespace", "secret", "deployment", "service">> \in Seq(Kinds)
    BY DEF Kinds, Gateway
  <2> QED
    BY <2>1 DEF Provisions
<1>2. Removals \in Seq(Kinds) /\ DOMAIN Removals = 1..3
  BY DEF Removals, Kinds, Gateway
<1>3. Removals[1] = "deployment" /\ Removals[2] = "service" /\ Removals[3] = "secret"
  BY DEF Removals
<1> QED
  BY <1>1, <1>2, <1>3 DEF Gateway

\* The values that stand for no Tenant and no work have their types.
LEMMA IdleValues ==
  /\ NoTenant \in TenantObjects /\ ~Exists(NoTenant) /\ Versioned(NoTenant)
  /\ ~NoTenant.finalizer /\ ~NoTenant.ready /\ ~NoTenant.deleting
  /\ Idle \in [at : {"idle", "finalizer", "provision", "remove"}, tenant : Tenants \cup {"none"},
              obj : TenantObjects, todo : Seq(Kinds)]
  /\ Idle.at = "idle"
BY DEF NoTenant, TenantObjects, Exists, Versioned, Idle

\* Without work nothing is to be said of it.
LEMMA IdleWork ==
  ASSUME work' = Idle
  PROVE  WorkInv'
BY IdleValues DEF WorkInv, WorkTypeOK, WorkConsistent, RemovedSoFar, MadeSoFar

\* What has happened to a copy has still happened to the Tenant.
LEMMA CopyStays ==
  ASSUME ObjectsTypeOK, NEW t \in Tenants, NEW o \in TenantObjects, CopyOf(t, o),
         uids' \in Nat, uids <= uids', \A u \in 1..uids : named'[u] = named[u],
         \/ tenants'[t].uid \notin 1..uids
         \/ /\ tenants'[t].uid = tenants[t].uid
            /\ tenants[t].finalizer => tenants'[t].finalizer
            /\ tenants[t].ready => tenants'[t].ready
            /\ tenants[t].deleting => tenants'[t].deleting
  PROVE  CopyOf(t, o)'
BY DEF ObjectsTypeOK, TenantObjects, UIDs, CopyOf, Exists, Versioned

\* Work that goes on is still right after a step that leaves it and the things alone.
LEMMA WorkStays ==
  ASSUME TenantInv, UNCHANGED <<work, things, misled>>,
         work.at # "idle" => CopyOf(work.tenant, work.obj)'
  PROVE  WorkInv'
BY DEF TenantInv, WorkInv, WorkTypeOK, WorkConsistent, RemovedSoFar, MadeSoFar, Waiting, Here, Needed

\* An Update, or the end, of Tenant x.
LEMMA TenantChanges ==
  ASSUME TenantInv, NEW x \in Tenants, NEW o \in TenantObjects, Versioned(o),
         tenants' = [tenants EXCEPT ![x] = o],
         UNCHANGED <<things, uids, named, seen, seenThings, misled>>,
         \/ o = NoTenant
         \/ /\ o.uid = tenants[x].uid /\ Exists(o)
            /\ tenants[x].finalizer => o.finalizer
            /\ tenants[x].ready => o.ready
            /\ tenants[x].deleting => o.deleting,
         o.ready /\ ~o.deleting => tenants[x].ready \/ Provisioned(x) \/ o.uid \in misled
  PROVE  ObjectsInv' /\ (work' = work => WorkInv')
<1>0. /\ ObjectsTypeOK /\ CopiesConsistent /\ ThingsOwned /\ FinalizerHolds
      /\ ReadyUnlessMisled /\ WorkTypeOK /\ WorkConsistent
  BY DEF TenantInv, ObjectsInv, WorkInv
<1>1. /\ tenants'[x] = o /\ \A t \in Tenants \ {x} : tenants'[t] = tenants[t]
      /\ uids \in Nat
  BY <1>0 DEF ObjectsTypeOK
<1>2. ObjectsTypeOK'
  BY <1>0 DEF ObjectsTypeOK
<1>3. \A t \in Tenants, c \in TenantObjects : CopyOf(t, c) => CopyOf(t, c)'
  <2> SUFFICES ASSUME NEW t \in Tenants, NEW c \in TenantObjects, CopyOf(t, c) PROVE CopyOf(t, c)'
    OBVIOUS
  <2>1. \/ tenants'[t].uid \notin 1..uids
        \/ /\ tenants'[t].uid = tenants[t].uid
           /\ tenants[t].finalizer => tenants'[t].finalizer
           /\ tenants[t].ready => tenants'[t].ready
           /\ tenants[t].deleting => tenants'[t].deleting
    BY <1>1, IdleValues DEF Exists
  <2> QED
    BY <1>0, <1>1, <2>1, CopyStays
<1>4. CopiesConsistent'
  <2>1. CopyOf(x, o)'
    <3>1. CASE o = NoTenant
      BY <3>1, IdleValues DEF CopyOf
    <3>2. CASE Exists(o) /\ o.uid = tenants[x].uid
      BY <1>0, <1>1, <3>2 DEF CopiesConsistent, CopyOf, Exists
    <3> QED
      BY <3>1, <3>2
  <2>2. \A t \in Tenants : CopyOf(t, seen[t])' /\ CopyOf(t, tenants[t])'
    BY <1>0, <1>1, <1>3, <2>1 DEF CopiesConsistent, ObjectsTypeOK
  <2> QED
    BY <2>2 DEF CopiesConsistent
<1>6. ThingsOwned' /\ FinalizerHolds'
  BY <1>0, <1>1, IdleValues DEF ThingsOwned, FinalizerHolds, MadeFor, Exists
<1>8. ReadyUnlessMisled'
  <2> SUFFICES ASSUME NEW t \in Tenants, tenants'[t].ready, ~tenants'[t].deleting
               PROVE  Provisioned(t) \/ tenants'[t].uid \in misled
    BY DEF ReadyUnlessMisled, Provisioned, Needed
  <2>1. CASE t # x
    BY <1>0, <1>1, <2>1 DEF ReadyUnlessMisled
  <2>2. CASE t = x
    BY <1>0, <1>1, <2>2, IdleValues DEF ReadyUnlessMisled
  <2> QED
    BY <2>1, <2>2
<1>9. ASSUME work' = work PROVE WorkInv'
  <2>1. work.at # "idle" => CopyOf(work.tenant, work.obj)'
    <3>1. \A t \in Tenants, c \in TenantObjects :
            CopyOf(t, c) /\ work.tenant = t /\ work.obj = c => CopyOf(work.tenant, work.obj)'
      BY <1>3, <1>9 DEF CopyOf
    <3> QED
      BY <1>0, <3>1 DEF WorkTypeOK, WorkConsistent
  <2> QED
    BY <1>0, <1>9, <2>1, WorkStays DEF WorkTypeOK
<1> QED
  BY <1>2, <1>4, <1>6, <1>8, <1>9 DEF ObjectsInv

\* A thing is made for the Tenant in work.
LEMMA ThingMade ==
  ASSUME TenantInv, work.at = "provision", Item \in Kinds, SetThing(work.obj.uid),
         UNCHANGED <<tenants, uids, named, seen, seenThings, misled>>
  PROVE  ObjectsInv'
<1>0. /\ ObjectsTypeOK /\ CopiesConsistent /\ ThingsOwned /\ FinalizerHolds
      /\ ReadyUnlessMisled /\ WorkTypeOK /\ WorkConsistent
  BY DEF TenantInv, ObjectsInv, WorkInv
<1>1. /\ work.tenant \in Tenants /\ Here \in Namespaces /\ Here = Namespace[work.tenant]
      /\ work.obj.uid \in UIDs /\ work.obj.uid # 0
      /\ CopyOf(work.tenant, work.obj) /\ work.obj.finalizer
  BY <1>0 DEF WorkTypeOK, WorkConsistent, Here, Namespaces, UIDs
<1>2. /\ things' \in [Namespaces -> [Kinds -> {0} \cup UIDs]]
      /\ \A n \in Namespaces, k \in Kinds :
           things'[n][k] = IF n = Here /\ k = Item THEN work.obj.uid ELSE things[n][k]
  BY <1>0, <1>1 DEF SetThing, ObjectsTypeOK
<1>3. ObjectsTypeOK' /\ CopiesConsistent'
  BY <1>0, <1>2 DEF ObjectsTypeOK, CopiesConsistent, CopyOf
<1>4. MadeFor(Here, work.obj.uid)
  BY <1>1 DEF MadeFor, CopyOf, Exists
<1>5. ThingsOwned'
  BY <1>0, <1>2, <1>4 DEF ThingsOwned, MadeFor
<1>6. FinalizerHolds'
  <2> SUFFICES ASSUME NEW t \in Tenants, NEW n \in Namespaces, NEW k \in Kinds, Exists(tenants[t]),
                      things'[n][k] = tenants[t].uid
               PROVE  tenants[t].finalizer
    BY DEF FinalizerHolds
  <2>1. CASE things'[n][k] = things[n][k]
    BY <1>0, <2>1 DEF FinalizerHolds
  <2>2. CASE tenants[t].uid = work.obj.uid
    <3>1. t = work.tenant
      BY <1>0, <1>1, <2>2 DEF CopiesConsistent, CopyOf, Exists
    <3> QED
      BY <1>1, <2>2, <3>1 DEF CopyOf, Exists
  <2> QED
    BY <1>2, <2>1, <2>2
<1>8. ReadyUnlessMisled'
  <2>1. \A t \in Tenants : Provisioned(t) => Provisioned(t)'
    <3>1. \A t : Needed(t)' = Needed(t)
      BY DEF Needed
    <3>2. \A t : Needed(t) \subseteq Kinds
      BY Lists DEF Needed
    <3> QED
      BY <1>1, <1>2, <3>1, <3>2 DEF Namespaces, Provisioned
  <2> QED
    BY <1>0, <2>1 DEF ReadyUnlessMisled
<1> QED
  BY <1>3, <1>5, <1>6, <1>8 DEF ObjectsInv

\* A thing is taken away, for a Tenant that is being deleted: those that are Ready, and not
\* being deleted, and need it, have been misled.
LEMMA ThingTaken ==
  ASSUME TenantInv, work.at = "remove", Item \in Kinds, ThingRemoved,
         UNCHANGED <<tenants, uids, named, seen, seenThings>>
  PROVE  ObjectsInv' /\ misled' \subseteq UIDs
<1>0. /\ ObjectsTypeOK /\ CopiesConsistent /\ ThingsOwned /\ FinalizerHolds
      /\ ReadyUnlessMisled /\ WorkTypeOK /\ WorkConsistent
  BY DEF TenantInv, ObjectsInv, WorkInv
<1>1. /\ work.tenant \in Tenants /\ Here \in Namespaces /\ Here = Namespace[work.tenant]
      /\ work.obj.uid \in UIDs /\ work.obj.uid # 0
      /\ CopyOf(work.tenant, work.obj) /\ work.obj.deleting
  BY <1>0 DEF WorkTypeOK, WorkConsistent, Here, Namespaces, UIDs
<1>2. /\ things' \in [Namespaces -> [Kinds -> {0} \cup UIDs]]
      /\ \A n \in Namespaces, k \in Kinds :
           things'[n][k] = IF n = Here /\ k = Item THEN 0 ELSE things[n][k]
  BY <1>0, <1>1 DEF ThingRemoved, SetThing, ObjectsTypeOK
<1>3. ObjectsTypeOK' /\ CopiesConsistent'
  BY <1>0, <1>2 DEF ObjectsTypeOK, CopiesConsistent, CopyOf
<1>4. ThingsOwned' /\ FinalizerHolds'
  BY <1>0, <1>2 DEF ThingsOwned, FinalizerHolds, MadeFor, Exists
<1>5. misled' = misled \cup Robbed /\ misled \subseteq UIDs
  BY DEF ThingRemoved, TenantInv, QueueTypeOK
<1>6. Robbed \subseteq UIDs
  <2> SUFFICES ASSUME NEW t \in Tenants, tenants[t].ready PROVE tenants[t].uid \in UIDs
    BY DEF Robbed
  <2>1. tenants[t] \in TenantObjects /\ Versioned(tenants[t])
    BY <1>0 DEF ObjectsTypeOK, CopiesConsistent, CopyOf
  <2> QED
    BY <2>1, IdleValues DEF Versioned, Exists, TenantObjects
<1>7. ReadyUnlessMisled'
  <2> SUFFICES ASSUME NEW t \in Tenants, tenants[t].ready, ~tenants[t].deleting, tenants[t].uid \notin misled'
               PROVE  Provisioned(t)'
    BY DEF ReadyUnlessMisled
  <2>1. tenants[t].uid \notin Robbed /\ Provisioned(t)
    BY <1>0, <1>5 DEF ReadyUnlessMisled
  <2>2. Namespace[t] # Here \/ Item \notin Needed(t)
    BY <2>1 DEF Robbed
  <2>3. Namespace[t] \in Namespaces /\ Needed(t) \subseteq Kinds
    BY Lists DEF Namespaces, Needed
  <2>4. \A k \in Needed(t) : things'[Namespace[t]][k] = things[Namespace[t]][k]
    BY <1>2, <2>2, <2>3
  <2>5. Needed(t)' = Needed(t)
    BY DEF Needed
  <2> QED
    BY <2>1, <2>4, <2>5 DEF Provisioned
<1> QED
  BY <1>3, <1>4, <1>5, <1>6, <1>7 DEF ObjectsInv

\* An Update that is accepted was made from a copy of the Tenant as it is.
LEMMA UnchangedMeans ==
  ASSUME TenantInv, work.at # "idle", Unchanged(work.obj)
  PROVE  /\ work.tenant \in Tenants /\ tenants[work.tenant] = work.obj /\ Exists(work.obj)
         /\ work.obj \in TenantObjects /\ Versioned(work.obj)
<1>1. /\ work.tenant \in Tenants /\ CopyOf(work.tenant, work.obj) /\ Exists(work.obj)
      /\ work.obj \in TenantObjects
  BY DEF TenantInv, WorkInv, WorkTypeOK, WorkConsistent, Exists, UIDs
<1>2. /\ CopyOf(work.tenant, tenants[work.tenant]) /\ tenants[work.tenant] \in TenantObjects
  BY <1>1 DEF TenantInv, ObjectsInv, CopiesConsistent, ObjectsTypeOK
<1>3. /\ tenants[work.tenant].uid = work.obj.uid /\ tenants[work.tenant].version = work.obj.version
  BY DEF Unchanged
<1>4. /\ tenants[work.tenant].finalizer = work.obj.finalizer
      /\ tenants[work.tenant].ready = work.obj.ready
      /\ tenants[work.tenant].deleting = work.obj.deleting
  BY <1>1, <1>2, <1>3 DEF CopyOf, Versioned, Exists, Bit, TenantObjects
<1>5. tenants[work.tenant] = work.obj
  BY <1>1, <1>2, <1>3, <1>4 DEF TenantObjects
<1> QED
  BY <1>1, <1>5 DEF CopyOf

\* The finalizer is added.
LEMMA FinalizerAdded ==
  ASSUME TenantInv, work.at = "finalizer", Unchanged(work.obj), SetTenant(Finalized),
         UNCHANGED <<things, uids, named, seen, seenThings, misled>>
  PROVE  /\ ObjectsInv' /\ (work' = work => WorkInv')
         /\ tenants'[work.tenant] = Finalized /\ Finalized \in TenantObjects /\ Finalized.finalizer
         /\ Finalized.uid = work.obj.uid
<1>1. /\ work.tenant \in Tenants /\ tenants[work.tenant] = work.obj /\ Exists(work.obj)
      /\ work.obj \in TenantObjects /\ Versioned(work.obj) /\ ~work.obj.finalizer
  BY UnchangedMeans DEF TenantInv, WorkInv, WorkConsistent
<1>2. /\ Finalized.uid = work.obj.uid /\ Finalized.finalizer /\ Finalized.ready = work.obj.ready
      /\ Finalized.deleting = work.obj.deleting /\ Finalized.version = work.obj.version + 1
  BY <1>1 DEF Finalized, TenantObjects
<1>3. Finalized \in TenantObjects /\ Versioned(Finalized) /\ Exists(Finalized)
  <2>1. Exists(Finalized) /\ Versioned(Finalized)
    BY <1>1, <1>2 DEF Versioned, Exists, Bit
  <2>2. work.obj.version + 1 \in 0..4
    BY <1>1 DEF Versioned, Exists, Bit, TenantObjects
  <2>3. Finalized \in TenantObjects
    BY <1>1, <2>2 DEF Finalized, TenantObjects
  <2> QED
    BY <2>1, <2>3
<1>4. tenants' = [tenants EXCEPT ![work.tenant] = Finalized]
  BY DEF SetTenant
<1>5. tenants'[work.tenant] = Finalized
  BY <1>1, <1>4 DEF TenantInv, ObjectsInv, ObjectsTypeOK
<1>6. ObjectsInv' /\ (work' = work => WorkInv')
  BY <1>1, <1>2, <1>3, <1>4, TenantChanges
<1> QED
  BY <1>2, <1>3, <1>5, <1>6

\* The Ready condition is set: everything needed has been made or found.
LEMMA ReadySet ==
  ASSUME TenantInv, work.at = "provision", work.todo = <<>>, Unchanged(work.obj), SetTenant(MadeReady),
         UNCHANGED <<things, uids, named, seen, seenThings, misled>>
  PROVE  ObjectsInv'
<1>1. /\ work.tenant \in Tenants /\ tenants[work.tenant] = work.obj /\ Exists(work.obj)
      /\ work.obj \in TenantObjects /\ Versioned(work.obj)
  BY UnchangedMeans
<1>2. /\ MadeReady.uid = work.obj.uid /\ MadeReady.finalizer = work.obj.finalizer
      /\ MadeReady.ready /\ MadeReady.deleting = work.obj.deleting
  BY <1>1 DEF MadeReady, TenantObjects
<1>3. MadeReady \in TenantObjects /\ Versioned(MadeReady) /\ Exists(MadeReady)
  <2>1. CASE work.obj.ready
    BY <1>1, <2>1 DEF MadeReady
  <2>2. CASE ~work.obj.ready
    <3>1. MadeReady.version = work.obj.version + 1
      BY <1>1, <2>2 DEF MadeReady, TenantObjects
    <3>2. Exists(MadeReady) /\ Versioned(MadeReady)
      BY <1>1, <1>2, <2>2, <3>1 DEF Versioned, Exists, Bit
    <3>3. work.obj.version + 1 \in 0..4
      BY <1>1, <2>2 DEF Versioned, Exists, Bit, TenantObjects
    <3>4. MadeReady \in TenantObjects
      BY <1>1, <2>2, <3>3 DEF MadeReady, TenantObjects
    <3> QED
      BY <3>2, <3>4
  <2> QED
    BY <2>1, <2>2
<1>4. Provisioned(work.tenant) \/ MadeReady.uid \in misled
  <2>1. Waiting = {}
    BY DEF Waiting
  <2> QED
    BY <1>2, <2>1 DEF TenantInv, WorkInv, MadeSoFar, Here, Provisioned
<1>5. tenants' = [tenants EXCEPT ![work.tenant] = MadeReady]
  BY DEF SetTenant
<1> QED
  BY <1>1, <1>2, <1>3, <1>4, <1>5, TenantChanges

\* The finalizer is removed and with it the Tenant.
LEMMA TenantGone ==
  ASSUME TenantInv, work.at # "idle", SetTenant(NoTenant),
         UNCHANGED <<things, uids, named, seen, seenThings, misled>>
  PROVE  ObjectsInv'
<1>1. work.tenant \in Tenants
  BY DEF TenantInv, WorkInv, WorkTypeOK
<1> QED
  BY <1>1, IdleValues, TenantChanges DEF SetTenant

\* A step that leaves all objects alone.
LEMMA ObjectsStay ==
  ASSUME ObjectsInv, UNCHANGED <<tenants, things, uids, named, seen, seenThings>>, misled \subseteq misled'
  PROVE  ObjectsInv'
<1>1. ObjectsTypeOK' /\ CopiesConsistent' /\ ThingsOwned' /\ FinalizerHolds'
  BY DEF ObjectsInv, ObjectsTypeOK, CopiesConsistent, CopyOf, ThingsOwned, MadeFor, FinalizerHolds
<1>2. ReadyUnlessMisled'
  <2>1. \A t \in Tenants : Provisioned(t) => Provisioned(t)'
    BY DEF Provisioned, Needed
  <2> QED
    BY <2>1 DEF ObjectsInv, ReadyUnlessMisled
<1> QED
  BY <1>1, <1>2 DEF ObjectsInv

\* The worker takes a Tenant up.
LEMMA StartStep ==
  ASSUME TenantInv, NEW t \in Tenants, Start(t)
  PROVE  TenantInv'
<1>0. ObjectsTypeOK /\ CopiesConsistent /\ QueueTypeOK /\ WorkTypeOK
  BY DEF TenantInv, ObjectsInv, WorkInv
<1>1. /\ work.at = "idle" /\ queue' = queue \ {t} /\ UNCHANGED <<api, seen, seenThings, misled, bounds>>
  BY DEF Start, NothingToDo, FinalizeTenant, StartNew, StartKnown, Begin
<1>2. ObjectsInv' /\ QueueTypeOK'
  BY <1>0, <1>1, ObjectsStay DEF api, bounds, QueueTypeOK, TenantInv
<1>3. seen[t] \in TenantObjects /\ CopyOf(t, seen[t]) /\ CopyOf(t, seen[t])'
  BY <1>0, <1>1 DEF ObjectsTypeOK, CopiesConsistent, CopyOf, api
<1>4. ASSUME work' = work PROVE WorkInv'
  BY <1>0, <1>1, <1>4 DEF WorkInv, WorkTypeOK, WorkConsistent, RemovedSoFar, MadeSoFar
<1>5. ASSUME NEW l \in {"finalizer", "provision", "remove"}, NEW s \in Seq(Kinds), GoOn(t, l, s),
             Exists(seen[t]),
             l = "finalizer" => ~seen[t].finalizer,
             l = "provision" => seen[t].finalizer,
             l = "remove" => seen[t].deleting /\ s = Removals,
             l # "remove" => s = Provisions(t)
      PROVE  WorkInv'
  <2>1. work' = [at |-> l, tenant |-> t, obj |-> seen[t], todo |-> s]
    BY <1>5 DEF GoOn
  <2>2. WorkTypeOK'
    <3>1. seen[t].uid \in UIDs
      BY <1>3, <1>5 DEF TenantObjects, Exists
    <3> QED
      BY <1>3, <2>1, <3>1 DEF WorkTypeOK
  <2>3. WorkConsistent'
    <3>1. CopyOf(work.tenant, work.obj)'
      BY <1>1, <1>3, <2>1 DEF CopyOf, api
    <3> QED
      BY <1>5, <2>1, <3>1 DEF WorkConsistent
  <2>4. RemovedSoFar'
    BY <1>5, <2>1, Lists DEF RemovedSoFar, Waiting
  <2>5. MadeSoFar'
    BY <1>5, <2>1 DEF MadeSoFar, Waiting, Needed
  <2> QED
    BY <2>2, <2>3, <2>4, <2>5 DEF WorkInv
<1>6. CASE NothingToDo(t)
  BY <1>2, <1>4, <1>6 DEF NothingToDo, TenantInv
<1>7. CASE FinalizeTenant(t)
  <2>1. seen[t].deleting /\ GoOn(t, "remove", Removals)
    BY <1>7 DEF FinalizeTenant
  <2>2. Exists(seen[t])
    BY <1>3, <2>1, IdleValues DEF CopyOf, Versioned
  <2> QED
    BY <1>2, <1>5, <2>1, <2>2, Lists DEF TenantInv
<1>8. CASE StartNew(t)
  <2>1. Exists(seen[t]) /\ ~seen[t].finalizer /\ GoOn(t, "finalizer", Provisions(t))
    BY <1>8 DEF StartNew, HasFinalizer
  <2> QED
    BY <1>2, <1>5, <2>1, Lists DEF TenantInv
<1>9. CASE StartKnown(t)
  <2>1. Exists(seen[t]) /\ seen[t].finalizer /\ GoOn(t, "provision", Provisions(t))
    BY <1>9 DEF StartKnown, HasFinalizer
  <2> QED
    BY <1>2, <1>5, <2>1, Lists DEF TenantInv
<1> QED
  BY <1>6, <1>7, <1>8, <1>9 DEF Start

\* The work goes on with the rest of its list: what came next has been seen to.
LEMMA Continued ==
  ASSUME TenantInv, work.at \in {"provision", "remove"}, work.todo # <<>>,
         work' = [work EXCEPT !.todo = Tail(@)], UNCHANGED <<tenants, uids, named>>,
         \A n \in Namespaces, k \in Kinds : things'[n][k] # things[n][k] => n = Here /\ k = Item,
         work.at = "remove" => things'[Here][Item] = 0,
         misled \subseteq misled',
         work.at = "provision" => (things'[Here][Item] # 0 \/ work.obj.uid \in misled')
  PROVE  WorkInv'
<1>0. WorkTypeOK /\ WorkConsistent /\ RemovedSoFar /\ MadeSoFar
  BY DEF TenantInv, WorkInv
<1>1. /\ Tail(work.todo) \in Seq(Kinds) /\ Item = Head(work.todo) /\ Item \in Kinds
      /\ \A i \in DOMAIN work.todo :
           \/ work.todo[i] = Item
           \/ \E j \in DOMAIN Tail(work.todo) : Tail(work.todo)[j] = work.todo[i]
  <2>1. work.todo \in Seq(Kinds)
    BY <1>0 DEF WorkTypeOK
  <2> QED
    BY <2>1, TailElements DEF Item
<1>2. /\ work'.at = work.at /\ work'.tenant = work.tenant /\ work'.obj = work.obj
      /\ work'.todo = Tail(work.todo)
  BY <1>0 DEF WorkTypeOK
<1>3. WorkTypeOK'
  BY <1>0, <1>1, <1>2 DEF WorkTypeOK
<1>4. WorkConsistent'
  BY <1>0, <1>2 DEF WorkConsistent, CopyOf
<1>5. \A k : k \in Waiting => k = Item \/ k \in {work'.todo[i] : i \in DOMAIN work'.todo}
  BY <1>1, <1>2 DEF Waiting
<1>6. Here \in Namespaces /\ Here' = Here
  BY <1>0, <1>2 DEF WorkTypeOK, Here, Namespaces
<1>7. RemovedSoFar'
  BY <1>0, <1>2, <1>5, <1>6 DEF RemovedSoFar, Waiting, Kinds
<1>8. MadeSoFar'
  <2>1. Needed(work.tenant) \subseteq Kinds
    BY Lists DEF Needed
  <2> QED
    BY <1>0, <1>2, <1>5, <1>6, <2>1 DEF MadeSoFar, Waiting, Needed
<1> QED
  BY <1>3, <1>4, <1>7, <1>8 DEF WorkInv

\* A call of the API server that is answered.
LEMMA CallSteps ==
  ASSUME TenantInv, APICall
  PROVE  TenantInv'
<1>0. ObjectsInv /\ QueueTypeOK /\ WorkTypeOK /\ WorkConsistent
  BY DEF TenantInv, WorkInv
<1>1. ASSUME queue' = queue \/ (queue' = queue \cup {work.tenant} /\ work.tenant \in Tenants),
             UNCHANGED bounds, misled' = misled \/ misled' \subseteq UIDs
      PROVE  QueueTypeOK'
  BY <1>0, <1>1 DEF QueueTypeOK, bounds
<1>2. work.at # "idle" => work.tenant \in Tenants
  BY <1>0 DEF WorkTypeOK
<1>3. CASE AddFinalizer
  <2>1. /\ work.at = "finalizer" /\ Unchanged(work.obj) /\ SetTenant(Finalized)
        /\ work' = [work EXCEPT !.at = "provision", !.obj = Finalized]
        /\ UNCHANGED <<things, uids, named, seen, seenThings, queue, misled, bounds>>
    BY <1>3 DEF AddFinalizer
  <2>2. /\ ObjectsInv' /\ tenants'[work.tenant] = Finalized /\ Finalized \in TenantObjects
        /\ Finalized.finalizer /\ Finalized.uid = work.obj.uid
    BY <2>1, FinalizerAdded
  <2>3. /\ work'.at = "provision" /\ work'.tenant = work.tenant /\ work'.obj = Finalized
        /\ work'.todo = work.todo /\ WorkTypeOK'
    BY <1>0, <2>1, <2>2 DEF WorkTypeOK
  <2>4. WorkConsistent'
    BY <1>2, <2>1, <2>2, <2>3 DEF WorkConsistent, ObjectsInv, CopiesConsistent, CopyOf
  <2>5. MadeSoFar'
    BY <2>1, <2>2, <2>3 DEF TenantInv, WorkInv, MadeSoFar, Waiting, Needed, Here
  <2>6. RemovedSoFar'
    BY <2>3 DEF RemovedSoFar
  <2> QED
    BY <1>1, <2>1, <2>2, <2>3, <2>4, <2>5, <2>6 DEF TenantInv, WorkInv
<1>4. CASE Present
  <2>1. /\ work.at = "provision" /\ work.todo # <<>>
        /\ misled' = IF things[Here][Item] = 0 THEN misled \cup {work.obj.uid} ELSE misled
        /\ work' = [work EXCEPT !.todo = Tail(@)] /\ UNCHANGED queue
        /\ UNCHANGED <<tenants, things, uids, named, seen, seenThings, bounds>>
    BY <1>4 DEF Present, Provisioning, Continue, api
  <2>2. work.obj.uid \in UIDs
    BY <1>0, <2>1 DEF WorkTypeOK
  <2>3. misled \subseteq misled' /\ misled' \subseteq UIDs
    BY <1>0, <2>1, <2>2 DEF QueueTypeOK
  <2>4. WorkInv'
    BY <2>1, <2>3, Continued
  <2>5. ObjectsInv'
    BY <1>0, <2>1, <2>3, ObjectsStay
  <2> QED
    BY <1>1, <2>1, <2>3, <2>4, <2>5 DEF TenantInv
<1>5. CASE Create
  <2>1. /\ work.at = "provision" /\ work.todo # <<>> /\ SetThing(work.obj.uid)
        /\ work' = [work EXCEPT !.todo = Tail(@)] /\ UNCHANGED queue
        /\ UNCHANGED <<tenants, uids, named, seen, seenThings, misled, bounds>>
    BY <1>5 DEF Create, Provisioning, Continue
  <2>2. Item \in Kinds /\ Here \in Namespaces /\ work.obj.uid # 0
    BY <1>0, <1>2, <2>1, TailElements DEF WorkTypeOK, Item, Here, Namespaces, UIDs
  <2>3. \A n \in Namespaces, k \in Kinds :
          things'[n][k] = IF n = Here /\ k = Item THEN work.obj.uid ELSE things[n][k]
    BY <1>0, <2>1, <2>2 DEF SetThing, ObjectsInv, ObjectsTypeOK
  <2>4. ObjectsInv'
    BY <2>1, <2>2, ThingMade
  <2>5. WorkInv'
    BY <2>1, <2>2, <2>3, Continued
  <2> QED
    BY <1>1, <2>1, <2>4, <2>5 DEF TenantInv
<1>6. CASE CreateRefused \/ Conflict
  <2>1. /\ work' = Idle /\ queue' = queue \cup {work.tenant} /\ work.at # "idle"
        /\ UNCHANGED <<tenants, things, uids, named, seen, seenThings, misled, bounds>>
    BY <1>6 DEF CreateRefused, Conflict, Provisioning, EndLater, api
  <2> QED
    BY <1>0, <1>1, <1>2, <2>1, ObjectsStay, IdleWork DEF TenantInv
<1>7. CASE MarkReady
  <2>1. ObjectsInv'
    BY <1>7, ReadySet DEF MarkReady
  <2> QED
    BY <1>1, <1>7, <2>1, IdleWork DEF MarkReady, End, TenantInv
<1>8. CASE Remove
  <2>1. /\ work.at = "remove" /\ work.todo # <<>> /\ ThingRemoved
        /\ work' = [work EXCEPT !.todo = Tail(@)] /\ UNCHANGED queue
        /\ UNCHANGED <<tenants, uids, named, seen, seenThings, bounds>>
    BY <1>8 DEF Remove, Continue
  <2>2. Item \in Kinds /\ Here \in Namespaces
    BY <1>0, <1>2, <2>1, TailElements DEF WorkTypeOK, Item, Here, Namespaces
  <2>3. \A n \in Namespaces, k \in Kinds :
          things'[n][k] = IF n = Here /\ k = Item THEN 0 ELSE things[n][k]
    BY <1>0, <2>1, <2>2 DEF ThingRemoved, SetThing, ObjectsInv, ObjectsTypeOK
  <2>4. ObjectsInv' /\ misled' \subseteq UIDs /\ misled \subseteq misled'
    BY <2>1, <2>2, ThingTaken DEF ThingRemoved
  <2>5. WorkInv'
    BY <2>1, <2>2, <2>3, <2>4, Continued
  <2> QED
    BY <1>1, <2>1, <2>4, <2>5 DEF TenantInv
<1>9. CASE RemoveFinalizer
  <2>1. ObjectsInv'
    BY <1>9, TenantGone DEF RemoveFinalizer, AllRemoved
  <2> QED
    BY <1>1, <1>9, <2>1, IdleWork DEF RemoveFinalizer, End, TenantInv
<1> QED
  BY <1>3, <1>4, <1>5, <1>6, <1>7, <1>8, <1>9 DEF APICall

\* A call that fails, with or without its effect.
LEMMA FailureStep ==
  ASSUME TenantInv, CallFails
  PROVE  TenantInv'
<1>0. ObjectsInv /\ QueueTypeOK /\ WorkTypeOK
  BY DEF TenantInv, WorkInv
<1>1. /\ work.at # "idle" /\ work' = Idle /\ queue' = queue \cup {work.tenant}
      /\ faults' = faults + 1 /\ UNCHANGED <<uids, named, seen, seenThings, crashes>>
  BY DEF CallFails, EndLater
<1>2. WorkInv' /\ (misled' \subseteq UIDs => QueueTypeOK')
  BY <1>0, <1>1, IdleWork DEF WorkTypeOK, QueueTypeOK
<1>3. work.todo # <<>> => Item \in Kinds
  BY <1>0, TailElements DEF WorkTypeOK, Item
<1>4. misled \subseteq UIDs
  BY <1>0 DEF QueueTypeOK
<1>5. ObjectsInv' /\ misled' \subseteq UIDs
  <2>1. CASE UNCHANGED <<tenants, things, misled>>
    BY <1>0, <1>1, <1>4, <2>1, ObjectsStay
  <2>2. CASE /\ work.at = "finalizer" /\ Unchanged(work.obj)
             /\ SetTenant(Finalized) /\ UNCHANGED <<things, misled>>
    BY <1>1, <1>4, <2>2, FinalizerAdded
  <2>3. CASE Provisioning /\ SetThing(work.obj.uid) /\ UNCHANGED <<tenants, misled>>
    BY <1>1, <1>3, <1>4, <2>3, ThingMade DEF Provisioning
  <2>4. CASE /\ work.at = "provision" /\ work.todo = <<>> /\ Unchanged(work.obj)
             /\ SetTenant(MadeReady) /\ UNCHANGED <<things, misled>>
    BY <1>1, <1>4, <2>4, ReadySet
  <2>5. CASE work.at = "remove" /\ work.todo # <<>> /\ ThingRemoved /\ UNCHANGED tenants
    BY <1>1, <1>3, <2>5, ThingTaken
  <2>6. CASE SetTenant(NoTenant) /\ UNCHANGED <<things, misled>>
    BY <1>1, <1>4, <2>6, TenantGone
  <2> QED
    BY <2>1, <2>2, <2>3, <2>4, <2>5, <2>6 DEF CallFails
<1> QED
  BY <1>2, <1>5 DEF TenantInv

\* A Tenant as a user creates it.
LEMMA NewTenant ==
  ASSUME NEW u \in UIDs,
         NEW o, o = [NoTenant EXCEPT !.uid = u, !.version = 1]
  PROVE  /\ o.uid = u /\ o.version = 1 /\ ~o.finalizer /\ ~o.ready /\ ~o.deleting
         /\ o \in TenantObjects /\ Exists(o) /\ Versioned(o)
<1>1. NoTenant \in TenantObjects /\ ~NoTenant.finalizer /\ ~NoTenant.ready /\ ~NoTenant.deleting
  BY IdleValues
<1>2. u \in {0} \cup UIDs /\ 1 \in 0..4 /\ u # 0
  BY DEF UIDs
<1>3. /\ o.uid = u /\ o.version = 1 /\ o.finalizer = NoTenant.finalizer
      /\ o.ready = NoTenant.ready /\ o.deleting = NoTenant.deleting
  BY <1>1 DEF TenantObjects
<1>4. o \in TenantObjects
  BY <1>1, <1>2 DEF TenantObjects
<1>5. Exists(o) /\ Versioned(o)
  BY <1>1, <1>2, <1>3 DEF Exists, Versioned, Bit
<1> QED
  BY <1>1, <1>3, <1>4, <1>5

\* A user creates a Tenant: nothing in the API server or the caches was made for it.
LEMMA CreateStep ==
  ASSUME TenantInv, NEW x \in Tenants, UserCreates(x)
  PROVE  TenantInv'
<1> PICK o : o = [NoTenant EXCEPT !.uid = uids + 1, !.version = 1]
  OBVIOUS
<1>0. /\ ObjectsTypeOK /\ CopiesConsistent /\ ThingsOwned /\ FinalizerHolds
      /\ ReadyUnlessMisled /\ WorkTypeOK /\ WorkConsistent /\ QueueTypeOK
  BY DEF TenantInv, ObjectsInv, WorkInv
<1>1. /\ ~Exists(tenants[x]) /\ uids < MaxUIDs /\ uids' = uids + 1
      /\ named' = [named EXCEPT ![uids + 1] = x] /\ tenants' = [tenants EXCEPT ![x] = o]
      /\ UNCHANGED <<things, seen, seenThings, queue, work, misled, bounds>>
  BY DEF UserCreates
<1>2. /\ uids \in Nat /\ uids + 1 \in UIDs /\ named'[uids + 1] = x
      /\ \A u \in 1..uids : named'[u] = named[u]
      /\ named' \in [UIDs -> Tenants \cup {"none"}]
  BY <1>0, <1>1, TenantAssumption DEF ObjectsTypeOK, UIDs
<1>3. /\ o.uid = uids + 1 /\ o.version = 1 /\ ~o.finalizer /\ ~o.ready /\ ~o.deleting
      /\ o \in TenantObjects /\ Exists(o) /\ Versioned(o)
  BY <1>2, NewTenant
<1>4. tenants'[x] = o /\ \A t \in Tenants \ {x} : tenants'[t] = tenants[t]
  BY <1>0, <1>1 DEF ObjectsTypeOK
<1>5. ObjectsTypeOK'
  BY <1>0, <1>1, <1>2, <1>3, TenantAssumption DEF ObjectsTypeOK
<1>6. \A t \in Tenants, c \in TenantObjects : CopyOf(t, c) => CopyOf(t, c)'
  BY <1>0, <1>1, <1>2, <1>3, <1>4, CopyStays
<1>7. CopiesConsistent'
  <2>1. CopyOf(x, o)'
    BY <1>1, <1>2, <1>3, <1>4 DEF CopyOf
  <2>2. \A t \in Tenants : CopyOf(t, seen[t])' /\ CopyOf(t, tenants[t])'
    BY <1>0, <1>1, <1>4, <1>6, <2>1 DEF CopiesConsistent, ObjectsTypeOK
  <2> QED
    BY <2>2 DEF CopiesConsistent
<1>8. ASSUME NEW n \in Namespaces, NEW u \in {0} \cup UIDs, MadeFor(n, u)
      PROVE  MadeFor(n, u)' /\ u # uids + 1 /\ (u # 0 => u \in 1..uids /\ Namespace[named[u]] = n)
  <2>1. u # 0 => u \in 1..uids /\ Namespace[named[u]] = n
    BY <1>2, <1>8 DEF MadeFor, UIDs
  <2> QED
    BY <1>1, <1>2, <2>1 DEF MadeFor
<1>9. \A n \in Namespaces, k \in Kinds :
        things[n][k] \in {0} \cup UIDs /\ seenThings[n][k] \in {0} \cup UIDs
  BY <1>0 DEF ObjectsTypeOK
<1>10. ThingsOwned'
  <2> SUFFICES ASSUME NEW n \in Namespaces, NEW k \in Kinds
               PROVE  MadeFor(n, things[n][k])' /\ MadeFor(n, seenThings[n][k])'
    BY DEF ThingsOwned
  <2>1. MadeFor(n, things[n][k]) /\ MadeFor(n, seenThings[n][k])
    BY <1>0 DEF ThingsOwned
  <2> QED
    BY <1>1, <1>8, <1>9, <2>1 DEF MadeFor
<1>11. FinalizerHolds'
  <2> SUFFICES ASSUME NEW t \in Tenants, NEW n \in Namespaces, NEW k \in Kinds, Exists(tenants'[t]),
                      things[n][k] = tenants'[t].uid
               PROVE  tenants'[t].finalizer
    BY <1>1 DEF FinalizerHolds, Exists
  <2>1. things[n][k] # uids + 1
    BY <1>0, <1>8, <1>9 DEF ThingsOwned
  <2>2. tenants'[t] = tenants[t]
    BY <1>3, <1>4, <2>1
  <2> QED
    BY <1>0, <2>2 DEF FinalizerHolds
<1>12. ReadyUnlessMisled'
  <2> SUFFICES ASSUME NEW t \in Tenants, tenants'[t].ready, ~tenants'[t].deleting
               PROVE  Provisioned(t) \/ tenants'[t].uid \in misled
    BY <1>1 DEF ReadyUnlessMisled, Provisioned, Needed
  <2>1. tenants'[t] = tenants[t]
    BY <1>3, <1>4
  <2>2. tenants[t].ready /\ ~tenants[t].deleting
    BY <2>1
  <2> QED
    BY <1>0, <2>1, <2>2 DEF ReadyUnlessMisled
<1>13. WorkInv'
  <2>1. work.at # "idle" => CopyOf(work.tenant, work.obj)'
    <3>1. \A t \in Tenants, c \in TenantObjects :
            CopyOf(t, c) /\ work.tenant = t /\ work.obj = c => CopyOf(work.tenant, work.obj)'
      BY <1>1, <1>6 DEF CopyOf
    <3> QED
      BY <1>0, <3>1 DEF WorkTypeOK, WorkConsistent
  <2> QED
    BY <1>1, <2>1, WorkStays
<1> QED
  BY <1>0, <1>1, <1>5, <1>7, <1>10, <1>11, <1>12, <1>13 DEF TenantInv, ObjectsInv, QueueTypeOK, bounds

\* A user deletes a Tenant: with a finalizer it is marked, without it is gone.
LEMMA DeleteStep ==
  ASSUME TenantInv, NEW x \in Tenants, UserDeletes(x)
  PROVE  TenantInv'
<1> DEFINE o == IF tenants[x].finalizer THEN Marked(tenants[x]) ELSE NoTenant
<1>1. /\ Exists(tenants[x]) /\ ~tenants[x].deleting /\ tenants' = [tenants EXCEPT ![x] = o]
      /\ UNCHANGED <<things, uids, named, seen, seenThings, queue, work, misled, bounds>>
  BY DEF UserDeletes
<1>2. tenants[x] \in TenantObjects /\ Versioned(tenants[x])
  BY DEF TenantInv, ObjectsInv, ObjectsTypeOK, CopiesConsistent, CopyOf
<1>3. \/ o = NoTenant
      \/ /\ o.uid = tenants[x].uid /\ o.version = tenants[x].version + 1 /\ o.deleting
         /\ o.finalizer = tenants[x].finalizer /\ o.ready = tenants[x].ready
         /\ o.version \in 0..4 /\ o \in TenantObjects
  <2>1. CASE ~tenants[x].finalizer
    BY <2>1
  <2>2. CASE tenants[x].finalizer
    <3>1. tenants[x].version + 1 \in 0..4
      BY <1>1, <1>2 DEF Versioned, Exists, Bit, TenantObjects
    <3>2. o = Marked(tenants[x])
      BY <2>2
    <3> HIDE DEF o
    <3> QED
      BY <1>2, <3>1, <3>2 DEF Marked, TenantObjects
  <2> QED
    BY <2>1, <2>2
<1> HIDE DEF o
<1>4. o \in TenantObjects /\ Versioned(o) /\ (o.ready /\ ~o.deleting => FALSE)
  <2>1. CASE o = NoTenant
    BY <2>1, IdleValues
  <2>2. CASE o # NoTenant
    <3>1. Exists(o)
      BY <1>1, <1>3, <2>2 DEF Exists
    <3>2. Versioned(o)
      BY <1>1, <1>2, <1>3, <2>2, <3>1 DEF Versioned, Bit, TenantObjects
    <3> QED
      BY <1>3, <2>2, <3>2
  <2> QED
    BY <2>1, <2>2
<1>5. ObjectsInv' /\ WorkInv'
  <2>1. \/ o = NoTenant
        \/ /\ o.uid = tenants[x].uid /\ Exists(o)
           /\ tenants[x].finalizer => o.finalizer
           /\ tenants[x].ready => o.ready
           /\ tenants[x].deleting => o.deleting
    BY <1>1, <1>3 DEF Exists
  <2> QED
    BY <1>1, <1>4, <2>1, TenantChanges
<1> QED
  BY <1>1, <1>5 DEF TenantInv, QueueTypeOK, bounds

\* The cache learns of a Tenant.
LEMMA SyncTenantStep ==
  ASSUME TenantInv, NEW t \in Tenants, SyncTenant(t)
  PROVE  TenantInv'
<1>0. ObjectsInv /\ ObjectsTypeOK /\ CopiesConsistent /\ QueueTypeOK /\ WorkTypeOK /\ WorkConsistent
  BY DEF TenantInv, ObjectsInv, WorkInv
<1>1. /\ seen' = [seen EXCEPT ![t] = tenants[t]] /\ queue' = queue \cup {t}
      /\ UNCHANGED <<tenants, things, uids, named, seenThings, work, misled, bounds>>
  BY DEF SyncTenant, api
<1>2. ObjectsTypeOK' /\ CopiesConsistent'
  BY <1>0, <1>1 DEF ObjectsTypeOK, CopiesConsistent, CopyOf
<1>3. ObjectsInv'
  BY <1>0, <1>1, <1>2 DEF ObjectsInv, ThingsOwned, MadeFor, FinalizerHolds,
     ReadyUnlessMisled, Provisioned, Needed
<1>4. WorkInv'
  BY <1>0, <1>1, WorkStays DEF WorkConsistent, CopyOf
<1> QED
  BY <1>0, <1>1, <1>3, <1>4 DEF TenantInv, QueueTypeOK, bounds

\* The cache learns of the things of a kind.
LEMMA SyncThingsStep ==
  ASSUME TenantInv, NEW c \in Kinds, SyncThings(c)
  PROVE  TenantInv'
<1>0. ObjectsInv /\ ObjectsTypeOK /\ QueueTypeOK /\ WorkTypeOK /\ WorkConsistent
  BY DEF TenantInv, ObjectsInv, WorkInv
<1>1. /\ seenThings' = [n \in Namespaces |-> [seenThings[n] EXCEPT ![c] = things[n][c]]]
      /\ UNCHANGED <<tenants, things, uids, named, seen, queue, work, misled, bounds>>
  BY DEF SyncThings, api
<1>2. /\ seenThings' \in [Namespaces -> [Kinds -> {0} \cup UIDs]]
      /\ \A n \in Namespaces, k \in Kinds :
           seenThings'[n][k] = IF k = c THEN things[n][k] ELSE seenThings[n][k]
  BY <1>0, <1>1 DEF ObjectsTypeOK
<1>3. ObjectsTypeOK' /\ CopiesConsistent'
  BY <1>0, <1>1, <1>2 DEF ObjectsInv, ObjectsTypeOK, CopiesConsistent, CopyOf
<1>4. ThingsOwned' /\ FinalizerHolds'
  BY <1>0, <1>1, <1>2 DEF ObjectsInv, ThingsOwned, FinalizerHolds, MadeFor
<1>6. ReadyUnlessMisled'
  BY <1>0, <1>1 DEF ObjectsInv, ReadyUnlessMisled, Provisioned, Needed
<1>7. WorkInv'
  BY <1>0, <1>1, WorkStays DEF WorkConsistent, CopyOf
<1> QED
  BY <1>0, <1>1, <1>3, <1>4, <1>6, <1>7 DEF TenantInv, ObjectsInv, QueueTypeOK, bounds

\* A new process lists everything again.
LEMMA RestartStep ==
  ASSUME TenantInv, OperatorRestarts
  PROVE  TenantInv'
<1>0. ObjectsInv /\ ObjectsTypeOK /\ QueueTypeOK
  BY DEF TenantInv, ObjectsInv
<1>1. /\ work' = Idle /\ seen' = tenants /\ seenThings' = things
      /\ queue' = {t \in Tenants : Exists(tenants[t])} /\ crashes' = crashes + 1
      /\ UNCHANGED <<tenants, things, uids, named, misled, faults>>
  BY DEF OperatorRestarts, api
<1>2. ObjectsTypeOK' /\ CopiesConsistent'
  BY <1>0, <1>1 DEF ObjectsInv, ObjectsTypeOK, CopiesConsistent, CopyOf
<1>3. ThingsOwned' /\ FinalizerHolds' /\ ReadyUnlessMisled'
  BY <1>0, <1>1 DEF ObjectsInv, ThingsOwned, MadeFor, FinalizerHolds,
     ReadyUnlessMisled, Provisioned, Needed
<1> QED
  BY <1>0, <1>1, <1>2, <1>3, IdleWork DEF TenantInv, ObjectsInv, QueueTypeOK

\* At the start there is nothing.
LEMMA TenantInvInit == Init => TenantInv
<1> SUFFICES ASSUME Init PROVE TenantInv
  OBVIOUS
<1>1. /\ tenants = [t \in Tenants |-> NoTenant] /\ seen = tenants
      /\ things = [n \in Namespaces |-> [k \in Kinds |-> 0]] /\ seenThings = things
      /\ uids = 0 /\ named = [u \in UIDs |-> "none"] /\ queue = {} /\ work = Idle /\ misled = {}
      /\ faults = 0 /\ crashes = 0
  BY DEF Init
<1>2. ObjectsTypeOK /\ QueueTypeOK
  BY <1>1, IdleValues, TenantAssumption DEF ObjectsTypeOK, QueueTypeOK
<1>3. CopiesConsistent /\ ThingsOwned /\ FinalizerHolds /\ ReadyUnlessMisled
  BY <1>1, IdleValues DEF CopiesConsistent, CopyOf, ThingsOwned, MadeFor, FinalizerHolds,
     ReadyUnlessMisled, Namespaces
<1>4. WorkInv
  BY <1>1, IdleValues DEF WorkInv, WorkTypeOK, WorkConsistent, RemovedSoFar, MadeSoFar
<1> QED
  BY <1>2, <1>3, <1>4 DEF TenantInv, ObjectsInv

\* Every step keeps the invariant.
LEMMA TenantInvStep == TenantInv /\ [Next]_vars => TenantInv'
<1> SUFFICES ASSUME TenantInv, [Next]_vars PROVE TenantInv'
  OBVIOUS
<1>1. CASE \E t \in Tenants : Start(t) \/ SyncTenant(t) \/ UserCreates(t) \/ UserDeletes(t)
  BY <1>1, StartStep, SyncTenantStep, CreateStep, DeleteStep
<1>2. CASE APICall
  BY <1>2, CallSteps
<1>3. CASE CallFails
  BY <1>3, FailureStep
<1>4. CASE OperatorRestarts
  BY <1>4, RestartStep
<1>5. CASE \E k \in Kinds : SyncThings(k)
  BY <1>5, SyncThingsStep
<1>6. CASE UNCHANGED vars
  <2>1. UNCHANGED <<tenants, things, uids, named, seen, seenThings, queue, work, misled, faults, crashes>>
    BY <1>6 DEF vars, api, bounds
  <2>2. ObjectsInv'
    BY <2>1, ObjectsStay DEF TenantInv
  <2>3. WorkInv'
    BY <2>1, WorkStays DEF TenantInv, WorkInv, WorkConsistent, CopyOf
  <2> QED
    BY <2>1, <2>2, <2>3 DEF TenantInv, QueueTypeOK
<1> QED
  BY <1>1, <1>2, <1>3, <1>4, <1>5, <1>6 DEF Next

\* The values of all variables agree with each other in every reachable state: an old copy
\* with the version of the Tenant is the Tenant, things exist only for Tenants that hold a
\* finalizer, and what a reconcile has made or taken away so far is there or gone.
THEOREM TenantInvariance == Spec => []TenantInv
<1> QED
  BY TenantInvInit, TenantInvStep, PTL DEF Spec

\* A Tenant is Ready only when what the reconciler makes for it (its namespace and, for a
\* dedicated A2A bus, the Secret, the Deployment and the Service of its gateway) is there,
\* unless the cache showed it a thing that was already gone, or the deletion of another
\* Tenant of the namespace took one away since (ensureNamespace and the others take what the
\* cache has for their own, handleDeletion deletes by name).
THEOREM ReadyUnlessMisledHolds == Spec => []ReadyUnlessMisled
<1>1. TenantInv => ReadyUnlessMisled
  BY DEF TenantInv, ObjectsInv
<1> QED
  BY <1>1, TenantInvariance, PTL

\* An Update of the Tenant in work that keeps its uid takes no Tenant away.
LEMMA UpdateKeepsUID ==
  ASSUME TenantInv, work.at # "idle", Unchanged(work.obj), NEW o, o.uid = work.obj.uid,
         SetTenant(o), NEW t \in Tenants
  PROVE  tenants'[t].uid = tenants[t].uid
<1>1. work.tenant \in Tenants /\ tenants[work.tenant] = work.obj
  BY UnchangedMeans
<1>2. tenants' = [tenants EXCEPT ![work.tenant] = o]
  BY DEF SetTenant
<1> QED
  BY <1>1, <1>2 DEF TenantInv, ObjectsInv, ObjectsTypeOK

\* The steps that take a Tenant away: a user's deletion of one that has no finalizer yet,
\* and the removal of the finalizer, answered or not.
LEMMA TenantLeaves ==
  ASSUME TenantInv, [Next]_vars, NEW t \in Tenants, Exists(tenants[t]), tenants'[t].uid # tenants[t].uid
  PROVE  \/ ~tenants[t].finalizer
         \/ AllRemoved /\ Unchanged(work.obj) /\ t = work.tenant
<1>0. ObjectsTypeOK /\ WorkTypeOK
  BY DEF TenantInv, ObjectsInv, WorkInv
<1>1. tenants' # tenants
  OBVIOUS
<1>2. CASE \E x \in Tenants : Start(x) \/ SyncTenant(x) \/ UserCreates(x) \/ UserDeletes(x)
  <2> PICK x \in Tenants : Start(x) \/ SyncTenant(x) \/ UserCreates(x) \/ UserDeletes(x)
    BY <1>2
  <2>1. UserCreates(x) \/ UserDeletes(x)
    BY <1>1 DEF Start, NothingToDo, FinalizeTenant, StartNew, StartKnown, Begin, SyncTenant, api
  <2>2. t = x
    BY <1>0, <2>1 DEF UserCreates, UserDeletes, ObjectsTypeOK
  <2>3. UserDeletes(t)
    BY <2>1, <2>2 DEF UserCreates
  <2>4. CASE tenants[t].finalizer
    <3>1. tenants[t] \in TenantObjects
      BY <1>0 DEF ObjectsTypeOK
    <3>2. tenants'[t] = Marked(tenants[t])
      BY <1>0, <2>3, <2>4 DEF UserDeletes, ObjectsTypeOK
    <3> QED
      BY <3>1, <3>2 DEF Marked, TenantObjects
  <2> QED
    BY <2>4
<1>3. Finalized.uid = work.obj.uid /\ MadeReady.uid = work.obj.uid
  BY <1>0 DEF WorkTypeOK, TenantObjects, Finalized, MadeReady
<1>4. ASSUME work.at # "idle", Unchanged(work.obj), SetTenant(Finalized) \/ SetTenant(MadeReady)
      PROVE  FALSE
  BY <1>3, <1>4, UpdateKeepsUID
<1>5. ASSUME SetTenant(NoTenant) PROVE t = work.tenant
  BY <1>0, <1>5 DEF SetTenant, ObjectsTypeOK
<1>6. CASE APICall
  <2>1. AddFinalizer \/ MarkReady \/ RemoveFinalizer
    BY <1>1, <1>6 DEF APICall, Present, Create, CreateRefused, Remove, Conflict, api
  <2> QED
    BY <1>4, <1>5, <2>1 DEF AddFinalizer, MarkReady, RemoveFinalizer, AllRemoved
<1>7. CASE CallFails
  BY <1>1, <1>4, <1>5, <1>7 DEF CallFails
<1> QED
  BY <1>1, <1>2, <1>6, <1>7 DEF Next, OperatorRestarts, SyncThings, vars, api

\* When a Tenant goes, nothing of its gateway is left in any namespace: handleDeletion
\* removes the finalizer last, and only from the very Tenant it has cleaned up after, and
\* Reconcile adds it before it makes anything.
THEOREM TenantsLeaveNothing == Spec => NothingIsLeftBehind
<1>1. ASSUME TenantInv, [Next]_vars, NEW t \in Tenants, Exists(tenants[t]),
             tenants'[t].uid # tenants[t].uid, NEW n \in Namespaces, NEW k \in Gateway
      PROVE  things[n][k] # tenants[t].uid
  <2>0. ThingsOwned /\ FinalizerHolds /\ CopiesConsistent /\ RemovedSoFar /\ WorkTypeOK
    BY <1>1 DEF TenantInv, ObjectsInv, WorkInv
  <2>1. k \in Kinds
    BY DEF Kinds
  <2>2. CASE ~tenants[t].finalizer
    BY <1>1, <2>0, <2>1, <2>2 DEF FinalizerHolds
  <2>3. CASE AllRemoved /\ Unchanged(work.obj) /\ t = work.tenant
    <3>1. Waiting = {} /\ Here = Namespace[t]
      BY <2>3 DEF Waiting, AllRemoved, Here
    <3>2. things[Namespace[t]][k] = 0
      BY <2>0, <2>3, <3>1 DEF RemovedSoFar, AllRemoved
    <3>3. ASSUME things[n][k] = tenants[t].uid PROVE n = Namespace[t]
      <4>1. MadeFor(n, tenants[t].uid)
        BY <2>0, <2>1, <3>3 DEF ThingsOwned
      <4>2. named[tenants[t].uid] = t
        BY <1>1, <2>0 DEF CopiesConsistent, CopyOf
      <4> QED
        BY <1>1, <4>1, <4>2 DEF MadeFor, Exists
    <3> QED
      BY <1>1, <3>2, <3>3 DEF Exists
  <2> QED
    BY <1>1, <2>2, <2>3, TenantLeaves
<1>2. TenantInv /\ [Next]_vars =>
        [\A t \in Tenants : Exists(tenants[t]) /\ tenants'[t].uid # tenants[t].uid =>
           \A n \in Namespaces, k \in Gateway : things[n][k] # tenants[t].uid]_vars
  BY <1>1
<1> QED
  BY <1>2, TenantInvariance, PTL DEF Spec, NothingIsLeftBehind
=============================================================================
