-------------------------- MODULE TenantReconciler --------------------------
(***************************************************************************)
(* TenantReconciler (platform/k8s/reconcilers/tenant_reconciler.go): adds  *)
(* a finalizer to a Tenant, makes its namespace and, for a dedicated A2A   *)
(* bus, a Secret, a Deployment and a Service of fixed names; on deletion   *)
(* removes these three and then the finalizer.  Only Tenants are watched.  *)
(*                                                                         *)
(* As in module AgentJobReconciler a step is one call of the API server,   *)
(* reads come from caches that lag, and there is one worker.  The API      *)
(* server, the caches and the queue are external.  The garbage collector   *)
(* is left out: it removes objects whose owner is gone, and                *)
(* NothingIsLeftBehind shows that no gateway ever is one (the namespace    *)
(* has no owner).  crd-types.md:237 has Ready mean RBAC and a dedicated    *)
(* message bus too: the code makes neither, so there is none here.         *)
(***************************************************************************)
EXTENDS Integers, Sequences

CONSTANTS Tenants,       \* names of Tenants
          Namespace,     \* Namespace[t]: spec.namespace
          WithGateway,   \* Tenants whose bus is A2A and dedicated
          MaxUIDs,       \* bound on Tenants ever created
          MaxFaults,     \* bound on failed API calls
          MaxCrashes     \* bound on restarts of the operator

ASSUME TenantAssumption == MaxUIDs \in Nat /\ "none" \notin Tenants

Namespaces == {Namespace[t] : t \in Tenants}
Gateway == {"secret", "deployment", "service"}
Kinds == {"namespace"} \cup Gateway

\* The order in which things are made, and taken away.
Provisions(t) == IF t \in WithGateway THEN <<"namespace", "secret", "deployment", "service">>
                                      ELSE <<"namespace">>
Removals == <<"deployment", "service", "secret">>

UIDs == 1..MaxUIDs
NoTenant == [uid |-> 0, version |-> 0, finalizer |-> FALSE, deleting |-> FALSE, ready |-> FALSE]
Idle == [at |-> "idle", tenant |-> "none", obj |-> NoTenant, todo |-> <<>>]

VARIABLES
  tenants,      \* tenants[t]: the Tenant in the API server
  things,       \* things[n][k]: uid of the Tenant the object was made for, 0 if none
  uids, named,  \* the last uid given; named[u]: the name of the Tenant it was given to
  seen, seenThings,   \* the informer caches
  queue,        \* names of Tenants to reconcile
  work,         \* the reconcile in progress
  misled,       \* uids of Tenants for which a deleted thing was taken for present, or
                \* that have lost one to the deletion of another Tenant
  faults, crashes

api == <<tenants, things, uids, named>>
bounds == <<faults, crashes>>
vars == <<api, seen, seenThings, queue, work, misled, bounds>>

TenantObjects == [uid : {0} \cup UIDs, version : 0..4, finalizer : BOOLEAN,
                  deleting : BOOLEAN, ready : BOOLEAN]

ObjectsTypeOK ==
  /\ tenants \in [Tenants -> TenantObjects] /\ seen \in [Tenants -> TenantObjects]
  /\ things \in [Namespaces -> [Kinds -> {0} \cup UIDs]]
  /\ seenThings \in [Namespaces -> [Kinds -> {0} \cup UIDs]]
  /\ uids \in 0..MaxUIDs /\ named \in [UIDs -> Tenants \cup {"none"}]
QueueTypeOK == queue \subseteq Tenants /\ misled \subseteq UIDs /\ faults \in Nat /\ crashes \in Nat
WorkTypeOK ==
  /\ work \in [at : {"idle", "finalizer", "provision", "remove"}, tenant : Tenants \cup {"none"},
              obj : TenantObjects, todo : Seq(Kinds)]
  /\ work.at # "idle" => work.tenant \in Tenants /\ work.obj.uid \in UIDs
TypeOK == ObjectsTypeOK /\ QueueTypeOK /\ WorkTypeOK

Init ==
  /\ tenants = [t \in Tenants |-> NoTenant] /\ seen = tenants
  /\ things = [n \in Namespaces |-> [k \in Kinds |-> 0]] /\ seenThings = things
  /\ uids = 0 /\ named = [u \in UIDs |-> "none"]
  /\ queue = {}
  /\ work = Idle
  /\ misled = {}
  /\ faults = 0 /\ crashes = 0

Exists(o) == o.uid # 0

-----------------------------------------------------------------------------
(* Reconcile *)

Begin(t) ==
  /\ work.at = "idle" /\ t \in queue
  /\ queue' = queue \ {t}
  /\ UNCHANGED <<api, seen, seenThings, misled, bounds>>

GoOn(t, place, steps) ==
  work' = [at |-> place, tenant |-> t, obj |-> seen[t], todo |-> steps]

NothingToDo(t) ==
  /\ Begin(t)
  /\ ~Exists(seen[t]) \/ (seen[t].deleting /\ ~seen[t].finalizer)
  /\ UNCHANGED work

FinalizeTenant(t) ==
  /\ Begin(t)
  /\ seen[t].deleting /\ seen[t].finalizer
  /\ GoOn(t, "remove", Removals)

\* The finalizer comes before anything that it will have to clean up.
HasFinalizer(t) == seen[t].finalizer

StartNew(t) ==
  /\ Begin(t)
  /\ Exists(seen[t]) /\ ~seen[t].deleting /\ ~HasFinalizer(t)
  /\ GoOn(t, "finalizer", Provisions(t))

StartKnown(t) ==
  /\ Begin(t)
  /\ Exists(seen[t]) /\ ~seen[t].deleting /\ HasFinalizer(t)
  /\ GoOn(t, "provision", Provisions(t))

Start(t) == NothingToDo(t) \/ FinalizeTenant(t) \/ StartNew(t) \/ StartKnown(t)

-----------------------------------------------------------------------------
(* API calls *)

\* Update and Status().Update are refused if the object has changed since it was read.
Unchanged(o) == tenants[work.tenant].uid = o.uid /\ tenants[work.tenant].version = o.version

SetTenant(o) == tenants' = [tenants EXCEPT ![work.tenant] = o]

\* The answer to an Update carries the new version.
Finalized == [work.obj EXCEPT !.finalizer = TRUE, !.version = @ + 1]
\* An update that changes nothing makes no new version, and wakes nobody.
ReadyEachTime == [work.obj EXCEPT !.ready = TRUE, !.version = @ + 1]
MadeReady == IF work.obj.ready THEN work.obj
                               ELSE [work.obj EXCEPT !.ready = TRUE, !.version = @ + 1]

Here == Namespace[work.tenant]
Item == Head(work.todo)
SetThing(u) == things' = [things EXCEPT ![Here][Item] = u]

End == work' = Idle /\ UNCHANGED queue
ErrorSwallowed == work' = Idle /\ UNCHANGED queue
EndLater == work' = Idle /\ queue' = queue \cup {work.tenant}
Continue == work' = [work EXCEPT !.todo = Tail(@)] /\ UNCHANGED queue

AddFinalizer ==
  /\ work.at = "finalizer" /\ Unchanged(work.obj)
  /\ SetTenant(Finalized)
  /\ work' = [work EXCEPT !.at = "provision", !.obj = Finalized]
  /\ UNCHANGED <<things, uids, named, seen, seenThings, queue, misled, bounds>>

Provisioning == work.at = "provision" /\ work.todo # <<>>

\* Each ensure function asks the cache, whoever the object belongs to ...
Present ==
  /\ Provisioning /\ seenThings[Here][Item] # 0
  /\ misled' = IF things[Here][Item] = 0 THEN misled \cup {work.obj.uid} ELSE misled
  /\ Continue
  /\ UNCHANGED <<api, seen, seenThings, bounds>>

\* ... and creates what it does not find.
CreateFirstOnly ==
  /\ Provisioning /\ seenThings[Here][Item] = 0 /\ things[Here][Item] = 0
  /\ SetThing(work.obj.uid)
  /\ work' = [work EXCEPT !.todo = <<>>] /\ UNCHANGED queue
  /\ UNCHANGED <<tenants, uids, named, seen, seenThings, misled, bounds>>
Create ==
  /\ Provisioning /\ seenThings[Here][Item] = 0 /\ things[Here][Item] = 0
  /\ SetThing(work.obj.uid)
  /\ Continue
  /\ UNCHANGED <<tenants, uids, named, seen, seenThings, misled, bounds>>

\* AlreadyExists is an error here.
CreateRefused ==
  /\ Provisioning /\ seenThings[Here][Item] = 0 /\ things[Here][Item] # 0
  /\ EndLater
  /\ UNCHANGED <<api, seen, seenThings, misled, bounds>>

MarkReady ==
  /\ work.at = "provision" /\ work.todo = <<>> /\ Unchanged(work.obj)
  /\ SetTenant(MadeReady)
  /\ End
  /\ UNCHANGED <<things, uids, named, seen, seenThings, misled, bounds>>

\* Deleted by name, whoever it was made for; NotFound is ignored.
Needed(t) == {Provisions(t)[i] : i \in DOMAIN Provisions(t)}
Robbed == {tenants[t].uid : t \in {x \in Tenants :
             tenants[x].ready /\ ~tenants[x].deleting /\ Namespace[x] = Here /\ Item \in Needed(x)}}
ThingRemoved == SetThing(0) /\ misled' = misled \cup Robbed

Remove ==
  /\ work.at = "remove" /\ work.todo # <<>>
  /\ ThingRemoved
  /\ Continue
  /\ UNCHANGED <<tenants, uids, named, seen, seenThings, bounds>>

\* Without its last finalizer the Tenant is gone.
FinalizerFirst == work.at = "remove"
AllRemoved == work.at = "remove" /\ work.todo = <<>>

RemoveFinalizer ==
  /\ AllRemoved /\ Unchanged(work.obj)
  /\ SetTenant(NoTenant)
  /\ End
  /\ UNCHANGED <<things, uids, named, seen, seenThings, misled, bounds>>

Conflict ==
  /\ work.at = "finalizer" \/ (work.at \in {"provision", "remove"} /\ work.todo = <<>>)
  /\ ~Unchanged(work.obj)
  /\ EndLater
  /\ UNCHANGED <<api, seen, seenThings, misled, bounds>>

APICall ==
  \/ AddFinalizer \/ Present \/ Create \/ CreateRefused \/ MarkReady
  \/ Remove \/ RemoveFinalizer \/ Conflict

\* A call fails (an unset MUTO_A2A_GATEWAY_IMAGE is one way), with or without its
\* effect.
CallFails ==
  /\ work.at # "idle" /\ faults < MaxFaults
  /\ faults' = faults + 1
  /\ \/ UNCHANGED <<tenants, things, misled>>
     \/ /\ work.at = "finalizer" /\ Unchanged(work.obj)
        /\ SetTenant(Finalized) /\ UNCHANGED <<things, misled>>
     \/ /\ Provisioning /\ seenThings[Here][Item] = 0 /\ things[Here][Item] = 0
        /\ SetThing(work.obj.uid) /\ UNCHANGED <<tenants, misled>>
     \/ /\ work.at = "provision" /\ work.todo = <<>> /\ Unchanged(work.obj)
        /\ SetTenant(MadeReady) /\ UNCHANGED <<things, misled>>
     \/ work.at = "remove" /\ work.todo # <<>> /\ ThingRemoved /\ UNCHANGED tenants
     \/ AllRemoved /\ Unchanged(work.obj) /\ SetTenant(NoTenant) /\ UNCHANGED <<things, misled>>
  /\ EndLater
  /\ UNCHANGED <<uids, named, seen, seenThings, crashes>>

-----------------------------------------------------------------------------
(* Caches, restarts and users *)

SyncTenant(t) ==
  /\ seen[t] # tenants[t]
  /\ seen' = [seen EXCEPT ![t] = tenants[t]]
  /\ queue' = queue \cup {t}
  /\ UNCHANGED <<api, seenThings, work, misled, bounds>>

\* Each kind has its own informer; none of them wakes the reconciler.
SyncThings(k) ==
  /\ \E n \in Namespaces : seenThings[n][k] # things[n][k]
  /\ seenThings' = [n \in Namespaces |-> [seenThings[n] EXCEPT ![k] = things[n][k]]]
  /\ UNCHANGED <<api, seen, queue, work, misled, bounds>>

OperatorRestarts ==
  /\ crashes < MaxCrashes
  /\ crashes' = crashes + 1
  /\ work' = Idle
  /\ seen' = tenants /\ seenThings' = things
  /\ queue' = {t \in Tenants : Exists(tenants[t])}
  /\ UNCHANGED <<api, misled, faults>>

UserCreates(t) ==
  /\ ~Exists(tenants[t]) /\ uids < MaxUIDs
  /\ uids' = uids + 1 /\ named' = [named EXCEPT ![uids + 1] = t]
  /\ tenants' = [tenants EXCEPT ![t] = [NoTenant EXCEPT !.uid = uids + 1, !.version = 1]]
  /\ UNCHANGED <<things, seen, seenThings, queue, work, misled, bounds>>

\* A Tenant with a finalizer is only marked.
Marked(o) == [o EXCEPT !.deleting = TRUE, !.version = @ + 1]
UserDeletes(t) ==
  /\ Exists(tenants[t]) /\ ~tenants[t].deleting
  /\ tenants' = [tenants EXCEPT ![t] = IF @.finalizer THEN Marked(@) ELSE NoTenant]
  /\ UNCHANGED <<things, uids, named, seen, seenThings, queue, work, misled, bounds>>

Next ==
  \/ \E t \in Tenants : Start(t) \/ SyncTenant(t) \/ UserCreates(t) \/ UserDeletes(t)
  \/ APICall \/ CallFails \/ OperatorRestarts
  \/ \E k \in Kinds : SyncThings(k)

Spec == Init /\ [][Next]_vars

\* The worker goes on, the queue is first in first out, caches catch up.
FairSpec ==
  /\ Spec
  /\ WF_vars(APICall)
  /\ \A t \in Tenants : SF_vars(Start(t)) /\ WF_vars(SyncTenant(t))
  /\ \A k \in Kinds : WF_vars(SyncThings(k))

-----------------------------------------------------------------------------
(* Properties *)

\* When a Tenant goes, nothing of its gateway is left (the namespace stays): neither a
\* restart nor a failed call half-way through, nor a deletion that races the first
\* reconcile, lets the Tenant go before its gateway.
NothingIsLeftBehind ==
  [][\A t \in Tenants : Exists(tenants[t]) /\ tenants'[t].uid # tenants[t].uid =>
       \A n \in Namespaces, k \in Gateway : things[n][k] # tenants[t].uid]_vars

\* Everything that the reconciler makes for a Tenant is there.
Provisioned(t) == \A k \in Needed(t) : things[Namespace[t]][k] # 0

\* A Ready Tenant has "exactly two things": its namespace and, if it asked for one, its
\* gateway.  Ready is wrong in these ways only: the cache showed a thing that had been
\* deleted with an earlier Tenant, or another Tenant of that namespace was deleted since and
\* the things of both have one name.
ReadyUnlessMisled ==
  \A t \in Tenants :
    tenants[t].ready /\ ~tenants[t].deleting => Provisioned(t) \/ tenants[t].uid \in misled

\* A Tenant becomes Ready or is deleted, through failed calls and AlreadyExists from
\* a cache that is behind.
TenantSettles ==
  \A t \in Tenants, u \in UIDs :
    tenants[t].uid = u ~> tenants[t].uid # u \/ tenants[t].ready \/ tenants[t].deleting

\* A deleted Tenant goes: its finalizer does not hold it for ever.
DeletedTenantGoes ==
  \A t \in Tenants, u \in UIDs :
    tenants[t].uid = u /\ tenants[t].deleting ~> tenants[t].uid # u

-----------------------------------------------------------------------------
(* The inductive invariant behind the first two *)

\* The version counts what has happened to a Tenant, so that an old copy with the
\* version of the Tenant is the Tenant.
Bit(b) == IF b THEN 1 ELSE 0
Versioned(o) ==
  IF Exists(o) THEN o.version = 1 + Bit(o.finalizer) + Bit(o.ready) + Bit(o.deleting)
               ELSE o = NoTenant

\* o is the Tenant t, or a copy of it or of an earlier one of that name: what has
\* happened to the copy has happened to the Tenant.
CopyOf(t, o) ==
  /\ Versioned(o)
  /\ Exists(o) => o.uid <= uids /\ named[o.uid] = t
  /\ Exists(o) /\ tenants[t].uid = o.uid =>
       /\ o.finalizer => tenants[t].finalizer
       /\ o.ready => tenants[t].ready
       /\ o.deleting => tenants[t].deleting
CopiesConsistent == \A t \in Tenants : CopyOf(t, tenants[t]) /\ CopyOf(t, seen[t])

WorkConsistent ==
  /\ work.at # "idle" => CopyOf(work.tenant, work.obj)
  /\ work.at = "finalizer" => ~work.obj.finalizer
  /\ work.at = "provision" => work.obj.finalizer
  /\ work.at = "remove" => work.obj.deleting

\* A thing was made for a Tenant whose namespace it is in, and that has its finalizer.
MadeFor(n, u) == u # 0 => u <= uids /\ Namespace[named[u]] = n
ThingsOwned ==
  \A n \in Namespaces, k \in Kinds : MadeFor(n, things[n][k]) /\ MadeFor(n, seenThings[n][k])
FinalizerHolds ==
  \A t \in Tenants, n \in Namespaces, k \in Kinds :
    Exists(tenants[t]) /\ things[n][k] = tenants[t].uid => tenants[t].finalizer

\* What the work in progress has taken away is gone, and what it has made or found is there,
\* unless it was misled.
Waiting == {work.todo[i] : i \in DOMAIN work.todo}
RemovedSoFar ==
  work.at = "remove" => \A k \in Gateway : k \in Waiting \/ things[Here][k] = 0
MadeSoFar ==
  work.at \in {"finalizer", "provision"} =>
    \A k \in Needed(work.tenant) :
      k \in Waiting \/ things[Here][k] # 0 \/ work.obj.uid \in misled

ObjectsInv ==
  ObjectsTypeOK /\ CopiesConsistent /\ ThingsOwned /\ FinalizerHolds /\ ReadyUnlessMisled
WorkInv == WorkTypeOK /\ WorkConsistent /\ RemovedSoFar /\ MadeSoFar

TenantInv == ObjectsInv /\ QueueTypeOK /\ WorkInv
=============================================================================
