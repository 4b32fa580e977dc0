----------------------------- MODULE CFPlacement -----------------------------
(***************************************************************************)
(* Where CFAdapter.SpawnAgent runs a task: resolveSpaceGUID with its GUID  *)
(* cache, ensureRunnerApp and RunTask, for concurrent SpawnAgent calls.    *)
(* Every API call is a step of its own and can fail; meanwhile operators   *)
(* delete and re-create orgs and spaces and cache entries expire.          *)
(*                                                                         *)
(* Cloud Foundry is external.  A place is an org or a space: its GUID is a *)
(* number never used twice, and an app lives in a space.  Names of apps    *)
(* are unique in a space.                                                  *)
(***************************************************************************)
EXTENDS Integers, Sequences

CONSTANTS Spawns,       \* SpawnAgent calls
          Tenant,       \* Tenant[c]: spec.TenantRef
          Role,         \* Role[c]: role.Role
          InitialPlaces(_),   \* the orgs and spaces at the start, in order of their
                        \* GUIDs, for either isolation tier
          MaxGUID,      \* bound on the places ever created
          MaxFaults     \* bound on API calls that fail although they could have worked

NoGUID == 0

Tenants == {Tenant[c] : c \in Spawns}
GUIDs == 1..MaxGUID

\* The org and the space a tenant's agents belong to, on either tier.
OrgNameIn(d, t) == IF d THEN t ELSE "shared"
SpaceNameIn(d, t) == IF d THEN "muto-agents" ELSE t

Org(n) == [kind |-> "org", name |-> n, org |-> NoGUID]
Space(g, n) == [kind |-> "space", name |-> n, org |-> g]
Unused == [kind |-> "unused", name |-> "none", org |-> NoGUID]

\* The foundation has been prepared: no two places are the same, and every tenant has an
\* org and a space in it.
ASSUME PlacesAssumption ==
  /\ MaxGUID \in Nat /\ MaxFaults \in Nat
  /\ \A d \in BOOLEAN : LET P == InitialPlaces(d) IN
       /\ P \in Seq({P[i] : i \in DOMAIN P} \ {Unused}) /\ Len(P) <= MaxGUID
       /\ \A i, j \in DOMAIN P : P[i] = P[j] => i = j
       /\ \A t \in Tenants : \E i, j \in DOMAIN P :
            P[i] = Org(OrgNameIn(d, t)) /\ P[j] = Space(i, SpaceNameIn(d, t))

VARIABLES
  dedicated,   \* config.IsolationTier = "dedicated", set when the adapter is made
  place,    \* place[g]: what the GUID g was given to, "unused" before
  alive,    \* GUIDs of orgs and spaces that exist
  apps,     \* <<space GUID, app name>> of the apps that exist
  orgCache, spaceCache,   \* the unexpired entries of the GUID cache
  pc, org, space,         \* per call: position, orgGUID, spaceGUID
  tasks,    \* <<call, space GUID>> of the tasks started
  faults, faulty   \* failed API calls so far, and the calls that met one

vars == <<dedicated, place, alive, apps, orgCache, spaceCache, pc, org, space, tasks,
          faults, faulty>>
cfVars == <<place, alive, apps>>
cacheVars == <<orgCache, spaceCache>>
faultVars == <<faults, faulty>>

RunnerName(c) == <<Tenant[c], Role[c]>>
OrgName(t) == OrgNameIn(dedicated, t)
SpaceName(t) == SpaceNameIn(dedicated, t)
OrgNames == {OrgName(t) : t \in Tenants}

\* The existing places with a description: at most one.
Lookup(p) == {g \in alive : place[g] = p}

\* Key of a space in the cache: the org's GUID and the space's name.
KeyWithoutOrg(g, n) == <<NoGUID, n>>
SpaceCacheKey(g, n) == <<g, n>>

Positions == {"org", "orgGet", "orgSet", "space", "spaceGet", "spaceSet",
              "app", "push", "run", "done", "failed"}

TypeOK ==
  /\ dedicated \in BOOLEAN
  /\ DOMAIN place = GUIDs
  /\ alive \subseteq {g \in GUIDs : place[g] # Unused}
  /\ apps \subseteq GUIDs \X {RunnerName(c) : c \in Spawns}
  /\ orgCache \in [OrgNames -> GUIDs \cup {NoGUID}]
  /\ \A e \in spaceCache : e.guid \in GUIDs
  /\ pc \in [Spawns -> Positions]
  /\ org \in [Spawns -> GUIDs \cup {NoGUID}]
  /\ space \in [Spawns -> GUIDs \cup {NoGUID}]
  /\ tasks \subseteq Spawns \X GUIDs
  /\ faults \in 0..MaxFaults /\ faulty \subseteq Spawns

\* Every tenant has its org and space, and no runner app yet.
Init ==
  /\ dedicated \in BOOLEAN
  /\ LET places == InitialPlaces(dedicated) IN
       /\ place = [g \in GUIDs |-> IF g <= Len(places) THEN places[g] ELSE Unused]
       /\ alive = DOMAIN places
  /\ apps = {}
  /\ orgCache = [n \in OrgNames |-> NoGUID]
  /\ spaceCache = {}
  /\ pc = [c \in Spawns |-> "org"]
  /\ org = [c \in Spawns |-> NoGUID]
  /\ space = [c \in Spawns |-> NoGUID]
  /\ tasks = {}
  /\ faults = 0 /\ faulty = {}

\* An API call of c fails, with or without effect.
Fault(c) ==
  /\ faults < MaxFaults
  /\ faults' = faults + 1
  /\ faulty' = faulty \cup {c}

Goto(c, l) == pc' = [pc EXCEPT ![c] = l]

-----------------------------------------------------------------------------
(* resolveSpaceGUID *)

OrgCached(c) ==
  LET g == orgCache[OrgName(Tenant[c])] IN
  /\ pc[c] = "org" /\ g # NoGUID
  /\ org' = [org EXCEPT ![c] = g]
  /\ Goto(c, "space")
  /\ UNCHANGED <<cfVars, cacheVars, space, tasks, faultVars>>

OrgMiss(c) ==
  /\ pc[c] = "org" /\ orgCache[OrgName(Tenant[c])] = NoGUID
  /\ Goto(c, "orgGet")
  /\ UNCHANGED <<cfVars, cacheVars, org, space, tasks, faultVars>>

GetOrgByName(c) ==
  /\ pc[c] = "orgGet"
  /\ \E g \in Lookup(Org(OrgName(Tenant[c]))) : org' = [org EXCEPT ![c] = g]
  /\ Goto(c, "orgSet")
  /\ UNCHANGED <<cfVars, cacheVars, space, tasks, faultVars>>

\* What was looked up is cached, after the answer has come in.
CacheOrg(c) ==
  /\ pc[c] = "orgSet"
  /\ orgCache' = [orgCache EXCEPT ![OrgName(Tenant[c])] = org[c]]
  /\ Goto(c, "space")
  /\ UNCHANGED <<cfVars, spaceCache, org, space, tasks, faultVars>>

SpaceKey(c) == SpaceCacheKey(org[c], SpaceName(Tenant[c]))
SpaceEntry(c) == {e \in spaceCache : e.key = SpaceKey(c)}

SpaceCached(c) ==
  /\ pc[c] = "space"
  /\ \E e \in SpaceEntry(c) : space' = [space EXCEPT ![c] = e.guid]
  /\ Goto(c, "app")
  /\ UNCHANGED <<cfVars, cacheVars, org, tasks, faultVars>>

SpaceMiss(c) ==
  /\ pc[c] = "space" /\ SpaceEntry(c) = {}
  /\ Goto(c, "spaceGet")
  /\ UNCHANGED <<cfVars, cacheVars, org, space, tasks, faultVars>>

GetSpaceByName(c) ==
  /\ pc[c] = "spaceGet"
  /\ \E g \in Lookup(Space(org[c], SpaceName(Tenant[c]))) : space' = [space EXCEPT ![c] = g]
  /\ Goto(c, "spaceSet")
  /\ UNCHANGED <<cfVars, cacheVars, org, tasks, faultVars>>

CacheSpace(c) ==
  /\ pc[c] = "spaceSet"
  /\ spaceCache' = (spaceCache \ SpaceEntry(c)) \cup {[key |-> SpaceKey(c), guid |-> space[c]]}
  /\ Goto(c, "app")
  /\ UNCHANGED <<cfVars, orgCache, org, space, tasks, faultVars>>

\* GetOrgByName or GetSpaceByName finds nothing; the cache is left as it is.
MissingSpaceCached(c) ==
  /\ pc[c] = "spaceGet" /\ Lookup(Space(org[c], SpaceName(Tenant[c]))) = {}
  /\ spaceCache' = spaceCache \cup {[key |-> SpaceKey(c), guid |-> NoGUID]}
  /\ Goto(c, "failed")
  /\ UNCHANGED <<cfVars, orgCache, org, space, tasks, faultVars>>
PlaceMissing(c) ==
  /\ \/ pc[c] = "orgGet" /\ Lookup(Org(OrgName(Tenant[c]))) = {}
     \/ pc[c] = "spaceGet" /\ Lookup(Space(org[c], SpaceName(Tenant[c]))) = {}
  /\ Goto(c, "failed")
  /\ UNCHANGED <<cfVars, cacheVars, org, space, tasks, faultVars>>

\* So is any other error of theirs.
LookupFails(c) ==
  /\ pc[c] \in {"orgGet", "spaceGet"}
  /\ Fault(c)
  /\ Goto(c, "failed")
  /\ UNCHANGED <<cfVars, cacheVars, org, space, tasks>>

-----------------------------------------------------------------------------
(* ensureRunnerApp and RunTask *)

App(c) == <<space[c], RunnerName(c)>>

AppFound(c) ==
  /\ pc[c] = "app" /\ App(c) \in apps
  /\ Goto(c, "run")
  /\ UNCHANGED <<cfVars, cacheVars, org, space, tasks, faultVars>>

\* GetAppByName returns an error: there is no such app, or the request failed.
AppNotReturned(c) ==
  /\ pc[c] = "app"
  /\ \/ App(c) \notin apps /\ UNCHANGED faultVars
     \/ Fault(c)

\* Every error of GetAppByName is taken for an app that is not there.
AppMissingIsError(c) ==
  /\ AppNotReturned(c)
  /\ Goto(c, "failed")
  /\ UNCHANGED <<cfVars, cacheVars, org, space, tasks>>
AppMissing(c) ==
  /\ AppNotReturned(c)
  /\ Goto(c, "push")
  /\ UNCHANGED <<cfVars, cacheVars, org, space, tasks>>

PushApp(c) ==
  /\ pc[c] = "push" /\ space[c] \in alive /\ App(c) \notin apps
  /\ apps' = apps \cup {App(c)}
  /\ Goto(c, "run")
  /\ UNCHANGED <<place, alive, cacheVars, org, space, tasks, faultVars>>

\* The request fails, or its answer is lost.
PushFails(c) ==
  /\ pc[c] = "push"
  /\ Fault(c)
  /\ \/ UNCHANGED apps
     \/ space[c] \in alive /\ apps' = apps \cup {App(c)}
  /\ Goto(c, "failed")
  /\ UNCHANGED <<place, alive, cacheVars, org, space, tasks>>

\* The space is gone, or the app is there: another SpawnAgent has pushed it in the
\* meantime, or GetAppByName failed to find it.
PushRefused(c) ==
  /\ pc[c] = "push" /\ (space[c] \notin alive \/ App(c) \in apps)
  /\ Goto(c, "failed")
  /\ UNCHANGED <<cfVars, cacheVars, org, space, tasks, faultVars>>

RunTask(c) ==
  /\ pc[c] = "run"
  /\ IF App(c) \in apps
       THEN Goto(c, "done") /\ tasks' = tasks \cup {<<c, space[c]>>}
       ELSE Goto(c, "failed") /\ UNCHANGED tasks
  /\ UNCHANGED <<cfVars, cacheVars, org, space, faultVars>>

\* The request fails, or its answer is lost: then the task runs and nobody knows its GUID.
RunTaskFails(c) ==
  /\ pc[c] = "run"
  /\ Fault(c)
  /\ \/ UNCHANGED tasks
     \/ App(c) \in apps /\ tasks' = tasks \cup {<<c, space[c]>>}
  /\ Goto(c, "failed")
  /\ UNCHANGED <<cfVars, cacheVars, org, space>>

-----------------------------------------------------------------------------
(* The cache ages; operators change the foundation *)

\* guidCache.get drops an entry once its five minutes are over.
EntryExpires ==
  /\ \/ \E n \in OrgNames : /\ orgCache[n] # NoGUID
                            /\ orgCache' = [orgCache EXCEPT ![n] = NoGUID]
                            /\ UNCHANGED spaceCache
     \/ \E e \in spaceCache : spaceCache' = spaceCache \ {e} /\ UNCHANGED orgCache
  /\ UNCHANGED <<cfVars, pc, org, space, tasks, faultVars>>

\* An org is deleted with its spaces, or a space with its apps.
PlaceDeleted ==
  \E g \in alive :
    LET gone == {g} \cup {h \in alive : place[h].org = g} IN
    /\ alive' = alive \ gone
    /\ apps' = {a \in apps : a[1] \notin gone}
    /\ UNCHANGED <<place, cacheVars, pc, org, space, tasks, faultVars>>

\* A missing org or space of a tenant is created again, under a new GUID.
PlaceCreated ==
  \E g \in GUIDs, t \in Tenants :
    /\ place[g] = Unused /\ \A h \in 1..(g - 1) : place[h] # Unused
    /\ \/ /\ Lookup(Org(OrgName(t))) = {}
          /\ place' = [place EXCEPT ![g] = Org(OrgName(t))]
       \/ \E o \in Lookup(Org(OrgName(t))) :
            /\ Lookup(Space(o, SpaceName(t))) = {}
            /\ place' = [place EXCEPT ![g] = Space(o, SpaceName(t))]
    /\ alive' = alive \cup {g}
    /\ UNCHANGED <<apps, cacheVars, pc, org, space, tasks, faultVars>>

SpawnStep(c) ==
  \/ OrgCached(c) \/ OrgMiss(c) \/ GetOrgByName(c) \/ CacheOrg(c)
  \/ SpaceCached(c) \/ SpaceMiss(c) \/ GetSpaceByName(c) \/ CacheSpace(c)
  \/ PlaceMissing(c) \/ LookupFails(c) \/ AppFound(c) \/ AppMissing(c)
  \/ PushApp(c) \/ PushRefused(c) \/ PushFails(c) \/ RunTask(c) \/ RunTaskFails(c)

Next ==
  /\ (\E c \in Spawns : SpawnStep(c)) \/ EntryExpires \/ PlaceDeleted \/ PlaceCreated
  /\ UNCHANGED dedicated

Spec == Init /\ [][Next]_vars

-----------------------------------------------------------------------------
(* Properties *)

\* An agent runs in its own tenant's space and org, however stale the GUID cache is
\* and whatever other tenants do at the same time.
TasksInOwnSpace ==
  \A t \in tasks :
    LET p == place[t[2]] IN
    /\ p.name = SpaceName(Tenant[t[1]])
    /\ place[p.org].name = OrgName(Tenant[t[1]])

IsOrg(g, t) == g \in GUIDs /\ place[g] = Org(OrgName(t))
IsSpace(h, g, t) == h \in GUIDs /\ place[h] = Space(g, SpaceName(t))

\* A GUID that the call uses is stale: the org or the space it stood for is deleted.
Stale(c) ==
  \/ org[c] # NoGUID /\ org[c] \notin alive
  \/ space[c] # NoGUID /\ space[c] \notin alive

\* The call found no org, or no space in its org: one of its tenant's has been deleted.
Deleted(c) ==
  LET t == Tenant[c] IN
  \/ org[c] = NoGUID /\ \E g \in GUIDs \ alive : IsOrg(g, t)
  \/ org[c] # NoGUID /\ space[c] = NoGUID
       /\ \E g, h \in GUIDs : IsOrg(g, t) /\ IsSpace(h, g, t) /\ ~({g, h} \subseteq alive)

\* Another SpawnAgent for the same runner, in the same space, has come past its push.
PushedFirst(c) ==
  /\ space[c] # NoGUID
  /\ \E d \in Spawns \ {c} : App(d) = App(c) /\ pc[d] \in {"run", "done", "failed"}

\* SpawnAgent fails for a reason of its own: one of its API calls failed, the org or the
\* space it uses is deleted, or a second SpawnAgent for the same runner pushed the app
\* between GetAppByName and PushApp.  What happens to other tenants' places, or to
\* requests of other calls, fails nobody.
Explained(c) == c \in faulty \/ Stale(c) \/ Deleted(c) \/ PushedFirst(c)
FailureIsExplained == \A c \in Spawns : pc[c] = "failed" => Explained(c)

-----------------------------------------------------------------------------
(* The inductive invariant behind these properties *)

\* What a call has resolved is what the names stood for at some time, and a GUID never
\* stands for another place.
WithSpace == {"spaceSet", "app", "push", "run", "done"}
WithOrg == {"orgSet", "space", "spaceGet"} \cup WithSpace
WithoutSpace == {"org", "orgGet", "orgSet", "space", "spaceGet"}
OrgsResolved ==
  \A c \in Spawns :
    /\ pc[c] \in {"org", "orgGet"} => org[c] = NoGUID
    /\ pc[c] \in WithOrg => org[c] # NoGUID
    /\ org[c] # NoGUID => IsOrg(org[c], Tenant[c])
SpacesResolved ==
  \A c \in Spawns :
    /\ pc[c] \in WithoutSpace => space[c] = NoGUID
    /\ pc[c] \in WithSpace => space[c] # NoGUID
    /\ space[c] # NoGUID => IsSpace(space[c], org[c], Tenant[c])

\* So is what the cache holds, under its key.
CacheTrue ==
  /\ \A n \in OrgNames : orgCache[n] # NoGUID => place[orgCache[n]] = Org(n)
  /\ \A e \in spaceCache : place[e.guid] = Space(e.key[1], e.key[2])

\* No two existing places have one description, and every tenant has been given both.
PlacesUnique == \A g, h \in alive : place[g] = place[h] => g = h
TenantsPlaced == \A t \in Tenants : \E g, h \in GUIDs : IsOrg(g, t) /\ IsSpace(h, g, t)

\* An app has been pushed by a call, and is there to run while its space is.
AppsPushed ==
  \A a \in apps : \E c \in Spawns : pc[c] \in {"run", "done", "failed"} /\ App(c) = a
AppsStay == \A c \in Spawns : pc[c] = "run" => App(c) \in apps \/ space[c] \notin alive

\* A task was started in a space of the tenant's, in an org of the tenant's.
TasksPlaced ==
  \A t \in tasks : \E g \in GUIDs :
    IsOrg(g, Tenant[t[1]]) /\ IsSpace(t[2], g, Tenant[t[1]])

PlacementInv ==
  /\ TypeOK
  /\ OrgsResolved /\ SpacesResolved /\ CacheTrue
  /\ PlacesUnique /\ TenantsPlaced
  /\ AppsPushed /\ AppsStay
  /\ TasksPlaced /\ FailureIsExplained
=============================================================================
