-------------------------- MODULE CFPlacementProofs --------------------------
(***************************************************************************)
(* Proofs about module CFPlacement, for any calls, tenants, places and     *)
(* tiers.                                                                  *)
(***************************************************************************)
EXTENDS CFPlacement, TLAPS

\* The descriptions of places can be told apart.
LEMMA Distinct ==
  /\ \A n : Org(n) # Unused
  /\ \A g, n : Space(g, n) # Unused
  /\ \A n, g, m : Org(n) # Space(g, m)
  /\ \A n, m : Org(n) = Org(m) => n = m
  /\ \A n : Org(n).name = n
  /\ \A g, n : Space(g, n).name = n /\ Space(g, n).org = g
BY DEF Org, Space, Unused

\* A GUID is none of nothing.
LEMMA GUIDsFacts == NoGUID \notin GUIDs
BY DEF NoGUID, GUIDs

\* The record of failed API calls grows.
FaultsCounted == faults' \in 0..MaxFaults /\ faulty \subseteq faulty' /\ faulty' \subseteq Spawns

\* A failed API call is recorded.
LEMMA FaultIsCounted ==
  ASSUME TypeOK, NEW c \in Spawns, Fault(c)
  PROVE  FaultsCounted /\ c \in faulty'
BY PlacesAssumption DEF TypeOK, Fault, FaultsCounted

\* No other step changes it.
LEMMA NoFaultIsCounted == TypeOK /\ UNCHANGED faultVars => FaultsCounted
BY DEF TypeOK, faultVars, FaultsCounted

\* The reason of a failure stays one: a place that is gone is gone, and a call that has come
\* past its push does not come back.
LEMMA ExplainedStays ==
  ASSUME PlacementInv, NEW c \in Spawns, Explained(c), dedicated' = dedicated,
         \A g \in GUIDs : place[g] # Unused => place'[g] = place[g],
         \A g \in GUIDs \ alive : place[g] # Unused => g \notin alive',
         faulty \subseteq faulty', org'[c] = org[c], space'[c] = space[c],
         \A d \in Spawns : space[d] # NoGUID => space'[d] = space[d],
         \A d \in Spawns : pc[d] \in {"run", "done", "failed"} => pc'[d] \in {"run", "done", "failed"}
  PROVE  Explained(c)'
<1>1. \A g, t : IsOrg(g, t) => IsOrg(g, t)' /\ (g \notin alive => g \notin alive')
  BY Distinct DEF IsOrg, OrgName
<1>2. \A h, g, t : IsSpace(h, g, t) => IsSpace(h, g, t)' /\ (h \notin alive => h \notin alive')
  BY Distinct DEF IsSpace, SpaceName
<1>3. /\ org[c] # NoGUID => IsOrg(org[c], Tenant[c])
      /\ space[c] # NoGUID => IsSpace(space[c], org[c], Tenant[c])
  BY DEF PlacementInv, OrgsResolved, SpacesResolved
<1>4. CASE c \in faulty
  BY <1>4 DEF Explained
<1>5. CASE Stale(c)
  BY <1>1, <1>2, <1>3, <1>5 DEF Stale, Explained
<1>6. CASE Deleted(c)
  BY <1>1, <1>2, <1>6 DEF Deleted, Explained
<1>7. CASE PushedFirst(c)
  BY <1>7 DEF PushedFirst, App, Explained
<1> QED
  BY <1>4, <1>5, <1>6, <1>7 DEF Explained

\* A step of a call that neither starts a task nor changes the foundation.
LEMMA CallSteps ==
  ASSUME PlacementInv, NEW c \in Spawns, NEW l \in Positions,
         pc[c] \notin {"run", "done", "failed"}, pc' = [pc EXCEPT ![c] = l],
         UNCHANGED <<dedicated, place, alive, apps, tasks>>,
         org' \in [Spawns -> GUIDs \cup {NoGUID}], space' \in [Spawns -> GUIDs \cup {NoGUID}],
         \A d \in Spawns \ {c} : org'[d] = org[d] /\ space'[d] = space[d],
         space'[c] = space[c] \/ space[c] = NoGUID,
         l \in {"org", "orgGet"} => org'[c] = NoGUID,
         l \in {"org", "orgGet", "failed"} \/ IsOrg(org'[c], Tenant[c]),
         l \in WithoutSpace => space'[c] = NoGUID,
         l \in WithSpace => IsSpace(space'[c], org'[c], Tenant[c]),
         l = "run" => <<space'[c], RunnerName(c)>> \in apps,
         org[c] # NoGUID => org'[c] = org[c],
         l = "failed" => UNCHANGED <<org, space>> /\ (Explained(c) \/ c \in faulty'),
         FaultsCounted, orgCache' \in [OrgNames -> GUIDs \cup {NoGUID}],
         \A n \in OrgNames : orgCache'[n] # NoGUID => place[orgCache'[n]] = Org(n),
         \A e \in spaceCache' : e.guid \in GUIDs /\ place[e.guid] = Space(e.key[1], e.key[2])
  PROVE  PlacementInv'
<1>0. TypeOK
  BY DEF PlacementInv
<1>1. TypeOK'
  BY <1>0 DEF TypeOK, OrgNames, OrgName, FaultsCounted
<1>2. OrgsResolved' /\ SpacesResolved'
  <2>1. \A g, t : IsOrg(g, t)' <=> IsOrg(g, t)
    BY DEF IsOrg, OrgName
  <2>2. \A h, g, t : IsSpace(h, g, t)' <=> IsSpace(h, g, t)
    BY DEF IsSpace, SpaceName
  <2>3. \A d \in Spawns : pc'[d] = IF d = c THEN l ELSE pc[d]
    BY <1>0 DEF TypeOK
  <2>4. OrgsResolved /\ SpacesResolved
    BY DEF PlacementInv
  <2>5. OrgsResolved'
    <3> SUFFICES ASSUME NEW d \in Spawns
                 PROVE  /\ pc'[d] \in {"org", "orgGet"} => org'[d] = NoGUID
                        /\ pc'[d] \in WithOrg => org'[d] # NoGUID
                        /\ org'[d] # NoGUID => IsOrg(org'[d], Tenant[d])
      BY <2>1 DEF OrgsResolved
    <3>1. CASE d # c
      BY <2>3, <2>4, <3>1 DEF OrgsResolved
    <3>2. CASE d = c
      BY <2>3, <2>4, <3>2, GUIDsFacts DEF OrgsResolved, IsOrg, WithOrg, WithSpace
    <3> QED
      BY <3>1, <3>2
  <2>6. SpacesResolved'
    <3> SUFFICES ASSUME NEW d \in Spawns
                 PROVE  /\ pc'[d] \in WithoutSpace => space'[d] = NoGUID
                        /\ pc'[d] \in WithSpace => space'[d] # NoGUID
                        /\ space'[d] # NoGUID => IsSpace(space'[d], org'[d], Tenant[d])
      BY <2>2 DEF SpacesResolved
    <3>1. CASE d # c
      BY <2>3, <2>4, <3>1 DEF SpacesResolved
    <3>2. CASE d = c
      <4>1. l \in WithoutSpace \/ l \in WithSpace \/ l = "failed"
        BY DEF Positions, WithoutSpace, WithSpace
      <4> QED
        BY <2>3, <2>4, <3>2, <4>1, GUIDsFacts DEF SpacesResolved, IsSpace, WithoutSpace, WithSpace
    <3> QED
      BY <3>1, <3>2
  <2> QED
    BY <2>5, <2>6
<1>3. CacheTrue'
  BY DEF CacheTrue, OrgNames, OrgName
<1>4. PlacesUnique' /\ TenantsPlaced' /\ TasksPlaced'
  BY DEF PlacementInv, PlacesUnique, TenantsPlaced, TasksPlaced, IsOrg, IsSpace, OrgName, SpaceName
<1>5. \A d \in Spawns : App(d) \in apps => App(d)' = App(d)
  <2>1. ASSUME NEW d \in Spawns, App(d) \in apps PROVE space'[d] = space[d]
    <3>1. space[d] \in GUIDs
      BY <1>0, <2>1 DEF TypeOK, App
    <3> QED
      BY <3>1 DEF GUIDs, NoGUID
  <2> QED
    BY <2>1 DEF App
<1>6. AppsPushed'
  BY <1>0, <1>5 DEF PlacementInv, TypeOK, AppsPushed
<1>7. AppsStay'
  BY <1>0, <1>5 DEF PlacementInv, TypeOK, AppsStay, App
<1>8. FailureIsExplained'
  <2>1. \A d \in Spawns : pc'[d] = IF d = c THEN l ELSE pc[d]
    BY <1>0 DEF TypeOK
  <2> SUFFICES ASSUME NEW d \in Spawns, pc'[d] = "failed" PROVE Explained(d)'
    BY DEF FailureIsExplained
  <2>2. CASE d = c /\ c \in faulty'
    BY <2>2 DEF Explained
  <2>3. CASE Explained(d) /\ org'[d] = org[d] /\ space'[d] = space[d]
    BY <2>1, <2>3, ExplainedStays DEF FaultsCounted
  <2> QED
    BY <2>1, <2>2, <2>3 DEF PlacementInv, FailureIsExplained
<1> QED
  BY <1>1, <1>2, <1>3, <1>4, <1>6, <1>7, <1>8 DEF PlacementInv

\* resolveSpaceGUID up to the org: from the cache, or looked up and put there.
LEMMA OrgSteps ==
  ASSUME PlacementInv, NEW c \in Spawns, dedicated' = dedicated,
         OrgCached(c) \/ OrgMiss(c) \/ GetOrgByName(c) \/ CacheOrg(c)
  PROVE  PlacementInv'
<1>0. /\ TypeOK /\ CacheTrue /\ OrgsResolved /\ SpacesResolved
      /\ Tenant[c] \in Tenants /\ OrgName(Tenant[c]) \in OrgNames
  BY DEF PlacementInv, Tenants, OrgNames
<1>1. /\ UNCHANGED <<place, alive, apps, tasks, space, spaceCache>>
      /\ pc[c] \in {"org", "orgGet", "orgSet"} /\ space[c] = NoGUID /\ FaultsCounted
      /\ pc[c] # "orgSet" => org[c] = NoGUID
  BY <1>0, NoFaultIsCounted DEF OrgCached, OrgMiss, GetOrgByName, CacheOrg, cfVars, cacheVars,
     OrgsResolved, SpacesResolved, WithoutSpace
<1>2. \A e \in spaceCache : e.guid \in GUIDs /\ place[e.guid] = Space(e.key[1], e.key[2])
  BY <1>0 DEF TypeOK, CacheTrue
<1>3. CASE OrgCached(c)
  <2> DEFINE g == orgCache[OrgName(Tenant[c])]
  <2>1. /\ pc' = [pc EXCEPT ![c] = "space"] /\ org' = [org EXCEPT ![c] = g] /\ orgCache' = orgCache
        /\ g # NoGUID /\ pc[c] = "org"
    BY <1>3 DEF OrgCached, cacheVars, Goto
  <2>2. IsOrg(g, Tenant[c])
    BY <1>0, <2>1 DEF IsOrg, TypeOK, CacheTrue
  <2> HIDE DEF g
  <2>3. /\ org' \in [Spawns -> GUIDs \cup {NoGUID}] /\ org'[c] = g
        /\ \A d \in Spawns \ {c} : org'[d] = org[d]
    BY <1>0, <2>1, <2>2 DEF TypeOK, IsOrg
  <2> QED
    BY <1>0, <1>1, <1>2, <2>1, <2>2, <2>3, CallSteps DEF TypeOK, CacheTrue, Positions, WithSpace
<1>4. CASE OrgMiss(c)
  <2>1. pc' = [pc EXCEPT ![c] = "orgGet"] /\ org' = org /\ orgCache' = orgCache /\ pc[c] = "org"
    BY <1>4 DEF OrgMiss, cacheVars, Goto
  <2> QED
    BY <1>0, <1>1, <1>2, <2>1, CallSteps DEF TypeOK, CacheTrue, Positions, WithSpace, WithOrg
<1>5. CASE GetOrgByName(c)
  <2>1. PICK g \in Lookup(Org(OrgName(Tenant[c]))) : org' = [org EXCEPT ![c] = g]
    BY <1>5 DEF GetOrgByName
  <2>2. pc' = [pc EXCEPT ![c] = "orgSet"] /\ orgCache' = orgCache /\ pc[c] = "orgGet"
    BY <1>5 DEF GetOrgByName, cacheVars, Goto
  <2>3. IsOrg(g, Tenant[c])
    BY <1>0, <2>1 DEF IsOrg, TypeOK, Lookup
  <2>4. /\ org' \in [Spawns -> GUIDs \cup {NoGUID}] /\ org'[c] = g
        /\ \A d \in Spawns \ {c} : org'[d] = org[d]
    BY <1>0, <2>1, <2>3 DEF TypeOK, IsOrg
  <2> QED
    BY <1>0, <1>1, <1>2, <2>2, <2>3, <2>4, CallSteps DEF TypeOK, CacheTrue, Positions, WithSpace
<1>6. CASE CacheOrg(c)
  <2>1. /\ pc' = [pc EXCEPT ![c] = "space"] /\ org' = org
        /\ orgCache' = [orgCache EXCEPT ![OrgName(Tenant[c])] = org[c]]
    BY <1>6 DEF CacheOrg, Goto
  <2>2. IsOrg(org[c], Tenant[c])
    BY <1>0, <1>6 DEF CacheOrg, OrgsResolved, WithOrg
  <2>3. /\ orgCache' \in [OrgNames -> GUIDs \cup {NoGUID}]
        /\ \A n \in OrgNames : orgCache'[n] # NoGUID => place[orgCache'[n]] = Org(n)
    BY <1>0, <2>1, <2>2 DEF TypeOK, CacheTrue, IsOrg
  <2> QED
    BY <1>0, <1>1, <1>2, <2>1, <2>2, <2>3, CallSteps DEF TypeOK, Positions, WithSpace
<1> QED
  BY <1>3, <1>4, <1>5, <1>6

\* resolveSpaceGUID from the org on.
LEMMA SpaceSteps ==
  ASSUME PlacementInv, NEW c \in Spawns, dedicated' = dedicated,
         SpaceCached(c) \/ SpaceMiss(c) \/ GetSpaceByName(c) \/ CacheSpace(c)
  PROVE  PlacementInv'
<1> DEFINE S == SpaceName(Tenant[c])
<1>0. /\ TypeOK /\ CacheTrue /\ OrgsResolved /\ SpacesResolved
  BY DEF PlacementInv
<1>1. /\ UNCHANGED <<place, alive, apps, tasks, org, orgCache>>
      /\ pc[c] \in {"space", "spaceGet", "spaceSet"} /\ IsOrg(org[c], Tenant[c])
      /\ pc[c] # "spaceSet" => space[c] = NoGUID
      /\ pc[c] = "spaceSet" => IsSpace(space[c], org[c], Tenant[c])
      /\ FaultsCounted
  BY <1>0, NoFaultIsCounted DEF SpaceCached, SpaceMiss, GetSpaceByName, CacheSpace, cfVars, cacheVars, OrgsResolved,
     SpacesResolved, WithOrg, WithSpace, WithoutSpace
<1>2. \A e \in spaceCache : e.guid \in GUIDs /\ place[e.guid] = Space(e.key[1], e.key[2])
  BY <1>0 DEF TypeOK, CacheTrue
<1>3. SpaceKey(c)[1] = org[c] /\ SpaceKey(c)[2] = S
  BY DEF SpaceKey, SpaceCacheKey
<1>4. CASE SpaceCached(c)
  <2>1. PICK e \in SpaceEntry(c) : space' = [space EXCEPT ![c] = e.guid]
    BY <1>4 DEF SpaceCached
  <2>2. pc' = [pc EXCEPT ![c] = "app"] /\ spaceCache' = spaceCache
    BY <1>4 DEF SpaceCached, cacheVars, Goto
  <2>3. IsSpace(e.guid, org[c], Tenant[c])
    BY <1>2, <1>3, <2>1 DEF SpaceEntry, IsSpace
  <2>4. /\ space' \in [Spawns -> GUIDs \cup {NoGUID}] /\ space'[c] = e.guid
        /\ \A d \in Spawns \ {c} : space'[d] = space[d]
    BY <1>0, <2>1, <2>3 DEF TypeOK, IsSpace
  <2>5. space[c] = NoGUID
    BY <1>1, <1>4 DEF SpaceCached
  <2> QED
    BY <1>0, <1>1, <1>2, <2>2, <2>3, <2>4, <2>5, CallSteps DEF TypeOK, CacheTrue, Positions, WithoutSpace
<1>5. CASE SpaceMiss(c)
  <2>1. /\ pc' = [pc EXCEPT ![c] = "spaceGet"] /\ space' = space /\ spaceCache' = spaceCache
        /\ space[c] = NoGUID
    BY <1>1, <1>5 DEF SpaceMiss, cacheVars, Goto
  <2> QED
    BY <1>0, <1>1, <1>2, <2>1, CallSteps DEF TypeOK, CacheTrue, Positions, WithSpace
<1>6. CASE GetSpaceByName(c)
  <2>1. PICK g \in Lookup(Space(org[c], S)) : space' = [space EXCEPT ![c] = g]
    BY <1>6 DEF GetSpaceByName
  <2>2. pc' = [pc EXCEPT ![c] = "spaceSet"] /\ spaceCache' = spaceCache /\ space[c] = NoGUID
    BY <1>1, <1>6 DEF GetSpaceByName, cacheVars, Goto
  <2>3. IsSpace(g, org[c], Tenant[c])
    BY <1>0, <2>1 DEF IsSpace, TypeOK, Lookup
  <2>4. /\ space' \in [Spawns -> GUIDs \cup {NoGUID}] /\ space'[c] = g
        /\ \A d \in Spawns \ {c} : space'[d] = space[d]
    BY <1>0, <2>1, <2>3 DEF TypeOK, IsSpace
  <2> QED
    BY <1>0, <1>1, <1>2, <2>2, <2>3, <2>4, CallSteps DEF TypeOK, CacheTrue, Positions, WithoutSpace
<1>7. CASE CacheSpace(c)
  <2> DEFINE new == [key |-> SpaceKey(c), guid |-> space[c]]
  <2>1. /\ pc' = [pc EXCEPT ![c] = "app"] /\ space' = space
        /\ spaceCache' = (spaceCache \ SpaceEntry(c)) \cup {new}
        /\ IsSpace(space[c], org[c], Tenant[c])
    BY <1>1, <1>7 DEF CacheSpace, Goto
  <2>2. new.guid \in GUIDs /\ place[new.guid] = Space(new.key[1], new.key[2])
    BY <1>3, <2>1 DEF IsSpace
  <2>3. \A e \in spaceCache' : e.guid \in GUIDs /\ place[e.guid] = Space(e.key[1], e.key[2])
    BY <1>2, <2>1, <2>2
  <2> QED
    BY <1>0, <1>1, <2>1, <2>3, CallSteps DEF TypeOK, CacheTrue, Positions, WithoutSpace
<1> QED
  BY <1>4, <1>5, <1>6, <1>7

\* A name that stands for nothing now has stood for a place that is gone.
LEMMA MissingIsExplained ==
  ASSUME PlacementInv, NEW c \in Spawns,
         \/ pc[c] = "orgGet" /\ Lookup(Org(OrgName(Tenant[c]))) = {}
         \/ pc[c] = "spaceGet" /\ Lookup(Space(org[c], SpaceName(Tenant[c]))) = {}
  PROVE  Explained(c)
<1>0. Tenant[c] \in Tenants
  BY DEF Tenants
<1>1. PICK g \in GUIDs, h \in GUIDs : IsOrg(g, Tenant[c]) /\ IsSpace(h, g, Tenant[c])
  BY <1>0 DEF PlacementInv, TenantsPlaced
<1>2. place[g] # Unused /\ place[h] # Unused
  BY <1>1, Distinct DEF IsOrg, IsSpace
<1>3. CASE pc[c] = "orgGet" /\ Lookup(Org(OrgName(Tenant[c]))) = {}
  <2>1. g \notin alive
    BY <1>1, <1>3 DEF Lookup, IsOrg
  <2>2. org[c] = NoGUID
    BY <1>3 DEF PlacementInv, OrgsResolved
  <2> QED
    BY <1>1, <2>1, <2>2 DEF Deleted, Explained
<1>4. CASE pc[c] = "spaceGet" /\ Lookup(Space(org[c], SpaceName(Tenant[c]))) = {}
  <2>1. IsOrg(org[c], Tenant[c]) /\ org[c] # NoGUID /\ space[c] = NoGUID
    BY <1>4 DEF PlacementInv, OrgsResolved, SpacesResolved, WithOrg, WithoutSpace
  <2>2. CASE org[c] \notin alive
    BY <2>1, <2>2 DEF Stale, Explained
  <2>3. CASE org[c] \in alive
    <3>1. CASE g \in alive
      <4>1. g = org[c]
        BY <1>1, <2>1, <2>3, <3>1 DEF PlacementInv, PlacesUnique, IsOrg
      <4> QED
        BY <1>1, <1>4, <2>1, <4>1 DEF Lookup, IsSpace, Deleted, Explained
    <3>2. CASE g \notin alive
      BY <1>1, <2>1, <3>2 DEF IsOrg, Deleted, Explained
    <3> QED
      BY <3>1, <3>2
  <2> QED
    BY <2>2, <2>3
<1> QED
  BY <1>3, <1>4

\* resolveSpaceGUID finds nothing or fails; ensureRunnerApp up to its push.
LEMMA AppSteps ==
  ASSUME PlacementInv, NEW c \in Spawns, dedicated' = dedicated,
         PlaceMissing(c) \/ LookupFails(c) \/ AppFound(c) \/ AppMissing(c) \/ PushRefused(c)
  PROVE  PlacementInv'
<1>0. TypeOK /\ CacheTrue /\ OrgsResolved /\ SpacesResolved
  BY DEF PlacementInv
<1>1. UNCHANGED <<place, alive, apps, tasks, org, space, orgCache, spaceCache>> /\ FaultsCounted
  BY <1>0, FaultIsCounted, NoFaultIsCounted DEF PlaceMissing, LookupFails, AppFound, AppMissing,
     AppNotReturned, PushRefused, cfVars, cacheVars
<1>2. \A e \in spaceCache : e.guid \in GUIDs /\ place[e.guid] = Space(e.key[1], e.key[2])
  BY <1>0 DEF TypeOK, CacheTrue
<1>3. pc[c] \in {"app", "push"} =>
        IsOrg(org[c], Tenant[c]) /\ IsSpace(space[c], org[c], Tenant[c]) /\ space[c] # NoGUID
  BY <1>0 DEF OrgsResolved, SpacesResolved, WithOrg, WithSpace
<1>4. CASE PlaceMissing(c) \/ LookupFails(c)
  <2>1. /\ pc' = [pc EXCEPT ![c] = "failed"] /\ pc[c] \in {"orgGet", "spaceGet"}
        /\ Explained(c) \/ c \in faulty'
    BY <1>0, <1>4, MissingIsExplained, FaultIsCounted DEF PlaceMissing, LookupFails, Goto
  <2> QED
    BY <1>0, <1>1, <1>2, <2>1, CallSteps DEF TypeOK, CacheTrue, Positions, WithSpace, WithOrg, WithoutSpace
<1>5. CASE AppFound(c)
  <2>1. pc' = [pc EXCEPT ![c] = "run"] /\ pc[c] = "app" /\ <<space[c], RunnerName(c)>> \in apps
    BY <1>5 DEF AppFound, Goto, App
  <2> QED
    BY <1>0, <1>1, <1>2, <1>3, <2>1, CallSteps DEF TypeOK, CacheTrue, Positions, WithoutSpace
<1>6. CASE AppMissing(c)
  <2>1. pc' = [pc EXCEPT ![c] = "push"] /\ pc[c] = "app"
    BY <1>6 DEF AppMissing, AppNotReturned, Goto
  <2> QED
    BY <1>0, <1>1, <1>2, <1>3, <2>1, CallSteps DEF TypeOK, CacheTrue, Positions, WithoutSpace
<1>7. CASE PushRefused(c)
  <2>1. pc' = [pc EXCEPT ![c] = "failed"] /\ pc[c] = "push"
    BY <1>7 DEF PushRefused, Goto
  <2>2. Explained(c)
    <3>1. CASE space[c] \notin alive
      BY <1>3, <2>1, <3>1 DEF Stale, Explained
    <3>2. CASE App(c) \in apps
      <4>1. PICK d \in Spawns : pc[d] \in {"run", "done", "failed"} /\ App(d) = App(c)
        BY <3>2 DEF PlacementInv, AppsPushed
      <4> QED
        BY <1>3, <2>1, <4>1 DEF PushedFirst, Explained
    <3> QED
      BY <1>7, <3>1, <3>2 DEF PushRefused
  <2> QED
    BY <1>0, <1>1, <1>2, <2>1, <2>2, CallSteps DEF TypeOK, CacheTrue, Positions, WithSpace, WithOrg, WithoutSpace
<1> QED
  BY <1>4, <1>5, <1>6, <1>7

\* The end of a call: it pushes its app or starts its task, or it fails.
LEMMA LastSteps ==
  ASSUME PlacementInv, NEW c \in Spawns, NEW l \in {"run", "done", "failed"},
         pc[c] \in {"push", "run"}, pc' = [pc EXCEPT ![c] = l],
         UNCHANGED <<dedicated, place, alive, org, space, orgCache, spaceCache>>,
         apps' = apps \/ apps' = apps \cup {App(c)},
         tasks' = tasks \/ tasks' = tasks \cup {<<c, space[c]>>},
         l = "run" => App(c) \in apps',
         l = "failed" => Stale(c) \/ c \in faulty',
         FaultsCounted
  PROVE  PlacementInv'
<1>0. TypeOK /\ CacheTrue /\ OrgsResolved /\ SpacesResolved
  BY DEF PlacementInv
<1>1. \A d \in Spawns : pc'[d] = IF d = c THEN l ELSE pc[d]
  BY <1>0 DEF TypeOK
<1>2. IsOrg(org[c], Tenant[c]) /\ IsSpace(space[c], org[c], Tenant[c])
  BY <1>0 DEF OrgsResolved, SpacesResolved, WithOrg, WithSpace
<1>3. TypeOK'
  <2>1. apps' \subseteq GUIDs \X {RunnerName(d) : d \in Spawns} /\ tasks' \subseteq Spawns \X GUIDs
    BY <1>0, <1>2 DEF TypeOK, App, IsSpace
  <2>2. pc' \in [Spawns -> Positions]
    BY <1>0 DEF TypeOK, Positions
  <2> QED
    BY <1>0, <2>1, <2>2 DEF TypeOK, OrgNames, OrgName, FaultsCounted
<1>4. OrgsResolved' /\ SpacesResolved'
  BY <1>0, <1>1 DEF OrgsResolved, SpacesResolved, WithOrg, WithSpace, WithoutSpace, IsOrg,
     IsSpace, OrgName, SpaceName
<1>5. CacheTrue' /\ PlacesUnique' /\ TenantsPlaced'
  BY DEF PlacementInv, CacheTrue, PlacesUnique, TenantsPlaced, IsOrg, IsSpace, OrgName, SpaceName, OrgNames
<1>6. TasksPlaced'
  <2> SUFFICES ASSUME NEW t \in tasks'
               PROVE  \E g \in GUIDs : IsOrg(g, Tenant[t[1]]) /\ IsSpace(t[2], g, Tenant[t[1]])
    BY DEF TasksPlaced, IsOrg, IsSpace, OrgName, SpaceName
  <2>1. CASE t \in tasks
    BY <2>1 DEF PlacementInv, TasksPlaced
  <2>2. CASE t = <<c, space[c]>>
    BY <1>2, <2>2 DEF IsOrg
  <2> QED
    BY <2>1, <2>2
<1>7. AppsPushed'
  BY <1>1 DEF PlacementInv, AppsPushed, App
<1>8. AppsStay'
  BY <1>1 DEF PlacementInv, AppsStay, App
<1>9. FailureIsExplained'
  <2> SUFFICES ASSUME NEW d \in Spawns, pc'[d] = "failed" PROVE Explained(d)'
    BY DEF FailureIsExplained
  <2>1. CASE d = c /\ c \in faulty'
    BY <2>1 DEF Explained
  <2>2. CASE Explained(d)
    BY <1>1, <2>2, ExplainedStays DEF FaultsCounted
  <2> QED
    BY <1>1, <2>1, <2>2 DEF PlacementInv, FailureIsExplained, Explained
<1> QED
  BY <1>3, <1>4, <1>5, <1>6, <1>7, <1>8, <1>9 DEF PlacementInv

\* An app is pushed, or the request fails, with or without effect.
LEMMA PushStep ==
  ASSUME PlacementInv, NEW c \in Spawns, dedicated' = dedicated, PushApp(c) \/ PushFails(c)
  PROVE  PlacementInv'
<1>1. TypeOK
  BY DEF PlacementInv
<1>2. UNCHANGED <<place, alive, tasks, org, space, orgCache, spaceCache>> /\ pc[c] = "push"
  BY DEF PushApp, PushFails, cacheVars
<1>3. CASE PushApp(c)
  <2>1. pc' = [pc EXCEPT ![c] = "run"] /\ apps' = apps \cup {App(c)} /\ FaultsCounted
    BY <1>1, <1>3, NoFaultIsCounted DEF PushApp, Goto
  <2> QED
    BY <1>2, <2>1, LastSteps
<1>4. CASE PushFails(c)
  <2>1. /\ pc' = [pc EXCEPT ![c] = "failed"]
        /\ apps' = apps \/ apps' = apps \cup {App(c)}
        /\ FaultsCounted /\ c \in faulty'
    BY <1>1, <1>4, FaultIsCounted DEF PushFails, Goto
  <2> QED
    BY <1>2, <2>1, LastSteps
<1> QED
  BY <1>3, <1>4

\* A task is started, or refused because its app is gone, or the request fails.
LEMMA RunStep ==
  ASSUME PlacementInv, NEW c \in Spawns, dedicated' = dedicated, RunTask(c) \/ RunTaskFails(c)
  PROVE  PlacementInv'
<1>1. TypeOK
  BY DEF PlacementInv
<1>2. UNCHANGED <<place, alive, apps, org, space, orgCache, spaceCache>> /\ pc[c] = "run"
  BY DEF RunTask, RunTaskFails, cfVars, cacheVars
<1>3. CASE RunTask(c)
  <2>1. /\ \/ pc' = [pc EXCEPT ![c] = "done"] /\ tasks' = tasks \cup {<<c, space[c]>>}
           \/ App(c) \notin apps /\ pc' = [pc EXCEPT ![c] = "failed"] /\ tasks' = tasks
        /\ FaultsCounted
    BY <1>1, <1>3, NoFaultIsCounted DEF RunTask, Goto
  <2>2. App(c) \notin apps => Stale(c)
    BY <1>2 DEF PlacementInv, AppsStay, SpacesResolved, WithSpace, Stale
  <2> QED
    BY <1>2, <2>1, <2>2, LastSteps
<1>4. CASE RunTaskFails(c)
  <2>1. /\ pc' = [pc EXCEPT ![c] = "failed"]
        /\ tasks' = tasks \/ tasks' = tasks \cup {<<c, space[c]>>}
        /\ FaultsCounted /\ c \in faulty'
    BY <1>1, <1>4, FaultIsCounted DEF RunTaskFails, Goto
  <2> QED
    BY <1>2, <2>1, LastSteps
<1> QED
  BY <1>3, <1>4

\* A place that comes or goes leaves the calls and the cache as they are; what place
\* stood for it still stands for.
LEMMA PlacesChange ==
  ASSUME PlacementInv, dedicated' = dedicated,
         UNCHANGED <<orgCache, spaceCache, pc, org, space, tasks, faults, faulty>>,
         DOMAIN place' = GUIDs,
         \A g \in GUIDs : place[g] # Unused => place'[g] = place[g],
         alive' \subseteq {g \in GUIDs : place'[g] # Unused},
         apps' \subseteq apps, \A g \in GUIDs \ alive : place[g] # Unused => g \notin alive',
         \A a \in apps : a \in apps' \/ (a[1] \in alive /\ a[1] \notin alive'),
         PlacesUnique'
  PROVE  PlacementInv'
<1>0. TypeOK
  BY DEF PlacementInv
<1>1. TypeOK'
  BY <1>0 DEF TypeOK, OrgNames, OrgName
<1>2. \A g, t : IsOrg(g, t) => IsOrg(g, t)'
  BY Distinct DEF IsOrg, OrgName
<1>3. \A h, g, t : IsSpace(h, g, t) => IsSpace(h, g, t)'
  BY Distinct DEF IsSpace, SpaceName
<1>4. OrgsResolved' /\ SpacesResolved' /\ TasksPlaced' /\ TenantsPlaced'
  BY <1>2, <1>3 DEF PlacementInv, OrgsResolved, SpacesResolved, TasksPlaced, TenantsPlaced
<1>5. CacheTrue'
  <2>1. \A n \in OrgNames : orgCache[n] # NoGUID => place'[orgCache[n]] = Org(n)
    BY <1>0, Distinct DEF PlacementInv, CacheTrue, TypeOK
  <2>2. \A e \in spaceCache : place'[e.guid] = Space(e.key[1], e.key[2])
    BY <1>0, Distinct DEF PlacementInv, CacheTrue, TypeOK
  <2> QED
    BY <2>1, <2>2 DEF CacheTrue, OrgNames, OrgName
<1>6. AppsPushed'
  BY DEF PlacementInv, AppsPushed, App
<1>7. \A g \in GUIDs \ alive : place[g] # Unused => g \in GUIDs \ alive' /\ place'[g] # Unused
  OBVIOUS
<1>8. AppsStay'
  <2> SUFFICES ASSUME NEW c \in Spawns, pc[c] = "run", App(c) \notin apps' PROVE space[c] \notin alive'
    BY DEF AppsStay, App
  <2>1. IsSpace(space[c], org[c], Tenant[c])
    BY DEF PlacementInv, SpacesResolved, WithSpace
  <2>2. CASE App(c) \in apps
    BY <2>2 DEF App
  <2>3. CASE space[c] \notin alive
    BY <1>7, <2>1, <2>3, Distinct DEF IsSpace
  <2> QED
    BY <2>2, <2>3 DEF PlacementInv, AppsStay
<1>9. FailureIsExplained'
  BY <1>7, ExplainedStays DEF PlacementInv, FailureIsExplained
<1> QED
  BY <1>1, <1>4, <1>5, <1>6, <1>8, <1>9 DEF PlacementInv

\* Cache entries expire, operators delete and create.
LEMMA EnvironmentSteps ==
  ASSUME PlacementInv, dedicated' = dedicated, EntryExpires \/ PlaceDeleted \/ PlaceCreated
  PROVE  PlacementInv'
<1>0. TypeOK /\ CacheTrue /\ PlacesUnique
  BY DEF PlacementInv
<1>1. CASE EntryExpires
  <2>1. UNCHANGED <<place, alive, apps, pc, org, space, tasks, faults, faulty>>
    BY <1>1 DEF EntryExpires, cfVars, faultVars
  <2>2. /\ orgCache' \in [OrgNames -> GUIDs \cup {NoGUID}]
        /\ \A n \in OrgNames : orgCache'[n] # NoGUID => orgCache'[n] = orgCache[n]
        /\ spaceCache' \subseteq spaceCache
    BY <1>0, <1>1 DEF EntryExpires, TypeOK
  <2>3. TypeOK' /\ CacheTrue'
    BY <1>0, <2>1, <2>2 DEF TypeOK, CacheTrue, OrgNames, OrgName
  <2>4. OrgsResolved' /\ SpacesResolved' /\ PlacesUnique' /\ TenantsPlaced' /\ TasksPlaced'
    BY <2>1 DEF PlacementInv, OrgsResolved, SpacesResolved, PlacesUnique, TenantsPlaced, TasksPlaced,
       IsOrg, IsSpace, OrgName, SpaceName
  <2>5. AppsPushed' /\ AppsStay'
    BY <2>1 DEF PlacementInv, AppsPushed, AppsStay, App
  <2>6. FailureIsExplained'
    BY <2>1, ExplainedStays DEF PlacementInv, FailureIsExplained
  <2> QED
    BY <2>3, <2>4, <2>5, <2>6 DEF PlacementInv
<1>2. CASE PlaceDeleted
  <2>1. PICK g \in alive :
          LET gone == {g} \cup {h \in alive : place[h].org = g} IN
          /\ alive' = alive \ gone
          /\ apps' = {a \in apps : a[1] \notin gone}
    BY <1>2 DEF PlaceDeleted
  <2>2. UNCHANGED <<place, orgCache, spaceCache, pc, org, space, tasks, faults, faulty>>
    BY <1>2 DEF PlaceDeleted, cacheVars, faultVars
  <2>3. /\ alive' \subseteq alive /\ apps' \subseteq apps
        /\ \A a \in apps : a \in apps' \/ (a[1] \in alive /\ a[1] \notin alive')
    BY <2>1
  <2>4. PlacesUnique'
    BY <1>0, <2>2, <2>3 DEF PlacesUnique
  <2> QED
    BY <1>0, <2>2, <2>3, <2>4, PlacesChange DEF TypeOK
<1>3. CASE PlaceCreated
  <2>1. PICK g \in GUIDs : \E p :
          /\ place[g] = Unused /\ p # Unused /\ Lookup(p) = {}
          /\ place' = [place EXCEPT ![g] = p] /\ alive' = alive \cup {g}
    BY <1>3, Distinct DEF PlaceCreated
  <2>2. UNCHANGED <<apps, orgCache, spaceCache, pc, org, space, tasks, faults, faulty>>
    BY <1>3 DEF PlaceCreated, cacheVars, faultVars
  <2>p. PICK p :
          /\ place[g] = Unused /\ p # Unused /\ Lookup(p) = {}
          /\ place' = [place EXCEPT ![g] = p] /\ alive' = alive \cup {g}
    BY <2>1
  <2>3. /\ place'[g] = p /\ \A h \in GUIDs \ {g} : place'[h] = place[h]
        /\ g \notin alive /\ DOMAIN place' = GUIDs
    BY <1>0, <2>p DEF TypeOK
  <2>4. PlacesUnique'
    BY <1>0, <2>p, <2>3 DEF PlacesUnique, TypeOK, Lookup
  <2>5. alive' \subseteq {h \in GUIDs : place'[h] # Unused}
    BY <1>0, <2>p, <2>3 DEF TypeOK
  <2> QED
    BY <2>p, <2>2, <2>3, <2>4, <2>5, PlacesChange
<1> QED
  BY <1>1, <1>2, <1>3

\* At the start only the orgs and spaces of the tenants are there.
LEMMA PlacementInvInit == Init => PlacementInv
<1> SUFFICES ASSUME Init PROVE PlacementInv
  OBVIOUS
<1> DEFINE P == InitialPlaces(dedicated)
<1>0. /\ P \in Seq({P[i] : i \in DOMAIN P} \ {Unused}) /\ Len(P) <= MaxGUID
      /\ \A i, j \in DOMAIN P : P[i] = P[j] => i = j
      /\ \A t \in Tenants : \E i, j \in DOMAIN P : P[i] = Org(OrgName(t)) /\ P[j] = Space(i, SpaceName(t))
  BY PlacesAssumption DEF Init, OrgName, SpaceName
<1>1. /\ place = [g \in GUIDs |-> IF g <= Len(P) THEN P[g] ELSE Unused]
      /\ alive = DOMAIN P
  BY DEF Init
<1> HIDE DEF P
<1>2. DOMAIN P = 1..Len(P) /\ Len(P) \in Nat /\ DOMAIN P \subseteq GUIDs
  BY <1>0, PlacesAssumption DEF GUIDs
<1>3. \A g \in DOMAIN P : place[g] = P[g] /\ place[g] # Unused
  BY <1>0, <1>1, <1>2 DEF GUIDs
<1>4. TypeOK
  <2>1. alive \subseteq {g \in GUIDs : place[g] # Unused} /\ DOMAIN place = GUIDs
    BY <1>1, <1>2, <1>3
  <2> QED
    BY <2>1, PlacesAssumption DEF Init, TypeOK, Positions
<1>5. PlacesUnique
  BY <1>0, <1>1, <1>3 DEF PlacesUnique
<1>6. TenantsPlaced
  BY <1>0, <1>2, <1>3 DEF TenantsPlaced, IsOrg, IsSpace
<1>7. OrgsResolved /\ SpacesResolved
  BY DEF Init, OrgsResolved, SpacesResolved, WithOrg, WithSpace
<1> QED
  BY <1>4, <1>5, <1>6, <1>7 DEF Init, PlacementInv, CacheTrue, AppsPushed, AppsStay, TasksPlaced,
     FailureIsExplained

\* Every step keeps the invariant.
LEMMA PlacementInvStep == PlacementInv /\ [Next]_vars => PlacementInv'
<1> SUFFICES ASSUME PlacementInv, [Next]_vars PROVE PlacementInv'
  OBVIOUS
<1>1. CASE UNCHANGED vars
  <2>1. TypeOK /\ PlacesUnique
    BY DEF PlacementInv
  <2>2. PlacesUnique'
    BY <1>1, <2>1 DEF vars, PlacesUnique
  <2> QED
    BY <1>1, <2>1, <2>2, PlacesChange DEF vars, TypeOK
<1>2. ASSUME dedicated' = dedicated, NEW c \in Spawns, SpawnStep(c) PROVE PlacementInv'
  BY <1>2, OrgSteps, SpaceSteps, AppSteps, PushStep, RunStep DEF SpawnStep
<1> QED
  BY <1>1, <1>2, EnvironmentSteps DEF Next

\* Through stale cache entries, deletions and re-creations: a GUID that a call or the
\* cache holds stands for the place that was asked for.
THEOREM PlacementInvariance == Spec => []PlacementInv
BY PlacementInvInit, PlacementInvStep, PTL DEF Spec

\* An agent runs in its own tenant's space and org.
THEOREM AgentsRunAtHome == Spec => []TasksInOwnSpace
<1>1. PlacementInv => TasksInOwnSpace
  BY Distinct DEF PlacementInv, TasksPlaced, TasksInOwnSpace, IsOrg, IsSpace
<1> QED
  BY <1>1, PlacementInvariance, PTL

\* SpawnAgent fails only if one of its own API calls failed, if an org or a space of its own
\* tenant has been deleted, or when another call has pushed the same runner first.
THEOREM FailuresHaveReasons == Spec => []FailureIsExplained
<1>1. PlacementInv => FailureIsExplained
  BY DEF PlacementInv
<1> QED
  BY <1>1, PlacementInvariance, PTL
=============================================================================
