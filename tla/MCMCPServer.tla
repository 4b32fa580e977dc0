---------------------------- MODULE MCMCPServer ----------------------------
(***************************************************************************)
(* Two jobs and two tenants, as schedule_agent_job pairs them, for TLC.    *)
(***************************************************************************)
EXTENDS MCPServer, TLC

CONSTANTS acme, beta

MCTenants == {<<acme>>, <<beta>>}
MCRole == [j \in Jobs |-> <<<<"worker">>>>]
MCNames == {PodName(t, <<"worker">>) : t \in Tenants}
MCUIDs == Calls \X {1}

MCRequests == [job : Jobs, tenant : Tenants, args : {RequiredArgs, RequiredArgs \ {"image"}},
               ttl : TTLs]

\* State constraint: of a failed call, a deletion by others and a new session, two happen.
TwoAccidents == faults + evictions + sessions <= 2

\* Calls, jobs and tenants are interchangeable.
MCSymmetry == Permutations(Calls) \cup Permutations(Jobs) \cup Permutations({acme, beta})
=============================================================================
