--------------------------- MODULE MCCFPlacement ----------------------------
(***************************************************************************)
(* Three SpawnAgent calls for two tenants, two of them for one runner app. *)
(***************************************************************************)
EXTENDS CFPlacement, TLC

CONSTANTS s1, s2, s3

MCTenant == [c \in Spawns |-> IF c = s3 THEN "zeta" ELSE "acme"]
MCPlaces(dedicatedTier) ==
  IF dedicatedTier
    THEN <<Org("acme"), Space(1, "muto-agents"), Org("zeta"), Space(3, "muto-agents")>>
    ELSE <<Org("shared"), Space(1, "acme"), Space(1, "zeta")>>
MCSymmetry == Permutations({s1, s2})
MCRole == [c \in Spawns |-> "worker"]
=============================================================================
