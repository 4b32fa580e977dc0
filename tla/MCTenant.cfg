\* Two Tenants created in one namespace, the first with a gateway, the second the same again
\* or another; a failed call and a restart when it is the same; with fairness.
CONSTANTS
  Tenants = {t1, t2}
  Namespace <- OneNamespace
  WithGateway = {t1}
  MaxUIDs = 2
  MaxFaults = 1
  MaxCrashes = 1
SPECIFICATION FairSpec
CHECK_DEADLOCK FALSE
CONSTRAINTS
  GatewayFirst
  CalmTogether
INVARIANTS
  TenantInv
  ReadyUnlessMisled
PROPERTIES
  NothingIsLeftBehind
  TenantSettles
  DeletedTenantGoes
