SPECIFICATION Spec
CONSTANTS
  MaxRevision = 5
  MaxPlans = 2
  Services <- MCServices
  Endpoints <- MCEndpoints
  InitPolicies <- MCInitPolicies
  LocalPorts = {1024, 2000}
  ContainerPorts = {3000, 3001}
  Images = {"image1"}
  ComposePolicies = {"cp1"}
  Containers = {"c1"}
  NoDocker = NoDocker
  NoPolicy = NoPolicy
INVARIANTS
  Inductive
  OneWinner
  RollbackReady
  RollbackRestores
PROPERTIES
  NeverReinstalled
  OnlyOneTargetChanges
  TargetOnlyFromBefore
CHECK_DEADLOCK FALSE
