SPECIFICATION Spec
CONSTANTS
  MaxRevision = 5
  MaxPlans = 1
  Services <- MCServices
  Endpoints <- MCEdgeEndpoints
  InitPolicies <- MCInitPolicies
  LocalPorts = {1023, 1024, 65535, 65536}
  ContainerPorts = {1023, 3000}
  Images = {"image1"}
  ComposePolicies = {"cp1"}
  Containers = {"c1"}
  NoDocker = NoDocker
  NoPolicy = NoPolicy
INVARIANTS
  TypeOK
CHECK_DEADLOCK FALSE
