SPECIFICATION Spec
CONSTANTS
  MaxRevision = 9
  MaxWorlds = 3
  Services <- MCServices
  InitWorlds <- MCInitWorlds
  IdOf <- MCIdOf
  Orders <- MCOrders
  LocalPorts = {1024, 2000}
  ContainerPorts = {3000, 3001}
  AdvertisedPorts = {443, 8443}
  Images = {"image1"}
  ComposePolicies = {"cp1"}
  Containers = {"c1"}
  NoDocker = NoDocker
  NoPolicy = NoPolicy
  NoPort = NoPort
INVARIANTS
  Inductive
  OneMoment
  IdentityIsContent
  RestoredIsStored
  OneChangePerSnapshot
