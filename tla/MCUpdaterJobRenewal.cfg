SPECIFICATION Spec
CONSTANTS
  MaxRevision = 5
  Images = {"image1"}
  ComposePolicies = {"cp1"}
  Containers = {"c1"}
  NoDocker = NoDocker
  NoName = ""
  Nil = Nil
  Names <- MCNames
  Commands = {"update"}
  Envelope <- MCEnvelope
  MCExpires = 3
  MaxTime = 4
  MaxGeneration = 2
  MaxResults = 1
  MaxProgress = 1
INVARIANTS
  AuthorizationBoundsWork
CHECK_DEADLOCK FALSE
