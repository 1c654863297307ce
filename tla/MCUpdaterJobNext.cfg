SPECIFICATION Spec
CONSTANTS
  MaxRevision = 5
  Images = {"image1"}
  ComposePolicies = {"cp1"}
  Containers = {"c1"}
  NoDocker = NoDocker
  NoName = ""
  Nil = Nil
  Names <- MCNames
  Commands = {"move", "update"}
  Envelope <- MCEnvelope
  MCExpires = 2
  MaxTime = 3
  MaxGeneration = 1
  MaxResults = 2
  MaxProgress = 0
PROPERTIES
  PortResultStands
  ImplementsJobVerdict
CHECK_DEADLOCK FALSE
