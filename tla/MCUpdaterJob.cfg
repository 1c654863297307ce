SPECIFICATION Spec
CONSTANTS
  MaxRevision = 5
  Images = {"image1"}
  ComposePolicies = {"cp1"}
  Containers = {"c1"}
  NoDocker = NoDocker
  NoName = ""
  Nil = Nil
  Names <- MCNames
  Commands = {"move"}
  Envelope <- MCEnvelope
  MCExpires = 2
  MaxTime = 2
  MaxGeneration = 2
  MaxResults = 2
  MaxProgress = 0
INVARIANTS
  Inductive
  WireRoundTrip
  VerdictHolds
PROPERTIES
  ImplementsJobVerdict
CHECK_DEADLOCK FALSE
