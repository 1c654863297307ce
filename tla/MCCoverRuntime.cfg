SPECIFICATION Spec
CONSTANTS
  Identifiers <- MCIdentifiers
  Nil = Nil
  Stream = "stream"
  Attempts <- MCAttempts
  Epoch <- MCEpoch
  Variants = {"picture"}
  StartCovers <- MCStartCovers
  MaxRevision = 2
  MaxGeneration = 2
INVARIANTS
  Inductive
  ShownIsTrue
  RunningHasShown
  OnlyItsOwnCommands
  AlwaysReportable
CHECK_DEADLOCK FALSE
