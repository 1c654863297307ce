SPECIFICATION Spec
CONSTANTS
  c1 = c1
  c2 = c2
  r1 = r1
  Commits = {c1, c2}
  Tested = {c1}
  Runs = {r1}
  Triggers <- MCTriggers
  Version = Version
  ByHand = ByHand
  NoCommit = NoCommit
  NoRelease = NoRelease
  MaxFailures = 0
  MaxEdits = 0
INVARIANTS
  DryRunReleasesNothing
CHECK_DEADLOCK FALSE
