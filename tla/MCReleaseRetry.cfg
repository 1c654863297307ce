SPECIFICATION FairSpec
CONSTANTS
  c1 = c1
  c2 = c2
  r1 = r1
  r2 = r2
  r3 = r3
  Commits = {c1, c2}
  Tested = {c1}
  Runs = {r1, r2, r3}
  Triggers <- MCRetried
  Version = Version
  ByHand = ByHand
  NoCommit = NoCommit
  NoRelease = NoRelease
  MaxFailures = 2
  MaxEdits = 0
INVARIANTS
  UnverifiedIsReported
PROPERTIES
  ReadyRunVerifies
CHECK_DEADLOCK FALSE
