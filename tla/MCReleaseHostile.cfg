SPECIFICATION Spec
CONSTANTS
  c1 = c1
  c2 = c2
  r1 = r1
  r2 = r2
  Commits = {c1, c2}
  Tested = {c1}
  Runs = {r1, r2}
  Triggers <- MCReleasing
  Version = Version
  ByHand = ByHand
  NoCommit = NoCommit
  NoRelease = NoRelease
  MaxFailures = 1
  MaxEdits = 3
SYMMETRY MCSymmetry
INVARIANTS
  Inductive
  VerifiedForGood
PROPERTIES
  OnlyOwnChanges
  ImplementsTrustedRelease
CHECK_DEADLOCK FALSE
