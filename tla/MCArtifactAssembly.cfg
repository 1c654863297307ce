SPECIFICATION Spec
CONSTANTS
  Runs = {r1, r2}
  Outputs <- MCOutputs
  Fragments <- MCFragments
  FragmentsOf <- MCFragmentsOf
  MaxEdits = 2
  MaxCrashes = 1
SYMMETRY RunSymmetry
INVARIANTS
  Inductive
  ReportIsTrue
  FailureIsTrue
CHECK_DEADLOCK FALSE
