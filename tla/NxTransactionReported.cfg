CONSTANTS
  N = 2
  MaxRuns = 2
  MaxAdversity = 1
  MaxRelease = 1
  RecipeOf <- OneRelease
  TransientReads = FALSE
SPECIFICATION Spec
INVARIANTS CommittedNeverFailed
CHECK_DEADLOCK FALSE
