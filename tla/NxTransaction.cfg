CONSTANTS
  N = 2
  MaxRuns = 4
  MaxAdversity = 3
  MaxRelease = 1
  RecipeOf <- OneRelease
  TransientReads = FALSE
SPECIFICATION FairSpec
INVARIANTS TypeOK RollbackNeverBlocked NeverMixed
PROPERTIES InstallIsAtomic StagedWorkKept SelfHealing
CHECK_DEADLOCK FALSE
