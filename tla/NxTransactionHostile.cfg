CONSTANTS
  N = 2
  MaxRuns = 3
  MaxAdversity = 2
  MaxRelease = 3
  RecipeOf <- BothUpgrades
  TransientReads = TRUE
SPECIFICATION Spec
INVARIANTS NoOrphanBackup OkMeansInstalled
PROPERTIES OldPayloadKept
CHECK_DEADLOCK FALSE
