CONSTANTS
  N = 2
  MaxRuns = 3
  MaxAdversity = 2
  MaxRelease = 2
  RecipeOf <- SameRecipe
  TransientReads = FALSE
SPECIFICATION FairSpec
PROPERTIES PublishedStaysLive
CHECK_DEADLOCK FALSE
