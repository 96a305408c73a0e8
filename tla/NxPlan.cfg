SPECIFICATION Spec
CONSTANTS
  Recipes <- MCRecipes
  Folders <- MCFolders
  Newer <- MCNewer
  PrefixesOf <- MCPrefixes
  Key <- MCKey
  Packages <- MCPackages
  MaxRuns = 2
INVARIANTS TypeOK UnpackedTrue Genuine Fits NameBlind ForeignIgnored
CHECK_DEADLOCK FALSE
