SPECIFICATION Spec
CONSTANTS
  Recipes <- MCShipped
  Folders <- MCFolders
  Newer <- MCNewer
  PrefixesOf <- MCPrefixes
  Key <- MCKey
  Packages <- MCPackages
  MaxRuns = 1
INVARIANTS PortFolderSearched
CHECK_DEADLOCK FALSE
