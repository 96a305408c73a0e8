CONSTANTS
  first = first
  second = second
  Launchers <- TwoLaunches
  Ticks = 1
  MaxSignals = 1
  Reuses = 1
  MaxKills = 2
SPECIFICATION Spec
SYMMETRY Symmetry
INVARIANTS TypeOK OneGame OneTool OrphanHoldsNoLock
CHECK_DEADLOCK FALSE
