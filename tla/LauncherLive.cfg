CONSTANTS
  first = first
  second = second
  Launchers <- OneLaunch
  Ticks = 2
  MaxSignals = 3
  Reuses = 2
  MaxKills = 1
SPECIFICATION FairSpec
INVARIANTS FinishedOnce StatusIsGames OnlyTheRecorded
PROPERTIES ShutdownEnds DeadlineEnforced
CHECK_DEADLOCK FALSE
