CONSTANTS
  one = one
  two = two
  Threads <- TwoThreads
  Static <- AnyInitialiser
  CountWrap = 8
  MaxCalls = 4
SPECIFICATION Spec
INVARIANTS TypeOK MutualExclusion NothingLeftLocked
PROPERTIES SignalWakes
CHECK_DEADLOCK FALSE
