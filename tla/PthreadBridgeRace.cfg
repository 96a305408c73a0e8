CONSTANTS
  one = one
  two = two
  Threads <- TwoThreads
  Static <- PlainInitialiser
  CountWrap = 8
  MaxCalls = 2
SPECIFICATION Spec
INVARIANTS LazyInitIsSafe
CHECK_DEADLOCK FALSE
