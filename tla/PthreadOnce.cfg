CONSTANTS
  one = one
  two = two
  three = three
  other = other
  Callers <- ThreeCallers
  Others <- OneOther
  MaxCalls = 2
SPECIFICATION FairSpec
INVARIANTS TypeOK RunsOnce ReturnedIsDone
PROPERTIES CallsReturn
CHECK_DEADLOCK FALSE
