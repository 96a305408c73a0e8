SPECIFICATION FairSpec
CONSTANTS
  apk = apk
  rebuilt = rebuilt
  bundle = bundle
  MaxRuns = 3
  MaxAtOnce = 2
  MaxMishaps = 1
  MaxWrites = 1
  MaxChanges = 1
  Payloads <- MCPayloads
  First = apk
  Fingerprint <- MCFingerprint
  NPath = 2
  NItem = 1
  Options <- MCOptions
  Target <- MCTarget
  Distinguishes = TRUE
  Accepts <- MCAccepts
INVARIANTS TypeOK DoneIsTrue NoOrphanUI TwoTries
PROPERTIES CommittedIsProcessed LoserLeavesAlone SetupInSight Ends
CHECK_DEADLOCK FALSE
