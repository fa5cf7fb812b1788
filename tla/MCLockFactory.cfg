CONSTANTS
  ATC = {atc1, atc2}
  Slot = {s1, s2}
  LockID = {l1}
  None = None
  MaxSessions = 3
  MaxDepth = 2
  QueryErrors = TRUE
SPECIFICATION FairSpec
INVARIANTS MutualExclusion
PROPERTIES ReleaseIsTruthful NoStolenRelease ImplementsLease 
CHECK_DEADLOCK FALSE
