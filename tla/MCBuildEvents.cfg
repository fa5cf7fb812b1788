CONSTANTS
  Writer = {w1}
  MaxEvents = 3
  Batch = 2
  MaxCloses = 2
SPECIFICATION FairSpec
INVARIANTS InOrder EndMeansAll
PROPERTIES ClientsSeeTheEnd
CHECK_DEADLOCK FALSE
