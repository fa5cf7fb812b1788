CONSTANTS
  ATC = {atc1, atc2}
  Build = {b1}
  None = None
  MaxRequests = 1
  MaxFaults = 1
  MaxDrains = 1
  MaxEvents = 2
SPECIFICATION FairSpec
INVARIANTS  StreamWellFormed
PROPERTIES StartedBuildsAreTracked AbortsComplete
CHECK_DEADLOCK FALSE
