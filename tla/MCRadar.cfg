CONSTANTS
  Atc = {"atc"}
  Scanner <- MCScanner
  MaxVersions = 2
  MaxEvents = 2
SPECIFICATION FairSpec
INVARIANTS LocksAreScans
PROPERTIES TypeNeverGoesBack CatchesUp RequestsEnd StopsWhenPaused
CHECK_DEADLOCK FALSE
