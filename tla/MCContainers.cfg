CONSTANTS
  b1 = b1
  c1 = c1
  c2 = c2
  x1 = x1
  NoOwner = NoOwner
  Worker = {w1}
  Build = {b1}
  Draining = {b1}
  Creator = {c1, c2}
  BuildOf <- MCBuildOf
  HelperOf <- MCHelperOf
  Atc = {a1}
  Hijacker = {h1}
  MaxRows = 2
  MaxJobs = 1
  MaxFaults = 1
SPECIFICATION FairSpec
INVARIANTS RowsMatchGarden OwnedContainersStay
PROPERTIES SessionsSurvive OrphansGo
CHECK_DEADLOCK FALSE
