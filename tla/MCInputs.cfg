CONSTANTS
  Resource = {"x", "y"}
  Upstream = {"a", "b"}
  Down = "down"
  Configs <- MCConfigs
  FirstRows <- MCFirstRows
  FirstBuilds <- MCFirstBuilds
  FirstOutputs <- MCFirstOutputs
  MaxVersions = 5
  MaxBuilds = 4
  MaxEvents = 2
SPECIFICATION Spec
INVARIANTS  NewestTogether
CHECK_DEADLOCK FALSE
