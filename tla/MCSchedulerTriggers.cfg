CONSTANTS
  Runner = {r1}
  Trigger = {t1}
  Job = {j1}
  JobId <- JobIds
  None = None
  SerialGroups <- OwnGroup
  MaxInFlight <- AtMostOne
  Triggered = {j1}
  Pausing = FALSE
  MaxVersions = 1
  MaxBuilds = 3
  MaxFaults = 0
SPECIFICATION FairSpec
PROPERTIES MaxInFlightRespected StartedInOrder PendingBuildsLeave
