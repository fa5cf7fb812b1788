CONSTANTS
  Runner = {r1, r2}
  Trigger = {}
  Job = {j1, j2}
  JobId <- JobIds
  None = None
  SerialGroups <- OneGroup
  MaxInFlight <- AtMostOne
  Triggered = {j1, j2}
  Pausing = TRUE
  MaxVersions = 2
  MaxBuilds = 3
  MaxFaults = 1
SPECIFICATION Spec
INVARIANTS  NoVersionTriggersTwice
PROPERTIES MaxInFlightRespected
SYMMETRY Symmetry
