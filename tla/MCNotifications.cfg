CONSTANTS
  Listener = {l1, l2}
  MaxNotes = 2
  MaxBreaks = 2
  MaxFails = 1
SPECIFICATION FairSpec
INVARIANTS NoLostWakeup
PROPERTIES WatchersAreWoken
CHECK_DEADLOCK FALSE
