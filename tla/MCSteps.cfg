CONSTANTS
  Configs <- MCConfigs
  MaxRestarts = 1
SPECIFICATION FairSpec
INVARIANTS OutcomeRight Answerable Finished
PROPERTIES  BuildEnds
CHECK_DEADLOCK FALSE
