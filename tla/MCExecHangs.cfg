SPECIFICATION FairSpec
CONSTANTS
  Chunks = 1
  Drops = FALSE
PROPERTIES EveryCallReturns
CHECK_DEADLOCK FALSE
