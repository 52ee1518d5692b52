SPECIFICATION RollFairSpec
CONSTANTS
  w1 = w1
  w2 = w2
  ann = ann
  bob = bob
  N = 2
  Start = 2
  Removable = {0}
  Prompt = FALSE
  FaultyIndexes = {0}
  MaxFaults = 1
  Writes = {}
  Operators = {ann, bob}
  MaxRolls = 2
INVARIANTS RollIInv
PROPERTIES UpgradeIsComplete OneAtATime UpgradesEnd
CHECK_DEADLOCK FALSE
