SPECIFICATION Spec
CONSTANTS
  w1 = w1
  w2 = w2
  N = 2
  Start = 2
  Removable = {}
  Prompt = FALSE
  FaultyIndexes = {0}
  MaxFaults = 1
  Writes = {}
  ann = ann
  bob = bob
  Operators = {ann}
  Forces = {FALSE}
  MaxRuns = 1
INVARIANTS NoSplitBrain
CHECK_DEADLOCK FALSE
