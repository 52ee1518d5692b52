SPECIFICATION RollSpec
CONSTANTS
  w1 = w1
  w2 = w2
  ann = ann
  bob = bob
  N = 2
  Start = 2
  Removable = {}
  Prompt = TRUE
  FaultyIndexes = {}
  MaxFaults = 0
  Writes = {}
  Operators = {ann}
  MaxRolls = 1
PROPERTIES RollsOneByOne
CHECK_DEADLOCK FALSE
