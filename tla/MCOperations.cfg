SPECIFICATION OpSpec
CONSTANTS
  w1 = w1
  w2 = w2
  ann = ann
  bob = bob
  N = 3
  Start = 2
  Removable = {0, 1}
  Prompt = TRUE
  FaultyIndexes = {0}
  MaxFaults = 1
  Writes = {}
  Operators = {ann, bob}
  Forces = {TRUE}
  MaxRuns = 2
  Additions = {1}
  MaxScales = 1
  MaxRolls = 1
  MaxCommands = 2
INVARIANTS OpIInv OpRollIInv OneWriter
PROPERTIES ImplementsLeadership UpgradeMissesOnlyPromoted
SYMMETRY OpSymmetry
CHECK_DEADLOCK FALSE
