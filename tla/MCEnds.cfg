SPECIFICATION FairSpec
CONSTANTS
  w1 = w1
  w2 = w2
  ann = ann
  bob = bob
  N = 3
  Start = 3
  Removable = {0}
  Prompt = FALSE
  FaultyIndexes = {0}
  MaxFaults = 1
  Writes = {w1}
  Operators = {ann}
  Forces = {FALSE}
  MaxRuns = 2
PROPERTIES RunsEnd SuccessMeansPromoted
INVARIANTS RoleSurvivesRestart LabelledAreReady
CHECK_DEADLOCK FALSE
