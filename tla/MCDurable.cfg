SPECIFICATION Spec
CONSTANTS
  w1 = w1
  w2 = w2
  ann = ann
  bob = bob
  N = 3
  Start = 3
  Removable = {0, 2}
  Prompt = TRUE
  FaultyIndexes = {0, 2}
  MaxFaults = 2
  Writes = {w1}
  Operators = {ann, bob}
  Forces = {FALSE}
  MaxRuns = 2
INVARIANTS TypeOK IInv KeptByFirstStandby DurableWrites
SYMMETRY Symmetry
CHECK_DEADLOCK FALSE
