SPECIFICATION Spec
CONSTANTS
  ann = ann
  bob = bob
  w1 = w1
  w2 = w2
  Operators = {ann}
  N = 2
  Purges = {FALSE}
  Failovers = TRUE
  Writes = {w1}
  MaxRuns = 3
INVARIANTS AckedIsKept
SYMMETRY Symmetry
CHECK_DEADLOCK FALSE
