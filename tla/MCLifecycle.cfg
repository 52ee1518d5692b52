SPECIFICATION Spec
CONSTANTS
  ann = ann
  bob = bob
  w1 = w1
  w2 = w2
  Operators = {ann, bob}
  N = 1
  Purges = {TRUE, FALSE}
  Failovers = TRUE
  Writes = {w1}
  MaxRuns = 3
INVARIANTS TypeOK IInv AckedIsKept
PROPERTIES CreateIsComplete DeleteIsComplete
SYMMETRY Symmetry
CHECK_DEADLOCK FALSE
