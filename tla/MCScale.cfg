SPECIFICATION ScaleFairSpec
CONSTANTS
  w1 = w1
  w2 = w2
  ann = ann
  bob = bob
  N = 3
  Start = 1
  Removable = {0}
  Prompt = TRUE
  FaultyIndexes = {0}
  MaxFaults = 1
  Writes = {}
  Operators = {ann, bob}
  Additions = {2}
  MaxScales = 2
INVARIANTS ScaleIInv
PROPERTIES AddsCapacity NamesAreComplete RangeIsFilled MembersComeUp
CHECK_DEADLOCK FALSE
