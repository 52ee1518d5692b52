SPECIFICATION FairSpec
CONSTANTS
  m0 = m0
  m1 = m1
  m2 = m2
  s1 = s1
  s2 = s2
  First = m0
  Slaves = {m1, m2}
  Scripts = {s1, s2}
  MaxFaults = 2
INVARIANTS TypeOK IInv OneDatabase CanLead
PROPERTIES DataKept ReplicationBegins
CHECK_DEADLOCK FALSE
