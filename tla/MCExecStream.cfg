\* A call whose set-up fails never returns and the program stops there, so
\* deadlock is not checked; MCExecHangs.cfg shows it as a violation.
SPECIFICATION FairSpec
CONSTANTS
  Chunks = 3
  Drops = TRUE
INVARIANTS TypeOK IInv OutputIsComplete NothingInvented JoinedBeforeRead
PROPERTIES ImplementsCall ReturnsOnceStreaming
CHECK_DEADLOCK FALSE
