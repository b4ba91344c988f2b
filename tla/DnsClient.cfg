SPECIFICATION FairSpec
CONSTANTS
  Callers = {c1, c2}
  Readers = {v4, v6}
  IdLimit = 3
  MaxQueries = 4
INVARIANTS
  TypeOK
  NoWaiterIsForgotten
  OnlyOldAnswersGoAstray
PROPERTIES
  QueriesEnd
CHECK_DEADLOCK FALSE
