CONSTANT MaxLines = 6
SPECIFICATION RunnerSpec
INVARIANTS
  RowsAreVerdicts
  AskedAlone
  DoneIsComplete
CHECK_DEADLOCK FALSE
