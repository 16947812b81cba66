CONSTANTS
  num_bufs = 1
  c = 3
  me = 3
  md = 1
  mo = 1
  MAX_I = 6
  mk = 1
SPECIFICATION TypedSpec
INVARIANTS
  EquityInFirstWindow
  FifoRuns
  InOrder
PROPERTIES
  TailDrop
  SumsAreScalar
CHECK_DEADLOCK FALSE
