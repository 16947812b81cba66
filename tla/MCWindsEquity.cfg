CONSTANTS
  num_bufs = 1
  c = 3
  me = 2
  md = 1
  MAX_I = 3
SPECIFICATION WindSpec
INVARIANTS
  Equity
CHECK_DEADLOCK FALSE
