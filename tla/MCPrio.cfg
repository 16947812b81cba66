CONSTANTS
  num_bufs = 3
  c = 3
  me = 2
  md = 1
  MAX_I = 2
  k = 2
SPECIFICATION IsoSpec
INVARIANTS
  DrainBound
  Isolation
PROPERTIES
  TrsRedundant
