CONSTANTS
  num_bufs = 1
  c = 10
  me = 1
  md = 1
  MAX_I = 2
  timesteps = 10
SPECIFICATION Spec
INVARIANT Receptive
CHECK_DEADLOCK FALSE
