CONSTANTS
  num_bufs = 3
  c = 2
  me = 2
  md = 1
  MAX_I = 3
SPECIFICATION FairSpec
INVARIANTS
  FormulationsAgree
  BoundedWait
  FairShare
  WorkConserving
  Receptive
PROPERTY ImplementsBase
