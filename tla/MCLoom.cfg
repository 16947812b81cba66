CONSTANTS
  NumRR = 2
  c = 2
  MAX_ENQ = 2
  MAX_DEQ = 1
SPECIFICATION Spec
INVARIANTS
  LoomTypeOK
  MergerIsWire
  PriorityAccepts
PROPERTIES
  Accounted
  Type2First
  Drains
