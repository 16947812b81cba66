CONSTANTS
  num_bufs = 3
  c = 2
  me = 2
  md = 1
  MAX_I = 2
  MaxSlack = 1
SPECIFICATION WlSpec
INVARIANTS
  TypeOK
  ListsSound
  Receptive
  LoadedBacklogged
  ListHasHead
