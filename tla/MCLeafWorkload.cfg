SPECIFICATION WorkloadSpec
CONSTANTS
  timesteps = 3
  num_spines = 2
  leafs_per_spine = 3
  hosts_per_leaf = 2
  Lines <- MCLines
  Traffic <- MCTraffic
INVARIANTS PruningSound AllOrNothing PathDeclared Delivered TablesAgree AipgIsGap
CHECK_DEADLOCK FALSE
