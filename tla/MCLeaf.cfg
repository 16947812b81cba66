CONSTANTS
  ports <- MCPorts
  used <- MCPorts
  buff_cap = 1
  max_enq = 1
  MAX_I = 2
  MaxWait = 3
SPECIFICATION SwitchSpec
INVARIANTS
  Matching
  Maximal
  Matchable
  SpineWait
PROPERTIES
  WakesUp
