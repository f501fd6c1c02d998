SPECIFICATION Spec
CONSTANTS
  Person = {p, q}
  Host = 3
  Ask = {2}
  BadKey = FALSE
  MaxNets = 2
  MaxQuits = 2
INVARIANTS TypeOK  
 
CHECK_DEADLOCK FALSE
