CONSTANTS
  PoolSize = 2
  Budget = 2
  MaxFrame = 5
  MaxTimeout = 1
  MaxOpen = 3
  MaxLoad = 2
SPECIFICATION Spec
INVARIANTS
  
  
  FirstStaysClear
  
CHECK_DEADLOCK FALSE
