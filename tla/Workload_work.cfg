SPECIFICATION FairSpec
CONSTANTS
  a = a
  b = b
  x = x
  y = y
  Nobody = Nobody
  Starter = Starter
  Core = {a, b, x, y}
  Starts <- All
  Founders = {x, y}
  workldOf = 2
INVARIANTS
  
  
  
  NeverPending

  
  
  
CHECK_DEADLOCK FALSE
