SPECIFICATION Spec
CONSTANTS
  a = a
  b = b
  x = x
  y = y
  Nobody = Nobody
  Starter = Starter
  Core = {a, b, x, y}
  Starts <- Both
  Founders = {x, y}
  workldOf = 2
INVARIANTS
  FinishCounted
CHECK_DEADLOCK FALSE
