SPECIFICATION Spec
CONSTANTS
  c0 = c0
  c1 = c1
  x = x
  y = y
  z = z
  Controller = {c0, c1}
  Core = {x, y, z}
  Zero = c0
  my_idag <- XApart
  Region <- AroundX
  App = {1, 2, 3, 4}
  Starts <- RunningOnly
INVARIANTS
  AppKept
CHECK_DEADLOCK FALSE
