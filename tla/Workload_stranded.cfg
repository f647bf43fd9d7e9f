SPECIFICATION FairSpec
CONSTANTS
  a = a
  b = b
  x = x
  y = y
  Nobody = Nobody
  Starter = Starter
  Core = {a, b, x, y}
  Starts <- FoundingOnly
  Founders = {x, y}
  workldOf = 2
PROPERTIES
  WorkEnds
CHECK_DEADLOCK FALSE
