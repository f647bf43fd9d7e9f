SPECIFICATION Spec
CONSTANTS
  Node = {n1, n2}
  LEN = 3
  MaxBacklog = 3
  MaxR = 2
  MaxBeats = 0
INVARIANTS
  NothingLost
