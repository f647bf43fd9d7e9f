SPECIFICATION Spec
CONSTANTS
  Node = {n1, n2}
  LEN = 3
  MaxBacklog = 2
  MaxR = 1
  MaxBeats = 1
INVARIANTS
  LockExclusion
  OnlyTimersBlock
CHECK_DEADLOCK FALSE
