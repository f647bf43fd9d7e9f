SPECIFICATION FairSpec
CONSTANTS
  p1 = p1
  p2 = p2
  p3 = p3
  v1 = v1
  v2 = v2
  Core = {p1, p2, p3}
  CLUSTER_SIZE = 3
  Value = {v1, v2}
  NoValue = NoValue
  index <- TwoValues
  Detecting = {p1, p2}
  Redetect = FALSE
  MaxProposals = 2
INVARIANTS
  TypeOK
  PromisedByMajority
  OneValue
PROPERTIES
  Agreement
  Elects
CHECK_DEADLOCK FALSE
