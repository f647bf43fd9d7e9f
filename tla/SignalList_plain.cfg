SPECIFICATION FairSpec
CONSTANTS
  Node = {n1, n2}
  LEN = 3
  MaxBacklog = 2
  MaxR = 2
  MaxBeats = 0
INVARIANTS
  TypeOK
  WholeSignal
  NothingLost
PROPERTIES
  ImplementsQueue
  AllHandled
