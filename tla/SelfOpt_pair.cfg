SPECIFICATION FairSpec
CONSTANTS
  c0 = c0
  c1 = c1
  a1 = a1
  a2 = a2
  x1 = x1
  x2 = x2
  x3 = x3
  NotOffered = NotOffered
  Elsewhere = Elsewhere
  Controller = {c0, c1}
  Agent = {a1, a2}
  Worker = {x1, x2, x3}
  Zero = c0
  idag_mask <- PairMask
  FirstCores <- PairFirst
  Targets <- PairTargets
  MaxRounds <- PairRounds
  Spent <- PairSpent
  Finishing = {a1, a2}
INVARIANTS
  TypeOK
  OneOwner
  KeepsWorker
  MessagesUnderstood
  HandshakeMatches
  LedgerCatchesUp
  EndsCountedOnce
  NoTwoWait
PROPERTIES
  NegotiationsEnd
  EndedAppsLeave
CHECK_DEADLOCK FALSE
