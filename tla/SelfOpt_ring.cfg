SPECIFICATION Spec
CONSTANTS
  c0 = c0
  c1 = c1
  a1 = a1
  a2 = a2
  x1 = x1
  x2 = x2
  x3 = x3
  NotOffered = NotOffered
  Elsewhere = Elsewhere
  Controller = {c0}
  Agent = {a1, a2}
  Worker = {x1, x2, x3}
  Zero = c0
  idag_mask <- OneMask
  FirstCores <- PairFirst
  Targets <- RingTargets
  MaxRounds <- OneRounds
  Spent <- OneSpent
  Finishing = {a1, a2}
INVARIANTS
  NoRing
CHECK_DEADLOCK FALSE
