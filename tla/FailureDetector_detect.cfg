SPECIFICATION FairSpec
CONSTANTS
  portion = portion
  NoWork = NoWork
  Portion = {portion}
  Core = {0, 10, 11, 12, 20}
  Configurations <- Instances
  MaxCrashes = 2
INVARIANTS
  TypeOK
  Accuracy
  ElectionNeeded
PROPERTIES
  Completeness
  ElectionHeld
  WorkSurvives
CHECK_DEADLOCK FALSE
