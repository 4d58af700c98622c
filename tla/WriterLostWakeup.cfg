SPECIFICATION FairSpec
CONSTANTS
  f1 = f1
  f2 = f2
  f3 = f3
  p1 = p1
  p2 = p2
  NoFile = NoFile
  Files <- TwoFiles
  Producers <- OneProducer
  ErrLimit = 5
  UseDB = FALSE
  NestedRoot = TRUE
  MayFail = FALSE
  Spurious = FALSE
  MaxCouplings = 0
  MayDestroy = FALSE
PROPERTY QueuedIsSaved
CHECK_DEADLOCK FALSE
