SPECIFICATION FairSpec
CONSTANTS
  f1 = f1
  f2 = f2
  f3 = f3
  p1 = p1
  p2 = p2
  NoFile = NoFile
  Files <- TwoFiles
  Producers <- TwoProducers
  ErrLimit = 2
  UseDB = TRUE
  NestedRoot = TRUE
  MayFail = TRUE
  Spurious = TRUE
  MaxCouplings = 1
  MayDestroy = TRUE
INVARIANT TypeOK
INVARIANT OnlyOverlapDrops
INVARIANT ToldIsSaved
PROPERTY NoticedIsSaved
PROPERTY DestructorReturns
PROPERTY IsFileStore
CHECK_DEADLOCK FALSE
