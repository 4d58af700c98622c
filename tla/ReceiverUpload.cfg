SPECIFICATION MCFairSpec
CONSTANTS
  f1 = f1
  f2 = f2
  f3 = f3
  b1 = b1
  b2 = b2
  b3 = b3
  NoBuf = NoBuf
  NoFile = NoFile
  Buffers <- MCBuffers
  Files = {f1, f2, f3}
  FileSize <- ThreeSizes
  PackSize = 2
  QueueCap = 2
  MaxOffers = 3
  MaxBeats = 0
  BeatWhen = {}
  SplitLines = FALSE
  MayClose = TRUE
INVARIANT TypeOK
INVARIANT SavedIntact
INVARIANT AckedIsKept
INVARIANT NoOverrun
INVARIANT NoNullPointer
PROPERTY SendingIsAnswered
PROPERTY IsFileStore
CHECK_DEADLOCK FALSE
