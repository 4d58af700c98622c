SPECIFICATION FairSpec
CONSTANTS
  f1 = f1
  f2 = f2
  f3 = f3
  b1 = b1
  b2 = b2
  b3 = b3
  NoBuf = NoBuf
  NoFile = NoFile
  Buffers <- MCBuffers
  Files = {f1, f2}
  FileSize <- TwoSizes
  PackSize = 2
  QueueCap = 2
  MaxOffers = 2
  MaxBeats = 0
  BeatWhen = {}
  SplitLines = FALSE
  MayClose = FALSE
PROPERTY OfferIsAnswered
CHECK_DEADLOCK FALSE
