SPECIFICATION Spec
CONSTANTS
  f1 = f1
  f2 = f2
  f3 = f3
  b1 = b1
  b2 = b2
  b3 = b3
  NoBuf = NoBuf
  NoFile = NoFile
  Buffers <- MCBuffers
  Files = {f1}
  FileSize <- UnitSize
  PackSize = 2
  QueueCap = 2
  MaxOffers = 2
  MaxBeats = 1
  BeatWhen = {"idle", "wait_ready", "sending", "wait_done"}
  SplitLines = TRUE
  MayClose = FALSE
SYMMETRY Identities
PROPERTY QueuedUntouched
CHECK_DEADLOCK FALSE
