SPECIFICATION Spec
CONSTANTS
  Day = 4
  Month = 2
  Delay = 1
  MinWait = 2
  NoFile = NoFile
  NoDate = NoDate
  BadDate = BadDate
  MaxTime = 18
  MaxLines = 3
  Dirs <- MCDirs
  Start <- MCStart
  Jumps <- MCJumps
INVARIANT NothingIsLost
INVARIANT FiledUnderItsDay
INVARIANT FlushedInTime
PROPERTY EveryNoonOnce
CHECK_DEADLOCK FALSE
