SPECIFICATION FairSpec
CONSTANTS
  a = a
  nl = nl
  Capacity = 3
  Lengths = {1, 2}
  MaxAsked = 6
  Letters = {a, nl}
  MaxRcvd = 6
  Flags <- MCFlags
  ReadFrom = {0}
INVARIANT TypeOK
INVARIANT StreamKept
INVARIANT OneWriteUnderWay
INVARIANT ReadInOrder
 
PROPERTY AllIsSent
CHECK_DEADLOCK FALSE
