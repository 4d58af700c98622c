SPECIFICATION Spec
CONSTANTS
  Period = 2
  Timeout = 1
  Limit = 1
  FailLimit = 2
  MaxTime = 6
  MaxInbox = 2
  Errs <- MCErrs
 
 
PROPERTY SyncIsExact
CHECK_DEADLOCK FALSE
