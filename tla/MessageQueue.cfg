SPECIFICATION FairSpec
CONSTANTS
  Queues = {q1}
  Ids <- MCIds
  Cap = 2
  MaxPosts = 4
INVARIANT ThreadHasQueue
PROPERTIES QuitComesFirst StopReturns
CHECK_DEADLOCK FALSE
