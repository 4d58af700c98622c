SPECIFICATION MCSpec
CONSTANTS
  c1 = c1
  c2 = c2
  l1 = l1
  l2 = l2
  Conns <- MCConns
  Links <- MCLinks
  NoClient = NoClient
  Cap = 2
  MaxPosts = 1
INVARIANTS ReapedIsDead
CHECK_DEADLOCK FALSE
