SPECIFICATION Spec
CONSTANTS
  Words <- MCWords
  Calls <- MCCalls
  Again <- MCAgain
  MaxCalls = 4
  NBuf = 3
  BufLen = 50
INVARIANT RoundTrip
INVARIANT DamageIsLocal
INVARIANT OwnLinesResolve
INVARIANT RecentIntact
CHECK_DEADLOCK FALSE
