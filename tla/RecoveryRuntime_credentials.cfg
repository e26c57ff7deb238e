CONSTANTS
  c1 = c1  c2 = c2
  r1 = r1  r2 = r2
  e1 = e1
  None = None
  Codes <- MCTwoCodes
  Requests <- MCTwoRequests
  Reapers <- MCOneReaper
SPECIFICATION RuntimeSafeSpec
CHECK_DEADLOCK FALSE
INVARIANT FinishRemovesCredentials
