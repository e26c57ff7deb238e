CONSTANTS
  c1 = c1  c2 = c2 
  r1 = r1  r2 = r2 
  e1 = e1
  None = None
  StartBurst = 1
  Codes <- MCTwoCodes
  Requests <- MCTwoRequests
  Reapers <- MCOneReaper
SPECIFICATION SafeSpec
CHECK_DEADLOCK FALSE
INVARIANT TypeOK
INVARIANT NoOrphan
INVARIANT StoredSessionIsLive
INVARIANT TimerCovers
INVARIANT ReportedIsOver
PROPERTY SlotSafeSpec
