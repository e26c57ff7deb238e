CONSTANTS
  c1 = c1  c2 = c2 
  r1 = r1  r2 = r2 
  e1 = e1
  None = None
  StartBurst = 1
  Codes <- MCTwoCodes
  Requests <- MCOneRequest
  Reapers <- MCOneReaper
SPECIFICATION Spec
CHECK_DEADLOCK FALSE
PROPERTY SlotSpec
PROPERTY ExpiryHappens
