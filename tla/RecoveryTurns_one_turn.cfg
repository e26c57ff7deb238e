CONSTANTS
  t1 = t1  t2 = t2  t3 = t3
  MaxSessions = 2
  HistoryLimit = 1
  Turns <- MCThreeTurns
SYMMETRY MCSymmetry
SPECIFICATION SafeSpec
CHECK_DEADLOCK FALSE
INVARIANT OneTurn
