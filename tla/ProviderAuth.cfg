CONSTANTS
  t1 = t1  t2 = t2
  None = None
  MaxGeneration = 4
  Threads <- MCTwoThreads
SPECIFICATION Spec
CHECK_DEADLOCK FALSE
INVARIANT TypeOK
INVARIANT NoChildAfterClear
INVARIANT ChildIsCurrent
INVARIANT CredentialIsCurrent
PROPERTY ClearEnds
