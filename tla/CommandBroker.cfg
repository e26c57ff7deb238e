CONSTANTS
  c1 = c1  c2 = c2  c3 = c3
  None = None
  Clients <- MCThreeClients
SPECIFICATION Spec
CHECK_DEADLOCK FALSE
INVARIANT TypeOK
INVARIANT RunsOnce
INVARIANT StopClosesAll
PROPERTY ClientsReturn
