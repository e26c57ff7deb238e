CONSTANTS
  t1 = t1  t2 = t2  t3 = t3
  MaxSessions = 2
  HistoryLimit = 2
  Turns <- MCTwoTurns
SPECIFICATION Spec
CHECK_DEADLOCK FALSE
INVARIANT TypeOK
INVARIANT AgentHasTurn
INVARIANT QuietStaysQuiet
INVARIANT PromptIsAsked
INVARIANT OneTurnUnlessLost
INVARIANT ShutGateIsHeld
INVARIANT AnswersFollow
PROPERTY TurnEnds
