SPECIFICATION Spec
CONSTANTS
  d1 = d1
  NoCall = NoCall
  MaxConn = 1
  MaxPing = 1
  Calls <- MCCalls
  DialerCalls <- MCDialerCalls
INVARIANT ReconnectLoopSurvives
CHECK_DEADLOCK FALSE
