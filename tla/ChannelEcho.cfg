SPECIFICATION FairSpec
CONSTANTS
  d1 = d1
  NoCall = NoCall
  MaxConn = 1
  MaxPing = 0
  Calls <- MCCalls
  DialerCalls <- MCDialerCalls
PROPERTY RepliesDieOut
CHECK_DEADLOCK FALSE
