SPECIFICATION FairSpec
CONSTANTS
  d1 = d1
  NoCall = NoCall
  MaxConn = 2
  MaxPing = 0
  Calls <- MCCalls
  DialerCalls <- MCDialerCalls
PROPERTIES KeepsDialing CallsReturn
CHECK_DEADLOCK FALSE
