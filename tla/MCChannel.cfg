SPECIFICATION Spec
CONSTANTS
  d1 = d1
  d2 = d2
  a1 = a1
  NoCall = NoCall
  MaxConn = 2
  MaxPing = 1
  Calls <- MCCalls
  DialerCalls <- MCDialerCalls
SYMMETRY Callers
CONSTRAINT BoundedWork
INVARIANTS TypeOK IInv NoCallerStranded LiveIsRegistered
PROPERTY CallsAreHandledOnce
CHECK_DEADLOCK FALSE
