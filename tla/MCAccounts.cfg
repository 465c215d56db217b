SPECIFICATION Spec
CONSTANTS
  n1 = n1
  n2 = n2
  r1 = r1
  r2 = r2
  t1 = t1
  t2 = t2
  t3 = t3
  Names <- MCNames
  Registry = registry
  Requests <- MCRequests
  Attempts <- MCAttempts
  MaxPw = 2
  Failures = 3
  Window = 2
  Lockout = 4
CONSTRAINT BoundedWork
SYMMETRY AnyOrder
INVARIANTS TypeOK SomebodyCanLogIn PullSecretMatches TriesAreBounded
CHECK_DEADLOCK FALSE
