SPECIFICATION Spec
CONSTANTS
  alice = alice
  bob = bob
  Nobody = Nobody
  Agents <- MCAgents
  MaxGen = 1
  MaxConn = 3
  MaxUpsets = 0
SYMMETRY Swap
INVARIANT BidirectionalReconnects
CHECK_DEADLOCK FALSE
