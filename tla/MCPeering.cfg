SPECIFICATION Spec
CONSTANTS
  alice = alice
  bob = bob
  Nobody = Nobody
  Agents <- MCAgents
  MaxGen = 2
  MaxConn = 2
  MaxUpsets = 1
SYMMETRY Swap
INVARIANTS TypeOK LiveIsRegistered OutgoingKeepsDialling UpgradeNeedsBothSides
CHECK_DEADLOCK FALSE
CONSTRAINT BoundedWork
