SPECIFICATION Spec
CONSTANTS
  d1 = d1
  d2 = d2
  p1 = p1
  p2 = p2
  v1 = v1
  v2 = v2
  Deploys <- MCDeploys
  Patches <- MCPatches
  Volumes <- MCVolumes
  MaxEdits = 3
CONSTRAINT BoundedWork
SYMMETRY AnyOrder
INVARIANTS TypeOK OneWatcher   PeerSeesThePhase
CHECK_DEADLOCK FALSE
