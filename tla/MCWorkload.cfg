SPECIFICATION Spec
CONSTANTS
  a1 = a1
  a2 = a2
  Apps <- MCApps
  MaxSpec = 2
  MaxDeploys = 2
  MaxPods = 2
  MaxGiveUps = 1
CONSTRAINT BoundedWork
SYMMETRY AnyOrder
INVARIANTS TypeOK NoOrphan NothingLost FailedIsNotRunning WithinQuota SpecFollows QueueIsSaved BareIsTransient
CHECK_DEADLOCK FALSE
