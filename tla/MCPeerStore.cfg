SPECIFICATION Spec
CONSTANTS
  s1 = s1
  s2 = s2
  s3 = s3
  s4 = s4
  Saves <- MCSaves
  MaxRestarts = 1
SYMMETRY AnyOrder
INVARIANTS TypeOK IInv SettledSecretIsTable
PROPERTY SecretMovesForward
CHECK_DEADLOCK FALSE
