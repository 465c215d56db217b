SPECIFICATION Spec
CONSTANTS
  s1 = s1
  s2 = s2
  s3 = s3
  s4 = s4
  Saves <- MCSaves
  MaxRestarts = 0
SYMMETRY AnyOrder
PROPERTY NoStaleOverwrite
CHECK_DEADLOCK FALSE
