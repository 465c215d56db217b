SPECIFICATION Spec
CONSTANTS
  s1 = s1
  s2 = s2
  Sessions <- MCSessions
  MaxItems = 2
  MaxConns = 2
SYMMETRY AnyOrder
INVARIANTS TypeOK NothingSkipped KeysInOrder OwnEnd EndIsSeen NoShellLeft
CHECK_DEADLOCK FALSE
