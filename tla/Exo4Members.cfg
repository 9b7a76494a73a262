SPECIFICATION Spec
CONSTANTS
  Members = 4
  Rounds = 2
  Value = {0, 1, 2, 3, 4}
INVARIANT AllMembersPrinted
CHECK_DEADLOCK FALSE
