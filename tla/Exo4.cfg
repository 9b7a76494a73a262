SPECIFICATION Spec
CONSTANTS
  Members = 4
  Rounds = 2
  Value = {0, 1, 2, 3, 4}
INVARIANTS TypeOK PointerLinked DebugPrintsAll
PROPERTIES RoundsCount LoopsEnd
CHECK_DEADLOCK FALSE
