SPECIFICATION Spec
CONSTANTS
  WordBits = 6
  LedBits = 4
  MaskBits = 4
  Pattern = {1, 3}
INVARIANTS TypeOK WriteAccepted TestsPass
PROPERTY WriteFlipsLeds
CHECK_DEADLOCK FALSE
