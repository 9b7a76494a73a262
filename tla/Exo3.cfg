SPECIFICATION Spec
CONSTANTS
  Byte = {0, 18, 52, 64, 255}
  High = 18
  Low = 52
INVARIANTS TypeOK OrderReported
CHECK_DEADLOCK FALSE
