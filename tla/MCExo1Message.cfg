SPECIFICATION Spec
CONSTANTS
  Char = {"a", "b", "nul"}
  NUL = "nul"
  MainText <- MCMainText
  TestText <- MCTestText
  IntMax = 3
  SizeMax = 15
INVARIANT MessageReceived
CHECK_DEADLOCK FALSE
