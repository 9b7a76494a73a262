SPECIFICATION Spec
CONSTANTS
  Char = {"a", "b", "nul"}
  NUL = "nul"
  MainText <- MCMainText
  TestText <- MCTestText
  IntMax = 3
  SizeMax = 15
INVARIANTS TypeOK InBounds CopyFaithful OnlyMemoryFailsTests OnlyMainCopyKept
PROPERTIES OwnedCopiesStable StepsCount Terminates ImplementsCopies
CHECK_DEADLOCK FALSE
