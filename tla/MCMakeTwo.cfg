SPECIFICATION Spec
CONSTANTS
  Src = {"exo1.c"}
  Includes = {"exo1.c"}
  Target = {"exo1"}
  SourceOf <- MCSourceOf
  Maker = {m1, m2}
  MaxTime = 5
SYMMETRY Makers
INVARIANTS StaleIsVisible HeaderStaleIsOlder SuccessMeansBuilt NoPartialLeft
PROPERTIES RunsShrink ImplementsBuild
