SPECIFICATION Spec
CONSTANTS
  Src = {"exo4.c"}
  Includes = {}
  Target = {"exo4-debug", "exo4-optimized"}
  SourceOf <- MCSourceOf
  Maker = {m1}
  MaxTime = 5
INVARIANTS TypeOK StaleIsVisible SuccessMeansBuilt
PROPERTIES RunsEnd ImplementsBuild
