------------------------------- MODULE MCMake -------------------------------
EXTENDS Make, TLC
MCSourceOf == [t \in Target |-> IF t = "exo1" THEN "exo1.c" ELSE "exo4.c"]
Makers == Permutations(Maker)
=============================================================================
