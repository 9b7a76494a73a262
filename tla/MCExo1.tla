------------------------------- MODULE MCExo1 -------------------------------
EXTENDS Exo1
MCMainText == [k \in 0 .. 1 |-> IF k < 1 THEN "a" ELSE "nul"]
MCTestText == [k \in 0 .. 2 |-> CASE k = 0 -> "a" [] k = 1 -> "b" [] k = 2 -> "nul"]
=============================================================================
