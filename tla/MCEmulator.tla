----------------------------- MODULE MCEmulator -----------------------------
EXTENDS Emulator
MCMachineOf == [p \in Process |-> IF p = "st86" THEN "x86" ELSE "arm"]
=============================================================================
