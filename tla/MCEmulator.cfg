SPECIFICATION Spec
CONSTANTS
  Machine = {"arm", "x86"}
  Process = {"st", "st again", "st86"}
  MachineOf <- MCMachineOf
  Nothing = Nothing
INVARIANTS TypeOK WrongOnlyWhileDown OneAnswered
