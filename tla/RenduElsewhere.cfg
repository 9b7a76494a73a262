SPECIFICATION Spec
CONSTANTS
  Lab = {"lab01", "lab02"}
  FirstLab = "lab01"
  MaxVersion = 2
PROPERTIES UpdatesOwnScript
