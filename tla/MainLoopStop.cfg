SPECIFICATION Spec
CONSTANTS
  MaxCpus = 2
  NCycles = 2
  Word = 8
  Setups <- StopSetups
  MaxExecuted = 6
INVARIANT
  StopTerminates
CHECK_DEADLOCK FALSE
