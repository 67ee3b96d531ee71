SPECIFICATION Spec
CONSTANTS
  MaxCpus = 2
  NCycles = 2
  Word = 8
  Setups <- MCSetups
  MaxExecuted = 7
INVARIANTS
  TypeOK
  MinstretExact
  TraceComplete
  TracedStopTerminates
  CountsRespected
CHECK_DEADLOCK FALSE
