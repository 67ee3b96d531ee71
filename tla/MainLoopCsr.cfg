SPECIFICATION Spec
CONSTANTS
  MaxCpus = 2
  NCycles = 2
  Word = 8
  Setups <- CsrSetups
  MaxExecuted = 6
INVARIANT
  MinstretCountsRetired
CHECK_DEADLOCK FALSE
