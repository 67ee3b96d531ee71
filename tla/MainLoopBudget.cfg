SPECIFICATION Spec
CONSTANTS
  MaxCpus = 2
  NCycles = 2
  Word = 8
  Setups <- BudgetSetups
  MaxExecuted = 6
INVARIANT
  BudgetKept
CHECK_DEADLOCK FALSE
