SPECIFICATION Spec
CONSTANTS
  MaxRound = 1
  MaxWire = 2
  Budget <- Budgets
  MaxAsked = 1

  
PROPERTY RoundIsLeft
CHECK_DEADLOCK FALSE
