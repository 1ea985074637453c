SPECIFICATION Spec
CONSTANTS
  MaxRound = 2
  MaxWire = 2
  Budget <- NoFaults
  HistoryCap = 2
  None = None
INVARIANT ARecordOfItsOwn
CHECK_DEADLOCK FALSE
