SPECIFICATION Spec
CONSTANT MaxTarget = 1
INVARIANT FoulLosesToValid
CHECK_DEADLOCK FALSE
