SPECIFICATION Spec
CONSTANTS
  Id = {i1, i2}
  Record = {r1, r2}
  Stream = {s1, s2}
  Match = {m1}
  MaxClients = 2
  SendCap = 1
  None = None
SYMMETRY Symmetry
INVARIANTS
  NoGhost
  NoStrandedPlayer
  AllWoken
PROPERTY NothingStartsUnderWait
CHECK_DEADLOCK FALSE
