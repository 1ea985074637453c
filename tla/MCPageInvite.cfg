SPECIFICATION Spec
CONSTANTS
  MaxRound = 1
  MaxWire = 2
  Budget <- OneBreak
  MaxAsked = 1
INVARIANT InviteIsLive
CHECK_DEADLOCK FALSE
