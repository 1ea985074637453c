SPECIFICATION SpecOfHumans
CONSTANTS
  Bot = FALSE
  RoundsTarget = 2
  DrawEnds = FALSE
  CountSlots = 2
  Window = 1
  Lease = 2
  GateTimeout = 3
  SeriesBreak = 2
  Latency = 1
  MaxInFlight = 1
  Throwers = {0, 1}
INVARIANTS
  NoForeignPick
  ScoreDecides
  AbsenceWinsOnce
  
PROPERTIES
  NoLostTap
  TellsAStory
