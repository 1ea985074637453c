SPECIFICATION PartsSpec
CONSTANTS
  Ip = {a, b, c}
  Part = 2
  Capacity = 4
  MaxEntries = 2
  End = 8
  MaxTarget = 3
  Window = 4
  Readings <- MCReadings
  Steps = 4
  MaxTold = 6
  Never = Never
SYMMETRY Symmetry
INVARIANTS
  BucketsAreExact
  SilenceIsVoid
  OverForAReason
  WindowIsTheServers
  OneFrameOpensTheWindow
  CountIsDue
  StatsAreTheRuns
CHECK_DEADLOCK FALSE
