SPECIFICATION Spec
CONSTANTS
  MaxRound = 2
  MaxWire = 2
  HistoryCap = 2
  None = None
  Tab = {t1, t2}
  HistoryBudget <- ThreeMatches
  ScreenBudget <- TwoMatches
  PairKey <- OnePair
  Fighter <- Everybody
  Roster <- OneRoster
  Choice <- OneChoice
  LegacyRun <- Climbers
  RetryFloors = 1
  MaxWon = 2
  ann = ann
  bob = bob
  eve = eve
  firstTo3 = firstTo3
SYMMETRY Symmetry
INVARIANTS
  EachMatchOnce
  OneMatchUnlessRequeued
  AcksAnOpenGate
  PresenceIsPainted
  FramesFollowDecode
  GameViewIsTheMatchs
  BelowIsBeaten
  LossesArePaid
PROPERTY TowerKeepsItsWord
CHECK_DEADLOCK FALSE
