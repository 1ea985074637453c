SPECIFICATION Spec
CONSTANTS
  conn1 = conn1
  conn2 = conn2
  conn3 = conn3
  conn4 = conn4
  ann = ann
  bob = bob
  eve = eve
  None = None
  Client = {conn1, conn2, conn3}
  Player = {ann, bob, eve}
  PidOf <- OnePerPlayer
  Mode = {first1, first3}
  Match = {m1, m2}
  Token = {}
  MaxClients = 3
  MaxQueue = 2
  MaxMatches = 1
  MaxInFlight = 1
  Asked = {"queue", "cpu"}
SYMMETRY SingleSymmetry
INVARIANTS
  NoMissedPair
  OneMatchPerClient
  SeatedIsFree
  SeatMatchesFlag
  PointsAtOwnMatch
PROPERTIES
  KeepsItsPromise
