SPECIFICATION Spec
CONSTANTS
  conn1 = conn1
  conn2 = conn2
  conn3 = conn3
  conn4 = conn4
  ann = ann
  bob = bob
  eve = eve
  None = None
  Client = {conn1, conn2, conn3}
  Player = {ann, bob}
  PidOf <- TwoTabs
  Mode = {first1}
  Match = {m1, m2}
  Token = {t1, t2}
  MaxClients = 3
  MaxQueue = 3
  MaxMatches = 2
  MaxInFlight = 2
  Asked = {"cpu", "cancel", "challenge", "join"}
SYMMETRY TabsSymmetry
INVARIANTS
  ReservationIndexesAgree
  InPlayIsRunning
PROPERTIES
  KeepsItsPromise
