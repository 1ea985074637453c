SPECIFICATION Spec
CONSTANTS
  conn1 = conn1
  conn2 = conn2
  conn3 = conn3
  conn4 = conn4
  ann = ann
  bob = bob
  eve = eve
  None = None
  Client = {conn1, conn2, conn3, conn4}
  Player = {ann, bob, eve}
  PidOf <- TabsAndTwo
  Mode = {first1}
  Match = {m1, m2}
  Token = {t1}
  MaxClients = 4
  MaxQueue = 3
  MaxMatches = 2
  MaxInFlight = 1
  Asked = {"queue", "challenge", "join"}
INVARIANT OneMatchPerConnection
