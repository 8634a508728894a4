CONSTANTS
  w1 = w1
  w2 = w2
  w3 = w3
  Waiters = {w1, w2, w3}
  NoWaiter = NoWaiter
  Ping = 1000
  Pong = 1001
  Types = {1000, 1001}
  Serde = "msgpack"
  MaxPackets = 3
  MaxBinds = 1
  Id <- MCIds
SPECIFICATION PingSpec
INVARIANTS PongIsOwn
PROPERTIES CallReturns UnawaitedWasEarly
