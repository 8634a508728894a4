CONSTANTS
  Conns = {c1}
  NoConn = NoConn
  Net = Net
  Owner = Owner
  Workers = {w1}
  Foreign = {}
  NoThread = NoThread
  Modes = {"async", "manual"}
  BatchSize = 2
  MaxStarts = 2
  MaxMsgs = 2
  MaxCalls = 2
SPECIFICATION Spec
PROPERTY BroadcastSkipsDisconnected
