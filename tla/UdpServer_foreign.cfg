CONSTANTS
  Conns = {c1}
  NoConn = NoConn
  Net = Net
  Owner = Owner
  Workers = {w1}
  Foreign = {f1}
  NoThread = NoThread
  Modes = {"async"}
  BatchSize = 1
  MaxStarts = 1
  MaxMsgs = 1
  MaxCalls = 2
SPECIFICATION Spec
INVARIANTS OnlyInsertRaces NeverWaitsLocked
