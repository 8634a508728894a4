CONSTANTS
  Conns = {c1}
  NoConn = NoConn
  Net = Net
  Owner = Owner
  Workers = {w1}
  Foreign = {}
  NoThread = NoThread
  Modes = {"async", "manual"}
  BatchSize = 2
  MaxStarts = 2
  MaxMsgs = 2
  MaxCalls = 2
SPECIFICATION FairSpec
INVARIANTS StoppedIsClean ReceivesOnLiveGroup
PROPERTIES StopReturns GoneIsClosed LossIsTold ImplementsSessions
