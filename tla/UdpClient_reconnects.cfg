CONSTANTS
  Clients = {a}
  Foreign = {f}
  NoClient = NoClient
  NoConn = NoConn
  MaxConnects = 2
SPECIFICATION FairSpec
INVARIANTS NoOrphanThread
PROPERTIES StopReturns
