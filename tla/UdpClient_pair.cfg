CONSTANTS
  Clients = {a, b}
  Foreign = {}
  NoClient = NoClient
  NoConn = NoConn
  MaxConnects = 1
SPECIFICATION Spec
INVARIANT ConnectedIsReal
