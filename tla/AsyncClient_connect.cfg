CONSTANTS
  Clients = {a}
  Foreign = {}
  NoClient = NoClient
  NoConn = NoConn
  MaxConnects = 2
  MaxIters = 2
SPECIFICATION AsyncSpec
INVARIANTS TrueIsNews TerminateExplained ReceivesOnOpenConn RunningHasConnection
PROPERTIES ConnectAnswers FalseMeansStopped LossIsNoticed
