CONSTANTS
  Servers = {s1, s2}
  NoServer = NoServer
  Conns = {c1}
  NoConn = NoConn
  MaxStarts = 2
SPECIFICATION FairSpec
INVARIANTS TypeOK InstanceIsRunning OpenIsOwned OwnHandlerIsSafe LeakOnlyByFailedStart
PROPERTY ConnectIsAnswered
