CONSTANTS
  Conns = {c1, c2}
  NoConn = NoConn
  Net = Net
  Owner = Owner
  Workers = {w1}
  Foreign = {}
  NoThread = NoThread
  Modes = {"async"}
  BatchSize = 1
  MaxStarts = 1
  MaxMsgs = 1
  MaxCalls = 1
SYMMETRY ConnSymmetry
SPECIFICATION Spec
INVARIANTS TypeOK DanglesOnlyByDisconnect NoSilentDrop CrashOnlyInStop
