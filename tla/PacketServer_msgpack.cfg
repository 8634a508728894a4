CONSTANTS
  SerdeT = 1
  SenderSerde = {0, 1}
  Types <- MCTypes
  Objects = {5}
  MaxPackets = 2
  MaxBinds = 2
SPECIFICATION Spec
INVARIANTS HandledIsSent
PROPERTY HandlerGetsItsPackets
