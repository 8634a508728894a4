CONSTANTS
  SerdeT = 0
  SenderSerde = {0}
  Types <- MCFewTypes
  Objects = {5}
  MaxPackets = 1
  MaxBinds = 1
SPECIFICATION Spec
PROPERTY HandlerGetsItsPackets
