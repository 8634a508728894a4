CONSTANTS
  Waiters = {w1, w2}
  NoWaiter = NoWaiter
  Types = {unknown}
  Serde = "bin"
  MaxPackets = 4
  MaxBinds = 2
SPECIFICATION FairSpec
INVARIANTS WokenIsFront ServedInOrder ServedOnce DanglesOnlyAfterWake InlinePayloadIsHeld
PROPERTIES LostOnlyInWindow PickedReturns ImplementsDelivery
