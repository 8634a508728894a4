--------------------------- MODULE MCPacketClient ---------------------------
EXTENDS PacketClient, TLC
WaiterSymmetry == Permutations(Waiters)
=============================================================================
