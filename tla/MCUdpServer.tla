----------------------------- MODULE MCUdpServer -----------------------------
EXTENDS UdpServer, TLC
ConnSymmetry == Permutations(Conns)
=============================================================================
