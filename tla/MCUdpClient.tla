----------------------------- MODULE MCUdpClient -----------------------------
EXTENDS UdpClient, TLC
=============================================================================
