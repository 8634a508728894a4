--------------------------- MODULE MCPacketServer ---------------------------
EXTENDS PacketServer
\* Packet types that exercise each of the four bytes of the header field.
MCTypes == {0, 1, 258, 66051, 16909060}
\* The types of the run that has clients of the binary serialization.
MCFewTypes == {0, 7}
=============================================================================
