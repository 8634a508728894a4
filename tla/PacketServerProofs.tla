------------------------- MODULE PacketServerProofs -------------------------
(***************************************************************************)
(* What a handler of a packet server is given, proved for every set of     *)
(* packet types and objects, and the round trip of the packet header it    *)
(* rests on.                                                               *)
(***************************************************************************)
EXTENDS PacketServer, SequenceTheorems, TLAPS

U32 == {n \in Nat : n \div 16777216 < 256}

-----------------------------------------------------------------------------
(* The packet header.                                                       *)

\* The four bytes of a u32 give it back: the two calls of std::memcpy in
\* write_internal_packet_header and unpack_internal_packet_header.
LEMMA U32RoundTrip ==
  ASSUME NEW n \in U32
  PROVE  /\ U32Bytes(n) \in [1..4 -> Byte]
         /\ U32Of(U32Bytes(n)[1], U32Bytes(n)[2], U32Bytes(n)[3], U32Bytes(n)[4]) = n
<1>1. /\ n \in Nat /\ n \div 16777216 \in 0..255
      /\ n \div 256 \in Nat /\ n \div 65536 \in Nat
  BY SMTT(30) DEF U32
<1>2. /\ n % 256 \in 0..255 /\ (n \div 256) % 256 \in 0..255
      /\ (n \div 65536) % 256 \in 0..255 /\ (n \div 16777216) % 256 = n \div 16777216
  BY <1>1, SMTT(30)
<1>3. n = (n % 256) + 256 * (n \div 256)
  BY <1>1, SMTT(30)
<1>4. n \div 256 = ((n \div 256) % 256) + 256 * (n \div 65536)
  BY <1>1, SMTT(30)
<1>5. n \div 65536 = ((n \div 65536) % 256) + 256 * (n \div 16777216)
  BY <1>1, SMTT(30)
<1>6. QED
  BY <1>1, <1>2, <1>3, <1>4, <1>5, SMTT(30) DEF U32Bytes, U32Of, Byte

\* The header of a packet, byte by byte.
LEMMA HeaderBytes ==
  ASSUME NEW s \in Byte, NEW n \in U32
  PROVE  LET h == write_internal_packet_header(HeaderOf(s, n))
             b == U32Bytes(n)
         IN  /\ h \in Seq(Byte) /\ Len(h) = 8
             /\ h[1] = 75 /\ h[2] = 66 /\ h[3] = 76 /\ h[4] = s
             /\ \A i \in 5..8 : h[i] = b[i - 4]
<1> DEFINE b == U32Bytes(n)
           magic == MagicBytes \o <<s>>
           h == magic \o b
<1>1. b \in Seq(Byte) /\ Len(b) = 4
  <2>1. /\ n % 256 \in Byte /\ (n \div 256) % 256 \in Byte
        /\ (n \div 65536) % 256 \in Byte /\ (n \div 16777216) % 256 \in Byte
    BY SMTT(30) DEF U32, Byte
  <2>2. QED
    BY <2>1, SMTT(30) DEF U32Bytes
<1>2. /\ magic \in Seq(Byte) /\ Len(magic) = 4
      /\ magic[1] = 75 /\ magic[2] = 66 /\ magic[3] = 76 /\ magic[4] = s
  <2>1. /\ MagicBytes \in Seq(Byte) /\ Len(MagicBytes) = 3
        /\ MagicBytes[1] = 75 /\ MagicBytes[2] = 66 /\ MagicBytes[3] = 76
    BY DEF MagicBytes, Byte
  <2>2. <<s>> \in Seq(Byte) /\ Len(<<s>>) = 1 /\ <<s>>[1] = s
    OBVIOUS
  <2>3. MagicBytes \in Seq(Byte) /\ <<s>> \in Seq(Byte)
    BY <2>1, <2>2
  <2>4. /\ magic \in Seq(Byte) /\ Len(magic) = Len(MagicBytes) + Len(<<s>>)
        /\ \A i \in 1..Len(MagicBytes) + Len(<<s>>) :
             magic[i] = IF i <= Len(MagicBytes) THEN MagicBytes[i] ELSE <<s>>[i - Len(MagicBytes)]
    BY <2>3, ConcatProperties
  <2>5. QED
    BY <2>1, <2>2, <2>4
<1> HIDE DEF b, magic
<1>3. b \in Seq(Byte) /\ magic \in Seq(Byte)
  BY <1>1, <1>2
<1>4. /\ h \in Seq(Byte) /\ Len(h) = Len(magic) + Len(b)
      /\ \A i \in 1..Len(magic) + Len(b) :
           h[i] = IF i <= Len(magic) THEN magic[i] ELSE b[i - Len(magic)]
  BY <1>3, ConcatProperties
<1> HIDE DEF h
<1>5. /\ h \in Seq(Byte) /\ Len(h) = 8
      /\ h[1] = 75 /\ h[2] = 66 /\ h[3] = 76 /\ h[4] = s
      /\ \A i \in 5..8 : h[i] = b[i - 4]
  BY <1>1, <1>2, <1>4
<1>6. h = write_internal_packet_header(HeaderOf(s, n))
  BY DEF h, magic, b, write_internal_packet_header, HeaderOf
<1>7. QED
  BY <1>5, <1>6 DEF b

\* A whole packet: the header and the byte of the object.
LEMMA PacketBytes ==
  ASSUME NEW s \in Byte, NEW n \in U32, NEW o \in Byte
  PROVE  LET b == U32Bytes(n)
         IN  write_internal_packet_header(HeaderOf(s, n)) \o <<o>>
               = <<75, 66, 76, s, b[1], b[2], b[3], b[4], o>>
<1> DEFINE b == U32Bytes(n)
           h == write_internal_packet_header(HeaderOf(s, n))
           p == h \o <<o>>
           d == <<75, 66, 76, s, b[1], b[2], b[3], b[4], o>>
<1>1. /\ h \in Seq(Byte) /\ Len(h) = 8
      /\ h[1] = 75 /\ h[2] = 66 /\ h[3] = 76 /\ h[4] = s
      /\ \A i \in 5..8 : h[i] = b[i - 4]
  BY HeaderBytes
<1>2. b[1] \in Byte /\ b[2] \in Byte /\ b[3] \in Byte /\ b[4] \in Byte
  BY U32RoundTrip
<1> HIDE DEF b, h
<1>3. <<o>> \in Seq(Byte) /\ Len(<<o>>) = 1 /\ <<o>>[1] = o
  OBVIOUS
<1>4. /\ p \in Seq(Byte) /\ Len(p) = Len(h) + Len(<<o>>)
      /\ \A i \in 1..Len(h) + Len(<<o>>) :
           p[i] = IF i <= Len(h) THEN h[i] ELSE <<o>>[i - Len(h)]
  <2>1. h \in Seq(Byte) /\ <<o>> \in Seq(Byte)
    BY <1>1, <1>3
  <2>2. QED
    BY <2>1, ConcatProperties
<1> HIDE DEF p
<1>5. Len(p) = 9 /\ \A i \in 1..9 : p[i] = IF i <= 8 THEN h[i] ELSE o
  BY <1>1, <1>3, <1>4
<1>6. d \in Seq(Byte) /\ Len(d) = 9
  BY <1>2 DEF Byte
<1>7. \A i \in 1..9 : p[i] = d[i]
  BY <1>1, <1>5
<1> HIDE DEF d
<1>8. p = d
  BY <1>4, <1>5, <1>6, <1>7, SeqEqual
<1>9. QED
  BY <1>8 DEF p, h, b, d

\* What a serializer writes, unpack_internal_packet_header and the slice of the payload
\* give back (packet.hpp:82-124), for every serialization type, every u32 and every object.
THEOREM PacketRoundTrip ==
  ASSUME NEW s \in Byte, NEW n \in U32, NEW o \in Byte
  PROVE  LET bytes == write_internal_packet_header(HeaderOf(s, n)) \o <<o>>
         IN  unpack_internal_packet_header(bytes) = HeaderOf(s, n) /\ Payload(bytes) = <<o>>
<1> DEFINE b == U32Bytes(n)
           d == <<75, 66, 76, s, b[1], b[2], b[3], b[4], o>>
<1>1. b[1] \in Byte /\ b[2] \in Byte /\ b[3] \in Byte /\ b[4] \in Byte
  BY U32RoundTrip
<1> HIDE DEF b
<1>2. SubSeq(d, 1, 3) = MagicBytes
  <2>1. SubSeq(d, 1, 3) \in Seq(Byte) /\ Len(SubSeq(d, 1, 3)) = 3
    BY <1>1 DEF Byte
  <2>2. \A i \in 1..3 : SubSeq(d, 1, 3)[i] = MagicBytes[i]
    BY <1>1 DEF MagicBytes, Byte
  <2>3. MagicBytes \in Seq(Byte) /\ Len(MagicBytes) = 3
    BY DEF MagicBytes, Byte
  <2>4. QED
    BY <2>1, <2>2, <2>3, SeqEqual
<1>3. unpack_internal_packet_header(d) = HeaderOf(s, n)
  BY <1>2, U32RoundTrip DEF unpack_internal_packet_header, HeaderSize, b
<1>4. Payload(d) = <<o>>
  <2>1. Payload(d) \in Seq(Byte) /\ Len(Payload(d)) = 1 /\ Payload(d)[1] = o
    BY <1>1 DEF Payload, HeaderSize, Byte
  <2>2. <<o>> \in Seq(Byte) /\ Len(<<o>>) = 1 /\ <<o>>[1] = o
    OBVIOUS
  <2>3. QED
    BY <2>1, <2>2, SeqEqual
<1>5. QED
  BY <1>3, <1>4, PacketBytes DEF b

-----------------------------------------------------------------------------
(* The datagrams.                                                           *)

\* What the header of a client's packet says: a binary serializer forgets the type.
WireType(serde, y) == IF serde = SerdeBin THEN Unknown ELSE y

LEMMA ClientDatagram ==
  ASSUME NEW s \in SenderSerde, NEW y \in Types, NEW o \in Objects
  PROVE  LET bytes == serialize_packet(s, y, o).m_buffer
         IN  /\ unpack_internal_packet_header(bytes) = HeaderOf(s, WireType(s, y))
             /\ Payload(bytes) = <<o>>
<1>1. s \in {SerdeBin, SerdeMsgpack} /\ s \in Byte /\ o \in Byte /\ y \in U32 /\ 0 \in U32
  BY ServerConstants, ServerTypes, SMTT(30) DEF SerdeBin, SerdeMsgpack, Byte, U32
<1>2. serialize_packet(s, y, o).m_buffer
        = write_internal_packet_header(HeaderOf(s, WireType(s, y))) \o <<o>>
  BY <1>1 DEF serialize_packet, BinarySerialize, MsgpackSerialize, WireType, SerdeBin,
    SerdeMsgpack
<1>3. WireType(s, y) \in U32
  BY <1>1 DEF WireType, Unknown
<1>4. QED
  BY <1>1, <1>2, <1>3, PacketRoundTrip

\* A datagram of another peer has no header, no payload, or another serialization type.
LEMMA JunkDatagram ==
  ASSUME NEW bytes \in Junk
  PROVE  \/ unpack_internal_packet_header(bytes) = NoHeader
         \/ Payload(bytes) = <<>>
         \/ unpack_internal_packet_header(bytes).m_serde_type # SerdeT
<1> DEFINE h == write_internal_packet_header(HeaderOf(SerdeT, 1))
           e == <<75, 66, 75, SerdeT, 1, 0, 0, 0, 1>>
<1>1. SerdeT \in Byte /\ 1 \in U32
  BY ServerConstants, SMTT(30) DEF SerdeBin, SerdeMsgpack, Byte, U32
<1>2. h \in Seq(Byte) /\ Len(h) = 8
  BY <1>1, HeaderBytes
<1>3. CASE bytes = <<>>
  BY <1>3 DEF unpack_internal_packet_header, HeaderSize
<1>4. CASE bytes = SubSeq(h, 1, 7)
  <2>1. Len(bytes) = 7
    BY <1>2, <1>4
  <2>2. QED
    BY <2>1 DEF unpack_internal_packet_header, HeaderSize
<1>5. CASE bytes = e
  <2>1. e[3] = 75 /\ e \in Seq(Byte) /\ Len(e) = 9
    BY <1>1 DEF Byte
  <2>2. SubSeq(bytes, 1, 3)[3] = 75
    BY <1>5, <2>1
  <2>3. MagicBytes[3] = 76
    BY DEF MagicBytes
  <2>4. SubSeq(bytes, 1, 3) # MagicBytes
    BY <2>2, <2>3
  <2>5. QED
    BY <2>4 DEF unpack_internal_packet_header
<1>6. CASE bytes = h
  <2>1. SubSeq(h, 9, 8) = <<>>
    BY <1>2, SubSeqEmpty
  <2>2. HeaderSize + 1 = 9 /\ Len(bytes) = 8
    BY <1>2, <1>6 DEF HeaderSize
  <2>3. QED
    BY <1>6, <2>1, <2>2 DEF Payload
<1>7. CASE bytes = write_internal_packet_header(HeaderOf(2, 1)) \o <<5>>
  <2>1. 2 \in Byte /\ 1 \in U32 /\ 5 \in Byte
    BY SMTT(30) DEF Byte, U32
  <2>2. unpack_internal_packet_header(bytes) = HeaderOf(2, 1)
    BY <1>7, <2>1, PacketRoundTrip
  <2>3. SerdeT # 2
    BY ServerConstants DEF SerdeBin, SerdeMsgpack
  <2>4. QED
    BY <2>2, <2>3 DEF HeaderOf
<1>8. QED
  BY <1>3, <1>4, <1>5, <1>6, <1>7 DEF Junk

-----------------------------------------------------------------------------
(* The network thread of a msgpack server.                                  *)

\* The datagram is what a client serialized, or junk.
FromClient ==
  \E s \in SenderSerde, y \in Types, o \in Objects :
    data = serialize_packet(s, y, o).m_buffer /\ sent = [type |-> y, object |-> o]
FromPeer == data \in Junk /\ sent = NotSent

\* The search for a handler is behind the check of the header, its call behind
\* deserialize_packet.
Checked == net \in {"find", "invoke"} => Header # NoHeader /\ Header.m_serde_type = SerdeT
Found == net = "invoke" => Payload(data) # <<>>

DispatchInv == (FromClient \/ FromPeer) /\ Checked /\ Found /\ HandledIsSent

\* A header of the server's own serialization type, with a payload, is a client's.
LEMMA CheckedIsSent ==
  ASSUME SerdeT = SerdeMsgpack, FromClient \/ FromPeer, Checked, net \in {"find", "invoke"}
  PROVE  \/ Payload(data) = <<>> /\ sent = NotSent
         \/ /\ Header.m_packet_type = sent.type /\ sent.type \in Types
            /\ sent.object \in Objects /\ Payload(data) = <<sent.object>>
<1>1. CASE FromPeer
  BY <1>1, JunkDatagram DEF FromPeer, Checked, Header
<1>2. CASE FromClient
  <2>1. PICK s \in SenderSerde, y \in Types, o \in Objects :
          data = serialize_packet(s, y, o).m_buffer /\ sent = [type |-> y, object |-> o]
    BY <1>2 DEF FromClient
  <2>2. Header = HeaderOf(s, WireType(s, y)) /\ Payload(data) = <<o>>
    BY <2>1, ClientDatagram DEF Header
  <2>3. s = SerdeMsgpack
    BY <2>2 DEF Checked, HeaderOf
  <2>4. QED
    BY <2>1, <2>2, <2>3 DEF HeaderOf, WireType, SerdeBin, SerdeMsgpack
<1>3. QED
  BY <1>1, <1>2

LEMMA InitDispatch == Init => DispatchInv
  BY DEF Init, DispatchInv, FromPeer, Junk, Checked, Found, HandledIsSent, NotInvoked

LEMMA NextDispatch ==
  ASSUME SerdeT = SerdeMsgpack, DispatchInv, [Next]_vars
  PROVE  DispatchInv'
<1> USE DEF DispatchInv, Checked, Found, HandledIsSent, Header
<1> DEFINE Still == Run \/ Quiet \/ (UNCHANGED vars)
                    \/ (\E op \in {"bind", "unbind"}, y \in Types : BindBegin(op, y))
<1>1. CASE Still
  <2>1. UNCHANGED <<data, sent>>
    BY <1>1 DEF Run, Quiet, vars, CheckHeader, FindHandler, FindHandlerRace, Invoke,
      BindBegin, BindEnd, UnbindEnd
  <2>2. (FromClient \/ FromPeer)'
    BY <2>1 DEF FromClient, FromPeer
  <2>3. CASE CheckHeader
    BY <2>1, <2>2, <2>3 DEF CheckHeader
  <2>4. CASE FindHandler
    <3>1. net' = "invoke" => Payload(data) # <<>>
      BY <2>4 DEF FindHandler, Deserializes, SerdeBin, SerdeMsgpack
    <3>2. QED
      BY <2>1, <2>2, <2>4, <3>1 DEF FindHandler
  <2>5. CASE Invoke
    <3>1. /\ Header.m_packet_type = sent.type /\ sent.type \in Types
          /\ sent.object \in Objects /\ Payload(data) = <<sent.object>>
      BY <2>5, CheckedIsSent DEF Invoke
    <3>2. sent # NotSent
      BY <3>1, ServerConstants DEF NotSent
    <3>3. invoked' = invoked \/ HandledIsSent'
      BY <2>1, <2>5, <3>1, <3>2 DEF Invoke, payload_as, MsgpackPayloadAs, SerdeBin,
        SerdeMsgpack
    <3>4. QED
      BY <2>1, <2>2, <2>5, <3>3 DEF Invoke
  <2>6. CASE UNCHANGED <<net, invoked>>
    BY <2>1, <2>2, <2>6
  <2>7. QED
    BY <1>1, <2>3, <2>4, <2>5, <2>6 DEF Run, Quiet, vars, FindHandlerRace, BindBegin,
      BindEnd, UnbindEnd
<1>2. ASSUME NEW s \in SenderSerde, NEW y \in Types, NEW o \in Objects, ClientSends(s, y, o)
      PROVE  DispatchInv'
  BY <1>2 DEF ClientSends, Arrive, FromClient, NotInvoked
<1>3. ASSUME NEW bytes \in Junk, PeerSends(bytes) PROVE DispatchInv'
  BY <1>3 DEF PeerSends, Arrive, FromPeer, Junk, NotInvoked
<1>4. QED
  BY <1>1, <1>2, <1>3 DEF Next, Outside

LEMMA AlwaysDispatch == ASSUME SerdeT = SerdeMsgpack PROVE Spec => []DispatchInv
<1>1. DispatchInv /\ [Next]_vars => DispatchInv'
  BY NextDispatch
<1>2. QED
  BY <1>1, InitDispatch, PTL DEF Spec

\* handle_packet of a msgpack server (udp_packet_server.inl:62-115) gives a handler only
\* packets that a msgpack client sent, of the handler's type and with the object that was
\* sent, whatever else arrives: binary packets and datagrams of other peers do not get past
\* the header or the deserializer.
THEOREM HandlersGetSentPackets ==
  ASSUME SerdeT = SerdeMsgpack PROVE Spec => []HandledIsSent
<1>1. DispatchInv => HandledIsSent
  BY DEF DispatchInv
<1>2. QED
  BY <1>1, AlwaysDispatch, PTL

\* The other direction: a client's packet that passed the header check and whose type has a
\* handler goes to that handler, while the handlers of other types come and go. This is what
\* a binary server breaks.
THEOREM PacketsReachHandlers ==
  ASSUME SerdeT = SerdeMsgpack PROVE Spec => HandlerGetsItsPackets
<1> DEFINE Given == net = "find" /\ net' # "find" /\ sent # NotSent /\ Bound(sent.type) # 0
                      => net' = "invoke" /\ handler_it' = Bound(sent.type)
<1>1. ASSUME DispatchInv, [Next]_vars PROVE [Given]_vars
  <2>1. SUFFICES ASSUME net = "find", net' # "find", sent # NotSent, Bound(sent.type) # 0
                 PROVE  net' = "invoke" /\ handler_it' = Bound(sent.type)
    OBVIOUS
  <2>2. FindHandler
    BY <1>1, <2>1 DEF Next, Run, Outside, Quiet, vars, ClientSends, PeerSends, Arrive,
      CheckHeader,
      FindHandlerRace, Invoke, BindBegin, BindEnd, UnbindEnd
  <2>3. Header.m_packet_type = sent.type /\ Payload(data) = <<sent.object>>
    BY <1>1, <2>1, CheckedIsSent DEF DispatchInv
  <2>4. QED
    BY <2>1, <2>2, <2>3 DEF FindHandler, Deserializes
<1>2. QED
  BY <1>1, AlwaysDispatch, PTL DEF Spec, HandlerGetsItsPackets
=============================================================================
