----------------------------- MODULE PacketCodec -----------------------------
(***************************************************************************)
(* The packet format: src/src/kb/net/udp/packet.hpp and the serializers of *)
(* src/src/kb/net/serde.  A buffer is a sequence of bytes; a packet type   *)
(* is a u32 stored in host byte order, which is little endian on every     *)
(* platform the library is built for.                                      *)
(*                                                                         *)
(* The object that is sent is one byte.  Msgpack (external) packs a small  *)
(* integer into one byte too, and cannot unpack an empty buffer.           *)
(***************************************************************************)
EXTENDS Naturals, Sequences

Byte == 0..255

MagicBytes == <<75, 66, 76>>  \* k_magic_bytes, "KBL"
HeaderSize == 8               \* sizeof(internal_packet_header_t)
Unknown == 0                  \* internal_packet_id_t::unknown
SerdeBin == 0                 \* serialization_type_t
SerdeMsgpack == 1

\* std::memcpy of a u32 into a buffer, and back.
U32Bytes(n) ==
  <<n % 256, (n \div 256) % 256, (n \div 65536) % 256, (n \div 16777216) % 256>>
U32Of(a, b, c, d) == a + 256 * b + 65536 * c + 16777216 * d

HeaderOf(serde, type) == [m_serde_type |-> serde, m_packet_type |-> type]
NoHeader == [m_serde_type |-> 256, m_packet_type |-> 0]  \* std::nullopt

write_internal_packet_header(h) ==
  MagicBytes \o <<h.m_serde_type>> \o U32Bytes(h.m_packet_type)

\* Mutant: the packet type is read one byte too early.
UnpackShifted(data) ==
  IF Len(data) < HeaderSize \/ SubSeq(data, 1, 3) # MagicBytes THEN NoHeader
  ELSE HeaderOf(data[4], U32Of(data[4], data[5], data[6], data[7]))

unpack_internal_packet_header(data) ==
  IF Len(data) < HeaderSize \/ SubSeq(data, 1, 3) # MagicBytes THEN NoHeader
  ELSE HeaderOf(data[4], U32Of(data[5], data[6], data[7], data[8]))

\* Mutant: the payload starts one byte too early.
PayloadEarly(data) == SubSeq(data, HeaderSize, Len(data))

Payload(data) == SubSeq(data, HeaderSize + 1, Len(data))

\* BinaryPacketSerializer::serialize writes the header of an unknown packet,
\* whatever p_packet_type is; the internal_packet_t it returns, which is not
\* sent, does carry the type.
BinarySerialize(type, object) ==
  [m_header |-> HeaderOf(SerdeBin, type),
   m_buffer |-> write_internal_packet_header(HeaderOf(SerdeBin, Unknown)) \o <<object>>]

MsgpackSerialize(type, object) ==
  LET header == HeaderOf(SerdeMsgpack, type) IN
  [m_header |-> header, m_buffer |-> write_internal_packet_header(header) \o <<object>>]

serialize_packet(serde, type, object) ==
  IF serde = SerdeBin THEN BinarySerialize(type, object)
  ELSE MsgpackSerialize(type, object)

\* deserialize_packet has a value.
Deserializes(serde, payload) == serde = SerdeBin \/ payload # <<>>

NoObject == 256  \* std::nullopt

\* A payload is copied into an object of exactly its size, or unpacked from its
\* first byte.
BinaryPayloadAs(payload) == IF Len(payload) # 1 THEN NoObject ELSE payload[1]
MsgpackPayloadAs(payload) == payload[1]

payload_as(serde, payload) ==
  IF serde = SerdeBin THEN BinaryPayloadAs(payload) ELSE MsgpackPayloadAs(payload)
=============================================================================
