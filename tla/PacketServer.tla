---------------------------- MODULE PacketServer ----------------------------
(***************************************************************************)
(* UdpPacketServer (src/src/kb/net/udp/server/udp_packet_server.{hpp,inl}):*)
(* handle_packet on the network thread of the underlying UdpServer, and    *)
(* bind_packet_handler / unbind_packet_handler on an application thread,   *)
(* which take no lock.  Datagrams come from packet clients of either       *)
(* serialization type, and from peers that send something else.            *)
(***************************************************************************)
EXTENDS PacketCodec, FiniteSets

CONSTANTS
  SerdeT,      \* the serialization type of the server
  SenderSerde, \* those of the clients
  Types,       \* packet types in use
  Objects,     \* objects in packets
  MaxPackets,  \* bound: datagrams that arrive
  MaxBinds     \* bound: calls of bind and unbind

ASSUME ServerConstants ==
  /\ SerdeT \in {SerdeBin, SerdeMsgpack}
  /\ SenderSerde \subseteq {SerdeBin, SerdeMsgpack}
  /\ Types \subseteq Nat /\ Objects \subseteq 0..127
  /\ MaxPackets \in Nat /\ MaxBinds \in Nat
ASSUME ServerTypes == \A y \in Types : y \div 16777216 < 256  \* packet_type_t is a u32

VARIABLES
  m_packet_handlers,  \* per packet type, the number of its binding (0: none)
  net,                \* where the network thread is
  data, sent,         \* the datagram it handles; what its sender asked for
  handler_it,         \* the binding its iterator points to
  app, atype,         \* what the application thread does to the map
  packets, binds,     \* counters behind the bounds
  fault,              \* the undefined behaviour that ended the process
  invoked             \* history: outcome of the last packet

vars == <<m_packet_handlers, net, data, sent, handler_it, app, atype, packets,
          binds, fault, invoked>>

NotSent == [type |-> 0, object |-> 256]  \* no packet client sent this datagram
NotInvoked == [type |-> 0, payload |-> <<>>, ok |-> FALSE]

\* What other peers send: too short, other magic bytes, no payload, a serialization
\* type that does not exist.  Who sends a well-formed packet is a client: the server
\* has nothing but the bytes to tell.
Junk == {<<>>, SubSeq(write_internal_packet_header(HeaderOf(SerdeT, 1)), 1, 7),
         <<75, 66, 75, SerdeT, 1, 0, 0, 0, 1>>,
         write_internal_packet_header(HeaderOf(SerdeT, 1)),
         write_internal_packet_header(HeaderOf(2, 1)) \o <<5>>}

Init ==
  /\ m_packet_handlers = [y \in Types |-> 0]
  /\ net = "idle" /\ data = <<>> /\ sent = NotSent /\ handler_it = 0
  /\ app = "idle" /\ atype \in Types /\ packets = 0 /\ binds = 0
  /\ fault = "none" /\ invoked = NotInvoked

-----------------------------------------------------------------------------
Arrive(bytes, from) ==
  /\ net = "idle"
  /\ packets < MaxPackets
  /\ packets' = packets + 1
  /\ data' = bytes
  /\ sent' = from
  /\ net' = "header"
  /\ invoked' = NotInvoked
  /\ UNCHANGED <<m_packet_handlers, handler_it, app, atype, binds, fault>>

\* send_packet of a client, and the network.
ClientSends(serde, y, o) ==
  Arrive(serialize_packet(serde, y, o).m_buffer, [type |-> y, object |-> o])

PeerSends(bytes) == Arrive(bytes, NotSent)

Header == unpack_internal_packet_header(data)

\* Mutant: the serialization type is not compared.
CheckHeaderAnySerde ==
  /\ net = "header"
  /\ net' = IF Header = NoHeader THEN "idle" ELSE "find"
  /\ UNCHANGED <<m_packet_handlers, data, sent, handler_it, app, atype, packets,
                 binds, fault, invoked>>

CheckHeader ==
  /\ net = "header"
  /\ net' = IF Header = NoHeader \/ Header.m_serde_type # SerdeT THEN "idle" ELSE "find"
  /\ UNCHANGED <<m_packet_handlers, data, sent, handler_it, app, atype, packets,
                 binds, fault, invoked>>

Bound(y) == IF y \in Types THEN m_packet_handlers[y] ELSE 0

FindHandler ==
  /\ net = "find"
  /\ handler_it' = Bound(Header.m_packet_type)
  /\ net' = IF handler_it' = 0 \/ ~Deserializes(SerdeT, Payload(data)) THEN "idle"
            ELSE "invoke"
  /\ UNCHANGED <<m_packet_handlers, data, sent, app, atype, packets, binds, fault,
                 invoked>>

\* The map is being changed meanwhile, without a lock on either side.
FindHandlerRace ==
  /\ net = "find"
  /\ app # "idle"
  /\ fault' = "mapRace"
  /\ UNCHANGED <<m_packet_handlers, net, data, sent, handler_it, app, atype,
                 packets, binds, invoked>>

\* handler_it->second(conn, payload)
Invoke ==
  /\ net = "invoke"
  /\ net' = "idle"
  /\ IF Bound(Header.m_packet_type) = handler_it
     THEN /\ invoked' = [type |-> Header.m_packet_type, payload |-> Payload(data), ok |-> TRUE]
          /\ UNCHANGED fault
     ELSE fault' = "danglingHandler" /\ UNCHANGED invoked
  /\ UNCHANGED <<m_packet_handlers, data, sent, handler_it, app, atype, packets, binds>>

-----------------------------------------------------------------------------
BindBegin(op, y) ==
  /\ app = "idle"
  /\ binds < MaxBinds
  /\ binds' = binds + 1
  /\ app' = op
  /\ atype' = y
  /\ UNCHANGED <<m_packet_handlers, net, data, sent, handler_it, packets, fault, invoked>>

\* bind_packet_handler returns false for a type that has a handler.
BindEnd ==
  /\ app = "bind"
  /\ m_packet_handlers' = [m_packet_handlers EXCEPT ![atype] = IF @ = 0 THEN binds ELSE @]
  /\ app' = "idle"
  /\ UNCHANGED <<net, data, sent, handler_it, atype, packets, binds, fault, invoked>>

UnbindEnd ==
  /\ app = "unbind"
  /\ m_packet_handlers' = [m_packet_handlers EXCEPT ![atype] = 0]
  /\ app' = "idle"
  /\ UNCHANGED <<net, data, sent, handler_it, atype, packets, binds, fault, invoked>>

-----------------------------------------------------------------------------
Run == CheckHeader \/ FindHandler \/ FindHandlerRace \/ Invoke \/ BindEnd \/ UnbindEnd

Outside ==
  \/ \E s \in SenderSerde, y \in Types, o \in Objects : ClientSends(s, y, o)
  \/ \E bytes \in Junk : PeerSends(bytes)
  \/ \E op \in {"bind", "unbind"}, y \in Types : BindBegin(op, y)

Quiet ==
  /\ fault # "none" \/ (net = "idle" /\ app = "idle")
  /\ UNCHANGED vars

Next ==
  \/ fault = "none" /\ (Run \/ Outside)
  \/ Quiet

Spec == Init /\ [][Next]_vars

-----------------------------------------------------------------------------
\* A handler runs only for a packet that a client of the server's own
\* serialization type sent to it, with the object that client sent.
HandledIsSent ==
  invoked.ok => /\ sent # NotSent
                /\ invoked.type = sent.type
                /\ payload_as(SerdeT, invoked.payload) = sent.object

\* "Handler is invoked on any `Pong` packet": a packet that passes the header
\* checks, of a type that has a handler, is given to that handler.
HandlerGetsItsPackets ==
  [][net = "find" /\ net' # "find" /\ sent # NotSent /\ Bound(sent.type) # 0
       => net' = "invoke" /\ handler_it' = Bound(sent.type)]_vars

=============================================================================
