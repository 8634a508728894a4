------------------------------ MODULE PingPong ------------------------------
(***************************************************************************)
(* The conversation of tests/udp/test_async.cpp, as a composition: an      *)
(* application makes one call after the other, each of which sends a ping  *)
(* with its own id and waits for the pong (PacketClient); a packet server  *)
(* (PacketServer) has a handler that answers a ping with a pong of the     *)
(* same id.  Between them is one connection with a queue in each           *)
(* direction, which may be lost.                                           *)
(*                                                                         *)
(* A call registers its waiter and sends its ping in either order: the     *)
(* waiter is a coroutine on the pool.                                      *)
(***************************************************************************)
EXTENDS PacketClient, PacketCodec

CONSTANTS Ping, Pong,  \* packet types
          Id           \* the packet_id of each call

ASSUME PingPongConstants ==
  /\ Ping # Pong /\ Types = {Ping, Pong} /\ Types \subseteq Nat
  /\ Id \in [Waiters -> 0..127]
ASSUME PingPongTypes == \A y \in Types : y \div 16777216 < 256  \* packet_type_t is a u32

VARIABLES
  m_packet_handlers, snet, data, sent, shandler_it, sapp, satype, spackets,
  sbinds, sfault, invoked,  \* of the server
  toServer, toClient,       \* ids of pings, and datagrams, under way (external)
  up,                       \* the connection has not been lost (external)
  call,                     \* the call that is being made
  pinged,                   \* calls that have sent their ping
  ahead,                    \* history: those that had registered before
  ponged                    \* history: the payloads that reached the client, in order

Server == INSTANCE PacketServer WITH
  SerdeT <- SerdeMsgpack, SenderSerde <- {SerdeMsgpack}, Objects <- 0..127,
  net <- snet, handler_it <- shandler_it, app <- sapp, atype <- satype,
  packets <- spackets, binds <- sbinds, fault <- sfault

server == <<m_packet_handlers, snet, data, sent, shandler_it, sapp, satype,
            spackets, sbinds, sfault, invoked>>
link   == <<toServer, toClient, up>>
calls  == <<call, pinged, ahead>>
all    == <<vars, server, link, calls, ponged>>

\* The handler of pings was bound before the server was started.
PingInit ==
  /\ Init /\ ptype = Pong /\ \A w \in Waiters : wtype[w] = Pong
  /\ m_packet_handlers = [y \in Types |-> IF y = Ping THEN 1 ELSE 0]
  /\ snet = "idle" /\ data = <<>> /\ sent = Server!NotSent /\ shandler_it = 0
  /\ sapp = "idle" /\ satype = Ping /\ spackets = 0 /\ sbinds = 1
  /\ sfault = "none" /\ invoked = Server!NotInvoked
  /\ toServer = <<>> /\ toClient = <<>> /\ up = TRUE
  /\ call = NoWaiter /\ pinged = {} /\ ahead = {} /\ ponged = <<>>

-----------------------------------------------------------------------------
(* The application of the client.                                           *)

CallWait(w) ==
  /\ call \in {NoWaiter, w}
  /\ Register(w)
  /\ call' = w
  /\ UNCHANGED <<server, link, pinged, ahead, ponged>>

\* Nothing is sent without a connection; on either side the message is queued.
send_raw(id) == toServer' = IF up THEN Append(toServer, id) ELSE toServer
send(p_packet) == toClient' = IF up THEN Append(toClient, p_packet.m_buffer) ELSE toClient

\* send_packet
CallPing(w) ==
  /\ call \in {NoWaiter, w} /\ wpc[w] # "done" /\ w \notin pinged
  /\ call' = w
  /\ pinged' = pinged \cup {w}
  /\ ahead' = IF wpc[w] = "start" THEN ahead ELSE ahead \cup {w}
  /\ send_raw(Id[w])
  /\ UNCHANGED <<vars, server, toClient, up, ponged>>

CallEnd(w) ==
  /\ call = w /\ wpc[w] = "done"
  /\ call' = NoWaiter
  /\ UNCHANGED <<vars, server, link, pinged, ahead, ponged>>

-----------------------------------------------------------------------------
(* The network thread of the server.                                        *)

ServerReceive ==
  /\ toServer # <<>>
  /\ Server!ClientSends(SerdeMsgpack, Ping, Head(toServer))
  /\ toServer' = Tail(toServer)
  /\ UNCHANGED <<vars, toClient, up, calls, ponged>>

ServerRun ==
  /\ Server!CheckHeader \/ Server!FindHandler
  /\ UNCHANGED <<vars, link, calls, ponged>>

\* The handler runs inside handle_packet, and sends its answer.
ServerReply ==
  /\ Server!Invoke
  /\ send(serialize_packet(SerdeMsgpack, Pong,
                           payload_as(SerdeMsgpack, invoked'.payload)))
  /\ UNCHANGED <<vars, toServer, up, calls, ponged>>

-----------------------------------------------------------------------------
(* The network thread and the pool of the client.                           *)

ClientReceive ==
  /\ toClient # <<>>
  /\ LET header == unpack_internal_packet_header(Head(toClient)) IN
     IF header.m_serde_type = SerdeMsgpack /\ header.m_packet_type \in Types
     THEN Receive(header.m_packet_type, "good") ELSE Receive(Pong, "badHeader")
  /\ toClient' = Tail(toClient)
  /\ ponged' = Append(ponged, Payload(Head(toClient)))
  /\ UNCHANGED <<server, toServer, up, calls>>

ClientRun ==
  /\ NetRun \/ \E w \in Waiters : WaiterRun(w)
  /\ UNCHANGED <<server, link, calls, ponged>>

\* The connection is lost, with what is under way.
ConnectionLost ==
  /\ up
  /\ up' = FALSE
  /\ toServer' = <<>> /\ toClient' = <<>>
  /\ UNCHANGED <<vars, server, calls, ponged>>

PingQuiet ==
  /\ Quiet /\ snet = "idle" /\ toServer = <<>> /\ toClient = <<>>
  /\ UNCHANGED <<server, link, calls, ponged>>

Run == ServerReceive \/ ServerRun \/ ServerReply

PingNext ==
  \/ fault = "none" /\ (Run \/ ClientReceive \/ ClientRun)
  \/ fault = "none" /\ \E w \in Waiters : CallWait(w) \/ CallPing(w) \/ CallEnd(w)
  \/ ConnectionLost
  \/ PingQuiet

\* The threads run, and a connection that is not lost delivers.
PingSpec ==
  /\ PingInit /\ [][PingNext]_all
  /\ WF_all(fault = "none" /\ Run)
  /\ WF_all(fault = "none" /\ ClientReceive)
  /\ WF_all(fault = "none" /\ ClientRun)

-----------------------------------------------------------------------------
\* A call whose waiter was registered before its ping was sent returns with a
\* pong, unless the connection is lost: through serializers, the dispatch of the
\* server, the pre-handler and the event.
CallReturns ==
  \A w \in Waiters : w \in ahead ~> ((wpc[w] = "done" /\ got[w] # 0) \/ ~up)

\* With one call at a time, the pong a call returns answers its own ping.
PongIsOwn == \A w \in Waiters : 
  got[w] # 0 => payload_as(SerdeMsgpack, ponged[got[w]]) = Id[w]

\* A pong finds nobody waiting only if the call sent its ping first.
UnawaitedWasEarly ==
  [][net = "pre" /\ net' = "lock" => call \in pinged \ ahead]_all

=============================================================================
