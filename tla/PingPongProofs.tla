--------------------------- MODULE PingPongProofs ---------------------------
(***************************************************************************)
(* A call of PingPong returns the answer to its own ping: the theorems     *)
(* about the packet client and the packet format, put together for the     *)
(* composition of client, server and connection.                           *)
(***************************************************************************)
EXTENDS PingPong, PacketClientProofs

Format == INSTANCE PacketServerProofs WITH
  SerdeT <- SerdeMsgpack, SenderSerde <- {SerdeMsgpack}, Objects <- 0..127,
  net <- snet, handler_it <- shandler_it, app <- sapp, atype <- satype,
  packets <- spackets, binds <- sbinds, fault <- sfault

-----------------------------------------------------------------------------
(* The packets of a call.                                                   *)

PingBytes(w) == Server!serialize_packet(SerdeMsgpack, Ping, Id[w]).m_buffer
PongBytes(w) == serialize_packet(SerdeMsgpack, Pong, Id[w]).m_buffer

LEMMA PacketIs ==
  ASSUME NEW n \in Types, NEW o \in 0..127
  PROVE  LET bytes == serialize_packet(SerdeMsgpack, n, o).m_buffer
         IN  /\ unpack_internal_packet_header(bytes) = HeaderOf(SerdeMsgpack, n)
             /\ Payload(bytes) = <<o>>
<1>1. SerdeMsgpack \in Format!Byte /\ n \in Format!U32 /\ o \in Format!Byte
  BY PingPongConstants, PingPongTypes, SMTT(30) DEF SerdeMsgpack, Format!Byte, Format!U32
<1>2. /\ SerdeMsgpack \in {Format!SerdeBin, Format!SerdeMsgpack}
      /\ {SerdeMsgpack} \subseteq {Format!SerdeBin, Format!SerdeMsgpack}
      /\ Types \subseteq Nat /\ \A y \in Types : y \div 16777216 < 256
      /\ 0..127 \subseteq 0..127
      /\ MaxPackets \in Nat /\ MaxBinds \in Nat
  BY ConstantsTyped, PingPongConstants, PingPongTypes, SMTT(30) DEF SerdeMsgpack,
    Format!SerdeMsgpack
<1> DEFINE bytes == Format!write_internal_packet_header(Format!HeaderOf(SerdeMsgpack, n)) \o <<o>>
<1>3. /\ Format!unpack_internal_packet_header(bytes) = Format!HeaderOf(SerdeMsgpack, n)
      /\ Format!Payload(bytes) = <<o>>
  BY <1>2, <1>1, Format!PacketRoundTrip, SMTT(30)
<1>4. bytes = serialize_packet(SerdeMsgpack, n, o).m_buffer
  BY SMTT(30) DEF Format!write_internal_packet_header, Format!HeaderOf,
    Format!MagicBytes, Format!U32Bytes, serialize_packet,
    MsgpackSerialize, write_internal_packet_header, HeaderOf, MagicBytes, U32Bytes,
    SerdeMsgpack, SerdeBin
<1> HIDE DEF bytes
<1>5. unpack_internal_packet_header(bytes) = Format!unpack_internal_packet_header(bytes)
  BY SMTT(30) DEF Format!unpack_internal_packet_header, unpack_internal_packet_header,
    Format!HeaderSize, HeaderSize,
    Format!MagicBytes, MagicBytes, Format!NoHeader, NoHeader, Format!HeaderOf, HeaderOf,
    Format!U32Of, U32Of
<1>6. Payload(bytes) = Format!Payload(bytes)
  BY DEF Payload, Format!Payload, HeaderSize, Format!HeaderSize
<1>7. QED
  BY <1>3, <1>4, <1>5, <1>6 DEF HeaderOf, Format!HeaderOf

-----------------------------------------------------------------------------
(* The inductive invariant.                                                 *)

\* Everything is about pongs, and the server has its one handler.
PongsOnly ==
  /\ ptype = Pong /\ wtype = [w \in Waiters |-> Pong]
  /\ kind = "good"
  /\ m_packet_handlers = [y \in Types |-> IF y = Ping THEN 1 ELSE 0]
  /\ snet \in {"idle", "header", "find", "invoke"}
  /\ snet = "invoke" => shandler_it = 1

\* A call is made by the application before it waits, and left when it has returned.
OneCall ==
  /\ call \in Waiters \cup {NoWaiter}
  /\ \A w \in Waiters : wpc[w] \in InQueue => call = w

Empty == toServer = <<>> /\ snet = "idle" /\ toClient = <<>>

\* One packet is under way at most, of the current call.
OneUnderWay ==
  \/ Empty
  \/ toServer = <<Id[call]>> /\ snet = "idle" /\ toClient = <<>>
  \/ toServer = <<>> /\ snet # "idle" /\ data = PingBytes(call) /\ toClient = <<>>
  \/ toServer = <<>> /\ snet = "idle" /\ toClient = <<PongBytes(call)>>

\* The call has sent its ping and was not woken.
Unanswered ==
  /\ call \in Waiters /\ call \in pinged
  /\ wpc[call] \in {"start", "registered", "suspended"} /\ ~event[call]

\* While a packet is under way, or in the hands of the network thread of the client,
\* it has not yet reached its call.
PacketAnswers ==
  /\ ~Empty => Unanswered /\ net = "idle"
  /\ net \notin {"idle", "resume"} => Unanswered
  /\ net = "resume" => call \in pinged
  /\ \A w \in Waiters : event[w] => w \in pinged

\* The payload of packet number k answers the ping of w.
Answers(w, k) == k \in 1..Len(ponged) /\ ponged[k] = <<Id[w]>>

\* Packets that were given to a waiter, or are about to be, answer its ping.
DataAnswers ==
  /\ ponged \in Seq(Seq(0..127)) /\ Len(ponged) = packets
  /\ net \in {"pre", "write"} => Answers(call, packets)
  /\ \A n \in 1..Len(m_awaiters[Pong]) :
       m_awaiters[Pong][n].data # 0 => Answers(m_awaiters[Pong][n].w, m_awaiters[Pong][n].data)
  /\ \A w \in Waiters : got[w] # 0 => Answers(w, got[w])

\* A call that is ahead of its ping has registered.
AheadWaits == ahead \subseteq Waiters /\ \A w \in ahead : wpc[w] # "start"

Conversation ==
  PongsOnly /\ OneCall /\ OneUnderWay /\ PacketAnswers /\ DataAnswers /\ AheadWaits
CallInv == TypeInv /\ WakeInv /\ Conversation

-----------------------------------------------------------------------------
(* The steps of the composition are steps of the packet client.             *)

LEMMA ClientStep == ASSUME [PingNext]_all PROVE [Next]_vars
<1>1. CASE UNCHANGED all \/ ConnectionLost \/ PingQuiet
  BY <1>1 DEF all, ConnectionLost, PingQuiet, Quiet
<1>2. CASE Run \/ \E w \in Waiters : CallPing(w) \/ CallEnd(w)
  BY <1>2 DEF Run, ServerReceive, ServerRun, ServerReply, CallPing, CallEnd
<1>3. CASE fault = "none" /\ ClientReceive
  BY <1>3, PingPongConstants DEF ClientReceive, Next, Outside
<1>4. CASE fault = "none" /\ ClientRun
  BY <1>4 DEF ClientRun, Next
<1>5. CASE fault = "none" /\ \E w \in Waiters : CallWait(w)
  BY <1>5 DEF CallWait, Next, Outside
<1>6. QED
  BY <1>1, <1>2, <1>3, <1>4, <1>5 DEF PingNext

LEMMA InitCall == PingInit => CallInv
<1> SUFFICES ASSUME PingInit PROVE CallInv
  OBVIOUS
<1>1. TypeInv /\ WakeInv
  BY InitWake DEF PingInit
<1>2. PongsOnly
  BY DEF PingInit, Init, PongsOnly
<1>3. OneCall /\ OneUnderWay /\ PacketAnswers /\ AheadWaits
  BY DEF PingInit, Init, OneCall, OneUnderWay, Empty, PacketAnswers, AheadWaits, InQueue
<1>4. DataAnswers
  BY PingPongConstants DEF PingInit, Init, DataAnswers
<1>5. QED
  BY <1>1, <1>2, <1>3, <1>4 DEF CallInv, Conversation

\* Between two calls nothing is under way.
LEMMA Between ==
  ASSUME CallInv, ~(call \in Waiters /\ call \in pinged) \/ wpc[call] = "done"
  PROVE  Empty /\ net = "idle"
<1>1. net = "resume" => awaiter \in Waiters /\ call = awaiter /\ wpc[awaiter] = "resumed"
  BY DEF CallInv, Conversation, WakeInv, PickedIsFront, OneCall, InQueue
<1>2. QED
  BY <1>1 DEF CallInv, Conversation, PacketAnswers, Unanswered

\* An entry of the queue of pongs is that of the current call.
LEMMA EntryIsCall ==
  ASSUME CallInv, NEW n \in 1..Len(m_awaiters[Pong])
  PROVE  m_awaiters[Pong][n].w = call /\ call \in Waiters
  BY QueueType, PingPongConstants DEF CallInv, Conversation, TypeInv, WakeInv,
    EntriesWait, OneCall

-----------------------------------------------------------------------------
(* The application.                                                         *)

LEMMA WaitCall == ASSUME CallInv, NEW w \in Waiters, CallWait(w) PROVE Conversation'
<1>1. /\ call \in {NoWaiter, w} /\ call' = w /\ wpc[w] = "start"
      /\ wpc' = [wpc EXCEPT ![w] = "registered"] /\ wpc \in [Waiters -> WaiterLabels]
      /\ UNCHANGED <<wtype, event, got, net, packet, awaiter, handler_it, binding, fault, hist>>
      /\ UNCHANGED <<server, link, pinged, ahead, ponged>>
  BY DEF CallWait, Register, GotoW, CallInv, TypeInv, TypeOK
<1>2. call = NoWaiter => Empty /\ net = "idle"
  BY Between, ConstantsTyped
<1>3. PongsOnly' /\ Empty' = Empty
  BY <1>1 DEF CallInv, Conversation, PongsOnly, Empty, server, packet, link
<1>4. OneCall'
  BY <1>1, ConstantsTyped DEF CallInv, Conversation, OneCall, InQueue
<1>5. OneUnderWay'
  BY <1>1, <1>2, <1>3 DEF CallInv, Conversation, OneUnderWay, Empty, PingBytes, server, link
<1>6. PacketAnswers'
  BY <1>1, <1>2, <1>3, ConstantsTyped DEF CallInv, Conversation, PacketAnswers, Unanswered
<1>7. DataAnswers'
  <2>1. wtype[w] = Pong /\ Pong \in Types
    BY PingPongConstants DEF CallInv, Conversation, PongsOnly
  <2>2. /\ Len(m_awaiters[Pong]) \in Nat /\ Len(m_awaiters'[Pong]) = Len(m_awaiters[Pong]) + 1
        /\ \A n \in 1..Len(m_awaiters[Pong]) : m_awaiters'[Pong][n] = m_awaiters[Pong][n]
        /\ m_awaiters'[Pong][Len(m_awaiters[Pong]) + 1] = [w |-> w, data |-> 0]
    BY <2>1, Registered DEF CallWait, CallInv, TypeInv
  <2>3. \A n \in 1..Len(m_awaiters'[Pong]) :
          n \in 1..Len(m_awaiters[Pong]) \/ m_awaiters'[Pong][n].data = 0
    BY <2>2
  <2>4. net \in {"pre", "write"} => call' = call
    BY <1>1, <1>2
  <2>5. QED
    BY <1>1, <2>2, <2>3, <2>4 DEF CallInv, Conversation, DataAnswers, Answers, packet
<1>8. AheadWaits'
  BY <1>1 DEF CallInv, Conversation, AheadWaits
<1>9. QED
  BY <1>3, <1>4, <1>5, <1>6, <1>7, <1>8 DEF Conversation

LEMMA PingCall == ASSUME CallInv, NEW w \in Waiters, CallPing(w) PROVE Conversation'
<1>1. /\ call \in {NoWaiter, w} /\ call' = w /\ wpc[w] # "done" /\ w \notin pinged
      /\ pinged' = pinged \cup {w}
      /\ ahead' = IF wpc[w] = "start" THEN ahead ELSE ahead \cup {w}
      /\ toServer' = IF up THEN Append(toServer, Id[w]) ELSE toServer
      /\ UNCHANGED <<vars, server, toClient, up, ponged>>
  BY DEF CallPing, send_raw
<1>2. Empty /\ net = "idle"
  BY <1>1, Between, ConstantsTyped
<1>3. PongsOnly' /\ UNCHANGED <<wpc, event, net, got, m_awaiters, packets, snet, data>>
  BY <1>1 DEF CallInv, Conversation, PongsOnly, server, vars, packet, waiting
<1>4. OneCall'
  BY <1>1, <1>3, ConstantsTyped DEF CallInv, Conversation, OneCall
<1>5. OneUnderWay'
  <2>1. toServer' = <<>> \/ toServer' = <<Id[w]>>
    BY <1>1, <1>2 DEF Empty
  <2>2. QED
    BY <1>1, <1>2, <1>3, <2>1 DEF OneUnderWay, Empty
<1>6. PacketAnswers'
  <2>1. ~event[w] /\ wpc[w] \in {"start", "registered", "suspended"}
    BY <1>1 DEF CallInv, Conversation, PacketAnswers, WakeInv, WokenHasEvent, TypeInv,
      TypeOK, WaiterLabels
  <2>2. QED
    BY <1>1, <1>2, <1>3, <2>1 DEF CallInv, Conversation, PacketAnswers, Unanswered
<1>7. DataAnswers'
  BY <1>1, <1>2, <1>3 DEF CallInv, Conversation, DataAnswers, Answers
<1>8. AheadWaits'
  BY <1>1, <1>3 DEF CallInv, Conversation, AheadWaits
<1>9. QED
  BY <1>3, <1>4, <1>5, <1>6, <1>7, <1>8 DEF Conversation

LEMMA EndCall == ASSUME CallInv, NEW w \in Waiters, CallEnd(w) PROVE Conversation'
<1>1. /\ call = w /\ wpc[w] = "done" /\ call' = NoWaiter
      /\ UNCHANGED <<vars, server, link, pinged, ahead, ponged>>
  BY DEF CallEnd
<1>2. Empty /\ net = "idle"
  BY <1>1, Between
<1>3. PongsOnly' /\ UNCHANGED <<wpc, event, net, got, m_awaiters, packets>> /\ Empty'
  BY <1>1, <1>2 DEF CallInv, Conversation, PongsOnly, Empty, server, vars, packet,
    waiting, link
<1>4. OneCall' /\ OneUnderWay' /\ PacketAnswers' /\ AheadWaits'
  BY <1>1, <1>2, <1>3 DEF CallInv, Conversation, OneCall, OneUnderWay, PacketAnswers,
    AheadWaits, InQueue
<1>5. DataAnswers'
  BY <1>1, <1>2, <1>3 DEF CallInv, Conversation, DataAnswers, Answers
<1>6. QED
  BY <1>3, <1>4, <1>5 DEF Conversation

-----------------------------------------------------------------------------
(* The server.                                                              *)

\* What the server finds in the datagram it handles.
LEMMA ServerReads ==
  ASSUME CallInv, snet # "idle"
  PROVE  /\ Unanswered /\ net = "idle" /\ Server!Header.m_packet_type = Ping
         /\ Server!Payload(data) = <<Id[call]>> /\ Id[call] \in 0..127
         /\ toServer = <<>> /\ toClient = <<>>
<1>1. Unanswered /\ net = "idle" /\ data = PingBytes(call) /\ toServer = <<>> /\ toClient = <<>>
  BY DEF CallInv, Conversation, PacketAnswers, OneUnderWay, Empty
<1>2. Id[call] \in 0..127 /\ Ping \in Types
  BY <1>1, PingPongConstants, Zenon DEF Unanswered
<1>3. PingBytes(call) = serialize_packet(SerdeMsgpack, Ping, Id[call]).m_buffer
  BY SMTT(30) DEF PingBytes, Server!serialize_packet, Server!MsgpackSerialize,
    Server!write_internal_packet_header,
    Server!HeaderOf, Server!MagicBytes, Server!U32Bytes, Server!SerdeBin,
    Server!SerdeMsgpack,
    serialize_packet, MsgpackSerialize, write_internal_packet_header, HeaderOf, MagicBytes, U32Bytes, SerdeBin, SerdeMsgpack
<1>4. Server!Header = unpack_internal_packet_header(data)
  BY SMTT(30) DEF Server!Header, Server!unpack_internal_packet_header,
    unpack_internal_packet_header,
    Server!HeaderSize, HeaderSize, Server!MagicBytes, MagicBytes, Server!NoHeader, NoHeader,
    Server!HeaderOf, HeaderOf, Server!U32Of, U32Of
<1>5. Server!Payload(data) = Payload(data)
  BY DEF Server!Payload, Payload, Server!HeaderSize, HeaderSize
<1>6. /\ unpack_internal_packet_header(PingBytes(call)) = HeaderOf(SerdeMsgpack, Ping)
      /\ Payload(PingBytes(call)) = <<Id[call]>>
  BY <1>2, <1>3, PacketIs
<1>7. QED
  BY <1>1, <1>2, <1>4, <1>5, <1>6 DEF HeaderOf

LEMMA ReceivePing == ASSUME CallInv, ServerReceive PROVE Conversation'
<1>1. /\ toServer # <<>> /\ toServer' = Tail(toServer) /\ snet' = "header"
      /\ data' = Server!serialize_packet(SerdeMsgpack, Ping, Head(toServer)).m_buffer
      /\ UNCHANGED <<m_packet_handlers, shandler_it>> /\ UNCHANGED <<vars, toClient, up, calls, ponged>>
  BY DEF ServerReceive, Server!ClientSends, Server!Arrive
<1>2. /\ toServer = <<Id[call]>> /\ toClient = <<>> /\ Unanswered /\ net = "idle"
  BY <1>1 DEF CallInv, Conversation, OneUnderWay, PacketAnswers, Empty
<1>3. toServer' = <<>> /\ data' = PingBytes(call)
  BY <1>1, <1>2 DEF PingBytes
<1>4. QED
  BY <1>1, <1>2, <1>3 DEF CallInv, Conversation, PongsOnly, OneCall, OneUnderWay, Empty,
    PacketAnswers,
    Unanswered, DataAnswers, Answers, AheadWaits, PingBytes, vars, waiting, packet, calls

LEMMA RunServer == ASSUME CallInv, ServerRun PROVE Conversation'
<1>1. /\ snet # "idle" /\ snet' \in {"idle", "find", "invoke"}
      /\ snet' = "invoke" => shandler_it' = 1
      /\ UNCHANGED <<m_packet_handlers, data>> /\ UNCHANGED <<vars, link, calls, ponged>>
  <2>1. CASE Server!CheckHeader
    BY <2>1 DEF ServerRun, Server!CheckHeader
  <2>2. CASE Server!FindHandler
    <3>1. Server!Bound(Server!Header.m_packet_type) = 1
      BY <2>2, ServerReads, PingPongConstants, Zenon DEF Server!FindHandler,
        Server!Bound, CallInv, Conversation, PongsOnly
    <3>2. QED
      BY <2>2, <3>1 DEF ServerRun, Server!FindHandler
  <2>3. QED
    BY <2>1, <2>2 DEF ServerRun
<1>2. toServer = <<>> /\ toClient = <<>> /\ Unanswered /\ net = "idle"
  BY <1>1, ServerReads
<1>3. QED
  BY <1>1, <1>2 DEF CallInv, Conversation, PongsOnly, OneCall, OneUnderWay, Empty,
    PacketAnswers,
    Unanswered, DataAnswers, Answers, AheadWaits, PingBytes, vars, waiting, packet,
    calls, link

LEMMA ReplyPong == ASSUME CallInv, ServerReply PROVE Conversation'
<1>1. snet = "invoke" /\ shandler_it = 1
  BY DEF ServerReply, Server!Invoke, CallInv, Conversation, PongsOnly
<1>2. /\ toServer = <<>> /\ toClient = <<>> /\ Unanswered /\ net = "idle"
      /\ Server!Header.m_packet_type = Ping /\ Server!Payload(data) = <<Id[call]>>
  BY <1>1, ServerReads
<1>3. Server!Bound(Server!Header.m_packet_type) = shandler_it
  BY <1>1, <1>2, PingPongConstants, Zenon DEF Server!Bound, CallInv, Conversation, PongsOnly
<1>4. invoked'.payload = <<Id[call]>>
  BY <1>2, <1>3 DEF ServerReply, Server!Invoke
<1>5. payload_as(SerdeMsgpack, invoked'.payload) = Id[call]
  BY <1>4 DEF payload_as, MsgpackPayloadAs, SerdeMsgpack, SerdeBin
<1>6. toClient' = IF up THEN Append(toClient, PongBytes(call)) ELSE toClient
  BY <1>5 DEF ServerReply, send, PongBytes
<1>7. toClient' = <<>> \/ toClient' = <<PongBytes(call)>>
  BY <1>2, <1>6
<1>8. snet' = "idle" /\ UNCHANGED m_packet_handlers /\ UNCHANGED <<vars, toServer, up, calls, ponged>>
  BY DEF ServerReply, Server!Invoke
<1>9. QED
  BY <1>2, <1>7, <1>8 DEF CallInv, Conversation, PongsOnly, OneCall, OneUnderWay, Empty,
    PacketAnswers,
    Unanswered, DataAnswers, Answers, AheadWaits, PongBytes, vars, waiting, packet, calls

\* What is under way is lost with the connection, but for what the server handles.
LEMMA LoseConnection == ASSUME CallInv, ConnectionLost PROVE Conversation'
  BY DEF ConnectionLost, CallInv, Conversation, PongsOnly, OneCall, OneUnderWay, Empty,
    PacketAnswers,
    Unanswered, DataAnswers, Answers, AheadWaits, PingBytes, vars, waiting, packet,
    calls, server

LEMMA Idle == ASSUME CallInv, UNCHANGED all PROVE Conversation'
  BY DEF all, CallInv, Conversation, PongsOnly, OneCall, OneUnderWay, Empty, PacketAnswers,
    Unanswered, DataAnswers, Answers, AheadWaits, PingBytes, PongBytes, vars, waiting,
    packet, calls, server, link

-----------------------------------------------------------------------------
(* The client.                                                              *)

LEMMA ReceivePong == ASSUME CallInv, ClientReceive PROVE Conversation'
<1>1. /\ toClient = <<PongBytes(call)>> /\ toServer = <<>> /\ snet = "idle"
      /\ Unanswered /\ net = "idle"
  BY DEF ClientReceive, CallInv, Conversation, OneUnderWay, PacketAnswers, Empty
<1>2. Head(toClient) = PongBytes(call) /\ Tail(toClient) = <<>>
  BY <1>1
<1>3. Id[call] \in 0..127 /\ Pong \in Types
  BY <1>1, PingPongConstants, Zenon DEF Unanswered
<1>4. /\ unpack_internal_packet_header(PongBytes(call)) = HeaderOf(SerdeMsgpack, Pong)
      /\ Payload(PongBytes(call)) = <<Id[call]>>
  BY <1>3, PacketIs DEF PongBytes
<1>5. Receive(Pong, "good")
  BY <1>2, <1>3, <1>4 DEF ClientReceive, HeaderOf
<1>6. /\ packets' = packets + 1 /\ ptype' = Pong /\ kind' = "good" /\ net' = "pre"
      /\ toClient' = <<>> /\ ponged' = Append(ponged, <<Id[call]>>)
      /\ UNCHANGED waiting /\ UNCHANGED <<server, toServer, up, calls>>
  BY <1>2, <1>4, <1>5 DEF ClientReceive, Receive
<1>7. /\ ponged' \in Seq(Seq(0..127)) /\ Len(ponged') = packets + 1 /\ packets \in Nat
      /\ \A k \in 1..packets : ponged'[k] = ponged[k]
      /\ ponged'[packets + 1] = <<Id[call]>>
  <2>1. ponged \in Seq(Seq(0..127)) /\ Len(ponged) = packets /\ <<Id[call]>> \in Seq(0..127)
    BY <1>3 DEF CallInv, Conversation, DataAnswers
  <2>2. QED
    BY <1>6, <2>1, AppendProperties
<1>8. DataAnswers'
  <2>1. \A w, k : Answers(w, k) => Answers(w, k)'
    BY <1>7 DEF Answers, CallInv, Conversation, DataAnswers
  <2>2. Answers(call, packets)'
    BY <1>6, <1>7 DEF Answers, calls
  <2>3. QED
    BY <1>6, <1>7, <2>1, <2>2 DEF DataAnswers, CallInv, Conversation, waiting
<1>9. QED
  BY <1>1, <1>6, <1>8 DEF CallInv, Conversation, PongsOnly, OneCall, OneUnderWay, Empty,
    PacketAnswers,
    Unanswered, AheadWaits, waiting, calls, server

\* What a step of the threads of the client leaves alone.
Elsewhere == UNCHANGED <<server, link, calls, ponged>>

LEMMA AwaitCall ==
  ASSUME CallInv, NEW w \in Waiters, Await(w), Elsewhere
  PROVE  Conversation'
<1>1. /\ wpc \in [Waiters -> WaiterLabels] /\ wpc[w] = "registered"
      /\ wpc' = [wpc EXCEPT ![w] = IF event[w] THEN "ready" ELSE "suspended"]
      /\ UNCHANGED <<m_awaiters, wtype, event, got, order, net, packet, awaiter>>
  BY DEF Await, GotoW, CallInv, TypeInv, TypeOK
<1>2. QED
  BY <1>1 DEF Elsewhere, CallInv, Conversation, PongsOnly, OneCall, OneUnderWay, Empty,
    PacketAnswers, InQueue,
    Unanswered, DataAnswers, Answers, AheadWaits, PingBytes, PongBytes, packet, calls,
    server, link

LEMMA PopCall ==
  ASSUME CallInv, NEW w \in Waiters, PopStep(w), Elsewhere
  PROVE  Conversation'
<1>1. /\ wpc[w] \in {"ready", "resumed"} /\ AtFront(w) /\ event[w] /\ PopFront(w)
      /\ net' \in {net, "idle"}
      /\ UNCHANGED <<wtype, event, packet>>
  BY PopStepIs DEF CallInv
<1>2. call = w /\ wtype[w] = Pong /\ Pong \in Types
  BY <1>1, PingPongConstants DEF CallInv, Conversation, PongsOnly, OneCall, InQueue
<1>3. /\ Len(m_awaiters[Pong]) \in Nat \ {0} /\ Len(m_awaiters'[Pong]) = Len(m_awaiters[Pong]) - 1
      /\ \A n \in 1..Len(m_awaiters'[Pong]) : m_awaiters'[Pong][n] = m_awaiters[Pong][n + 1]
      /\ got' = [got EXCEPT ![w] = m_awaiters[Pong][1].data]
      /\ wpc' = [wpc EXCEPT ![w] = "done"]
  BY <1>1, <1>2, Popped DEF CallInv, TypeInv
<1>4. /\ got \in [Waiters -> {0} \cup Packets] /\ wpc \in [Waiters -> WaiterLabels]
  BY DEF CallInv, TypeInv, TypeOK
<1>5. Empty /\ net \in {"idle", "resume"}
  BY <1>1, <1>2 DEF CallInv, Conversation, PacketAnswers, Unanswered
<1>6. DataAnswers'
  <2>1. m_awaiters[Pong][1].w = w
    BY <1>1, <1>2 DEF AtFront, Queue
  <2>2. m_awaiters[Pong][1].data # 0 => Answers(w, m_awaiters[Pong][1].data)
    BY <1>3, <2>1 DEF CallInv, Conversation, DataAnswers
  <2>3. \A v, k : Answers(v, k)' = Answers(v, k)
    BY DEF Answers, Elsewhere
  <2>4. \A n \in 1..Len(m_awaiters'[Pong]) : n + 1 \in 1..Len(m_awaiters[Pong])
    BY <1>3
  <2>5. QED
    BY <1>1, <1>3, <1>4, <1>5, <2>2, <2>3, <2>4 DEF CallInv, Conversation, DataAnswers,
      Elsewhere, packet
<1>7. PongsOnly' /\ OneCall' /\ AheadWaits'
  BY <1>1, <1>3, <1>4 DEF Elsewhere, CallInv, Conversation, PongsOnly, OneCall,
    AheadWaits, InQueue, packet, server, calls
<1>8. OneUnderWay' /\ PacketAnswers'
  BY <1>1, <1>2, <1>5 DEF Elsewhere, CallInv, Conversation, OneUnderWay, PacketAnswers,
    Empty, server, calls, link
<1>9. QED
  BY <1>6, <1>7, <1>8 DEF Conversation

LEMMA PreCall == ASSUME CallInv, PreHandler, Elsewhere PROVE Conversation'
<1>1. net = "pre" /\ net' \in {"lock", "write"} /\ UNCHANGED <<waiting, packet>>
  BY DEF PreHandler
<1>2. QED
  BY <1>1 DEF Elsewhere, CallInv, Conversation, PongsOnly, OneCall, OneUnderWay, Empty,
    PacketAnswers,
    Unanswered, DataAnswers, Answers, AheadWaits, PingBytes, PongBytes, waiting, packet,
    calls, server, link

LEMMA WriteCall == ASSUME CallInv, Write, Elsewhere PROVE Conversation'
<1>1. net = "write" /\ net' = "set" /\ UNCHANGED <<wpc, wtype, event, got, packet>>
  BY DEF Write
<1>2. Pong \in Types
  BY PingPongConstants
<1>3. /\ Len(m_awaiters'[Pong]) = Len(m_awaiters[Pong])
      /\ \A n \in 1..Len(m_awaiters[Pong]) :
           /\ m_awaiters'[Pong][n].w = m_awaiters[Pong][n].w
           /\ m_awaiters'[Pong][n].data \in {packets, m_awaiters[Pong][n].data}
  BY <1>2, Written DEF CallInv
<1>4. Answers(call, packets)
  BY <1>1 DEF CallInv, Conversation, DataAnswers
<1>5. DataAnswers'
  <2>1. \A v, k : Answers(v, k)' = Answers(v, k)
    BY DEF Answers, Elsewhere
  <2>2. \A n \in 1..Len(m_awaiters[Pong]) : m_awaiters'[Pong][n].data # 0 =>
          Answers(m_awaiters'[Pong][n].w, m_awaiters'[Pong][n].data)
    BY <1>3, <1>4, EntryIsCall DEF CallInv, Conversation, DataAnswers
  <2>3. QED
    BY <1>1, <1>3, <2>1, <2>2 DEF CallInv, Conversation, DataAnswers, Elsewhere, packet
<1>6. QED
  BY <1>1, <1>5 DEF Elsewhere, CallInv, Conversation, PongsOnly, OneCall, OneUnderWay,
    Empty, PacketAnswers,
    Unanswered, AheadWaits, PingBytes, PongBytes, packet, calls, server, link

LEMMA SetCall == ASSUME CallInv, SetEvent, Elsewhere PROVE Conversation'
<1>1. /\ net = "set" /\ net' \in {"set", "idle", "resume"}
      /\ net' = "set" => UNCHANGED <<wpc, event>>
      /\ UNCHANGED <<m_awaiters, wtype, got, packet>>
  BY DEF SetEvent
<1>2. Unanswered /\ Empty
  BY <1>1 DEF CallInv, Conversation, PacketAnswers
<1>3. wpc \in [Waiters -> WaiterLabels] /\ event \in [Waiters -> BOOLEAN]
  BY DEF CallInv, TypeInv, TypeOK
<1>4. EntryAt = {} => UNCHANGED <<wpc, event>>
  BY DEF SetEvent
<1>5. EntryAt # {} => awaiter = call
  BY <1>1, EntryIsFront DEF CallInv, Conversation, OneCall
<1>6. /\ \A w \in Waiters : wpc'[w] \in InQueue => wpc[w] \in InQueue
      /\ \A w \in Waiters : wpc'[w] = "start" => wpc[w] = "start"
  BY <1>3, <1>4 DEF SetEvent, GotoW, InQueue
<1>7. \A w \in Waiters : event'[w] => event[w] \/ w = call
  BY <1>3, <1>4, <1>5 DEF SetEvent
<1>8. OneCall' /\ PacketAnswers' /\ AheadWaits' /\ OneUnderWay'
  BY <1>1, <1>2, <1>6, <1>7 DEF Elsewhere, CallInv, Conversation, OneCall, PacketAnswers,
    Unanswered, AheadWaits,
    OneUnderWay, Empty, calls, server, link
<1>9. PongsOnly' /\ DataAnswers'
  BY <1>1 DEF Elsewhere, CallInv, Conversation, PongsOnly, DataAnswers, Answers, packet,
    server, calls
<1>10. QED
  BY <1>8, <1>9 DEF Conversation

\* The other steps of the network thread concern no waiter.
LEMMA AsideCall ==
  ASSUME CallInv, Elsewhere,
         ReleaseMessages \/ HandlerLock \/ HandlerFind \/ HandlerFindRace \/ HandlerInvoke
  PROVE  Conversation'
<1>1. /\ UNCHANGED waiting /\ UNCHANGED <<packets, ptype, kind>> /\ net' \in {net, "idle", "find", "invoke"}
      /\ net = "idle" => net' = "idle"
      /\ net' # net => net \in {"lock", "find", "invoke"}
  BY DEF ReleaseMessages, HandlerLock, HandlerFind, HandlerFindRace, HandlerInvoke, packet
<1>2. QED
  BY <1>1 DEF Elsewhere, CallInv, Conversation, PongsOnly, OneCall, OneUnderWay, Empty,
    PacketAnswers,
    Unanswered, DataAnswers, Answers, AheadWaits, PingBytes, PongBytes, waiting, calls,
    server, link

LEMMA RunClient == ASSUME CallInv, ClientRun PROVE Conversation'
<1>1. Elsewhere
  BY DEF ClientRun, Elsewhere
<1>2. ResumeInline => \E w \in Waiters : PopStep(w)
  BY DEF ResumeInline, PopStep, CallInv, WakeInv, PickedIsFront
<1>3. QED
  BY <1>1, <1>2, AwaitCall, PopCall, PreCall, WriteCall, SetCall, AsideCall
    DEF ClientRun, NetRun, WaiterRun, PopStep

-----------------------------------------------------------------------------
LEMMA NextCall == ASSUME CallInv, [PingNext]_all PROVE CallInv'
<1>1. TypeInv' /\ WakeInv'
  BY ClientStep, NextWake DEF CallInv
<1>2. PingQuiet => UNCHANGED all
  BY DEF PingQuiet, Quiet, all, server, link, calls
<1>3. Conversation'
  BY <1>2, WaitCall, PingCall, EndCall, ReceivePing, RunServer, ReplyPong,
    LoseConnection, Idle, ReceivePong, RunClient
    DEF PingNext, Run
<1>4. QED
  BY <1>1, <1>3 DEF CallInv

LEMMA AlwaysCall == PingSpec => []CallInv
  BY InitCall, NextCall, PTL DEF PingSpec

\* A call that returns a pong returns the answer to its own ping, for any number of calls one
\* after the other: through the serializers, handle_packet of the server, the pre-handler and
\* the queue of awaiters (async_udp_packet_client.inl), with the connection lost at any time.
THEOREM CallsGetTheirPongs == PingSpec => []PongIsOwn
<1>1. CallInv => PongIsOwn
  <2>1. SUFFICES ASSUME CallInv, NEW w \in Waiters, got[w] # 0
                 PROVE  payload_as(SerdeMsgpack, ponged[got[w]]) = Id[w]
    BY DEF PongIsOwn
  <2>2. ponged[got[w]] = <<Id[w]>>
    BY <2>1 DEF CallInv, Conversation, DataAnswers, Answers
  <2>3. QED
    BY <2>2 DEF payload_as, MsgpackPayloadAs, SerdeMsgpack, SerdeBin
<1>2. QED
  BY <1>1, AlwaysCall, PTL

\* A pong that finds nobody waiting, and goes to the handlers instead, is that of a call that
\* sent its ping before it registered its awaiter.
THEOREM UnawaitedPongIsEarly == PingSpec => UnawaitedWasEarly
<1> DEFINE Early == net = "pre" /\ net' = "lock" => call \in pinged \ ahead
<1>1. ASSUME CallInv, [PingNext]_all PROVE [Early]_all
  <2>1. SUFFICES ASSUME net = "pre", net' = "lock" PROVE call \in pinged \ ahead
    OBVIOUS
  <2>2. PreHandler
    BY <1>1, <2>1, StepKinds, ClientStep
    DEF CallInv, Register, Await, PopStep, Pop, ResumeInline, PreHandler, Write, SetEvent, Aside,
      Receive, ReleaseMessages, HandlerLock, HandlerFind, HandlerFindRace, HandlerInvoke,
      BindEnd, UnbindEnd, BindBegin, vars
  <2>3. Unanswered /\ m_awaiters[Pong] = <<>>
    BY <1>1, <2>1, <2>2 DEF PreHandler, CallInv, Conversation, PacketAnswers, PongsOnly
  <2>4. wpc[call] \notin InQueue
    <3>1. Queue(call) = <<>>
      BY <1>1, <2>3 DEF Queue, CallInv, Conversation, PongsOnly, Unanswered
    <3>2. QED
      BY <1>1, <2>3, <3>1 DEF CallInv, WakeInv, HasEntry, Unanswered
  <2>5. QED
    BY <1>1, <2>3, <2>4 DEF CallInv, Conversation, Unanswered, AheadWaits, InQueue
<1>2. QED
  BY <1>1, AlwaysCall, PTL DEF PingSpec, UnawaitedWasEarly
=============================================================================
