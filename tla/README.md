# A verification project for kb-networking-cpp

kb-networking-cpp is a C++ library for games: a UDP client and server on top of
Valve's GameNetworkingSockets (the *Steam interface* below), packet clients and
servers that dispatch typed packets to handlers, an asynchronous client with
coroutines, two serialization formats and a C API. Most of what can go wrong in
it is between threads: the network thread that each object spawns, the threads
of the application, a thread pool, and one Steam interface that all objects of
a process share. The modules here model those threads at the granularity at
which they touch shared state.

## Inventory

| Component | State | Operations | What is hard about it |
|---|---|---|---|
| `UdpServer` | `m_is_running`, `m_network_thread`, `m_clients` and its mutex, listen socket, poll group, file-level `s_instance` | `start_async`, `start_manual`, `stop`, `poll`, `network_loop`, status handler, `send`, `broadcast`, `disconnect` | the map is shared by the loop, workers and `stop()`; pointers into it leave the lock; handles must not be destroyed under the loop; failing starts |
| `UdpClient` | `m_running`, `m_connection_status`, `m_conn`, `m_network_thread`, file-level `s_instance` | `connect`, `stop`, destructor, loop, status handler, `send_raw` | one `s_instance` for all clients; events of an earlier connection; early return of `stop()`; joinable threads |
| `UdpPacketClient` | `m_handlers` and its mutex, pre-handler callback | `handle_message`, `bind`, `unbind`, `send_packet` | a lookup lock that is released at once |
| `AsyncUdpPacketClient` | `m_awaiters` (a queue per packet type) and its mutex, thread pool | `connect`, `async_wait_for_packet`, pre-handler | the entry is used outside the lock; a set event resumes the coroutine inline or on the pool; payload lifetime; a timeout that races the connection; the last reference may be released on the network thread |
| `UdpPacketServer` | `m_packet_handlers` (no lock) | `handle_packet`, `bind`, `unbind`, `send`, `broadcast` | map changed while the network thread searches it |
| Header and serializers | none | serialize, deserialize, header read and write | field offsets; two copies of the header that can disagree |
| C server API, library lifecycle | `kb_server`, `s_initialized`, the interface each server keeps, the `s_instance` that all servers share | create, start, stop, poll, disconnect, destroy, `kb_networking_init`, `kb_networking_shutdown` | any order of calls of several servers; shutdown does not reset its flag |
| C client API, Rust bindings, addresses, logger | | | no implementation here, another language, or pure data |

Interactions: packet clients and servers own a `UdpClient` or `UdpServer` and
are called back on its network thread. The asynchronous client hooks into the
packet client before its handlers. Every `poll()` calls `RunCallbacks` of the
shared Steam interface, which dispatches the queued status changes of *all*
objects; a static function forwards them to whatever `s_instance` points to.

What makes each part correct: the server's map is accessed by one thread at a
time, callbacks come in order and messages are not dropped, `stop()` returns
and leaves nothing behind; a client's status is the status of its connection
and its thread is joined; a packet reaches one waiter or one handler, waiters
are served in order, and no pointer or view is used after what it refers to;
a packet is dispatched by the type it was sent with; `connect()` answers, and what it
answers is about this connection; every socket and connection of the process has
a running owner.

## Modules

| Module | Models | Contents |
|---|---|---|
| `ServerSessions` | | abstract: what a server promises the application about a connection, as a session that is announced, delivers messages in order and ends |
| `UdpServer` | `udp_server.{hpp,cpp}` | one action per access to shared state; program counters per thread; the refinement mapping to `ServerSessions` |
| `UdpServerProofs` | | theorems about `UdpServer` with any threads around it |
| `UdpServerRefinement` | | theorems about a server whose events only it dispatches; the refinement of `ServerSessions`, step by step |
| `KbServer` | `kb_server.cpp`, `kb_networking.cpp` | several servers, each with a caller and a network thread that interleave inside the calls and the status handler; the library's flag and interface |
| `KbServerProofs` | | theorems about `KbServer` |
| `UdpClient` | `udp_client.{hpp,cpp}` | several clients, their application and network threads |
| `UdpClientProofs` | | theorems about `UdpClient` |
| `AsyncClient` | `async_udp_packet_client.{hpp,inl}` (`connect`, `stop`, lifetime), `udp_packet_client.hpp` | extends `UdpClient`: the coroutine of `connect()` and the release of the shared pointer, synchronised with the client's own steps |
| `AsyncClientProofs` | | theorems about `AsyncClient`, on top of `UdpClientProofs` |
| `PacketDelivery` | | abstract: what the packet client promises about a packet, as lines of waiters, offers, and packets that are passed to handlers |
| `PacketClient` | `udp_packet_client.{hpp,inl}`, `async_udp_packet_client.{hpp,inl}` | one message after the other through pre-handler and handlers, with waiters on the pool; the refinement mapping to `PacketDelivery` |
| `PacketClientProofs` | | theorems about `PacketClient`, and the refinement of `PacketDelivery` |
| `PacketCodec` | `packet.hpp`, `serde/*` | byte-level header, serializers, `payload_as` (no state) |
| `PacketServer` | `udp_packet_server.{hpp,inl}` | dispatch of real byte sequences from `PacketCodec` |
| `PacketServerProofs` | | the round trip of a packet, and theorems about `PacketServer` |
| `PingPong` | the three packet classes together | composition: extends `PacketClient`, instantiates `PacketServer`, with a connection between them that delivers in order or is lost |
| `PingPongProofs` | | theorems about the composition, from those about its parts |
| `MC...` | | instances for TLC |

Variables carry the names of the members they stand for (`m_clients`,
`m_poll_group`, `m_awaiters`, ...). A thread's position is a label (`pc`,
`app`, `net`, `wpc`); `"check"` is the loop condition, `"dispatch"` the loop of
`RunCallbacks`, and so on. Local variables that live across a step (`client`,
`awaiter`, `handler_it`, `pending`, `messages`) are variables too, because the
question is what happens to their targets meanwhile. `PROJECT.json` maps every
definition to its lines.

Undefined behaviour sets `fault` and ends the process: a null or freed
`s_instance`, `std::terminate` of a joinable thread, a data race on a map, a
dangling entry, handler or payload, and the `-1` of a receive call that an
unsigned count turns into billions. Where a build may or may not be lucky, both
outcomes are actions (`Insert` and `InsertRace`, `HandlerFind` and
`HandlerFindRace`).

### What is assumed of the environment

* Steam interface: `RunCallbacks` takes the whole queue of the process and
  dispatches it in order, also for connections closed in the meantime.
  `CloseConnection` drops what is queued for the connection and posts a change
  to None.
  Messages of one connection arrive in order (the reliable mode).
* `CloseListenSocket` takes down the connections that nobody accepted; in
  `KbServer` `GameNetworkingSockets_Kill` takes down all connections and sockets.
* `ConnectByIPAddress` assigns `m_conn` and queues its first status change in one
  step of `UdpClient`.
* `AcceptConnection` fails exactly on a connection that already ended; creating
  sockets and groups, and putting a connection into a group, may fail at will.
* One application thread starts, stops and destroys a given object; others send,
  broadcast and disconnect. A server is polled by its thread or by hand, not by
  both. Workers disconnect connections they were told of. Callbacks are set
  before the start.
* Handles are not reused. In `PacketCodec` the host is little endian and an
  object takes one byte, in msgpack as well.
* In `KbServer` the calls on one server come one after the other
  (`kb_server_poll` included, which nobody makes while a network thread polls);
  callers and threads of different servers interleave at every step that one can
  see of the other. Merged are the socket and the group of a start, which
  nobody knows of before `s_instance` is set; that assignment with `m_is_running`,
  and the exchange in `stop()` with the reset of `s_instance` before it, since only
  the server's own caller and thread read the flag; the join with the loop that
  closes the clients; the listen socket with the group that goes after it; and the
  whole of `disconnect()`. The data race of an insertion with the other accesses to the map is the
  subject of `UdpServer`. Since `kb_server_set_callbacks` has no implementation,
  no application code runs inside a poll. `CloseListenSocket` takes the
  connections down that wait at that very socket.
* One `connect()` of an asynchronous client runs at a time, and the application
  lets go of the client only when none is running. `stop()` may come while
  `connect()` waits.
* In `PingPong` the application makes one call after the other; the handler of
  pings is bound before the server starts and answers with the id it got.
* `coro::event::set` resumes a suspended coroutine on the calling thread.
* `PacketClient` lets the application bind handlers on a client that has waiters, which
  `AsyncUdpPacketClient` does not expose: a superset of the program. The pop of a
  waiter and the reading of its payload are one step, as is the write to an entry.
* In `PacketServer` a well-formed packet counts as a client's, whoever sends it; other peers
  send what fails one of the checks, each check once.

## Runs

| Run | Instance | What it shows |
|---|---|---|
| `UdpServer_async` | 2 connections, network thread, owner, 1 worker, 1 call | types; `DanglesOnlyByDisconnect`; `NoSilentDrop`; `CrashOnlyInStop`: the null dereference needs a `stop()` in progress |
| `UdpServer_restart` | 1 connection, 2 starts in both modes, 2 messages, 2 calls, fair | `StoppedIsClean` and `ReceivesOnLiveGroup` over restarts, failed starts and polls of a stopped server; `ImplementsSessions`; `StopReturns`, `GoneIsClosed`, `LossIsTold` |
| `UdpServer_foreign` | 1 connection, 1 worker, 2 calls, a thread of another object | `OnlyInsertRaces`: all map accesses but the insertion are mutually exclusive, whoever dispatches; `NeverWaitsLocked`: nobody locks again, joins or runs a callback with `m_client_mutex` in hand |
| `UdpServer_stale` (violation) | 1 connection | a disconnected client stays in `m_clients` and is broadcast to |
| `KbServer_lifecycle` | 2 servers, 1 connection, 2 starts each, fair loops | types; `InstanceIsRunning`; `OpenIsOwned`, with the one way in which an accepted connection loses its owner; `OwnHandlerIsSafe`: `stop()` takes nothing from under the server's own handler; `LeakOnlyByFailedStart`; `ConnectIsAnswered` |
| `UdpClient_reconnects` | 1 client, 1 server thread, 2 connects, fair | `NoOrphanThread`; `StopReturns`, with a foreign thread dispatching the client's events |
| `AsyncClient_connect` | 1 client, 2 connects, 2 iterations, fair | `ConnectAnswers`; `TrueIsNews` and `FalseMeansStopped`: what the answers mean; `TerminateExplained`; of the client beneath `ReceivesOnOpenConn`, `RunningHasConnection`, `LossIsNoticed` |
| `UdpClient_pair` (violation) | 2 clients | one client reports connected because of the other's event |
| `PacketClient_await` | 2 waiters, 4 packets, 2 binds, the binary serializer with the one type that it writes, fair | `WokenIsFront`, `ServedInOrder`, `ServedOnce`; `DanglesOnlyAfterWake` and `LostOnlyInWindow` delimit the window between waking a waiter and its pop; `InlinePayloadIsHeld`: on the network thread a waiter reads a message that is still held; `PickedReturns`; `ImplementsDelivery` |
| `PacketServer_msgpack` | clients of both formats, malformed datagrams, types that use each header byte | `HandledIsSent`; `HandlerGetsItsPackets` |
| `PacketServer_binary` (violation) | binary clients | the header on the wire has type `unknown`, so handlers are not found |
| `PingPong_calls` | 3 calls, each in either order of ping and wait, a connection that may be lost, fair | `CallReturns`, `PongIsOwn`, `UnawaitedWasEarly` |

Why the bounds are enough: the races need two threads and one connection or
packet; a second connection, packet or start is what makes an entry, an event or
a handle *stale*. A second connect of a client lets an event of the first meet it; two iterations
of the loop in `connect()` (20 in the code) give a wake-up that reads again and
one that gives up. Two servers are what it takes to share `s_instance`, and to be
inside each other's handler; one connection goes through either (two are beyond TLC there,
the theorems cover any number). Three
calls let a late pong meet a later waiter, were there one. Batches of two messages (`restart`) exercise the loop of `poll()`; the
real 32 only makes the loop longer. Counters (`MaxStarts`, `MaxMsgs`,
`MaxCalls`, `MaxConnects`, `MaxPackets`, `MaxBinds`) bound calls from outside,
never steps inside the library. `PacketClient_await` runs the binary serializer, whose
views are the harder case, and `PingPong_calls` the same steps with msgpack. Connections are symmetric in `UdpServer_async`.

Fairness: a thread that is inside the library keeps running
(`WF` per thread), which an operating system gives; nothing obliges the
application to call, peers to answer or packets to arrive. Callbacks are
assumed to return. A mutex needs no strong fairness because calls are bounded.
Deadlock is checked everywhere; `Quiet` lets the system stop when no thread is
inside the library or the process has ended.

### The sessions of a server

`ServerSessions` says what the application of a server may rely on for each
connection: a session starts and is announced once before any message of it is
delivered, messages come in the order sent, at most one callback that was under
way comes after a `disconnect()`, a session that ended delivers nothing more, and
`stop()` ends every session. `UdpServer` reaches it through `Session(c)`, which
derives the session from the state of the connection, the map and what the
threads are inside of. `ImplementsSessions` is the abstract specification under
that mapping: checked by TLC over two starts in both modes, and proved for any
number of them (`ServerImplementsSessions` below).

### The delivery of packets

`PacketDelivery` says what the application of an asynchronous client may rely on
for its packets: those who wait for a type stand in line; a packet that finds a
line is offered to the first in it, who is woken and returns with the latest
offer; one that finds none is passed to a handler. It also says what may be
lost: an offer may be replaced by a later one, but only once the first in line
was woken. Queue entries, events, the pool, the point at which a coroutine is
resumed, bindings and messages are hidden; the mapping (`LineOf`, `OfferOf`,
`StateOf`, `StageOf`) takes a queue apart into its waiters and the packet of its
front entry, and the label of the network thread to a stage of the packet. So
`ImplementsDelivery` says in one formula that no interleaving of
`async_wait_for_packet`, the pre-handler and the handlers serves out of turn,
twice, before the wake-up, or with a packet other than the one offered. It is
checked by TLC and proved (`ClientImplementsDelivery`). The steps that end the
process are steps or stutters of it as well; what is undefined behaviour is the
subject of `DanglesOnlyAfterWake` and `InlinePayloadIsHeld`.

### More that the models show

Formulas that fail and are not runs of their own; adding one to a configuration
reproduces its counterexample.

* `StoppedIsClean` in `UdpServer_foreign`: a foreign thread that passed the test
  of `s_instance` accepts a connection after `stop()` has cleaned up.
* `pc[Owner] = "stopped" => sockets = {}` in `UdpServer_restart`: if the poll
  group cannot be created, the listen socket is never closed (udp_server.cpp:66).
* `StopStopsThread` in `UdpClient_reconnects`: after a failed connect or a lost
  connection `stop()` returns before the join (udp_client.cpp:19), and the next
  connect or the destructor ends the process. kb_client.h:34 says "Disconnect
  from server and stop reserved thread".
* `ConnectedIsReal` in `UdpClient_reconnects`: a Connected event of the previous
  connection is taken for the new one (udp_client.cpp:180).
* `\A i \in Clients : answer[i] = "true" => <<i, connects[i]>> \in news[i]` in
  `AsyncClient_connect`: for the same reason `connect()` may answer true while the
  connection it opened is still being made, although async_udp_packet_client.hpp:53 says
  "Waits for a timeout period to ensure that connection is successful". `TrueIsNews`
  says how far this goes: the connection that was reported instead was unsettled when
  `connect()` was called, or is another client's; the status that a connection left
  behind is never the answer, and for the first call of the only client it is
  the connection it opened.
* `\A i \in Clients : app[i] = "stopped" => m_connection_status[i] # "connected"`:
  `stop()` leaves the status alone.
* `FalseMeansStopped` and `RunningHasConnection` with `Foreign = {f}` in
  `AsyncClient_connect`: if a server of the same process dispatches the end of the
  connection before `m_running.store(res)` (udp_client.cpp:53), the store
  overwrites it, and a client without a connection keeps running.
* `\A i \in Clients : cpc[i] = "done" /\ answer[i] = "false" => ~m_running[i]` in
  `AsyncClient_connect`: after a timeout the client is left running, every retry
  of `connect()` answers false until `stop()`, and the connection may come up.
* `fault # "terminate" \/ lost # {}` in `AsyncClient_connect`: the last reference
  is released inside the data callback, and the destructor joins its own thread.
* After a reconnect, an event that ends the previous connection resets `m_conn`,
  and nobody closes the new connection (udp_client.cpp:169).
* `s_initialized => lib # 0` in `KbServer_lifecycle`: after a shutdown,
  `kb_networking_init` returns without initialising anything (README.md:27 of the
  repository: "Initialize underlying library resources").
* `\A s \in Servers : server[s].m_is_running => s_instance # NoServer` in
  `KbServer_lifecycle`: stopping or destroying any server, also one that never
  ran, takes the status changes from the one that runs (udp_server.cpp:78), which
  then accepts nobody. `s_instance` may also be another server, which then adopts
  the connections of the first one's socket.
* `OpenIsOwned` without its last disjunct in `KbServer_lifecycle`: the thread of one server has
  loaded `s_instance` for a new connection; the caller of the server it points to
  stops it, and the join does not wait for that thread; it accepts and inserts after the
  clients were closed or the map was cleared (udp_server.cpp:77-103 against 177-245). The
  server is down, and nobody closes the connection.
* `fault # "freedServer"` in `KbServer_lifecycle`: the same, with a `kb_server_destroy` that
  deletes the server inside whose handler the thread is (kb_server.cpp:40). In each
  `OwnHandlerIsSafe` shows that it takes the thread of another server.
* `HandledReachesWaiter` in `PacketClient_await`: in the window between waking a
  waiter and its pop a second packet overwrites the first, although
  `handle_message` returned early for both (async_udp_packet_client.inl:118).
* `\A w \in Waiters : w \in pinged ~> ((wpc[w] = "done" /\ got[w] # 0) \/ ~up)` in
  `PingPong_calls`: if the ping is sent before the waiter is registered, as in
  tests/udp/test_async.cpp:77, the pong may be dropped and the call hangs; the
  sleep in the test's handler hides it.
* `fault # "danglingHandler"` in `PacketClient_await`: a handler is unbound
  between lookup and call (udp_packet_client.inl:82).
* `PayloadOutlivesMessage` in `PacketClient_await`: the payload
  is a span of a message, and a coroutine that continues on the pool may read it
  after its release. `InlinePayloadIsHeld` shows that the pool is needed for this.

## Theorems

Every safety property that a passing run checks is also a theorem. `TypeOK` of
`UdpClient` and `PacketClient` is proved and not among the runs' invariants. The
theorems hold for arbitrary constants, that is any number of connections, servers, clients, waiters, threads, messages and calls, from the
assumptions named in the modules: thread names are distinct, bounds are natural
numbers, and packet types are `u32` values (`ServerTypes`, `PingPongTypes`;
`packet_type_t`, network_types.h:22). Three hypotheses appear in statements, each
because the property fails without it:

* `Foreign = {}`: no other object of the process dispatches this server's status
  changes. With a foreign thread TLC has a counterexample for each of the five
  theorems that assume this (add the property to `UdpServer_foreign.cfg`).
* `OneClient`: the same for a client, `Foreign = {}` and one client at most, since the
  thread of another client dispatches events as a foreign one does. With
  `Foreign = {f}` in `AsyncClient_connect.cfg` all three theorems that assume this have
  counterexamples.
* `SerdeT = SerdeMsgpack`: the binary serializer loses the packet type
  (`PacketServer_binary`).

### UdpServer, with foreign threads (`UdpServerProofs`)

* `TypeCorrect`. Types alone are not inductive: the status handler takes the head
  of `pending`, so `TypeInv` adds that a thread at a handler label has an event
  (`HasEvent`, also while a callback is inside `disconnect()`), and that the
  disconnected callback has a client (`GoneHasClient`).
* `RacesOnlyAtInsert` (`OnlyInsertRaces`) and `LockIsNeverHeldWaiting`
  (`NeverWaitsLocked`), from `LockInv`: a thread holds the mutex exactly if it is at a
  label inside a critical section (`MutexHeld`), and a network thread that runs can
  still be joined (`NetIsThread`). Every label inside the map but `"insert"` is
  such a label, so two threads there would both be the holder; no label of `Waits` and
  none inside a callback is. The mutex is thus in no cycle of waiting threads, which
  takes `LiveInv`: a start that spawned over a thread that still runs would forget what
  that thread holds.
* `GroupOutlivesLoop` (`ReceivesOnLiveGroup`), from `LiveInv`: the network thread is
  alive only while the server runs or `stop()` is at its join (`NetJoined`); a start
  meets no network thread (`StartAlone`); after the exchange the server is not
  running (`StopAlone`); a running server has its group (`GroupExists`).

### UdpServer alone (`UdpServerRefinement`, `Foreign = {}`)

The invariant is built in layers, each proved from the ones before it.

* `SoloInv`: one thread polls, the network thread or the owner; who it is follows
  from the mode; the poll group exists exactly while the server is up.
* `LocalInv`: which local variables of a thread are in use at which label. A thread
  inside `disconnect()` from a callback counts as being where the call returns to
  (`At`), or the callback's message and client would be forgotten.
* `ClientInv`: what `m_clients` says about the connections: an announced connection
  that is not in the map is closed, an open one is in the map or in the hands of the
  handler that is about to insert it.
* `EventInv`: a connection ends once in the queues, and not before it ended.
* `MessageInv`: what was sent is in the inbox, in a batch or delivered; batches
  follow what was delivered, without gaps, and the inbox follows the batches.

From the first four: `StopCleansUp` (`StoppedIsClean`; here the connection between
`AcceptConnection` and the insertion is what makes `OpenIsClient` necessary),
`ClientPointersLive` (`DanglesOnlyByDisconnect`), `CrashNeedsStop`
(`CrashOnlyInStop`). From all five: `NothingDropped` (`NoSilentDrop`) and
`ServerImplementsSessions` (`ImplementsSessions`): `Init` maps to the initial
sessions, and every action to a step of `ServerSessions` or to a stutter, with one
lemma per kind of step (those that change no session, arrivals, the callbacks, the
end of a session, `stop()`).

### The C API (`KbServerProofs`)

* `TypeCorrect`: the types include that a thread inside the handler has a server and a
  connection, which is inductive with them; kept apart from them in `TypeParts`.
* `StatusGoesToRunningServer` (`InstanceIsRunning`) and `OnlyFailedStartLeaks`
  (`LeakOnlyByFailedStart`), from `StageInv`, which says that a running server is live, has
  a poll group and is inside no call, that one between two steps of a start is live and
  has its group, and that one about to join is not freed and still has it: so a caller
  between two steps of its call is accounted for whatever the other servers do.
* `OwnHandlerFindsServer` (`OwnHandlerIsSafe`): a poll of the server's own thread or caller
  keeps `stop()` at the join (`StopClose`) until it is over, and everything that is
  taken away is taken away after the join. Deleting the join breaks it.
* `AcceptedHasOwner` (`OpenIsOwned`), inductive together with the others (`ServerInv`). `Insert` is the heart: if
  the thread's own server is the one it inserts into, `OwnHandlerIsSafe` says that the
  server runs or has yet to close its clients, so an insertion that comes too late
  (`late`) is by another server's thread. `StopClear` is the other half: what the map
  holds then is closed, or was inserted late.

### UdpClient and AsyncClient (`UdpClientProofs`, `AsyncClientProofs`)

* `UdpClientProofs!TypeCorrect`, with the strengthening that corresponds to the server's
  (`HasEvent`, `HasInstance`, `HasHandle`), and `NoThreadOutlivesClient`
  (`NoOrphanThread`), inductive on top of it. TLC reaches one client with a foreign
  thread; two are beyond it, the theorem covers any number.
* `TrueMeansNews` (`TrueIsNews`), from `StatusInv`: the status, the copy of it that the
  loop of `connect()` read before its sleep, and the answer all follow the news; and
  from `ReportInv`: whatever is on its way to becoming news (`Unsettled`) is the
  connection of the call, was unsettled when the call began, or is another client's. The
  lemmas on the queues (`PostSettles`, `NextSettles`) show that only opening a connection
  makes one unsettled, and a call begins before it opens its own.
* `TerminateIsExplained` (`TerminateExplained`), from `DownInv`: as long as no connection
  was lost, a joinable thread is that of a running client or of one that `stop()` is
  about to join.
* With `OneClient`, from `OneInv` while there was no fault: `RunningIsConnected`
  (`RunningHasConnection`), `ReceivesOnOpen` (`ReceivesOnOpenConn`); and with
  `StatusIsDown` (a client that runs was not told of a failure) `FalseIsStopped`
  (`FalseMeansStopped`). The heart of `OneInv` is that the thread that closes `m_conn`
  and then clears it (`OpenUntilClear`) has stopped the client before (`GoneIsDown`).

### PacketClient (`PacketClientProofs`)

* `TypeCorrect`: `HasPacket` gives the network thread a packet while it delivers.
* `WokenTakesOwn` (`WokenIsFront`), from `WakeInv`: entries and waiting coroutines
  correspond one to one, an event is set for the front of a queue only, and the entry
  the network thread points to is the front or one that has returned since.
* `InOrder` (`ServedInOrder`) and `Once` (`ServedOnce`), from `ServeInv`, which adds
  `QueueInv` (queues are in the order of registration, and of one type the earlier ones
  return first), `DataInv` (a packet is claimed once; only a front entry holds one, and
  it is later than all that its type returned) and `DataWakes`. These are what remains
  true although a second packet may overwrite the first.
* `DanglesAfterWake` (`DanglesOnlyAfterWake`), from `WakeInv`, and the action property `LostInWindow`
  (`LostOnlyInWindow`), from `ServeInv`.
* `InlineReadsHeld` (`InlinePayloadIsHeld`), from `OfferInv`: the packet being handled
  is held (`Held`); when the event is set, the front entry has this packet, or none, or
  the event was set before (`FrontAtSet`); so a suspended waiter, whose event was not
  set, finds this packet or none (`ResumeData`). The case of an
  event set before is real: an unreadable packet leaves an older one in the entry.
* `ClientImplementsDelivery` (`ImplementsDelivery`), from `ServeInv` and `OfferInv`, with
  one lemma per action: a registration is a `Wait` (lemma `NamesAppend`), a pop on
  either thread a `Return` (`NamesTail`; `DataInv` makes the offer empty afterwards, as
  only the front entry holds a packet), the pre-handler `Pass` or `Offer`, a write
  `Fill` (`DataWakes` gives its guard), `set()` a `Wake` (`FrontAtSet` gives its guard);
  a write or `set()` through an entry that is gone changes nothing, since its waiter has
  returned (`WakeInv`).

### Packets and calls (`PacketServerProofs`, `PingPongProofs`)

* `PacketRoundTrip`: the header and the payload of a serialized packet are read back as
  they were written, for every `u32`. The four bytes are taken apart and put together by
  division, so this is arithmetic, where TLC tries a handful of types.
* `HandlersGetSentPackets` (`HandledIsSent`) and `PacketsReachHandlers`
  (`HandlerGetsItsPackets`, an action property), from `DispatchInv`: the datagram under
  way is a client's or junk (`FromClient`, `FromPeer`), and the checks that
  `handle_packet` passed hold of its header (`Checked`, `Found`).
* `CallsGetTheirPongs` (`PongIsOwn`) and `UnawaitedPongIsEarly` (`UnawaitedWasEarly`, an
  action property), from `CallInv`. The steps of the composition are steps of
  `PacketClient`, so `TypeInv` and `WakeInv` are reused, and the round trip gives the
  bytes on the way their meaning. `Conversation` adds that one call is under way with one
  packet (`OneCall`, `OneUnderWay`), that this packet has not reached the call yet
  (`PacketAnswers`), and that what waits in an entry answers the ping of the entry's
  waiter (`DataAnswers`).

### Only model-checked

* Liveness, because fairness is out of the prover's reach: `StopReturns` of server and
  client, `GoneIsClosed`, `LossIsTold`, `ConnectIsAnswered`, `ConnectAnswers`,
  `LossIsNoticed`, `PickedReturns`, `CallReturns`.
* The three disagreements with the documentation, which are counterexamples.

## Not modelled

Factories (`udp.hpp`, one call each), the getters and `send`/`broadcast` wrappers of
the C API (they change nothing), the C client API (declarations only), addresses
(copied and parsed through the Steam library; an invalid one is a failing
`connect()`), logging, buffer memory management, objects of more than one byte,
two `connect()` calls of one client at once, the shared-pointer lifetime of the
packet server (the same shape as the client's in `AsyncClient`), `stop()` from
inside a callback, and the Rust example.

## Plan

1. Done: `UdpServer`, `UdpClient`, `PacketClient`, `PacketCodec`, `PacketServer`,
   with the first theorems.
2. Done: `ServerSessions` and the refinement, `KbServer`, `AsyncClient`,
   `PingPong`.
3. Done: theorems for the safety properties of the runs, and the refinement of
   `ServerSessions`.
4. Done: `PacketDelivery` and its refinement, the mutex of the server, the lifetime of
   payloads on the network thread.
5. Done: `KbServer` step by step, with callers and threads of several servers inside each
   other's handlers; what `TrueIsNews` says of connections that were still unsettled.
6. Left: what the client's theorems need of a process with several objects, stated as
   a condition on the events that reach `s_instance` instead of `Foreign = {}`; a run of
   two connections of `KbServer`, which needs a coarser step; shorter
   proofs where one lemma per action repeats the same frame argument.
