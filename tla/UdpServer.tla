------------------------------ MODULE UdpServer ------------------------------
(***************************************************************************)
(* kb::net::UdpServer (src/src/kb/net/udp/server/udp_server.{hpp,cpp}).    *)
(*                                                                         *)
(* The threads are the network thread that start_async spawns (Net), the   *)
(* application thread that starts, stops and destroys the server and, in   *)
(* manual mode, polls it (Owner), further application threads that call    *)
(* send, broadcast and disconnect (Workers), and threads of other          *)
(* UdpClient / UdpServer objects of the same process (Foreign).  The       *)
(* Foreign threads matter because every object shares the interface that   *)
(* SteamNetworkingSockets() returns: whoever calls RunCallbacks dispatches *)
(* the status callbacks of every connection of the process.                *)
(*                                                                         *)
(* The Steam library and the remote peers are external.  A message is a    *)
(* pair <<connection, number>>; a sent message stays in `inbox` until the  *)
(* network delivers it and a poll receives it.  Application callbacks are  *)
(* taken to be set, and may themselves call disconnect().                  *)
(***************************************************************************)
EXTENDS Naturals, Sequences, FiniteSets

CONSTANTS
  Conns,       \* connection handles, each used for one incoming connection
  NoConn,      \* k_invalid_connection
  Net, Owner,  \* the network thread and the thread that owns the server
  Workers,     \* application threads that use the running server
  Foreign,     \* threads of other objects that call RunCallbacks
  NoThread,    \* the mutex is free
  Modes,       \* the start functions the application uses
  BatchSize,   \* k_message_count of poll()
  MaxStarts,   \* bound: calls of start_async / start_manual
  MaxMsgs,     \* bound: messages a peer sends on one connection
  MaxCalls     \* bound: calls of send, broadcast and disconnect

Threads == {Net, Owner} \cup Workers \cup Foreign

ASSUME ThreadsDistinct ==
  /\ Net # Owner
  /\ {Net, Owner} \cap (Workers \cup Foreign) = {}
  /\ Workers \cap Foreign = {}
  /\ NoThread \notin Threads

ASSUME ConstantsTyped ==
  /\ NoConn \notin Conns
  /\ Modes \subseteq {"async", "manual"}
  /\ BatchSize \in Nat \ {0}
  /\ MaxStarts \in Nat
  /\ MaxMsgs \in Nat
  /\ MaxCalls \in Nat

VARIABLES
  \* members of UdpServer and the file-level s_instance
  s_instance,        \* s_instance points to this server (FALSE: nullptr)
  m_is_running,
  m_network_thread,  \* m_network_thread.joinable()
  m_clients,         \* the keys of the map
  m_client_mutex,    \* the thread that holds it
  m_listen_socket,   \* 0: k_invalid_listen_socket
  m_poll_group,      \* 0: k_invalid_poll_group
  \* where each thread is, and its local variables
  pc,
  mode,              \* the start function Owner is executing
  messages,          \* messages received by poll() and not yet released
  pending,           \* status changes a RunCallbacks call took and has not dispatched
  client,            \* the client_info_t that the thread points to
  kick,              \* the argument of the disconnect() call in progress
  ret,               \* where that call returns to
  \* the Steam interface and the peers (external)
  connState,         \* state of each connection
  groupConns,        \* connections that are in the poll group
  inbox,             \* messages sent by peers and not yet received
  callbacks,         \* queued status changes
  sockets, groups,   \* listen sockets and poll groups that exist
  sent,              \* messages sent so far, per connection
  starts, calls,     \* counters behind MaxStarts and MaxCalls
  fault,             \* the undefined behaviour that ended the process
  \* history: what the application was told and asked for
  announced,         \* connected callback was invoked for these connections
  delivered,         \* data callback was invoked for these messages
  left,              \* disconnected callback was invoked for these connections
  kicked             \* disconnect() was called for these connections

flags   == <<s_instance, m_is_running, m_network_thread>>
handles == <<m_listen_socket, m_poll_group, sockets, groups>>
server  == <<flags, handles, mode, starts>>
clients == <<m_clients, m_client_mutex>>
local   == <<messages, pending, client>>
call    == <<kick, ret, calls, kicked>>
net     == <<connState, groupConns, inbox, callbacks, sent>>
rest    == <<fault, announced, delivered, left>>
vars    == <<server, clients, pc, local, call, net, rest>>

Msgs == Conns \X (1..MaxMsgs)

Gone == {"ClosedByPeer", "ProblemDetectedLocally"}
ConnStates == {"free", "Connecting", "Accepted", "Connected", "closed"} \cup Gone
\* A connection stays in the API's Connecting state until its handshake ends.
ApiState(s) == IF s = "Accepted" THEN "Connecting" ELSE s
Events == [conn : Conns, old : ConnStates, new : ConnStates \cup {"None"}]

\* Labels of application code that runs inside a callback of the server.
InCallback == {"inData", "inConn", "inGone"}
\* Labels at which the executing thread holds m_client_mutex.
Locked == {"find", "findGone", "bcast", "erase", "closing", "release"}
\* Labels at which the executing thread is reading or writing m_clients.
InMap == {"find", "findGone", "bcast", "erase", "closing", "insert"}
StopLabels == {"exchange", "join", "lock", "closing", "release"}
PollLabels == {"recv", "msg", "find", "data", "inData", "events", "dispatch",
               "deref", "accept", "setgroup", "insert", "inConn", "lookup",
               "findGone", "gone", "inGone", "close"}
Labels == {"idle", "group", "publish", "spawn", "stopped", "off", "check",
           "done", "bcast", "eraseLock", "erase"} \cup StopLabels \cup PollLabels

Goto(t, l) == pc' = [pc EXCEPT ![t] = l]

\* Thread t goes from one label to another and changes nothing else.
Step(t, from, to) ==
  /\ pc[t] = from
  /\ Goto(t, to)
  /\ UNCHANGED <<server, clients, local, call, net, rest>>

\* The same, taking m_client_mutex.
Lock(t, from, to) ==
  /\ pc[t] = from
  /\ m_client_mutex = NoThread
  /\ m_client_mutex' = t
  /\ Goto(t, to)
  /\ UNCHANGED <<server, m_clients, local, call, net, rest>>

Release == m_client_mutex' = NoThread

\* CloseConnection of the interface: the connection and whatever it still had
\* queued are gone, and a status change to None is queued.
CloseConnection(c) ==
  /\ connState' = [connState EXCEPT ![c] = "closed"]
  /\ groupConns' = groupConns \ {c}
  /\ inbox' = {m \in inbox : m[1] # c}
  /\ callbacks' = IF connState[c] = "closed" THEN callbacks
                  ELSE Append(callbacks, [conn |-> c, old |-> ApiState(connState[c]),
                                          new |-> "None"])

Init ==
  /\ s_instance = FALSE /\ m_is_running = FALSE /\ m_network_thread = FALSE
  /\ m_clients = {} /\ m_client_mutex = NoThread
  /\ m_listen_socket = 0 /\ m_poll_group = 0
  /\ pc = [t \in Threads |-> IF t = Net THEN "off" ELSE "idle"]
  /\ mode = "async"
  /\ messages = [t \in Threads |-> {}]
  /\ pending = [t \in Threads |-> <<>>]
  /\ client = [t \in Threads |-> NoConn]
  /\ kick = [t \in Threads |-> NoConn]
  /\ ret = [t \in Threads |-> "idle"]
  /\ connState = [c \in Conns |-> "free"]
  /\ groupConns = {} /\ inbox = {} /\ callbacks = <<>>
  /\ sockets = {} /\ groups = {}
  /\ sent = [c \in Conns |-> 0]
  /\ starts = 0 /\ calls = 0 /\ fault = "none"
  /\ announced = {} /\ delivered = {} /\ left = {} /\ kicked = {}

-----------------------------------------------------------------------------
(* start_async and start_manual, on Owner.  A call on a running server      *)
(* returns at once and changes nothing.                                     *)

\* The listen socket: incoming connections are queued from here on.
StartListen(m) ==
  /\ pc[Owner] \in {"idle", "stopped"}
  /\ ~m_is_running
  /\ starts < MaxStarts
  /\ starts' = starts + 1
  /\ mode' = m
  /\ \/ /\ m_listen_socket' = starts + 1
        /\ sockets' = sockets \cup {starts + 1}
        /\ Goto(Owner, "group")
     \/ /\ m_listen_socket' = 0       \* on_fatal_message
        /\ Goto(Owner, "idle")
        /\ UNCHANGED sockets
  /\ UNCHANGED <<flags, m_poll_group, groups, clients, local, call, net, rest>>

\* The poll group; when it cannot be created the listen socket stays as it is.
StartGroup ==
  /\ pc[Owner] = "group"
  /\ \/ /\ m_poll_group' = starts
        /\ groups' = groups \cup {starts}
        /\ Goto(Owner, "publish")
        /\ UNCHANGED m_is_running
     \/ /\ m_poll_group' = 0
        /\ m_is_running' = FALSE      \* on_fatal_message
        /\ Goto(Owner, "idle")
        /\ UNCHANGED groups
  /\ UNCHANGED <<s_instance, m_network_thread, m_listen_socket, sockets, mode,
                 starts, clients, local, call, net, rest>>

StartPublish ==
  /\ pc[Owner] = "publish"
  /\ s_instance' = TRUE
  /\ m_is_running' = TRUE
  /\ Goto(Owner, IF mode = "async" THEN "spawn" ELSE "idle")
  /\ UNCHANGED <<m_network_thread, handles, mode, starts, clients, local, call,
                 net, rest>>

\* start_async: m_network_thread = std::thread(network_loop).
StartSpawn ==
  /\ pc[Owner] = "spawn"
  /\ m_network_thread' = TRUE
  /\ pc' = [pc EXCEPT ![Owner] = "idle", ![Net] = "check"]
  /\ UNCHANGED <<s_instance, m_is_running, handles, mode, starts, clients,
                 local, call, net, rest>>

-----------------------------------------------------------------------------
(* stop, on Owner; the destructor does the same.                            *)

StopBegin ==
  /\ pc[Owner] \in {"idle", "stopped"}
  /\ s_instance' = FALSE
  /\ Goto(Owner, "exchange")
  /\ UNCHANGED <<m_is_running, m_network_thread, handles, mode, starts, clients,
                 local, call, net, rest>>

\* Mutant: the flag is read and not cleared.
StopExchangeKeeps ==
  /\ pc[Owner] = "exchange"
  /\ Goto(Owner, IF m_is_running THEN "join" ELSE "stopped")
  /\ UNCHANGED <<flags, handles, mode, starts, clients, local, call, net, rest>>

\* m_is_running.exchange(false): a server that is not running returns here.
StopExchange ==
  /\ pc[Owner] = "exchange"
  /\ m_is_running' = FALSE
  /\ Goto(Owner, IF m_is_running THEN "join" ELSE "stopped")
  /\ UNCHANGED <<s_instance, m_network_thread, handles, mode, starts, clients,
                 local, call, net, rest>>

\* Mutant: the network thread is detached, not joined.
StopJoinDetaches ==
  /\ pc[Owner] = "join"
  /\ m_network_thread' = FALSE
  /\ Goto(Owner, "lock")
  /\ UNCHANGED <<s_instance, m_is_running, handles, mode, starts, clients,
                 local, call, net, rest>>

StopJoin ==
  /\ pc[Owner] = "join"
  /\ m_network_thread => pc[Net] = "done"
  /\ m_network_thread' = FALSE
  /\ pc' = [pc EXCEPT ![Owner] = "lock", ![Net] = "off"]
  /\ UNCHANGED <<s_instance, m_is_running, handles, mode, starts, clients,
                 local, call, net, rest>>

StopLock == Lock(Owner, "lock", "closing")

\* One iteration of the loop over the keys of m_clients.
StopCloseOne(c) ==
  /\ pc[Owner] = "closing"
  /\ c \in m_clients
  /\ connState[c] # "closed"
  /\ CloseConnection(c)
  /\ UNCHANGED <<server, clients, pc, local, call, sent, rest>>

\* Mutant: the map is cleared before its connections are closed.
StopClearEarly ==
  /\ pc[Owner] = "closing"
  /\ m_clients' = {}
  /\ Goto(Owner, "release")
  /\ UNCHANGED <<server, m_client_mutex, local, call, net, rest>>

StopClear ==
  /\ pc[Owner] = "closing"
  /\ \A c \in m_clients : connState[c] = "closed"
  /\ m_clients' = {}
  /\ Goto(Owner, "release")
  /\ UNCHANGED <<server, m_client_mutex, local, call, net, rest>>

\* Connections that were never accepted go down with their listen socket.
CloseListenSocket ==
  connState' = [c \in Conns |-> IF connState[c] = "Connecting" THEN "closed"
                                ELSE connState[c]]

StopRelease ==
  /\ pc[Owner] = "release"
  /\ IF m_listen_socket # 0 THEN CloseListenSocket ELSE UNCHANGED connState
  /\ sockets' = sockets \ {m_listen_socket}
  /\ m_listen_socket' = 0
  /\ groups' = groups \ {m_poll_group}
  /\ groupConns' = IF m_poll_group # 0 THEN {} ELSE groupConns
  /\ m_poll_group' = 0
  /\ Release
  /\ Goto(Owner, "stopped")
  /\ UNCHANGED <<flags, mode, starts, m_clients, local, call, inbox, callbacks,
                 sent, rest>>

-----------------------------------------------------------------------------
(* network_loop and poll.  t is Net, or Owner in manual mode.               *)

LoopCheck == Step(Net, "check", IF m_is_running THEN "recv" ELSE "done")

\* poll() itself does not ask whether the server is running.
PollManually ==
  /\ mode = "manual"
  /\ \E l \in {"idle", "stopped"} : Step(Owner, l, "recv")

\* ReceiveMessagesOnPollGroup: up to BatchSize of the messages that arrived,
\* those of one connection in the order in which they were sent.
PollReceive(t) ==
  /\ pc[t] = "recv"
  /\ m_poll_group # 0
  /\ \E batch \in SUBSET {m \in inbox : m[1] \in groupConns} :
       /\ Cardinality(batch) <= BatchSize
       /\ \A m \in batch, n \in inbox : n[1] = m[1] /\ n[2] < m[2] => n \in batch
       /\ messages' = [messages EXCEPT ![t] = batch]
       /\ inbox' = inbox \ batch
  /\ Goto(t, "msg")
  /\ UNCHANGED <<server, clients, pending, client, call, connState, groupConns,
                 callbacks, sent, rest>>

\* Without a poll group the call returns -1, which the u32 message_count turns
\* into 2^32 - 1: the loop reads pointers that nobody wrote.
PollInvalid(t) ==
  /\ pc[t] = "recv"
  /\ m_poll_group = 0
  /\ fault' = "invalidGroup"
  /\ UNCHANGED <<server, clients, pc, local, call, net, announced, delivered, left>>

\* Mutant: the batch is worked off in no particular order.
IsAny(t, m) == m \in messages[t]

\* m is the next message of its connection in the received batch.
IsNext(t, m) ==
  /\ m \in messages[t]
  /\ \A n \in messages[t] : n[1] = m[1] => m[2] <= n[2]

\* get_client_info for the next message: lock, then find and unlock.
PollLock(t) == messages[t] # {} /\ Lock(t, "msg", "find")

\* Mutant: get_client_info returns with m_client_mutex locked, for the callback.
PollFindKeepsLock(t) ==
  /\ pc[t] = "find"
  /\ \E m \in messages[t] :
       /\ IsNext(t, m)
       /\ \/ /\ m[1] \in m_clients
             /\ client' = [client EXCEPT ![t] = m[1]]
             /\ Goto(t, "data")
             /\ UNCHANGED <<messages, m_client_mutex>>
          \/ /\ m[1] \notin m_clients
             /\ messages' = [messages EXCEPT ![t] = @ \ {m}]
             /\ Goto(t, "msg")
             /\ Release
             /\ UNCHANGED client
  /\ UNCHANGED <<server, m_clients, pending, call, net, rest>>

\* A message from a connection that is not in the map is released unread.
PollFind(t) ==
  /\ pc[t] = "find"
  /\ \E m \in messages[t] :
       /\ IsNext(t, m)
       /\ \/ /\ m[1] \in m_clients
             /\ client' = [client EXCEPT ![t] = m[1]]
             /\ Goto(t, "data")
             /\ UNCHANGED messages
          \/ /\ m[1] \notin m_clients
             /\ messages' = [messages EXCEPT ![t] = @ \ {m}]
             /\ Goto(t, "msg")
             /\ UNCHANGED client
  /\ Release
  /\ UNCHANGED <<server, m_clients, pending, call, net, rest>>

\* m_data_received_callback(*client, ...) is entered, without the mutex.
DataCallback(t) ==
  /\ pc[t] = "data"
  /\ \E m \in messages[t] :
       /\ IsNext(t, m)
       /\ m[1] = client[t]
       /\ delivered' = delivered \cup {m}
  /\ Goto(t, "inData")
  /\ UNCHANGED <<server, clients, local, call, net, fault, announced, left>>

\* The callback returns and the message is released.
DataReturn(t) ==
  /\ pc[t] = "inData"
  /\ \E m \in messages[t] :
       /\ IsNext(t, m)
       /\ m[1] = client[t]
       /\ messages' = [messages EXCEPT ![t] = @ \ {m}]
  /\ client' = [client EXCEPT ![t] = NoConn]
  /\ Goto(t, "msg")
  /\ UNCHANGED <<server, clients, pending, call, net, rest>>

\* Mutant: the loop ends before the last message of the batch.
PollMessagesSkip(t) == Step(t, "msg", "events")

PollMessagesDone(t) == messages[t] = {} /\ Step(t, "msg", "events")

\* A thread of another object calls RunCallbacks of the shared interface.
ForeignPump(f) == callbacks # <<>> /\ Step(f, "idle", "events")

\* RunCallbacks takes the whole queue and dispatches it in order.
RunCallbacks(t) ==
  /\ pc[t] = "events"
  /\ pending' = [pending EXCEPT ![t] = callbacks]
  /\ callbacks' = <<>>
  /\ Goto(t, "dispatch")
  /\ UNCHANGED <<server, clients, messages, client, call, connState,
                 groupConns, inbox, sent, rest>>

RunCallbacksDone(t) ==
  pending[t] = <<>> /\ Step(t, "dispatch", IF t = Net THEN "check" ELSE "idle")

-----------------------------------------------------------------------------
(* connection_status_changed_callback and on_connection_status_changed, on  *)
(* any thread t inside RunCallbacks.                                        *)

Event(t) == Head(pending[t])
NextEvent(t) ==
  /\ pending' = [pending EXCEPT ![t] = Tail(@)]
  /\ Goto(t, "dispatch")

\* if (!s_instance) return;
StatusDropped(t) ==
  /\ pc[t] = "dispatch"
  /\ pending[t] # <<>>
  /\ ~s_instance
  /\ NextEvent(t)
  /\ UNCHANGED <<server, clients, messages, client, call, net, rest>>

StatusChecked(t) ==
  pending[t] # <<>> /\ s_instance /\ Step(t, "dispatch", "deref")

\* s_instance->on_connection_status_changed(p_info).  The pointer is not
\* atomic: when stop() cleared it after the test, a build that loaded it once
\* goes on with the server, a build that loads it again dereferences null.
StatusCrash(t) ==
  /\ pc[t] = "deref"
  /\ ~s_instance
  /\ fault' = "nullInstance"
  /\ UNCHANGED <<server, clients, pc, local, call, net, announced, delivered, left>>

\* Mutant: the test of the old state is the wrong way round.
StatusGoneNegated(t) ==
  /\ Step(t, "deref", IF Event(t).old = "Connected" THEN "close" ELSE "lookup")
  /\ Event(t).new \in Gone

StatusGone(t) ==
  /\ Step(t, "deref", IF Event(t).old = "Connected" THEN "lookup" ELSE "close")
  /\ Event(t).new \in Gone

StatusConnecting(t) == Step(t, "deref", "accept") /\ Event(t).new = "Connecting"

\* None (our own CloseConnection) and Connected are ignored.
StatusIgnored(t) ==
  /\ pc[t] = "deref"
  /\ Event(t).new \in {"None", "Connected"}
  /\ NextEvent(t)
  /\ UNCHANGED <<server, clients, messages, client, call, net, rest>>

\* AcceptConnection fails on a connection that went away in the meantime.
Accept(t) ==
  LET c == Event(t).conn IN
  /\ pc[t] = "accept"
  /\ \/ /\ connState[c] = "Connecting"
        /\ connState' = [connState EXCEPT ![c] = "Accepted"]
        /\ Goto(t, "setgroup")
        /\ UNCHANGED <<pending, groupConns, inbox, callbacks>>
     \/ /\ connState[c] # "Connecting"
        /\ CloseConnection(c)
        /\ NextEvent(t)
  /\ UNCHANGED <<server, clients, messages, client, call, sent, rest>>

\* SetConnectionPollGroup may report failure.
SetGroup(t) ==
  LET c == Event(t).conn IN
  /\ pc[t] = "setgroup"
  /\ \/ /\ groupConns' = groupConns \cup {c}
        /\ Goto(t, "insert")
        /\ UNCHANGED <<pending, connState, inbox, callbacks>>
     \/ /\ CloseConnection(c)
        /\ NextEvent(t)
  /\ UNCHANGED <<server, clients, messages, client, call, sent, rest>>

\* m_clients[conn] is written without m_client_mutex, and the connected
\* callback is entered with a reference to the new entry.
Insert(t) ==
  LET c == Event(t).conn IN
  /\ pc[t] = "insert"
  /\ m_clients' = m_clients \cup {c}
  /\ client' = [client EXCEPT ![t] = c]
  /\ announced' = announced \cup {c}
  /\ Goto(t, "inConn")
  /\ UNCHANGED <<server, m_client_mutex, messages, pending, call, net, fault,
                 delivered, left>>

\* The same write while another thread is inside the map is a data race: it may
\* go well (Insert) or corrupt the map, after which nothing is defined.
InsertRace(t) ==
  /\ pc[t] = "insert"
  /\ \E u \in Threads \ {t} : pc[u] \in InMap
  /\ fault' = "mapRace"
  /\ UNCHANGED <<server, clients, pc, local, call, net, announced, delivered, left>>

ConnectedReturn(t) ==
  /\ pc[t] = "inConn"
  /\ client' = [client EXCEPT ![t] = NoConn]
  /\ NextEvent(t)
  /\ UNCHANGED <<server, clients, messages, call, net, rest>>

\* Mutant: get_client_info without its lock.
LookupNoLock(t) == Step(t, "lookup", "findGone")

\* get_client_info for the disconnected callback.
LookupLock(t) == Lock(t, "lookup", "findGone")

\* Mutants: the null test of client_info is missing; the entry is erased
\* before the callback that gets a pointer to it.
LookupUntested(t) ==
  /\ pc[t] = "findGone"
  /\ client' = [client EXCEPT ![t] = IF Event(t).conn \in m_clients
                                     THEN Event(t).conn ELSE NoConn]
  /\ Goto(t, "gone")
  /\ Release
  /\ UNCHANGED <<server, m_clients, messages, pending, call, net, rest>>

LookupErases(t) ==
  /\ pc[t] = "findGone"
  /\ client' = [client EXCEPT ![t] = Event(t).conn]
  /\ m_clients' = m_clients \ {Event(t).conn}
  /\ Goto(t, "gone")
  /\ Release
  /\ UNCHANGED <<server, messages, pending, call, net, rest>>

LookupFind(t) ==
  LET c == Event(t).conn IN
  /\ pc[t] = "findGone"
  /\ \/ /\ c \in m_clients
        /\ client' = [client EXCEPT ![t] = c]
        /\ Goto(t, "gone")
     \/ /\ c \notin m_clients
        /\ Goto(t, "close")
        /\ UNCHANGED client
  /\ Release
  /\ UNCHANGED <<server, m_clients, messages, pending, call, net, rest>>

GoneCallback(t) ==
  /\ pc[t] = "gone"
  /\ left' = left \cup {client[t]}
  /\ Goto(t, "inGone")
  /\ UNCHANGED <<server, clients, local, call, net, fault, announced, delivered>>

GoneReturn(t) ==
  /\ pc[t] = "inGone"
  /\ client' = [client EXCEPT ![t] = NoConn]
  /\ Goto(t, "close")
  /\ UNCHANGED <<server, clients, messages, pending, call, net, rest>>

\* Mutant: the handler leaves the connection as the peer left it.
CloseGoneOmitted(t) ==
  /\ pc[t] = "close"
  /\ NextEvent(t)
  /\ UNCHANGED <<server, clients, messages, client, call, net, rest>>

\* The connection is closed on our side too; its entry stays in m_clients.
CloseGone(t) ==
  /\ pc[t] = "close"
  /\ CloseConnection(Event(t).conn)
  /\ NextEvent(t)
  /\ UNCHANGED <<server, clients, messages, client, call, sent, rest>>

-----------------------------------------------------------------------------
(* Calls of the application: from a worker thread, and disconnect also from *)
(* inside a callback.  send() touches nothing that is modelled here.        *)

Broadcast(t) ==
  /\ pc[t] = "idle"
  /\ calls < MaxCalls
  /\ calls' = calls + 1
  /\ m_client_mutex = NoThread
  /\ m_client_mutex' = t
  /\ Goto(t, "bcast")
  /\ UNCHANGED <<server, m_clients, local, kick, ret, kicked, net, rest>>

\* send() to every key of the map, under the lock.
BroadcastSend(t) ==
  /\ pc[t] = "bcast"
  /\ Release
  /\ Goto(t, "idle")
  /\ UNCHANGED <<server, m_clients, local, call, net, rest>>

\* disconnect(c), for a connection the application was told about.
Disconnect(t, c) ==
  /\ \/ t \in Workers /\ pc[t] = "idle"
     \/ pc[t] \in InCallback
  /\ c \in announced
  /\ calls < MaxCalls
  /\ calls' = calls + 1
  /\ CloseConnection(c)
  /\ kick' = [kick EXCEPT ![t] = c]
  /\ ret' = [ret EXCEPT ![t] = pc[t]]
  /\ kicked' = kicked \cup {c}
  /\ Goto(t, "eraseLock")
  /\ UNCHANGED <<server, clients, local, sent, rest>>

DisconnectLock(t) == Lock(t, "eraseLock", "erase")

DisconnectErase(t) ==
  /\ pc[t] = "erase"
  /\ m_clients' = m_clients \ {kick[t]}
  /\ Release
  /\ Goto(t, ret[t])
  /\ UNCHANGED <<server, local, call, net, rest>>

-----------------------------------------------------------------------------
(* Peers and the network (external).                                        *)

Unmoved == <<server, clients, pc, local, call, groupConns, rest>>

PostStatus(c, new) ==
  /\ connState' = [connState EXCEPT ![c] = new]
  /\ callbacks' = Append(callbacks, [conn |-> c, old |-> ApiState(connState[c]),
                                     new |-> new])

PeerConnect(c) ==
  /\ connState[c] = "free"
  /\ sockets # {}
  /\ PostStatus(c, "Connecting")
  /\ UNCHANGED <<Unmoved, inbox, sent>>

PeerEstablish(c) ==
  /\ connState[c] = "Accepted"
  /\ PostStatus(c, "Connected")
  /\ UNCHANGED <<Unmoved, inbox, sent>>

PeerSend(c) ==
  /\ connState[c] = "Connected"
  /\ sent[c] < MaxMsgs
  /\ sent' = [sent EXCEPT ![c] = @ + 1]
  /\ inbox' = inbox \cup {<<c, sent[c] + 1>>}
  /\ UNCHANGED <<Unmoved, connState, callbacks>>

PeerGone(c) ==
  /\ connState[c] \in {"Connecting", "Accepted", "Connected"}
  /\ \E s \in Gone : PostStatus(c, s)
  /\ UNCHANGED <<Unmoved, inbox, sent>>

-----------------------------------------------------------------------------
\* Owner goes through the calls it has entered.
OwnerStep ==
  \/ StartGroup \/ StartPublish \/ StartSpawn
  \/ StopExchange \/ StopJoin \/ StopLock \/ StopClear \/ StopRelease
  \/ \E c \in Conns : StopCloseOne(c)

PollStep(t) ==
  \/ PollReceive(t) \/ PollInvalid(t) \/ PollLock(t) \/ PollFind(t)
  \/ DataCallback(t) \/ DataReturn(t) \/ PollMessagesDone(t)

CallbackStep(t) ==
  \/ RunCallbacks(t) \/ RunCallbacksDone(t) \/ StatusDropped(t)
  \/ StatusChecked(t) \/ StatusCrash(t) \/ StatusGone(t) \/ StatusConnecting(t)
  \/ StatusIgnored(t) \/ Accept(t) \/ SetGroup(t) \/ Insert(t) \/ InsertRace(t)
  \/ ConnectedReturn(t) \/ LookupLock(t) \/ LookupFind(t) \/ GoneCallback(t)
  \/ GoneReturn(t) \/ CloseGone(t)

CallStep(t) == BroadcastSend(t) \/ DisconnectLock(t) \/ DisconnectErase(t)

\* New calls of the application, and the peers: nothing forces them to happen.
AppCall ==
  \/ \E m \in Modes : StartListen(m)
  \/ StopBegin
  \/ PollManually
  \/ \E w \in Workers : Broadcast(w)
  \/ \E t \in Threads, c \in Conns : Disconnect(t, c)

Peer == \E c \in Conns :
  PeerConnect(c) \/ PeerEstablish(c) \/ PeerSend(c) \/ PeerGone(c)

\* What thread t does once it is inside the library.
Run(t) ==
  /\ fault = "none"
  /\ \/ t = Net /\ LoopCheck
     \/ t = Owner /\ OwnerStep
     \/ t \in {Net, Owner} /\ PollStep(t)
     \/ t \in Foreign /\ ForeignPump(t)
     \/ t \notin Workers /\ CallbackStep(t)
     \/ CallStep(t)

\* The process died, or every thread is outside the library or in its loop.
Quiet ==
  /\ fault # "none" \/ \A t \in Threads : pc[t] \in {"idle", "stopped", "off"}
  /\ UNCHANGED vars

Next ==
  \/ \E t \in Threads : Run(t)
  \/ fault = "none" /\ AppCall
  \/ fault = "none" /\ Peer
  \/ Quiet

Spec == Init /\ [][Next]_vars

\* Every thread that is inside the library keeps running, application
\* callbacks return, and the mutex is contended by boundedly many calls.
FairSpec == Spec /\ \A t \in Threads : WF_vars(Run(t))

-----------------------------------------------------------------------------
TypeOK ==
  /\ s_instance \in BOOLEAN /\ m_is_running \in BOOLEAN
  /\ m_network_thread \in BOOLEAN
  /\ fault \in {"none", "nullInstance", "mapRace", "invalidGroup"}
  /\ m_clients \subseteq Conns
  /\ m_client_mutex \in Threads \cup {NoThread}
  /\ m_listen_socket \in Nat /\ m_poll_group \in Nat
  /\ sockets \subseteq Nat /\ groups \subseteq Nat
  /\ pc \in [Threads -> Labels]
  /\ mode \in {"async", "manual"}
  /\ messages \in [Threads -> SUBSET Msgs]
  /\ pending \in [Threads -> Seq(Events)]
  /\ client \in [Threads -> Conns \cup {NoConn}]
  /\ kick \in [Threads -> Conns \cup {NoConn}]
  /\ ret \in [Threads -> {"idle"} \cup InCallback]
  /\ connState \in [Conns -> ConnStates]
  /\ groupConns \subseteq Conns
  /\ inbox \subseteq Msgs
  /\ callbacks \in Seq(Events)
  /\ sent \in [Conns -> 0..MaxMsgs]
  /\ starts \in 0..MaxStarts /\ calls \in 0..MaxCalls
  /\ announced \subseteq Conns /\ left \subseteq Conns /\ kicked \subseteq Conns
  /\ delivered \subseteq Msgs

\* Two threads are never inside m_clients at once, except that the insertion
\* of an accepted connection (udp_server.cpp:229) takes no lock: every data
\* race on the map involves that line and no other.
OnlyInsertRaces ==
  \A t, u \in Threads :
    t # u /\ pc[t] \in InMap /\ pc[u] \in InMap
      => "insert" \in {pc[t], pc[u]}

\* Labels at which a thread is about to lock m_client_mutex, or joins the loop.
Waits == {"msg", "lookup", "eraseLock", "lock", "join"}

\* Nobody holds m_client_mutex (not recursive) while it waits for it again, while
\* stop() joins a thread that needs it, inside a callback that may call
\* disconnect() in turn, or after a call has returned.
NeverWaitsLocked ==
  \A t \in Threads : m_client_mutex = t =>
    pc[t] \notin Waits \cup InCallback \cup {"idle", "stopped", "check", "done", "off"}

\* "Close server and free underlying resources": when stop() has returned, the
\* network thread is joined, the client map is empty, no poll group is left and no
\* connection that was accepted is still open.
StoppedIsClean ==
  pc[Owner] = "stopped" =>
    /\ ~m_network_thread
    /\ pc[Net] = "off"
    /\ m_clients = {}
    /\ groups = {}
    /\ \A c \in Conns : connState[c] \in {"free", "Connecting", "closed"} \cup Gone

\* The network thread only ever receives on a poll group that exists: stop()
\* never destroys the group under it.  Receiving without one takes an
\* application that itself polls a server it has stopped or failed to start.
ReceivesOnLiveGroup ==
  \A t \in Threads : pc[t] = "recv" =>
    m_poll_group \in groups \/ (t = Owner /\ ~m_is_running)

\* A client_info_t* that a callback of the server is using dangles only if the
\* application itself called disconnect() for that connection: neither stop()
\* nor the end of a connection erases an entry that is in use.
DanglesOnlyByDisconnect ==
  \A t \in Threads :
    client[t] # NoConn => client[t] \in m_clients \/ client[t] \in kicked

\* No message of an open connection is dropped: it is on its way, in the
\* batch that poll() works on, or the data callback has been invoked for it.
NoSilentDrop ==
  \A c \in Conns : connState[c] = "Connected" =>
    \A k \in 1..sent[c] :
      <<c, k>> \in inbox \cup delivered \cup UNION {messages[t] : t \in Threads}

\* The null dereference of s_instance needs a stop() that is still running.
CrashOnlyInStop == fault = "nullInstance" => pc[Owner] \in StopLabels

\* Whoever calls stop() gets out of it: the network thread sees m_is_running
\* and the mutex is never held across a callback or a join.
StopReturns == pc[Owner] \in StopLabels ~> (pc[Owner] = "stopped" \/ fault # "none")

\* While the network thread runs, a client whose connection ended gets closed on
\* the server's side as well, by the status handler or by stop().
GoneIsClosed ==
  \A c \in Conns :
    (m_network_thread /\ c \in m_clients /\ connState[c] \in Gone)
      ~> (connState[c] = "closed" \/ fault # "none")

\* While the network thread runs, the application is told of a client whose
\* established connection ended (it has sent something), unless the application
\* itself ends the connection or stops the server first.
LossIsTold ==
  \A c \in Conns :
    (m_network_thread /\ m_is_running /\ c \in announced /\ sent[c] > 0 /\ connState[c] \in Gone)
      ~> (c \in left \cup kicked \/ ~m_is_running \/ fault # "none")

\* "Broadcasts a packet of data to all connected clients": no broadcast writes
\* to a connection after its disconnected callback.
BroadcastSkipsDisconnected ==
  [][\A w \in Workers : BroadcastSend(w) => m_clients \cap left = {}]_vars

-----------------------------------------------------------------------------
(* The sessions that the application sees.                                  *)

\* disconnect() erased the entry of c while a callback for c was under way.
UnderWay(c) == \E t \in Threads : pc[t] \in {"data", "gone"} /\ client[t] = c

Session(c) ==
  CASE c \notin announced -> "none"
    [] c \in left -> "left"
    [] c \in m_clients \ left -> "open"
    [] OTHER -> IF UnderWay(c) THEN "closing" ELSE "closed"

Sessions == INSTANCE ServerSessions WITH
  up <- m_is_running \/ pc[Owner] = "join",
  session <- [c \in Conns |-> Session(c)],
  heard <- [c \in Conns |-> {k \in 1..MaxMsgs : <<c, k>> \in delivered}]

\* A server whose events no other object dispatches implements the sessions of
\* ServerSessions: callbacks come in order, messages without gaps, at most one
\* callback follows a disconnect(), and a restart begins with no old session.
ImplementsSessions == Sessions!Spec

=============================================================================
