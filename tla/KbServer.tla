------------------------------ MODULE KbServer ------------------------------
(***************************************************************************)
(* The C server API (src/src/kb/net/udp/kb_server.cpp) and the life of the *)
(* library (src/src/kb/kb_networking.cpp): several servers of one process, *)
(* created, started, stopped, polled and destroyed in any order, before    *)
(* and after kb_networking_init and kb_networking_shutdown.                *)
(*                                                                         *)
(* A server has a caller, which makes its calls one after the other, and   *)
(* while it runs asynchronously a network thread; callers and threads of   *)
(* different servers interleave.  All servers share the file-level         *)
(* s_instance of udp_server.cpp, so that the thread of one may be inside   *)
(* the status handler of another that stops or is destroyed meanwhile.     *)
(* kb_server_set_callbacks is declared and not defined, so a server of     *)
(* this API has no callbacks: poll() releases every message unread.        *)
(* kb_server_send_raw, kb_server_broadcast_raw, kb_server_is_running and   *)
(* kb_server_port change nothing; a null handle makes every call return.   *)
(***************************************************************************)
EXTENDS Naturals

CONSTANTS
  Servers,    \* kb_server_t handles
  NoServer,   \* a null s_instance
  Conns,      \* connections of peers
  NoConn,
  MaxStarts   \* bound: starts of one server

ASSUME KbConstants == NoServer \notin Servers /\ NoConn \notin Conns /\ MaxStarts \in Nat

VARIABLES
  s_initialized,  \* of kb_networking.cpp
  inits, lib,     \* Steam library: initialisations, and the one in force or 0 (external)
  server,         \* the kb_server and UdpServer of each handle
  call,           \* where the call on a server is that its caller is inside of
  s_instance,
  pc,             \* where the poll() of each server is, on its thread or its caller's
  batch,          \* status changes that poll() took and has not handled
  conn, inst,     \* the connection it handles, and the UdpServer it does so for
  sockets,        \* listen sockets that exist: <<server, start>> (external)
  connState,      \* state of each connection (external)
  waitsAt,        \* the listen socket at which it waits to be accepted, or <<>>
  callbacks,      \* connections whose status change is not yet dispatched
  fault,
  groupless,      \* history: the starts that failed at their poll group
  late            \* history: <<c, t, s>>, poll() of t put c into s after s had cleaned up

library == <<s_initialized, inits, lib>>
polls   == <<pc, batch, conn, inst>>
network == <<connState, waitsAt, callbacks>>
history == <<groupless, late>>
vars    == <<library, server, call, s_instance, polls, sockets, network, fault, history>>

\* Sockets and groups are named by the number of the start that made them, an
\* interface by its initialisation; 0 is the invalid handle and nullptr.
NewServer == [handle |-> "null", m_interface |-> 0, m_is_running |-> FALSE,
              m_network_thread |-> FALSE, m_clients |-> {}, m_listen_socket |-> 0,
              m_poll_group |-> 0, starts |-> 0]

Init ==
  /\ s_initialized = FALSE /\ inits = 0 /\ lib = 0
  /\ server = [s \in Servers |-> NewServer] /\ call = [s \in Servers |-> "none"]
  /\ s_instance = NoServer /\ sockets = {}
  /\ pc = [s \in Servers |-> "idle"] /\ batch = [s \in Servers |-> {}]
  /\ conn = [s \in Servers |-> NoConn] /\ inst = [s \in Servers |-> NoServer]
  /\ connState = [c \in Conns |-> "free"] /\ waitsAt = [c \in Conns |-> <<>>]
  /\ callbacks = {} /\ fault = "none" /\ groupless = {} /\ late = {}

-----------------------------------------------------------------------------
\* Connections that are in state st from now on, and wait at no socket.
Become(cs, st) ==
  /\ connState' = [c \in Conns |-> IF c \in cs THEN st ELSE connState[c]]
  /\ waitsAt' = [c \in Conns |-> IF c \in cs THEN <<>> ELSE waitsAt[c]]

CloseConnections(cs) == Become(cs, "closed") /\ callbacks' = callbacks \ cs

\* A failing GameNetworkingSockets_Init aborts the process and is left out.
kb_networking_init ==
  /\ ~s_initialized
  /\ s_initialized' = TRUE
  /\ inits' = inits + 1
  /\ lib' = inits'
  /\ UNCHANGED <<server, call, s_instance, polls, sockets, network, fault, history>>

\* GameNetworkingSockets_Kill: connections and sockets go with the library.
Kill ==
  /\ lib' = 0
  /\ Become({c \in Conns : connState[c] # "free"}, "closed")
  /\ callbacks' = {} /\ sockets' = {}
  /\ UNCHANGED <<inits, server, call, s_instance, polls, fault, history>>

\* s_initialized stays set: no later init brings the library back.
kb_networking_shutdown == s_initialized /\ Kill /\ UNCHANGED s_initialized

kb_server_create(s) ==
  /\ server[s].handle = "null"
  /\ server' = [server EXCEPT ![s].handle = "live", ![s].m_interface = lib]
  /\ UNCHANGED <<library, call, s_instance, polls, sockets, network, fault, history>>

\* The caller of s is inside no call, kb_server_poll included.
CallerFree(s) ==
  /\ server[s].handle = "live" /\ call[s] = "none"
  /\ server[s].m_network_thread \/ pc[s] = "idle"

\* m_interface is the interface of the library that is in force; a call through
\* it when it is null, or after the end of its library, ends the process.
Reaches(s) == server[s].m_interface = lib /\ lib # 0
Fails(f) ==
  /\ fault' = f
  /\ UNCHANGED <<library, server, call, s_instance, polls, sockets, network, history>>
Crash(s) ==
  /\ ~Reaches(s)
  /\ Fails(IF server[s].m_interface = 0 THEN "nullInterface" ELSE "killedInterface")

\* A start of a server that does not run, a poll, or a disconnect.
CallCrash(s) == CallerFree(s) /\ Crash(s)

-----------------------------------------------------------------------------
(* kb_server_start_async and kb_server_start_manual: nothing happens on a   *)
(* server that is running.                                                  *)

\* The listen socket and the poll group, which nobody else knows of yet.
Listen(s, how) ==
  LET k == server[s].starts + 1 IN
  /\ CallerFree(s) /\ Reaches(s) /\ k <= MaxStarts
  /\ server' = [server EXCEPT ![s].starts = k, ![s].m_listen_socket = k, ![s].m_poll_group = k]
  /\ sockets' = sockets \cup {<<s, k>>}
  /\ call' = [call EXCEPT ![s] = how]
  /\ UNCHANGED <<library, s_instance, polls, network, fault, history>>

\* Mutant: a server that is running is started once more.
StartAgain(s, how) == Listen(s, how)

Start(s, how) == ~server[s].m_is_running /\ Listen(s, how)

\* The listen socket, or after it the poll group, cannot be created.
StartFails(s) ==
  LET k == server[s].starts + 1 IN
  /\ CallerFree(s) /\ ~server[s].m_is_running /\ Reaches(s) /\ k <= MaxStarts
  /\ \/ /\ server' = [server EXCEPT ![s].starts = k, ![s].m_listen_socket = 0]
        /\ UNCHANGED <<sockets, groupless>>
     \/ /\ server' = [server EXCEPT ![s].starts = k, ![s].m_listen_socket = k,
                                    ![s].m_poll_group = 0]
        /\ sockets' = sockets \cup {<<s, k>>}
        /\ groupless' = groupless \cup {<<s, k>>}
  /\ UNCHANGED <<library, call, s_instance, polls, network, fault, late>>

\* s_instance, m_is_running, which only the caller and its thread read, and the
\* thread if the start is asynchronous.
Publish(s) ==
  /\ call[s] \in {"start_manual", "start_async"}
  /\ s_instance' = s
  /\ server' = [server EXCEPT ![s].m_is_running = TRUE,
                              ![s].m_network_thread = (call[s] = "start_async")]
  /\ call' = [call EXCEPT ![s] = "none"]
  /\ UNCHANGED <<library, polls, sockets, network, fault, history>>

-----------------------------------------------------------------------------
(* kb_server_stop, and kb_server_destroy, which stops, deletes the UdpServer*)
(* and frees the handle.                                                    *)

\* What follows stop() in a call on a server whose handle is h.
AfterStop(h) == IF h = "dying" THEN "free" ELSE "none"

\* Mutant: s_instance is left alone.
StopKeepsInstance(s, h) ==
  /\ CallerFree(s)
  /\ server' = [server EXCEPT ![s].handle = h, ![s].m_is_running = FALSE]
  /\ call' = [call EXCEPT ![s] = IF server[s].m_is_running THEN "close" ELSE AfterStop(h)]
  /\ UNCHANGED <<library, s_instance, polls, sockets, network, fault, history>>

\* UdpServer::stop: s_instance is cleared whichever server it points to, and a
\* server that is not running returns.
Stop(s, h) ==
  /\ CallerFree(s)
  /\ s_instance' = NoServer
  /\ server' = [server EXCEPT ![s].handle = h, ![s].m_is_running = FALSE]
  /\ call' = [call EXCEPT ![s] = IF server[s].m_is_running THEN "close" ELSE AfterStop(h)]
  /\ UNCHANGED <<library, polls, sockets, network, fault, history>>

kb_server_stop(s) == Stop(s, "live")
kb_server_destroy(s) == Stop(s, "dying")

\* Every connection of the map is closed.
CloseClients(s) ==
  /\ CloseConnections(server[s].m_clients)
  /\ server' = [server EXCEPT ![s].m_network_thread = FALSE]
  /\ call' = [call EXCEPT ![s] = "clear"]
  /\ UNCHANGED <<library, s_instance, polls, sockets, fault, history>>

\* Mutants: the clients are not closed; the thread is not joined.
StopForgetsClients(s) ==
  /\ call[s] = "close" /\ pc[s] = "idle"
  /\ server' = [server EXCEPT ![s].m_network_thread = FALSE]
  /\ call' = [call EXCEPT ![s] = "clear"]
  /\ UNCHANGED <<library, s_instance, polls, sockets, network, fault, history>>
StopUnjoined(s) == call[s] = "close" /\ Reaches(s) /\ CloseClients(s)

\* The join waits for the last poll() of the server's own thread, and for no other
\* thread that is inside this server's handler.
StopClose(s) ==
  /\ call[s] = "close" /\ pc[s] = "idle"
  /\ server[s].m_clients # {} => Reaches(s)
  /\ CloseClients(s)

\* The handler inserts without the lock that is held here: what it inserts after the
\* loop over the map is forgotten.
StopClear(s) ==
  /\ call[s] = "clear"
  /\ server' = [server EXCEPT ![s].m_clients = {}]
  /\ call' = [call EXCEPT ![s] = "release"]
  /\ UNCHANGED <<library, s_instance, polls, sockets, network, fault, history>>

\* Connections that nobody accepted go down with the listen socket they came
\* through.
StopRelease(s) ==
  LET socket == <<s, server[s].m_listen_socket>> IN
  /\ call[s] = "release" /\ Reaches(s)
  /\ sockets' = sockets \ {socket}
  /\ CloseConnections({c \in Conns : waitsAt[c] = socket})
  /\ server' = [server EXCEPT ![s].m_listen_socket = 0, ![s].m_poll_group = 0]
  /\ call' = [call EXCEPT ![s] = AfterStop(server[s].handle)]
  /\ UNCHANGED <<library, s_instance, polls, fault, history>>

\* A server that ran needs its interface to stop.
StopCrash(s) ==
  /\ \/ call[s] = "close" /\ pc[s] = "idle" /\ server[s].m_clients # {}
     \/ call[s] = "release"
  /\ Crash(s)

\* The destructor of UdpServer stops once more, which clears s_instance again.
Free(s) ==
  /\ call[s] = "free"
  /\ s_instance' = NoServer
  /\ server' = [server EXCEPT ![s].handle = "freed"]
  /\ call' = [call EXCEPT ![s] = "none"]
  /\ UNCHANGED <<library, polls, sockets, network, fault, history>>

-----------------------------------------------------------------------------
(* poll(), by kb_server_poll or by the network thread of a server t.        *)

Goto(t, l) == pc' = [pc EXCEPT ![t] = l]

BeginPoll(t) ==
  /\ pc[t] = "idle" /\ Goto(t, "poll")
  /\ UNCHANGED <<library, server, call, s_instance, batch, conn, inst, sockets, network,
                 fault, history>>
kb_server_poll(t) == CallerFree(t) /\ ~server[t].m_network_thread /\ BeginPoll(t)
network_loop(t) == server[t].m_network_thread /\ server[t].m_is_running /\ BeginPoll(t)

Rest(b) == IF b = {} THEN "idle" ELSE "run"

\* RunCallbacks takes the status changes of all servers.
RunCallbacks(t) ==
  /\ pc[t] = "poll" /\ Reaches(t) /\ server[t].m_poll_group # 0
  /\ batch' = [batch EXCEPT ![t] = callbacks]
  /\ callbacks' = {}
  /\ Goto(t, Rest(callbacks))
  /\ UNCHANGED <<library, server, call, s_instance, conn, inst, sockets, connState, waitsAt,
                 fault, history>>

\* poll() asks for neither; without a poll group the -1 becomes a count.
PollCrash(t) ==
  /\ pc[t] = "poll"
  /\ \/ Crash(t)
     \/ Reaches(t) /\ server[t].m_poll_group = 0 /\ Fails("invalidGroup")

\* Mutant: status changes are taken and not acted upon.
TestDrops(t) ==
  \E c \in batch[t] :
    /\ pc[t] = "run"
    /\ batch' = [batch EXCEPT ![t] = @ \ {c}]
    /\ Goto(t, Rest(batch[t] \ {c}))
    /\ UNCHANGED <<library, server, call, s_instance, conn, inst, sockets, network, fault,
                   history>>

\* connection_status_changed_callback: s_instance is tested ...
Test(t) ==
  \E c \in batch[t] :
    /\ pc[t] = "run"
    /\ batch' = [batch EXCEPT ![t] = @ \ {c}]
    /\ IF s_instance = NoServer
       THEN Goto(t, Rest(batch[t] \ {c})) /\ UNCHANGED conn
       ELSE Goto(t, "load") /\ conn' = [conn EXCEPT ![t] = c]
    /\ UNCHANGED <<library, server, call, s_instance, inst, sockets, network, fault, history>>

\* Mutant: a null s_instance is called, too.
LoadNull(t) ==
  /\ pc[t] = "load"
  /\ inst' = [inst EXCEPT ![t] = s_instance]
  /\ Goto(t, "handle")
  /\ UNCHANGED <<library, server, call, s_instance, batch, conn, sockets, network, fault,
                 history>>

\* ... and loaded again for the call.
Load(t) ==
  /\ pc[t] = "load" /\ s_instance # NoServer
  /\ inst' = [inst EXCEPT ![t] = s_instance]
  /\ Goto(t, "handle")
  /\ UNCHANGED <<library, server, call, s_instance, batch, conn, sockets, network, fault,
                 history>>
LoadCrash(t) == pc[t] = "load" /\ s_instance = NoServer /\ Fails("nullInstance")

\* Inside on_connection_status_changed of inst[t].
Handling == {"handle", "group", "insert"}
Usable(s) == server[s].handle # "freed" /\ Reaches(s)
HandlerCrash(t) ==
  /\ pc[t] \in Handling
  /\ \/ server[inst[t]].handle # "freed" /\ Crash(inst[t])
     \/ server[inst[t]].handle = "freed" /\ Fails("freedServer")

Done(t) ==
  /\ Goto(t, Rest(batch[t]))
  /\ conn' = [conn EXCEPT ![t] = NoConn] /\ inst' = [inst EXCEPT ![t] = NoServer]
  /\ UNCHANGED batch

\* A connection that ended, or could not be taken.
Refuse(t) == CloseConnections({conn[t]}) /\ Done(t)

\* A new connection is accepted; one that ended is closed, and stays in the map if
\* it was there.
Handle(t) ==
  /\ pc[t] = "handle" /\ Usable(inst[t])
  /\ \/ /\ connState[conn[t]] = "Connecting"
        /\ Become({conn[t]}, "open")
        /\ Goto(t, "group")
        /\ UNCHANGED <<callbacks, batch, conn, inst>>
     \/ connState[conn[t]] # "Connecting" /\ Refuse(t)
  /\ UNCHANGED <<library, server, call, s_instance, sockets, fault, history>>

\* SetConnectionPollGroup fails for a connection that is closed, and may fail.
SetGroup(t) ==
  /\ pc[t] = "group" /\ Usable(inst[t])
  /\ \/ /\ connState[conn[t]] # "closed"
        /\ Goto(t, "insert")
        /\ UNCHANGED <<network, batch, conn, inst>>
     \/ Refuse(t)
  /\ UNCHANGED <<library, server, call, s_instance, sockets, fault, history>>

\* The client goes into the map, whatever has become of the server meanwhile.
Insert(t) ==
  LET s == inst[t] IN
  /\ pc[t] = "insert" /\ Usable(s)
  /\ server' = [server EXCEPT ![s].m_clients = @ \cup {conn[t]}]
  /\ late' = IF server[s].m_is_running \/ call[s] = "close" THEN late
             ELSE late \cup {<<conn[t], t, s>>}
  /\ Done(t)
  /\ UNCHANGED <<library, call, s_instance, sockets, network, fault, groupless>>

\* c is a number of the application: the API gives it no connection handles.
kb_server_disconnect(s, c) ==
  /\ CallerFree(s) /\ Reaches(s)
  /\ connState[c] # "free"
  /\ CloseConnections({c})
  /\ server' = [server EXCEPT ![s].m_clients = @ \ {c}]
  /\ UNCHANGED <<library, call, s_instance, polls, sockets, fault, history>>

-----------------------------------------------------------------------------
PeerConnect(c) ==
  /\ connState[c] = "free"
  /\ \E socket \in sockets : waitsAt' = [waitsAt EXCEPT ![c] = socket]
  /\ connState' = [connState EXCEPT ![c] = "Connecting"]
  /\ callbacks' = callbacks \cup {c}
  /\ UNCHANGED <<library, server, call, s_instance, polls, sockets, fault, history>>

PeerGone(c) ==
  /\ connState[c] \in {"Connecting", "open"}
  /\ Become({c}, "gone")
  /\ callbacks' = callbacks \cup {c}
  /\ UNCHANGED <<library, server, call, s_instance, polls, sockets, fault, history>>

Caller(s) ==
  \/ kb_server_create(s) \/ kb_server_stop(s) \/ kb_server_destroy(s) \/ kb_server_poll(s)
  \/ \E how \in {"start_manual", "start_async"} : Start(s, how)
  \/ StartFails(s) \/ Publish(s) \/ StopClose(s) \/ StopClear(s) \/ StopRelease(s) \/ Free(s)
  \/ CallCrash(s) \/ StopCrash(s)
  \/ \E c \in Conns : kb_server_disconnect(s, c)

Poll(t) ==
  \/ network_loop(t) \/ RunCallbacks(t) \/ Test(t) \/ Load(t) \/ Handle(t) \/ SetGroup(t)
  \/ Insert(t) \/ PollCrash(t) \/ LoadCrash(t) \/ HandlerCrash(t)

Next ==
  \/ /\ fault = "none"
     /\ \/ kb_networking_init \/ kb_networking_shutdown
        \/ \E s \in Servers : Caller(s) \/ Poll(s)
        \/ \E c \in Conns : PeerGone(c) \/ PeerConnect(c)
  \/ fault # "none" /\ UNCHANGED vars

Spec == Init /\ [][Next]_vars

\* The network threads keep polling, and a poll() that began goes on.
FairSpec == Spec /\ \A s \in Servers : WF_vars(fault = "none" /\ Poll(s))

-----------------------------------------------------------------------------
TypeOK ==
  /\ s_initialized \in BOOLEAN /\ inits \in Nat /\ lib \in {0, inits}
  /\ server \in [Servers -> [
       handle : {"null", "live", "dying", "freed"}, m_interface : 0..inits,
       m_is_running : BOOLEAN, m_network_thread : BOOLEAN, m_clients : SUBSET Conns,
       m_listen_socket : 0..MaxStarts, m_poll_group : 0..MaxStarts, starts : 0..MaxStarts]]
  /\ call \in [Servers ->
       {"none", "start_manual", "start_async", "close", "clear", "release", "free"}]
  /\ s_instance \in Servers \cup {NoServer}
  /\ pc \in [Servers -> {"idle", "poll", "run", "load"} \cup Handling]
  /\ batch \in [Servers -> SUBSET Conns] /\ conn \in [Servers -> Conns \cup {NoConn}]
  /\ inst \in [Servers -> Servers \cup {NoServer}]
  /\ \A t \in Servers : /\ pc[t] \in Handling => inst[t] \in Servers
                        /\ pc[t] \in Handling \cup {"load"} => conn[t] \in Conns
  /\ sockets \subseteq Servers \X (1..MaxStarts)
  /\ connState \in [Conns -> {"free", "Connecting", "open", "gone", "closed"}]
  /\ waitsAt \in [Conns -> (Servers \X (1..MaxStarts)) \cup {<<>>}] /\ callbacks \subseteq Conns
  /\ fault \in {"none", "nullInterface", "killedInterface", "invalidGroup", "nullInstance",
                "freedServer"}
  /\ groupless \subseteq Servers \X (1..MaxStarts)
  /\ late \subseteq Conns \X Servers \X Servers

\* Status changes go to a server that is running and has its poll group, or to
\* none: no interleaving of starts, stops and destructions of several servers
\* leaves s_instance pointing to one that stopped or was freed.
InstanceIsRunning ==
  s_instance # NoServer =>
    /\ server[s_instance].handle = "live"
    /\ server[s_instance].m_is_running
    /\ server[s_instance].m_poll_group # 0

\* An accepted connection is in the map of a server that runs or is about to close
\* its clients, or a poll() still has it in its hands.  The exception is the one
\* the code has: the thread of ANOTHER server, inside this server's handler since
\* before its stop(), inserted the connection after stop() had cleaned up.
OpenIsOwned ==
  \A c \in Conns : connState[c] = "open" =>
    \/ \E s \in Servers : /\ c \in server[s].m_clients
                          /\ server[s].m_is_running \/ call[s] = "close"
    \/ \E t \in Servers : pc[t] \in Handling /\ conn[t] = c
    \/ \E r \in late : r[1] = c /\ r[2] # r[3]

\* A poll() that handles a status change for its own server finds it whole: stop()
\* takes neither the poll group nor the UdpServer away under it.  Hence only the
\* thread of another server uses a server that was freed.
OwnHandlerIsSafe ==
  \A t \in Servers : pc[t] \in Handling /\ inst[t] = t =>
    /\ server[t].handle # "freed" /\ server[t].m_poll_group # 0
    /\ server[t].m_is_running \/ call[t] = "close"

\* A listen socket that no start, run or stop of its server owns was left by a start
\* that failed at its poll group; every other one is closed by stop() or destroy.
LeakOnlyByFailedStart ==
  \A s \in Servers, k \in 1..MaxStarts : <<s, k>> \in sockets \ groupless =>
    /\ server[s].m_listen_socket = k
    /\ \/ server[s].m_is_running
       \/ call[s] \in {"start_manual", "start_async", "close", "clear", "release"}

\* A connection that waits to be accepted is dealt with, as long as some running
\* server is the one that status changes go to and its thread polls: a start,
\* stop or destroy of another server is what makes it deaf.
ConnectIsAnswered ==
  \A s \in Servers, c \in Conns :
    (c \in callbacks /\ connState[c] = "Connecting" /\ s_instance = s /\ server[s].m_network_thread)
      ~> (connState[c] # "Connecting" \/ s_instance # s \/ fault # "none")
=============================================================================
