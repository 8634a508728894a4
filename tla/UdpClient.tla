------------------------------ MODULE UdpClient ------------------------------
(***************************************************************************)
(* kb::net::UdpClient (src/src/kb/net/udp/client/udp_client.{hpp,cpp}).    *)
(*                                                                         *)
(* Several UdpClient objects of one process.  Each has an application      *)
(* thread that connects, stops and destroys it (app[i]) and the network    *)
(* thread that connect() spawns (net[i]); Foreign are threads of UdpServer *)
(* objects.  All of them share one Steam interface, so whoever calls       *)
(* RunCallbacks dispatches the status changes of every connection, and all *)
(* of these go to the one client the file-level s_instance points to.      *)
(*                                                                         *)
(* What the data callback does with the messages of poll_messages() is the *)
(* subject of PacketClient; here the network thread is inside it or not.   *)
(***************************************************************************)
EXTENDS Naturals, Sequences

CONSTANTS
  Clients,     \* the UdpClient objects
  Foreign,     \* threads of UdpServer objects that call RunCallbacks
  NoClient,    \* a null s_instance
  NoConn,      \* k_HSteamNetConnection_Invalid
  MaxConnects  \* bound: calls of connect(), per client

Conns == Clients \X (1..MaxConnects)  \* handles: the k-th connection of a client
Pumps == Clients \cup Foreign         \* a client also names its network thread

ASSUME ConstantsDistinct ==
  /\ Clients \cap Foreign = {}
  /\ NoClient \notin Clients
  /\ NoConn \notin Conns
  /\ MaxConnects \in Nat

VARIABLES
  s_instance,
  m_running, m_connection_status, m_conn,
  m_network_thread,  \* m_network_thread.joinable()
  app,               \* where the application thread of a client is
  res,               \* the result of try_connect() in the connect() call
  net,               \* where a network thread or a foreign thread is
  inst,              \* the client whose status handler that thread entered
  pending,           \* status changes its RunCallbacks call has yet to dispatch
  connState,         \* state of each connection in the Steam library (external)
  callbacks,         \* its queue of status changes (external)
  fault,             \* the error that ended the process
  connects,          \* counter behind MaxConnects
  lost               \* history: clients that failed to connect or lost their connection

object == <<m_running, m_connection_status, m_conn>>
steam  == <<connState, callbacks>>
loop   == <<net, inst, pending>>
vars   == <<s_instance, object, m_network_thread, app, res, loop, steam, fault,
            connects, lost>>

Gone == {"ClosedByPeer", "ProblemDetectedLocally"}
ConnStates == {"free", "Connecting", "Connected", "closed"} \cup Gone
Status == {"disconnected", "connecting", "connected", "failed_to_connect"}
Events == [conn : Conns, new : ConnStates \cup {"None"}]
Faults == {"none", "terminate", "nullInstance", "useAfterFree", "invalidConn"}
StopLabels == {"exchange", "join", "closing"}
AppLabels == {"idle", "try", "store", "spawn", "stopped", "destroyed"} \cup StopLabels
NetLabels == {"off", "idle", "check", "poll", "recv", "receive", "inData",
              "events", "dispatch", "deref", "handle", "close", "clear", "done"}

GotoApp(i, l) == app' = [app EXCEPT ![i] = l]
GotoNet(p, l) == net' = [net EXCEPT ![p] = l]

\* The application thread goes on and touches nothing of the network threads.
AppStep(i, from, to) ==
  /\ app[i] = from
  /\ GotoApp(i, to)
  /\ UNCHANGED <<inst, pending>>

NetStep(p, from, to) ==
  /\ net[p] = from
  /\ GotoNet(p, to)
  /\ UNCHANGED <<m_network_thread, app, res, connects>>

PostStatus(c, new) ==
  /\ connState' = [connState EXCEPT ![c] = IF new = "None" THEN "closed" ELSE new]
  /\ callbacks' = Append(callbacks, [conn |-> c, new |-> new])

CloseConnection(c) ==
  IF connState[c] = "closed" THEN UNCHANGED steam ELSE PostStatus(c, "None")

Init ==
  /\ s_instance = NoClient
  /\ m_running = [i \in Clients |-> FALSE]
  /\ m_connection_status = [i \in Clients |-> "disconnected"]
  /\ m_conn = [i \in Clients |-> NoConn]
  /\ m_network_thread = [i \in Clients |-> FALSE]
  /\ app = [i \in Clients |-> "idle"]
  /\ res = [i \in Clients |-> FALSE]
  /\ net = [p \in Pumps |-> IF p \in Clients THEN "off" ELSE "idle"]
  /\ inst = [p \in Pumps |-> NoClient]
  /\ pending = [p \in Pumps |-> <<>>]
  /\ connState = [c \in Conns |-> "free"]
  /\ callbacks = <<>>
  /\ fault = "none"
  /\ connects = [i \in Clients |-> 0]
  /\ lost = {}

-----------------------------------------------------------------------------
(* connect and try_connect.  On a running client connect() returns at once. *)

\* Mutant: the status of the previous connection stays.
ConnectBeginKeepsStatus(i) ==
  /\ \E l \in {"idle", "stopped"} : AppStep(i, l, "try")
  /\ ~m_running[i]
  /\ connects[i] < MaxConnects
  /\ connects' = [connects EXCEPT ![i] = @ + 1]
  /\ s_instance' = i
  /\ UNCHANGED <<object, m_network_thread, res, net, steam, fault, lost>>

ConnectBegin(i) ==
  /\ \E l \in {"idle", "stopped"} : AppStep(i, l, "try")
  /\ ~m_running[i]
  /\ connects[i] < MaxConnects
  /\ connects' = [connects EXCEPT ![i] = @ + 1]
  /\ m_connection_status' = [m_connection_status EXCEPT ![i] = "connecting"]
  /\ s_instance' = i
  /\ UNCHANGED <<m_running, m_conn, m_network_thread, res, net, steam, fault, lost>>

\* The address is invalid (m_conn is left alone), or ConnectByIPAddress fails.
TryConnectFails(i) ==
  /\ AppStep(i, "try", "store")
  /\ m_conn' = m_conn \/ m_conn' = [m_conn EXCEPT ![i] = NoConn]
  /\ m_connection_status' = [m_connection_status EXCEPT ![i] = "failed_to_connect"]
  /\ res' = [res EXCEPT ![i] = FALSE]
  /\ lost' = lost \cup {i}
  /\ UNCHANGED <<s_instance, m_running, m_network_thread, net, steam, fault, connects>>

\* From here on the library may queue, and any thread dispatch, status changes.
TryConnectStarts(i) ==
  LET c == <<i, connects[i]>> IN
  /\ AppStep(i, "try", "store")
  /\ m_conn' = [m_conn EXCEPT ![i] = c]
  /\ PostStatus(c, "Connecting")
  /\ res' = [res EXCEPT ![i] = TRUE]
  /\ UNCHANGED <<s_instance, m_running, m_connection_status, m_network_thread,
                 net, fault, connects, lost>>

ConnectStore(i) ==
  /\ AppStep(i, "store", "spawn")
  /\ m_running' = [m_running EXCEPT ![i] = res[i]]
  /\ UNCHANGED <<s_instance, m_connection_status, m_conn, m_network_thread, res,
                 net, steam, fault, connects, lost>>

\* The thread is spawned whatever try_connect() said.  Assigning to a thread
\* object that is still joinable is std::terminate.
ConnectSpawn(i) ==
  /\ AppStep(i, "spawn", "idle")
  /\ IF m_network_thread[i]
     THEN fault' = "terminate" /\ UNCHANGED <<m_network_thread, net>>
     ELSE /\ m_network_thread' = [m_network_thread EXCEPT ![i] = TRUE]
          /\ GotoNet(i, "check")
          /\ UNCHANGED fault
  /\ UNCHANGED <<s_instance, object, res, steam, connects, lost>>

-----------------------------------------------------------------------------
(* stop, and the destructor, which calls it first.                          *)

StopBegin(i) ==
  /\ \E l \in {"idle", "stopped"} : AppStep(i, l, "exchange")
  /\ s_instance' = NoClient
  /\ UNCHANGED <<object, m_network_thread, res, net, steam, fault, connects, lost>>

\* A client that is not running returns here, whatever its thread does.
StopExchange(i) ==
  /\ AppStep(i, "exchange", IF m_running[i] THEN "join" ELSE "stopped")
  /\ m_running' = [m_running EXCEPT ![i] = FALSE]
  /\ UNCHANGED <<s_instance, m_connection_status, m_conn, m_network_thread, res,
                 net, steam, fault, connects, lost>>

\* Mutants: the thread is detached; the thread is not joined.
StopJoinDetaches(i) ==
  /\ AppStep(i, "join", "closing")
  /\ m_network_thread' = [m_network_thread EXCEPT ![i] = FALSE]
  /\ UNCHANGED <<s_instance, object, res, net, steam, fault, connects, lost>>

StopJoinSkipped(i) ==
  /\ AppStep(i, "join", "closing")
  /\ UNCHANGED <<s_instance, object, m_network_thread, res, net, steam, fault,
                 connects, lost>>

StopJoin(i) ==
  /\ AppStep(i, "join", "closing")
  /\ m_network_thread[i] => net[i] = "done"
  /\ m_network_thread' = [m_network_thread EXCEPT ![i] = FALSE]
  /\ GotoNet(i, "off")
  /\ UNCHANGED <<s_instance, object, res, steam, fault, connects, lost>>

\* m_connection_status is left as it is.
StopClose(i) ==
  /\ AppStep(i, "closing", "stopped")
  /\ IF m_conn[i] # NoConn THEN CloseConnection(m_conn[i]) ELSE UNCHANGED steam
  /\ m_conn' = [m_conn EXCEPT ![i] = NoConn]
  /\ UNCHANGED <<s_instance, m_running, m_connection_status, m_network_thread,
                 res, net, fault, connects, lost>>

\* The destructor after its stop(): a joinable std::thread member terminates.
Destroy(i) ==
  /\ AppStep(i, "stopped", "destroyed")
  /\ fault' = IF m_network_thread[i] THEN "terminate" ELSE fault
  /\ UNCHANGED <<s_instance, object, m_network_thread, res, net, steam, connects, lost>>

-----------------------------------------------------------------------------
(* network_loop and poll, on the network thread of client i.                *)

\* Mutant: the loop does not look at m_running.
LoopForever(i) ==
  /\ NetStep(i, "check", "poll")
  /\ UNCHANGED <<s_instance, object, inst, pending, steam, fault, lost>>

LoopCheck(i) ==
  /\ NetStep(i, "check", IF m_running[i] THEN "poll" ELSE "done")
  /\ UNCHANGED <<s_instance, object, inst, pending, steam, fault, lost>>

PollCheck(i) ==
  /\ NetStep(i, "poll", IF m_running[i] THEN "recv" ELSE "check")
  /\ UNCHANGED <<s_instance, object, inst, pending, steam, fault, lost>>

\* poll_messages() returns early when there is no connection.
PollMessages(i) ==
  /\ NetStep(i, "recv", IF m_conn[i] = NoConn THEN "events" ELSE "receive")
  /\ UNCHANGED <<s_instance, object, inst, pending, steam, fault, lost>>

\* ReceiveMessagesOnConnection answers -1 for a handle that is not open any
\* more; compared with a size_t index, -1 is the largest number there is, and
\* the loops run over pointers that nobody wrote.  For the messages of an
\* established connection the data callback is entered.
PollReceive(i) ==
  /\ \/ NetStep(i, "receive", "events")
     \/ /\ NetStep(i, "receive", "inData")
        /\ \E c \in Conns : c = m_conn[i] /\ connState[c] \in {"Connected"} \cup Gone
  /\ fault' = IF m_conn[i] = NoConn THEN "invalidConn"
              ELSE IF connState[m_conn[i]] = "closed" THEN "invalidConn" ELSE fault
  /\ UNCHANGED <<s_instance, object, inst, pending, steam, lost>>

\* The callbacks have returned, and the messages are released.
DataReturn(i) ==
  /\ NetStep(i, "inData", "events")
  /\ UNCHANGED <<s_instance, object, inst, pending, steam, fault, lost>>

-----------------------------------------------------------------------------
(* RunCallbacks and the status handler, on any pump thread p.               *)

ForeignPump(p) ==
  /\ p \in Foreign
  /\ callbacks # <<>>
  /\ NetStep(p, "idle", "events")
  /\ UNCHANGED <<s_instance, object, inst, pending, steam, fault, lost>>

RunCallbacks(p) ==
  /\ NetStep(p, "events", "dispatch")
  /\ pending' = [pending EXCEPT ![p] = callbacks]
  /\ callbacks' = <<>>
  /\ UNCHANGED <<s_instance, object, inst, connState, fault, lost>>

RunCallbacksDone(p) ==
  /\ NetStep(p, "dispatch", IF p \in Clients THEN "check" ELSE "idle")
  /\ pending[p] = <<>>
  /\ UNCHANGED <<s_instance, object, inst, pending, steam, fault, lost>>

Event(p) == Head(pending[p])
NextEvent(p) == pending' = [pending EXCEPT ![p] = Tail(@)]

StatusDropped(p) ==
  /\ NetStep(p, "dispatch", "dispatch")
  /\ pending[p] # <<>>
  /\ s_instance = NoClient
  /\ NextEvent(p)
  /\ UNCHANGED <<s_instance, object, inst, steam, fault, lost>>

StatusChecked(p) ==
  /\ NetStep(p, "dispatch", "deref")
  /\ pending[p] # <<>>
  /\ s_instance # NoClient
  /\ inst' = [inst EXCEPT ![p] = s_instance]
  /\ UNCHANGED <<s_instance, object, pending, steam, fault, lost>>

\* s_instance is a plain pointer: the call uses the value of the test or loads
\* it again.  It may be null by now, or its client destroyed.
StatusEnter(p) ==
  /\ NetStep(p, "deref", "handle")
  /\ \E i \in {inst[p], s_instance} :
       /\ inst' = [inst EXCEPT ![p] = i]
       /\ fault' = IF i = NoClient THEN "nullInstance"
                   ELSE IF app[i] = "destroyed" THEN "useAfterFree" ELSE fault
  /\ UNCHANGED <<s_instance, object, pending, steam, lost>>

SetStatus(p, s) ==
  m_connection_status' = [m_connection_status EXCEPT ![inst[p]] = s]

StatusIgnored(p) ==
  /\ NetStep(p, "handle", "dispatch")
  /\ Event(p).new = "None"
  /\ NextEvent(p)
  /\ UNCHANGED <<s_instance, object, inst, steam, fault, lost>>

StatusProgress(p) ==
  /\ NetStep(p, "handle", "dispatch")
  /\ Event(p).new \in {"Connecting", "Connected"}
  /\ SetStatus(p, IF Event(p).new = "Connected" THEN "connected" ELSE "connecting")
  /\ NextEvent(p)
  /\ UNCHANGED <<s_instance, m_running, m_conn, inst, steam, fault, lost>>

\* Mutant: the handler leaves m_running set.
StatusGoneKeepsRunning(p) ==
  /\ NetStep(p, "handle", "close")
  /\ Event(p).new \in Gone
  /\ SetStatus(p, "failed_to_connect")
  /\ lost' = lost \cup {inst[p]}
  /\ UNCHANGED <<s_instance, m_running, m_conn, inst, pending, steam, fault>>

\* The connection is gone: the loop of the client is told to end.
StatusGone(p) ==
  /\ NetStep(p, "handle", "close")
  /\ Event(p).new \in Gone
  /\ m_running' = [m_running EXCEPT ![inst[p]] = FALSE]
  /\ SetStatus(p, "failed_to_connect")
  /\ lost' = lost \cup {inst[p]}
  /\ UNCHANGED <<s_instance, m_conn, inst, pending, steam, fault>>

\* The handle of the event is closed, whichever client it belongs to.
StatusGoneClose(p) ==
  /\ NetStep(p, "close", "clear")
  /\ CloseConnection(Event(p).conn)
  /\ UNCHANGED <<s_instance, object, inst, pending, fault, lost>>

StatusGoneClear(p) ==
  /\ NetStep(p, "clear", "dispatch")
  /\ m_conn' = [m_conn EXCEPT ![inst[p]] = NoConn]
  /\ SetStatus(p, "disconnected")
  /\ NextEvent(p)
  /\ UNCHANGED <<s_instance, m_running, inst, steam, fault, lost>>

-----------------------------------------------------------------------------
(* The remote server and the network (external).                            *)

PeerEstablish(c) ==
  /\ connState[c] = "Connecting"
  /\ PostStatus(c, "Connected")
  /\ UNCHANGED <<s_instance, object, m_network_thread, app, res, loop, fault,
                 connects, lost>>

PeerGone(c) ==
  /\ connState[c] \in {"Connecting", "Connected"}
  /\ \E s \in Gone : PostStatus(c, s)
  /\ UNCHANGED <<s_instance, object, m_network_thread, app, res, loop, fault,
                 connects, lost>>

-----------------------------------------------------------------------------
AppRun(i) ==
  \/ TryConnectFails(i) \/ TryConnectStarts(i) \/ ConnectStore(i) \/ ConnectSpawn(i)
  \/ StopExchange(i) \/ StopJoin(i) \/ StopClose(i)

NetRun(p) ==
  \/ p \in Clients /\ (LoopCheck(p) \/ PollCheck(p) \/ PollMessages(p) \/ PollReceive(p)
                      \/ DataReturn(p))
  \/ ForeignPump(p) \/ RunCallbacks(p) \/ RunCallbacksDone(p) \/ StatusDropped(p)
  \/ StatusChecked(p) \/ StatusEnter(p) \/ StatusIgnored(p) \/ StatusProgress(p)
  \/ StatusGone(p) \/ StatusGoneClose(p) \/ StatusGoneClear(p)

\* What nothing forces to happen.
Outside ==
  \/ \E i \in Clients : ConnectBegin(i) \/ StopBegin(i) \/ Destroy(i)
  \/ \E c \in Conns : PeerEstablish(c) \/ PeerGone(c)

\* The process died, or no thread is inside the library.
Quiet ==
  /\ \/ fault # "none"
     \/ /\ \A i \in Clients : app[i] \in {"idle", "stopped", "destroyed"}
        /\ \A p \in Pumps : net[p] \in {"off", "idle", "done"}
  /\ UNCHANGED vars

Next ==
  \/ fault = "none" /\ \E i \in Clients : AppRun(i)
  \/ fault = "none" /\ \E p \in Pumps : NetRun(p)
  \/ fault = "none" /\ Outside
  \/ Quiet

Spec == Init /\ [][Next]_vars

\* Threads that are inside the library keep running.
FairSpec ==
  /\ Spec
  /\ \A i \in Clients : WF_vars(fault = "none" /\ AppRun(i))
  /\ \A p \in Pumps : WF_vars(fault = "none" /\ NetRun(p))

-----------------------------------------------------------------------------
TypeOK ==
  /\ s_instance \in Clients \cup {NoClient}
  /\ m_running \in [Clients -> BOOLEAN]
  /\ m_connection_status \in [Clients -> Status]
  /\ m_conn \in [Clients -> Conns \cup {NoConn}]
  /\ m_network_thread \in [Clients -> BOOLEAN]
  /\ app \in [Clients -> AppLabels] /\ res \in [Clients -> BOOLEAN]
  /\ net \in [Pumps -> NetLabels]
  /\ inst \in [Pumps -> Clients \cup {NoClient}]
  /\ pending \in [Pumps -> Seq(Events)]
  /\ connState \in [Conns -> ConnStates]
  /\ callbacks \in Seq(Events)
  /\ fault \in Faults
  /\ connects \in [Clients -> 0..MaxConnects]
  /\ lost \subseteq Clients

\* No network thread outlives the std::thread object that can join it, and a
\* destroyed client has none: a client's own thread never runs its handlers
\* on freed memory.
NoOrphanThread ==
  \A i \in Clients :
    /\ net[i] # "off" => m_network_thread[i]
    /\ app[i] = "destroyed" /\ fault = "none" => net[i] = "off"

\* A single client never receives on a handle that is already closed (the -1
\* of the library, read as a huge count).
ReceivesOnOpenConn == fault # "invalidConn"

\* Once connect() has returned, a running client has a connection.
RunningHasConnection ==
  fault = "none" =>
    \A i \in Clients : app[i] = "idle" /\ m_running[i] => m_conn[i] # NoConn

\* "Manually check connection status with get_connection_status to ensure
\* connection is successful": a client that reports connected, and that the
\* application has not stopped, has a connection that was established.
ConnectedIsReal ==
  \A i \in Clients : app[i] = "idle" /\ m_connection_status[i] = "connected" =>
    /\ m_conn[i] # NoConn
    /\ connState[m_conn[i]] \notin {"free", "Connecting"}

\* "Disconnect from server and stop reserved thread": after stop() the network
\* thread has been joined.
StopStopsThread ==
  \A i \in Clients : app[i] = "stopped" => ~m_network_thread[i]

\* stop() returns: the network thread sees m_running and ends.
StopReturns ==
  \A i \in Clients : app[i] \in StopLabels ~> (app[i] = "stopped" \/ fault # "none")

\* A connection that ended takes its client out of the running state.
LossIsNoticed ==
  \A i \in Clients :
    (m_conn[i] # NoConn /\ \E c \in Conns : c = m_conn[i] /\ connState[c] \in Gone)
      ~> (~m_running[i] \/ fault # "none")

=============================================================================
