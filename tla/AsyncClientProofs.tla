-------------------------- MODULE AsyncClientProofs --------------------------
(***************************************************************************)
(* Theorems about AsyncClient: what the answer of connect() means, and     *)
(* when the process is terminated, for any number of clients; and that one *)
(* client, alone in its process, works on the connection it has.           *)
(***************************************************************************)
EXTENDS AsyncClient, UdpClientProofs

\* What may be reported during a call, and what was, may be taken for its outcome.
ReportInv ==
  \A i \in Clients : \A c \in Unsettled \cup news[i] : Reportable(i, c)

\* An answer of connect(), and what it is taken from, follow the news.
StatusInv ==
  \A i \in Clients :
    /\ m_connection_status[i] = "connected" => news[i] # {}
    /\ cpc[i] = "sleep" /\ connection_status[i] = "connected" => news[i] # {}
    /\ answer[i] = "true" => news[i] # {}

\* Without a lost connection, a joinable thread is that of a running client, or
\* of one that stop() is about to join.
JoinedUnlessLost ==
  lost = {} =>
    \A i \in Clients :
      /\ m_network_thread[i] => m_running[i] \/ app[i] = "join"
      /\ app[i] = "store" => res[i]
      /\ app[i] = "spawn" => m_running[i] /\ ~m_network_thread[i]

\* connect() runs on a client that is not running, and so does the end of stop().
DownInCalls ==
  \A i \in Clients : app[i] \in {"try", "store", "join", "closing", "stopped", "destroyed"} => ~m_running[i]

CoroutineInv ==
  \A i \in Clients :
    /\ iter[i] \in Nat
    /\ cpc[i] = "call" <=> app[i] \in {"try", "store", "spawn"}
    /\ cpc[i] \in {"read", "sleep"} => iter[i] <= MaxIters

DownInv == DownInCalls /\ JoinedUnlessLost

\* One client of one process, and no thread of a server.
SpawnIsRes == \A i \in Clients : app[i] = "spawn" /\ m_running[i] => res[i]
ReceivesRunning == \A i \in Clients : net[i] \in {"recv", "receive"} => m_running[i] \/ app[i] = "join"
ReceivesOnConn == \A i \in Clients : net[i] = "receive" => m_conn[i] # NoConn
ClosingIsOff == \A i \in Clients : app[i] = "closing" => net[i] = "off"
OpenUntilClear ==
  \A i \in Clients : m_conn[i] # NoConn => connState[m_conn[i]] # "closed" \/ net[i] = "clear"
GoneIsDown ==
  \A i \in Clients : net[i] \in {"close", "clear"} => ~m_running[i] \/ app[i] = "spawn"
ConnectIsFresh ==
  \A i \in Clients : ~m_network_thread[i] =>
    /\ app[i] = "try" => m_connection_status[i] = "connecting"
    /\ app[i] \in {"store", "spawn"} /\ res[i] =>
         m_connection_status[i] = "connecting" /\ m_conn[i] # NoConn
RunningConn ==
  \A i \in Clients : m_running[i] /\ app[i] # "spawn" => m_conn[i] # NoConn
OneInv ==
  /\ SpawnIsRes /\ ReceivesRunning /\ ReceivesOnConn /\ ClosingIsOff /\ OpenUntilClear
  /\ GoneIsDown /\ ConnectIsFresh /\ RunningConn

\* A client that runs has not been told that its connection failed.
StatusIsDown ==
  fault = "none" => \A i \in Clients : m_running[i] =>
    /\ cpc[i] \in {"read", "sleep"} => m_connection_status[i] \in {"connecting", "connected"}
    /\ cpc[i] = "sleep" => connection_status[i] \in {"connecting", "connected"}

-----------------------------------------------------------------------------
LEMMA InitDown == Init => DownInv
  BY DEF Init, DownInv, DownInCalls, JoinedUnlessLost

LEMMA AppDown ==
  ASSUME TypeInv, DownInv, fault = "none", NEW i \in Clients, AppRun(i)
  PROVE  DownInv'
<1> USE DEF DownInv, DownInCalls, JoinedUnlessLost
<1> USE DEF object, steam, loop, AppStep, NetStep, GotoApp, GotoNet, Pumps
<1>1. /\ m_running \in [Clients -> BOOLEAN] /\ m_network_thread \in [Clients -> BOOLEAN]
      /\ app \in [Clients -> AppLabels] /\ res \in [Clients -> BOOLEAN] /\ lost \subseteq Clients
  BY DEF TypeInv, TypeOK
<1>2. CASE TryConnectFails(i)
  BY <1>2, <1>1 DEF TryConnectFails
<1>3. CASE TryConnectStarts(i)
  BY <1>3, <1>1 DEF TryConnectStarts
<1>4. CASE ConnectStore(i)
  BY <1>4, <1>1 DEF ConnectStore
<1>5. CASE ConnectSpawn(i)
  BY <1>5, <1>1 DEF ConnectSpawn
<1>6. CASE StopExchange(i)
  BY <1>6, <1>1 DEF StopExchange
<1>7. CASE StopJoin(i)
  BY <1>7, <1>1 DEF StopJoin
<1>8. CASE StopClose(i)
  BY <1>8, <1>1 DEF StopClose
<1>9. QED
  BY <1>2, <1>3, <1>4, <1>5, <1>6, <1>7, <1>8 DEF AppRun

LEMMA NetDown ==
  ASSUME TypeInv, DownInv, fault = "none", NEW p \in Pumps, NetRun(p)
  PROVE  DownInv'
<1> USE DEF DownInv, DownInCalls, JoinedUnlessLost
<1> USE DEF object, steam, loop, AppStep, NetStep, GotoApp, GotoNet, Pumps
<1>1. /\ m_running \in [Clients -> BOOLEAN] /\ m_network_thread \in [Clients -> BOOLEAN]
      /\ app \in [Clients -> AppLabels] /\ res \in [Clients -> BOOLEAN] /\ lost \subseteq Clients
  BY DEF TypeInv, TypeOK
<1>2. CASE LoopCheck(p)
  BY <1>2, <1>1 DEF LoopCheck
<1>3. CASE PollCheck(p)
  BY <1>3, <1>1 DEF PollCheck
<1>4. CASE PollMessages(p)
  BY <1>4, <1>1 DEF PollMessages
<1>5. CASE PollReceive(p)
  BY <1>5, <1>1 DEF PollReceive
<1>6. CASE DataReturn(p)
  BY <1>6, <1>1 DEF DataReturn
<1>7. CASE ForeignPump(p)
  BY <1>7, <1>1 DEF ForeignPump
<1>8. CASE RunCallbacks(p)
  BY <1>8, <1>1 DEF RunCallbacks
<1>9. CASE RunCallbacksDone(p)
  BY <1>9, <1>1 DEF RunCallbacksDone
<1>10. CASE StatusDropped(p)
  BY <1>10, <1>1 DEF StatusDropped
<1>11. CASE StatusChecked(p)
  BY <1>11, <1>1 DEF StatusChecked
<1>12. CASE StatusEnter(p)
  BY <1>12, <1>1 DEF StatusEnter
<1>13. CASE StatusIgnored(p)
  BY <1>13, <1>1 DEF StatusIgnored
<1>14. CASE StatusProgress(p)
  BY <1>14, <1>1 DEF StatusProgress
<1>15. CASE StatusGone(p)
  BY <1>15, <1>1 DEF StatusGone, TypeInv, HasInstance
<1>16. CASE StatusGoneClose(p)
  BY <1>16, <1>1 DEF StatusGoneClose
<1>17. CASE StatusGoneClear(p)
  BY <1>17, <1>1 DEF StatusGoneClear
<1>18. QED
  BY <1>2, <1>3, <1>4, <1>5, <1>6, <1>7, <1>8, <1>9, <1>10, <1>11, <1>12, <1>13, <1>14,
    <1>15, <1>16, <1>17 DEF NetRun

LEMMA OutsideDown ==
  ASSUME TypeInv, DownInv, fault = "none", Outside
  PROVE  DownInv'
<1> USE DEF DownInv, DownInCalls, JoinedUnlessLost
<1> USE DEF object, steam, loop, AppStep, NetStep, GotoApp, GotoNet, Pumps
<1>1. /\ m_running \in [Clients -> BOOLEAN] /\ m_network_thread \in [Clients -> BOOLEAN]
      /\ app \in [Clients -> AppLabels] /\ res \in [Clients -> BOOLEAN] /\ lost \subseteq Clients
  BY DEF TypeInv, TypeOK
<1>2. ASSUME NEW i \in Clients, ConnectBegin(i) PROVE DownInv'
  BY <1>2, <1>1 DEF ConnectBegin
<1>3. ASSUME NEW i \in Clients, StopBegin(i) PROVE DownInv'
  BY <1>3, <1>1 DEF StopBegin
<1>4. ASSUME NEW i \in Clients, Destroy(i) PROVE DownInv'
  BY <1>4, <1>1 DEF Destroy
<1>5. ASSUME NEW c \in Conns, PeerEstablish(c) PROVE DownInv'
  BY <1>5, <1>1 DEF PeerEstablish
<1>6. ASSUME NEW c \in Conns, PeerGone(c) PROVE DownInv'
  BY <1>6, <1>1 DEF PeerGone
<1>7. QED
  BY <1>2, <1>3, <1>4, <1>5, <1>6 DEF Outside

LEMMA NextDown == ASSUME TypeInv, DownInv, [Next]_vars PROVE DownInv'
<1>1. CASE UNCHANGED vars
  BY <1>1 DEF vars, object, DownInv, DownInCalls, JoinedUnlessLost
<1>2. QED
  BY <1>1, AppDown, NetDown, OutsideDown DEF Next, Quiet

-----------------------------------------------------------------------------
\* The process has one client and no server.
OneClient == Foreign = {} /\ \A i, j \in Clients : i = j

LEMMA InitOne == Init => OneInv
  BY DEF Init, OneInv, SpawnIsRes, ReceivesRunning, ReceivesOnConn, ClosingIsOff,
    OpenUntilClear,
    GoneIsDown, ConnectIsFresh, RunningConn, Pumps

LEMMA Closing ==
  ASSUME TypeOK, NEW c \in Conns, CloseConnection(c), NEW d \in Conns, d # c
  PROVE  connState'[d] = connState[d]
  BY DEF CloseConnection, PostStatus, TypeOK, steam

LEMMA AppOne ==
  ASSUME OneClient, TypeInv, NoOrphanThread, DownInv, OneInv, fault' = "none",
         fault = "none", NEW i \in Clients, AppRun(i)
  PROVE  OneInv'
<1> USE DEF OneClient, NoOrphanThread, DownInv, DownInCalls, OneInv, SpawnIsRes,
  ReceivesRunning, ReceivesOnConn, ClosingIsOff, OpenUntilClear, GoneIsDown,
  ConnectIsFresh, RunningConn
<1> USE DEF object, steam, loop, AppStep, NetStep, GotoApp, GotoNet, Pumps
<1>1. /\ m_running \in [Clients -> BOOLEAN] /\ m_network_thread \in [Clients -> BOOLEAN]
      /\ app \in [Clients -> AppLabels] /\ res \in [Clients -> BOOLEAN]
      /\ m_conn \in [Clients -> Conns \cup {NoConn}] /\ m_connection_status \in [Clients -> Status]
      /\ net \in [Pumps -> NetLabels] /\ connState \in [Conns -> ConnStates]
      /\ inst \in [Pumps -> Clients \cup {NoClient}]
  BY DEF TypeInv, TypeOK
<1>2. CASE TryConnectFails(i)
  BY <1>2, <1>1 DEF TryConnectFails
<1>3. CASE TryConnectStarts(i)
  <2> DEFINE c == <<i, connects[i]>>
  <2>1. c \in Conns /\ c # NoConn
    BY <1>3, ConstantsDistinct DEF TryConnectStarts, TypeInv, TypeOK, HasHandle, Conns
  <2>2. connState'[c] = "Connecting" /\ m_conn'[i] = c
    BY <1>1, <1>3, <2>1 DEF TryConnectStarts, PostStatus
  <2>3. QED
    BY <1>1, <1>3, <2>1, <2>2 DEF TryConnectStarts
<1>4. CASE ConnectStore(i)
  BY <1>4, <1>1 DEF ConnectStore
<1>5. CASE ConnectSpawn(i)
  BY <1>5, <1>1 DEF ConnectSpawn
<1>6. CASE StopExchange(i)
  BY <1>6, <1>1 DEF StopExchange
<1>7. CASE StopJoin(i)
  BY <1>7, <1>1 DEF StopJoin
<1>8. CASE StopClose(i)
  <2>1. m_conn'[i] = NoConn /\ net[i] = "off" /\ ~m_running[i]
    BY <1>1, <1>8 DEF StopClose
  <2>2. QED
    BY <1>1, <1>8, <2>1 DEF StopClose
<1>9. QED
  BY <1>2, <1>3, <1>4, <1>5, <1>6, <1>7, <1>8 DEF AppRun

LEMMA NetOne ==
  ASSUME OneClient, TypeInv, NoOrphanThread, DownInv, OneInv, fault' = "none",
         fault = "none", NEW p \in Pumps, NetRun(p)
  PROVE  OneInv'
<1> USE DEF OneClient, NoOrphanThread, DownInv, DownInCalls, OneInv, SpawnIsRes,
  ReceivesRunning, ReceivesOnConn, ClosingIsOff, OpenUntilClear, GoneIsDown,
  ConnectIsFresh, RunningConn
<1> USE DEF object, steam, loop, AppStep, NetStep, GotoApp, GotoNet, Pumps
<1>1. /\ m_running \in [Clients -> BOOLEAN] /\ m_network_thread \in [Clients -> BOOLEAN]
      /\ app \in [Clients -> AppLabels] /\ res \in [Clients -> BOOLEAN]
      /\ m_conn \in [Clients -> Conns \cup {NoConn}] /\ m_connection_status \in [Clients -> Status]
      /\ net \in [Pumps -> NetLabels] /\ connState \in [Conns -> ConnStates]
      /\ inst \in [Pumps -> Clients \cup {NoClient}]
  BY DEF TypeInv, TypeOK
<1>2. CASE LoopCheck(p)
  BY <1>2, <1>1 DEF LoopCheck
<1>3. CASE PollCheck(p)
  BY <1>3, <1>1 DEF PollCheck
<1>4. CASE PollMessages(p)
  BY <1>4, <1>1 DEF PollMessages
<1>5. CASE PollReceive(p)
  BY <1>5, <1>1 DEF PollReceive
<1>6. CASE DataReturn(p)
  BY <1>6, <1>1 DEF DataReturn
<1>7. CASE ForeignPump(p)
  BY <1>7, <1>1 DEF ForeignPump
<1>8. CASE RunCallbacks(p)
  BY <1>8, <1>1 DEF RunCallbacks
<1>9. CASE RunCallbacksDone(p)
  BY <1>9, <1>1 DEF RunCallbacksDone
<1>10. CASE StatusDropped(p)
  BY <1>10, <1>1 DEF StatusDropped
<1>11. CASE StatusChecked(p)
  BY <1>11, <1>1 DEF StatusChecked
<1>12. CASE StatusEnter(p)
  <2>1. /\ UNCHANGED <<m_running, m_connection_status, m_conn, connState, m_network_thread, app, res>>
        /\ net[p] = "deref" /\ net' = [net EXCEPT ![p] = "handle"]
    BY <1>12 DEF StatusEnter
  <2>2. QED
    BY <1>1, <2>1
<1>13. CASE StatusIgnored(p)
  BY <1>13, <1>1 DEF StatusIgnored
<1>14. CASE StatusProgress(p)
  BY <1>14, <1>1 DEF StatusProgress, TypeInv, HasInstance, SetStatus, NextEvent
<1>15. CASE StatusGone(p)
  BY <1>15, <1>1 DEF StatusGone, TypeInv, HasInstance, SetStatus, NextEvent
<1>16. CASE StatusGoneClose(p)
  <2>1. /\ UNCHANGED <<m_running, m_connection_status, m_conn, m_network_thread, app, res>>
        /\ net[p] = "close" /\ net' = [net EXCEPT ![p] = "clear"]
    BY <1>16 DEF StatusGoneClose
  <2>2. QED
    BY <1>1, <2>1
<1>17. CASE StatusGoneClear(p)
  BY <1>17, <1>1 DEF StatusGoneClear, TypeInv, HasInstance, SetStatus, NextEvent
<1>18. QED
  BY <1>2, <1>3, <1>4, <1>5, <1>6, <1>7, <1>8, <1>9, <1>10, <1>11, <1>12, <1>13, <1>14,
    <1>15, <1>16, <1>17 DEF NetRun

LEMMA OutsideOne ==
  ASSUME OneClient, TypeInv, NoOrphanThread, DownInv, OneInv, fault' = "none",
         fault = "none", Outside
  PROVE  OneInv'
<1> USE DEF OneClient, NoOrphanThread, DownInv, DownInCalls, OneInv, SpawnIsRes,
  ReceivesRunning, ReceivesOnConn, ClosingIsOff, OpenUntilClear, GoneIsDown,
  ConnectIsFresh, RunningConn
<1> USE DEF object, steam, loop, AppStep, NetStep, GotoApp, GotoNet, Pumps
<1>1. /\ m_running \in [Clients -> BOOLEAN] /\ m_network_thread \in [Clients -> BOOLEAN]
      /\ app \in [Clients -> AppLabels] /\ res \in [Clients -> BOOLEAN]
      /\ m_conn \in [Clients -> Conns \cup {NoConn}] /\ m_connection_status \in [Clients -> Status]
      /\ net \in [Pumps -> NetLabels] /\ connState \in [Conns -> ConnStates]
      /\ inst \in [Pumps -> Clients \cup {NoClient}]
  BY DEF TypeInv, TypeOK
<1>2. ASSUME NEW i \in Clients, ConnectBegin(i) PROVE OneInv'
  BY <1>2, <1>1 DEF ConnectBegin
<1>3. ASSUME NEW i \in Clients, StopBegin(i) PROVE OneInv'
  BY <1>3, <1>1 DEF StopBegin
<1>4. ASSUME NEW i \in Clients, Destroy(i) PROVE OneInv'
  BY <1>4, <1>1 DEF Destroy
<1>5. ASSUME NEW c \in Conns, PeerEstablish(c) PROVE OneInv'
  <2>1. \A d \in Conns : connState'[d] = "closed" => connState[d] = "closed"
    BY <1>1, <1>5 DEF PeerEstablish, PostStatus, Gone
  <2>2. QED
    BY <1>1, <1>5, <2>1 DEF PeerEstablish
<1>6. ASSUME NEW c \in Conns, PeerGone(c) PROVE OneInv'
  <2>1. \A d \in Conns : connState'[d] = "closed" => connState[d] = "closed"
    BY <1>1, <1>6 DEF PeerGone, PostStatus, Gone
  <2>2. QED
    BY <1>1, <1>6, <2>1 DEF PeerGone
<1>7. QED
  BY <1>2, <1>3, <1>4, <1>5, <1>6 DEF Outside

LEMMA NextOne ==
  ASSUME OneClient, TypeInv, NoOrphanThread, DownInv, fault = "none" => OneInv, [Next]_vars
  PROVE  (fault = "none" => OneInv)'
<1>1. CASE UNCHANGED vars
  BY <1>1 DEF vars, object, steam, loop, OneInv, SpawnIsRes, ReceivesRunning,
    ReceivesOnConn,
    ClosingIsOff, OpenUntilClear, GoneIsDown, ConnectIsFresh, RunningConn
<1>2. QED
  BY <1>1, AppOne, NetOne, OutsideOne DEF Next, Quiet

-----------------------------------------------------------------------------
\* A step of the client, or the end of the process in CallbackReturn.
Terminates ==
  /\ fault' = "terminate"
  /\ UNCHANGED <<s_instance, object, m_network_thread, app, res, loop, steam, connects, lost>>

LEMMA AsyncIsClient == ASSUME [AsyncNext]_asyncVars PROVE [Next]_vars \/ Terminates
<1>1. ASSUME NEW i \in Clients, CoRun(i), fault = "none" PROVE [Next]_vars
  <2>1. CASE ConnectReturn(i)
    BY <1>1, <2>1 DEF ConnectReturn, Next, AppRun
  <2>2. CASE Read(i) \/ Wake(i)
    BY <2>2 DEF Read, Wake
  <2>3. QED
    BY <1>1, <2>1, <2>2 DEF CoRun
<1>2. ASSUME NEW i \in Clients, AsyncAppRun(i), fault = "none" PROVE [Next]_vars
  BY <1>2 DEF AsyncAppRun, AppElse, DestroyedByApp, Next, Outside
<1>3. ASSUME NEW p \in Pumps, AsyncNetRun(p), fault = "none" PROVE [Next]_vars \/ Terminates
  <2>1. CASE NetElse(p)
    BY <1>3, <2>1 DEF NetElse, Next
  <2>2. CASE p \in Clients /\ CallbackReturn(p)
    BY <1>3, <2>2 DEF CallbackReturn, Terminates, Next, NetRun
  <2>3. QED
    BY <1>3, <2>1, <2>2 DEF AsyncNetRun
<1>4. ASSUME AsyncOutside, fault = "none" PROVE [Next]_vars
  BY <1>4 DEF AsyncOutside, ConnectRefused, ConnectCall, Stop, DropByApp, DropInCallback,
    Next, Outside
<1>5. CASE AsyncQuiet \/ UNCHANGED asyncVars
  BY <1>5 DEF AsyncQuiet, Quiet, asyncVars
<1>6. QED
  BY <1>1, <1>2, <1>3, <1>4, <1>5 DEF AsyncNext

ClientInv == TypeInv /\ NoOrphanThread /\ DownInv

LEMMA AsyncClientInv ==
  ASSUME ClientInv, [AsyncNext]_asyncVars
  PROVE  ClientInv'
<1>1. CASE [Next]_vars
  BY <1>1, NextTypeInv, NextNoOrphanThread, NextDown DEF ClientInv
<1>2. CASE Terminates
  BY <1>2 DEF Terminates, ClientInv, TypeInv, TypeOK, HasEvent, HasInstance, HasHandle,
    NoOrphanThread, DownInv, DownInCalls, JoinedUnlessLost, object, steam, loop, Faults
<1>3. QED
  BY <1>1, <1>2, AsyncIsClient

LEMMA AsyncOneInv ==
  ASSUME OneClient, ClientInv, fault = "none" => OneInv, [AsyncNext]_asyncVars
  PROVE  (fault = "none" => OneInv)'
<1>1. CASE [Next]_vars
  BY <1>1, NextOne DEF ClientInv
<1>2. CASE Terminates
  BY <1>2 DEF Terminates
<1>3. QED
  BY <1>1, <1>2, AsyncIsClient

LEMMA InitClient == AsyncInit => ClientInv /\ OneInv
<1>1. Init => NoOrphanThread
  BY DEF Init, NoOrphanThread, Pumps
<1>2. QED
  BY <1>1, InitTypeInv, InitDown, InitOne DEF AsyncInit, ClientInv

LEMMA AlwaysClientInv == AsyncSpec => []ClientInv
<1>1. ClientInv /\ [AsyncNext]_asyncVars => ClientInv'
  BY AsyncClientInv
<1>2. QED
  BY <1>1, InitClient, PTL DEF AsyncSpec

\* Where the process may be terminated.
LEMMA TerminatesWhere ==
  ASSUME [AsyncNext]_asyncVars, fault = "none", fault' = "terminate"
  PROVE  \/ \E i \in Clients : ConnectSpawn(i) \/ Destroy(i)
         \/ \E p \in Clients : CallbackReturn(p)
<1>1. ASSUME NEW i \in Clients, CoRun(i) PROVE ConnectSpawn(i)
  BY <1>1 DEF CoRun, ConnectReturn, Read, Wake, vars
<1>2. ASSUME NEW i \in Clients, AsyncAppRun(i) PROVE ConnectSpawn(i) \/ Destroy(i)
  <2>1. AppRun(i) => ConnectSpawn(i)
    BY DEF AppRun, TryConnectFails, TryConnectStarts, ConnectStore, StopExchange,
      StopJoin, StopClose
  <2>2. QED
    BY <1>2, <2>1 DEF AsyncAppRun, AppElse, DestroyedByApp
<1>3. ASSUME NEW p \in Pumps, NetElse(p) PROVE FALSE
  <2>1. ~NetRun(p)
    BY DEF NetRun, LoopCheck, PollCheck, PollMessages, PollReceive, DataReturn,
      ForeignPump, RunCallbacks, RunCallbacksDone, StatusDropped, StatusChecked,
      StatusEnter, StatusIgnored, StatusProgress, StatusGone, StatusGoneClose,
      StatusGoneClear
  <2>2. QED
    BY <1>3, <2>1 DEF NetElse
<1>4. ~AsyncOutside
  BY DEF AsyncOutside, ConnectRefused, ConnectCall, Stop, DropByApp, DropInCallback,
    ConnectBegin,
    StopBegin, PeerEstablish, PeerGone, vars
<1>5. QED
  BY <1>1, <1>2, <1>3, <1>4 DEF AsyncNext, AsyncNetRun, AsyncQuiet, Quiet, asyncVars, vars

\* The process ends with a joinable thread only if a connection had failed or got lost (the
\* status handler and a failed connect() leave the thread unjoined, udp_client.cpp:46-58,
\* 154-173), or if the data callback had the last reference to the client: a client that
\* never loses its connection can be stopped, connected again and destroyed safely.
THEOREM TerminateIsExplained == AsyncSpec => []TerminateExplained
<1>1. AsyncInit => TerminateExplained
  BY DEF AsyncInit, Init, TerminateExplained
<1>2. ASSUME ClientInv, TerminateExplained, [AsyncNext]_asyncVars PROVE TerminateExplained'
  <2>1. CASE fault # "none"
    BY <1>2, <2>1 DEF AsyncNext, AsyncQuiet, Quiet, vars, asyncVars, TerminateExplained
  <2>2. CASE fault = "none"
    <3>1. SUFFICES ASSUME fault' = "terminate"
                   PROVE  lost' # {} \/ \E i \in Clients : dropped'[i] = "net"
      BY DEF TerminateExplained
    <3>2. CASE \E i \in Clients : ConnectSpawn(i) \/ Destroy(i)
      <4>1. PICK i \in Clients : ConnectSpawn(i) \/ Destroy(i)
        BY <3>2
      <4>2. m_network_thread[i] /\ lost' = lost /\ app[i] \in {"spawn", "stopped"}
        BY <2>2, <3>1, <4>1 DEF ConnectSpawn, Destroy, AppStep
      <4>3. QED
        BY <1>2, <4>2 DEF ClientInv, DownInv, DownInCalls, JoinedUnlessLost
    <3>3. ASSUME NEW p \in Clients, CallbackReturn(p)
          PROVE  \E i \in Clients : dropped'[i] = "net"
      BY <2>2, <3>1, <3>3 DEF CallbackReturn, DataReturn
    <3>4. QED
      BY <1>2, <2>2, <3>1, <3>2, <3>3, TerminatesWhere
  <2>3. QED
    BY <2>1, <2>2
<1>3. QED
  BY <1>1, <1>2, AlwaysClientInv, PTL DEF AsyncSpec

-----------------------------------------------------------------------------
\* The coroutine and the histories have their types.
CoType ==
  /\ cpc \in [Clients -> {"none", "call", "read", "sleep", "done"}]
  /\ iter \in [Clients -> Nat] /\ connection_status \in [Clients -> Status]
  /\ answer \in [Clients -> {"none", "true", "false"}]
  /\ news \in [Clients -> SUBSET Conns] /\ unsettled \in [Clients -> SUBSET Conns]
  /\ dropped \in [Clients -> {"no", "app", "net"}]

AnswerInv == CoType /\ ReportInv /\ StatusInv /\ CoroutineInv

\* The queues of status changes, as a set.
LEMMA UndeliveredIs ==
  \A e : e \in Undelivered <=>
    \/ \E n \in DOMAIN callbacks : e = callbacks[n]
    \/ \E p \in Pumps : \E n \in DOMAIN pending[p] : e = pending[p][n]
  BY DEF Undelivered

LEMMA PostDelivers ==
  ASSUME TypeOK, NEW c \in Conns, NEW s \in ConnStates \cup {"None"}, PostStatus(c, s),
         pending' = pending
  PROVE  \A e \in Undelivered' : e \in Undelivered \/ e = [conn |-> c, new |-> s]
<1>1. callbacks \in Seq(Events) /\ callbacks' = Append(callbacks, [conn |-> c, new |-> s])
  BY DEF TypeOK, PostStatus
<1>2. \A n \in DOMAIN callbacks' :
        \/ n \in DOMAIN callbacks /\ callbacks'[n] = callbacks[n]
        \/ callbacks'[n] = [conn |-> c, new |-> s]
  BY <1>1
<1>3. QED
  BY <1>2 DEF Undelivered

\* Only opening a connection, and its establishment, bring a Connected change about.
LEMMA PostSettles ==
  ASSUME TypeOK, NEW c \in Conns, NEW s \in ConnStates \cup {"None"}, PostStatus(c, s),
         pending' = pending, s = "Connected" => connState[c] = "Connecting"
  PROVE  \A d \in Unsettled' : d \in Unsettled \/ (d = c /\ s = "Connecting")
<1>1. TAKE d \in Unsettled'
<1>2. d \in Conns
  BY DEF Unsettled
<1>3. CASE connState'[d] = "Connecting"
  BY <1>2, <1>3 DEF PostStatus, TypeOK, Unsettled
<1>4. CASE [conn |-> d, new |-> "Connected"] \in Undelivered'
  <2>1. CASE [conn |-> d, new |-> "Connected"] \in Undelivered
    BY <1>2, <2>1 DEF Unsettled
  <2>2. CASE [conn |-> d, new |-> "Connected"] = [conn |-> c, new |-> s]
    <3>1. d = [conn |-> d, new |-> "Connected"].conn /\ c = [conn |-> c, new |-> s].conn
      OBVIOUS
    <3>2. "Connected" = [conn |-> d, new |-> "Connected"].new /\ s = [conn |-> c, new |-> s].new
      OBVIOUS
    <3>3. d = c /\ s = "Connected"
      BY <2>2, <3>1, <3>2
    <3>4. QED
      BY <1>2, <3>3 DEF Unsettled
  <2>3. QED
    BY <1>4, <2>1, <2>2, PostDelivers
<1>5. QED
  BY <1>3, <1>4 DEF Unsettled

LEMMA CloseSettles ==
  ASSUME TypeOK, NEW c \in Conns, CloseConnection(c), pending' = pending
  PROVE  Unsettled' \subseteq Unsettled
<1>1. CASE UNCHANGED steam
  BY <1>1 DEF steam, Unsettled, Undelivered
<1>2. CASE PostStatus(c, "None")
  BY <1>2, PostSettles
<1>3. QED
  BY <1>1, <1>2 DEF CloseConnection

LEMMA NextSettles ==
  ASSUME TypeOK, NEW p \in Pumps, pending[p] # <<>>, NextEvent(p), UNCHANGED steam
  PROVE  Unsettled' \subseteq Unsettled
<1>1. pending \in [Pumps -> Seq(Events)]
  BY DEF TypeOK
<1>2. pending'[p] = Tail(pending[p]) /\ \A q \in Pumps : q # p => pending'[q] = pending[q]
  BY <1>1 DEF NextEvent
<1>3. \A n \in DOMAIN Tail(pending[p]) :
        n + 1 \in DOMAIN pending[p] /\ Tail(pending[p])[n] = pending[p][n + 1]
  BY <1>1
<1>4. ASSUME NEW q \in Pumps, NEW n \in DOMAIN pending'[q]
      PROVE  \E m \in DOMAIN pending[q] : pending'[q][n] = pending[q][m]
  BY <1>2, <1>3, <1>4
<1>5. \A e : e \in Undelivered' =>
        \/ \E n \in DOMAIN callbacks : e = callbacks[n]
        \/ \E q \in Pumps : \E n \in DOMAIN pending'[q] : e = pending'[q][n]
  BY DEF Undelivered, steam
<1>6. \A e : e \in Undelivered' => e \in Undelivered
  BY <1>4, <1>5, UndeliveredIs
<1>7. QED
  BY <1>6 DEF Unsettled, steam

\* The connection that a client is working on.
Opened == {<<i, connects[i]>> : i \in Clients}

LEMMA AppSettles ==
  ASSUME TypeInv, NEW i \in Clients, AppRun(i)
  PROVE  connects' = connects /\ Unsettled' \subseteq Unsettled \cup Opened
<1> USE DEF AppStep
<1>1. CASE TryConnectStarts(i)
  <2>1. <<i, connects[i]>> \in Conns
    BY <1>1, ConstantsDistinct DEF TryConnectStarts, TypeInv, TypeOK, HasHandle, Conns
  <2>2. PostStatus(<<i, connects[i]>>, "Connecting") /\ UNCHANGED <<pending, connects>>
    BY <1>1 DEF TryConnectStarts
  <2>3. "Connecting" \in ConnStates /\ TypeOK
    BY DEF ConnStates, TypeInv
  <2>4. QED
    BY <2>1, <2>2, <2>3, PostSettles DEF Opened
<1>2. CASE StopClose(i)
  <2>1. m_conn[i] \in Conns \cup {NoConn} /\ TypeOK
    BY DEF TypeInv, TypeOK
  <2>2. CASE m_conn[i] # NoConn
    BY <1>2, <2>1, <2>2, CloseSettles DEF StopClose
  <2>3. CASE m_conn[i] = NoConn
    BY <1>2, <2>3 DEF StopClose, steam, Unsettled, Undelivered
  <2>4. QED
    BY <2>2, <2>3
<1>3. CASE TryConnectFails(i) \/ ConnectStore(i) \/ ConnectSpawn(i) \/ StopExchange(i) \/ StopJoin(i)
  BY <1>3 DEF TryConnectFails, ConnectStore, ConnectSpawn, StopExchange, StopJoin, steam,
    Unsettled, Undelivered
<1>4. QED
  BY <1>1, <1>2, <1>3 DEF AppRun

LEMMA NetSettles ==
  ASSUME TypeInv, NEW p \in Pumps, NetRun(p)
  PROVE  connects' = connects /\ Unsettled' \subseteq Unsettled
<1> USE DEF NetStep
<1>1. TypeOK /\ pending \in [Pumps -> Seq(Events)]
  BY DEF TypeInv, TypeOK
<1>2. CASE LoopCheck(p) \/ PollCheck(p) \/ PollMessages(p) \/ PollReceive(p) \/ DataReturn(p)
           \/ ForeignPump(p) \/ RunCallbacksDone(p) \/ StatusChecked(p) \/ StatusEnter(p) \/ StatusGone(p)
  BY <1>2 DEF LoopCheck, PollCheck, PollMessages, PollReceive, DataReturn, ForeignPump,
    RunCallbacksDone, StatusChecked, StatusEnter, StatusGone, steam, Unsettled, Undelivered
<1>3. CASE RunCallbacks(p)
  <2>1. callbacks' = <<>> /\ pending'[p] = callbacks /\ connState' = connState
        /\ \A q \in Pumps : q # p => pending'[q] = pending[q]
    BY <1>1, <1>3 DEF RunCallbacks
  <2>2. Undelivered' \subseteq Undelivered
    BY <2>1 DEF Undelivered
  <2>3. QED
    BY <1>3, <2>1, <2>2 DEF RunCallbacks, Unsettled
<1>4. CASE StatusDropped(p) \/ StatusIgnored(p) \/ StatusProgress(p) \/ StatusGoneClear(p)
  <2>1. NextEvent(p) /\ UNCHANGED steam /\ pending[p] # <<>> /\ connects' = connects
    BY <1>4 DEF StatusDropped, StatusIgnored, StatusProgress, StatusGoneClear, TypeInv,
      HasEvent
  <2>2. QED
    BY <1>1, <2>1, NextSettles
<1>5. CASE StatusGoneClose(p)
  <2>1. Event(p).conn \in Conns
    BY <1>1, <1>5, EventType DEF StatusGoneClose, TypeInv, HasEvent, Event
  <2>2. QED
    BY <1>1, <1>5, <2>1, CloseSettles DEF StatusGoneClose
<1>6. QED
  BY <1>2, <1>3, <1>4, <1>5 DEF NetRun

LEMMA PeerSettles ==
  ASSUME TypeInv, NEW c \in Conns, PeerEstablish(c) \/ PeerGone(c)
  PROVE  connects' = connects /\ Unsettled' \subseteq Unsettled
<1>1. \E s \in {"Connected"} \cup Gone :
        PostStatus(c, s) /\ (s = "Connected" => connState[c] = "Connecting")
  BY DEF PeerEstablish, PeerGone, Gone
<1>2. PICK s \in {"Connected"} \cup Gone :
        PostStatus(c, s) /\ (s = "Connected" => connState[c] = "Connecting")
  BY <1>1
<1>3. connects' = connects /\ pending' = pending /\ TypeOK /\ s \in ConnStates /\ s # "Connecting"
  BY DEF PeerEstablish, PeerGone, loop, TypeInv, ConnStates, Gone
<1>4. QED
  BY <1>2, <1>3, PostSettles

\* In a step that begins no call, the reports stay attributable.
LEMMA Reported ==
  ASSUME ReportInv, UNCHANGED <<connects, unsettled>>, Unsettled' \subseteq Unsettled \cup Opened,
         \A i \in Clients : news'[i] \subseteq news[i] \cup Unsettled
  PROVE  ReportInv'
<1>1. \A i \in Clients : \A c \in Opened : Reportable(i, c)
  BY DEF Reportable, Opened
<1>2. \A i \in Clients : \A c : Reportable(i, c) => Reportable(i, c)'
  BY DEF Reportable
<1>3. QED
  BY <1>1, <1>2 DEF ReportInv, Unsettled

\* Steps of the client that the coroutine does not take itself.
LEMMA AppStatus ==
  ASSUME TypeInv, NEW i \in Clients, AppRun(i), app[i] # "spawn"
  PROVE  /\ \A j \in Clients : app'[j] \in {"try", "store", "spawn"} <=> app[j] \in {"try", "store", "spawn"}
         /\ \A j \in Clients : m_connection_status'[j] = m_connection_status[j]
                               \/ (app[j] = "try" /\ m_connection_status'[j] = "failed_to_connect")
         /\ \A j \in Clients : m_running'[j] => m_running[j] \/ app[j] = "store"
<1> USE DEF object, AppStep, GotoApp
<1>1. app \in [Clients -> AppLabels] /\ m_running \in [Clients -> BOOLEAN] /\ m_connection_status \in [Clients -> Status]
  BY DEF TypeInv, TypeOK
<1>2. QED
  BY <1>1 DEF AppRun, TryConnectFails, TryConnectStarts, ConnectStore, ConnectSpawn,
    StopExchange, StopJoin, StopClose

LEMMA NetStatus ==
  ASSUME TypeInv, fault = "none", NEW p \in Pumps, NetRun(p)
  PROVE  /\ app' = app
         /\ \A j \in Clients : m_running'[j] => m_running[j]
         /\ \A j \in Clients :
              \/ m_connection_status'[j] \in {m_connection_status[j], "connecting"}
              \/ /\ net[p] = "handle" /\ Event(p).new = "Connected" /\ j = inst[p]
                 /\ m_connection_status'[j] = "connected"
              \/ net[p] = "handle" /\ j = inst[p] /\ ~m_running'[j] /\ m_connection_status'[j] = "failed_to_connect"
              \/ net[p] = "clear" /\ j = inst[p] /\ m_connection_status'[j] = "disconnected"
<1> USE DEF object, NetStep, SetStatus
<1>1. /\ m_running \in [Clients -> BOOLEAN] /\ m_connection_status \in [Clients -> Status]
      /\ net[p] \in {"handle", "close", "clear"} => inst[p] \in Clients
  BY DEF TypeInv, TypeOK, HasInstance
<1>2. CASE StatusProgress(p)
  BY <1>1, <1>2 DEF StatusProgress
<1>3. CASE StatusGone(p)
  BY <1>1, <1>3 DEF StatusGone
<1>4. CASE StatusGoneClear(p)
  BY <1>1, <1>4 DEF StatusGoneClear
<1>5. CASE ~(StatusProgress(p) \/ StatusGone(p) \/ StatusGoneClear(p))
  BY <1>5 DEF NetRun, LoopCheck, PollCheck, PollMessages, PollReceive, DataReturn,
    ForeignPump, RunCallbacks, RunCallbacksDone, StatusDropped, StatusChecked,
    StatusEnter, StatusIgnored, StatusProgress, StatusGone, StatusGoneClose,
    StatusGoneClear
<1>6. QED
  BY <1>2, <1>3, <1>4, <1>5

LEMMA InitAnswer == AsyncInit => AnswerInv /\ StatusIsDown
  BY DEF AsyncInit, Init, AnswerInv, CoType, ReportInv, StatusInv, CoroutineInv,
    StatusIsDown,
    Status, Unsettled, Undelivered

LEMMA CoAnswer ==
  ASSUME TypeInv, AnswerInv, NEW i \in Clients, CoRun(i)
  PROVE  AnswerInv'
<1> USE DEF AnswerInv, CoType, StatusInv, CoroutineInv, GotoCo, Return
<1>1. /\ m_connection_status \in [Clients -> Status] /\ app \in [Clients -> AppLabels] /\ MaxIters \in Nat
  BY MaxItersTyped DEF TypeInv, TypeOK
<1>2. CASE ConnectReturn(i)
  <2>1. app[i] = "spawn" /\ app' = [app EXCEPT ![i] = "idle"] /\ m_connection_status' = m_connection_status
    BY <1>2 DEF ConnectReturn, ConnectSpawn, AppStep, GotoApp, object
  <2>2. CoType'
    BY <1>2 DEF ConnectReturn, histories
  <2>3. StatusInv'
    BY <1>2, <2>1 DEF ConnectReturn, histories
  <2>4. CoroutineInv'
    BY <1>1, <1>2, <2>1 DEF ConnectReturn
  <2>5. ReportInv'
    BY <1>2, AppSettles, Reported DEF ConnectReturn, AppRun, histories
  <2>6. QED
    BY <2>2, <2>3, <2>4, <2>5
<1>3. CASE Read(i)
  <2>1. app' = app /\ m_connection_status' = m_connection_status
    BY <1>3 DEF Read, vars, object
  <2>2. CoType'
    BY <1>1, <1>3 DEF Read, histories
  <2>3. StatusInv'
    BY <1>1, <1>3, <2>1 DEF Read, histories
  <2>4. CoroutineInv'
    BY <1>1, <1>3, <2>1 DEF Read
  <2>5. ReportInv'
    BY <1>3 DEF Read, histories, vars, steam, loop, ReportInv, Reportable, Unsettled,
      Undelivered
  <2>6. QED
    BY <2>2, <2>3, <2>4, <2>5
<1>4. CASE Wake(i)
  <2>1. ReportInv'
    BY <1>4 DEF Wake, histories, vars, steam, loop, ReportInv, Reportable, Unsettled,
      Undelivered
  <2>2. QED
    BY <1>1, <1>4, <2>1 DEF Wake, vars, object, histories
<1>5. QED
  BY <1>2, <1>3, <1>4 DEF CoRun

LEMMA ElseAnswer ==
  ASSUME TypeInv, AnswerInv, fault = "none"
  PROVE  /\ \A i \in Clients : AsyncAppRun(i) => AnswerInv'
         /\ \A p \in Pumps : AsyncNetRun(p) => AnswerInv'
<1> USE DEF AnswerInv, CoType, StatusInv, CoroutineInv, coroutine, histories
<1>1. ASSUME NEW i \in Clients, AppElse(i) PROVE AnswerInv'
  <2>1. ReportInv'
    BY <1>1, AppSettles, Reported DEF AppElse
  <2>2. QED
    BY <1>1, <2>1, AppStatus DEF AppElse
<1>2. ASSUME NEW i \in Clients, DestroyedByApp(i) PROVE AnswerInv'
  <2>1. app \in [Clients -> AppLabels]
    BY DEF TypeInv, TypeOK
  <2>2. ReportInv'
    BY <1>2 DEF DestroyedByApp, Destroy, AppStep, steam, ReportInv, Reportable,
      Unsettled, Undelivered
  <2>3. QED
    BY <1>2, <2>1, <2>2 DEF DestroyedByApp, Destroy, AppStep, GotoApp, object
<1>3. ASSUME NEW p \in Pumps, NetElse(p) PROVE AnswerInv'
  <2> DEFINE told == net[p] = "handle" /\ Event(p).new = "Connected"
  <2>1. UNCHANGED <<app, cpc, iter, connection_status, answer, dropped, unsettled>>
    BY <1>3, NetStatus DEF NetElse
  <2>2. told => inst[p] \in Clients /\ Event(p) \in Undelivered /\ Event(p).conn \in Conns
                 /\ Event(p) = [conn |-> Event(p).conn, new |-> "Connected"]
    <3>1. SUFFICES ASSUME told PROVE inst[p] \in Clients /\ Event(p) \in Undelivered
            /\ Event(p).conn \in Conns /\ Event(p) = [conn |-> Event(p).conn, new |-> "Connected"]
      OBVIOUS
    <3>2. pending[p] \in Seq(Events) /\ pending[p] # <<>> /\ inst[p] \in Clients
      BY <3>1 DEF TypeInv, TypeOK, HasEvent, HasInstance
    <3>3. Event(p) = pending[p][1] /\ 1 \in DOMAIN pending[p] /\ Event(p) \in Events
      BY <3>2 DEF Event
    <3>4. QED
      BY <3>1, <3>2, <3>3 DEF Undelivered, Events
  <2>3. told => news' = [news EXCEPT ![inst[p]] = @ \cup {Event(p).conn}]
                /\ Event(p).conn \in Unsettled /\ Event(p).conn \in Conns
    BY <1>3, <2>2 DEF NetElse, Unsettled
  <2>4. ~told => news' = news
    BY <1>3 DEF NetElse
  <2>5. /\ \A j \in Clients : news'[j] \subseteq news[j] \cup Unsettled /\ news[j] \subseteq news'[j]
        /\ news' \in [Clients -> SUBSET Conns]
        /\ told => news'[inst[p]] # {}
    <3>1. news \in [Clients -> SUBSET Conns]
      OBVIOUS
    <3>2. CASE told
      <4> HIDE DEF AnswerInv, told
      <4>1. inst[p] \in Clients
        BY <2>2, <3>2
      <4>2. \A j \in Clients : news'[j] = IF j = inst[p] THEN news[j] \cup {Event(p).conn} ELSE news[j]
        BY <2>3, <3>1, <3>2
      <4>3. QED
        BY <2>3, <3>1, <3>2, <4>1, <4>2
    <3>3. CASE ~told
      BY <2>4, <3>1, <3>3
    <3>4. QED
      BY <3>2, <3>3
  <2>6. \A j \in Clients : m_connection_status'[j] = "connected" => m_connection_status[j] = "connected" \/ news'[j] # {}
    BY <1>3, <2>5, NetStatus DEF NetElse
  <2>7. CoType' /\ CoroutineInv'
    BY <1>3, <2>1, <2>5 DEF NetElse
  <2>8. StatusInv'
    BY <2>1, <2>5, <2>6
  <2>9. ReportInv'
    BY <1>3, <2>1, <2>5, NetSettles, Reported DEF NetElse
  <2>10. QED
    BY <2>7, <2>8, <2>9
<1>4. ASSUME NEW p \in Clients, CallbackReturn(p) PROVE AnswerInv'
  <2>1. ReportInv'
    BY <1>4 DEF CallbackReturn, DataReturn, NetStep, steam, loop, ReportInv, Reportable,
      Unsettled, Undelivered
  <2>2. QED
    BY <1>4, <2>1 DEF CallbackReturn, DataReturn, NetStep, object
<1>5. QED
  BY <1>1, <1>2, <1>3, <1>4 DEF AsyncAppRun, AsyncNetRun

\* A call that begins takes stock of what can still be reported.
LEMMA CallAnswer ==
  ASSUME TypeInv, AnswerInv, NEW i \in Clients, ConnectCall(i)
  PROVE  AnswerInv'
<1> USE DEF AnswerInv, CoType, StatusInv, CoroutineInv, object, AppStep, GotoApp, Idle,
  ConnectCall, ConnectBegin
<1>1. app \in [Clients -> AppLabels] /\ m_connection_status \in [Clients -> Status]
      /\ connects \in [Clients -> 0..MaxConnects]
  BY DEF TypeInv, TypeOK
<1>2. Unsettled' = Unsettled
  BY DEF steam, Unsettled, Undelivered
<1>3. \A c \in Unsettled' \cup news'[i] : Reportable(i, c)'
  BY <1>2 DEF Reportable
<1>4. ASSUME NEW j \in Clients, j # i, NEW c \in Unsettled' \cup news'[j]
      PROVE  Reportable(j, c)'
  <2>1. Reportable(j, c)
    BY <1>2, <1>4 DEF ReportInv
  <2>2. connects'[j] = connects[j] /\ unsettled'[j] = unsettled[j]
    BY <1>1, <1>4
  <2>3. QED
    BY <2>1, <2>2 DEF Reportable
<1>5. ReportInv'
  BY <1>3, <1>4 DEF ReportInv
<1>6. CoType'
  BY DEF Unsettled
<1>7. StatusInv' /\ CoroutineInv'
  BY <1>1
<1>8. QED
  BY <1>5, <1>6, <1>7

LEMMA OutsideAnswer ==
  ASSUME TypeInv, AnswerInv, AsyncOutside
  PROVE  AnswerInv'
<1> USE DEF AnswerInv, CoType, StatusInv, CoroutineInv, coroutine, histories, object,
  AppStep, GotoApp, Return, Idle
<1>1. app \in [Clients -> AppLabels] /\ m_connection_status \in [Clients -> Status]
  BY DEF TypeInv, TypeOK
<1>2. UNCHANGED <<connects, connState, callbacks, pending, histories>> => ReportInv'
  BY DEF ReportInv, Reportable, Unsettled, Undelivered
<1>3. ASSUME NEW i \in Clients, ConnectRefused(i) PROVE AnswerInv'
  BY <1>1, <1>2, <1>3 DEF ConnectRefused, vars, steam, loop
<1>4. ASSUME NEW i \in Clients, Stop(i) PROVE AnswerInv'
  BY <1>1, <1>2, <1>4 DEF Stop, StopBegin, steam
<1>5. ASSUME NEW i \in Clients, DropByApp(i) PROVE AnswerInv'
  BY <1>1, <1>2, <1>5 DEF DropByApp, StopBegin, steam
<1>6. ASSUME NEW i \in Clients, DropInCallback(i) PROVE AnswerInv'
  BY <1>2, <1>6 DEF DropInCallback, vars, steam, loop
<1>7. ASSUME NEW c \in Conns, PeerEstablish(c) \/ PeerGone(c),
             UNCHANGED <<coroutine, histories, dropped>>
      PROVE  AnswerInv'
  <2>1. ReportInv'
    BY <1>7, PeerSettles, Reported
  <2>2. QED
    BY <1>7, <2>1 DEF PeerEstablish, PeerGone
<1>8. QED
  BY <1>3, <1>4, <1>5, <1>6, <1>7, CallAnswer DEF AsyncOutside

LEMMA NextAnswer == ASSUME TypeInv, AnswerInv, [AsyncNext]_asyncVars PROVE AnswerInv'
<1>1. CASE AsyncQuiet \/ UNCHANGED asyncVars
  BY <1>1 DEF AsyncQuiet, Quiet, asyncVars, vars, object, steam, loop, coroutine,
    histories, AnswerInv, CoType, ReportInv, Reportable, Unsettled, Undelivered,
    StatusInv, CoroutineInv
<1>2. QED
  BY <1>1, CoAnswer, ElseAnswer, OutsideAnswer DEF AsyncNext

LEMMA AlwaysAnswerInv == AsyncSpec => []AnswerInv
<1>1. ClientInv /\ AnswerInv /\ [AsyncNext]_asyncVars => AnswerInv'
  BY NextAnswer DEF ClientInv
<1>2. AsyncInit => AnswerInv
  BY InitAnswer
<1>3. QED
  BY <1>1, <1>2, AlwaysClientInv, PTL DEF AsyncSpec

\* connect() never answers true because of a status that an earlier connection left: for any
\* number of clients, threads and reconnects, true means that since the call began the client
\* was told of a connection it may be told of then - the one the call opened, an earlier one
\* that was unsettled at that time, or one of another client.  The status is reset before
\* s_instance is published (udp_client.cpp:60-64), only a status handler writes connected, and
\* a connection is established at most once.
THEOREM TrueMeansNews == AsyncSpec => []TrueIsNews
<1>1. AnswerInv => TrueIsNews
  BY DEF AnswerInv, CoType, ReportInv, StatusInv, TrueIsNews
<1>2. QED
  BY <1>1, AlwaysAnswerInv, PTL

-----------------------------------------------------------------------------
LEMMA NextStatusIsDown ==
  ASSUME OneClient, ClientInv, fault = "none" => OneInv, AnswerInv, StatusIsDown,
         [AsyncNext]_asyncVars
  PROVE  StatusIsDown'
<1> USE DEF StatusIsDown
<1>1. CASE AsyncQuiet \/ UNCHANGED asyncVars
  BY <1>1 DEF AsyncQuiet, Quiet, asyncVars, vars, object, coroutine
<1>2. SUFFICES ASSUME fault = "none", fault' = "none" PROVE StatusIsDown'
  BY <1>1 DEF AsyncNext
<1> USE DEF coroutine, object, GotoCo, Return, Idle, AnswerInv, CoType, CoroutineInv
<1>3. /\ app \in [Clients -> AppLabels] /\ m_connection_status \in [Clients -> Status]
      /\ m_running \in [Clients -> BOOLEAN] /\ TypeInv
  BY DEF ClientInv, TypeInv, TypeOK
<1>4. ASSUME NEW i \in Clients, ConnectReturn(i) PROVE StatusIsDown'
  <2>1. app[i] = "spawn" /\ ~m_network_thread[i] /\ UNCHANGED <<m_connection_status, m_running>>
    BY <1>2, <1>4 DEF ConnectReturn, ConnectSpawn, AppStep
  <2>2. res[i] => m_connection_status[i] = "connecting"
    BY <1>2, <2>1 DEF OneInv, ConnectIsFresh
  <2>3. QED
    BY <1>2, <1>4, <2>1, <2>2 DEF ConnectReturn
<1>5. ASSUME NEW i \in Clients, Read(i) PROVE StatusIsDown'
  BY <1>2, <1>3, <1>5 DEF Read, vars
<1>6. ASSUME NEW i \in Clients, Wake(i) PROVE StatusIsDown'
  BY <1>2, <1>6 DEF Wake, vars
<1>7. ASSUME NEW i \in Clients, AppElse(i) PROVE StatusIsDown'
  BY <1>2, <1>3, <1>7, AppStatus DEF AppElse
<1>8. ASSUME NEW i \in Clients, DestroyedByApp(i) PROVE StatusIsDown'
  BY <1>2, <1>8 DEF DestroyedByApp, Destroy
<1>9. ASSUME NEW p \in Pumps, NetElse(p) PROVE StatusIsDown'
  <2>1. p \in Clients /\ \A j \in Clients : j = p
    BY DEF OneClient, Pumps
  <2>2. net[p] = "clear" => ~m_running[p] \/ app[p] = "spawn"
    BY <1>2, <2>1 DEF OneInv, GoneIsDown
  <2>3. UNCHANGED <<cpc, connection_status>>
    BY <1>9 DEF NetElse
  <2>4. \A j \in Clients : m_running'[j] => m_running[j]
    BY <1>2, <1>3, <1>9, NetStatus DEF NetElse
  <2>5. ASSUME NEW j \in Clients, m_running'[j], cpc[j] \in {"read", "sleep"}
        PROVE  m_connection_status'[j] \in {"connecting", "connected"}
    <3>1. m_running[j] /\ app[j] # "spawn" /\ j = p
      BY <2>1, <2>4, <2>5
    <3>2. m_connection_status[j] \in {"connecting", "connected"} /\ net[p] # "clear"
      BY <1>2, <2>2, <2>5, <3>1
    <3>3. QED
      BY <1>2, <1>3, <1>9, <2>5, <3>2, NetStatus DEF NetElse
  <2>6. QED
    BY <1>2, <2>3, <2>4, <2>5
<1>10. ASSUME NEW p \in Clients, CallbackReturn(p) PROVE StatusIsDown'
  BY <1>2, <1>10 DEF CallbackReturn, DataReturn
<1>11. ASSUME AsyncOutside PROVE StatusIsDown'
  BY <1>2, <1>3, <1>11 DEF AsyncOutside, ConnectRefused, ConnectCall, ConnectBegin, Stop,
    DropByApp,
    StopBegin, DropInCallback, PeerEstablish, PeerGone, vars
<1>12. QED
  BY <1>1, <1>4, <1>5, <1>6, <1>7, <1>8, <1>9, <1>10, <1>11 DEF AsyncNext, CoRun,
    AsyncAppRun, AsyncNetRun

AloneInv == ClientInv /\ AnswerInv /\ StatusIsDown /\ (fault = "none" => OneInv)

LEMMA AlwaysAloneInv == ASSUME OneClient PROVE AsyncSpec => []AloneInv
<1>1. AsyncInit => AloneInv
  BY InitClient, InitAnswer DEF AloneInv
<1>2. ASSUME AloneInv, [AsyncNext]_asyncVars PROVE AloneInv'
  <2>1. ClientInv'
    BY <1>2, AsyncClientInv DEF AloneInv
  <2>2. AnswerInv'
    BY <1>2, NextAnswer DEF AloneInv, ClientInv
  <2>3. StatusIsDown'
    BY <1>2, NextStatusIsDown DEF AloneInv
  <2>4. (fault = "none" => OneInv)'
    BY <1>2, AsyncOneInv DEF AloneInv
  <2>5. QED
    BY <2>1, <2>2, <2>3, <2>4 DEF AloneInv
<1>3. QED
  BY <1>1, <1>2, PTL DEF AsyncSpec

\* Once connect() has returned, a client that is alone in its process and runs has a
\* connection: a handler that still works for the previous connection cannot clear m_conn
\* under the new one, because its unjoined thread ends the process first.
THEOREM RunningIsConnected == ASSUME OneClient PROVE AsyncSpec => []RunningHasConnection
<1>1. AloneInv => RunningHasConnection
  BY DEF AloneInv, OneInv, RunningConn, RunningHasConnection
<1>2. QED
  BY <1>1, AlwaysAloneInv, PTL

\* A client that is alone in its process never receives on a closed handle, so the -1 of the
\* library is never read as a huge count (udp_client.cpp:106-127): stop() closes after the
\* join, and the status handler closes on the thread that receives.
THEOREM ReceivesOnOpen == ASSUME OneClient PROVE AsyncSpec => []ReceivesOnOpenConn
<1>1. AsyncInit => ReceivesOnOpenConn
  BY DEF AsyncInit, Init, ReceivesOnOpenConn
<1>2. ASSUME AloneInv, ReceivesOnOpenConn, [AsyncNext]_asyncVars PROVE ReceivesOnOpenConn'
  <2>1. CASE [Next]_vars
    <3>1. CASE fault # "none" \/ UNCHANGED vars
      BY <1>2, <2>1, <3>1 DEF Next, Quiet, vars, ReceivesOnOpenConn
    <3>2. ASSUME fault = "none", NEW i \in Clients, PollReceive(i) PROVE ReceivesOnOpenConn'
      <4>1. net[i] = "receive" /\ fault' = IF m_conn[i] = NoConn THEN "invalidConn"
              ELSE IF connState[m_conn[i]] = "closed" THEN "invalidConn" ELSE fault
        BY <3>2 DEF PollReceive, NetStep
      <4>2. m_conn[i] # NoConn /\ connState[m_conn[i]] # "closed"
        BY <1>2, <3>2, <4>1 DEF AloneInv, OneInv, ReceivesOnConn, OpenUntilClear
      <4>3. QED
        BY <3>2, <4>1, <4>2 DEF ReceivesOnOpenConn
    <3>3. ASSUME fault = "none", NEW i \in Clients, AppRun(i) PROVE ReceivesOnOpenConn'
      BY <3>3 DEF AppRun, TryConnectFails, TryConnectStarts, ConnectStore, ConnectSpawn,
        StopExchange, StopJoin, StopClose, ReceivesOnOpenConn
    <3>4. ASSUME fault = "none", NEW p \in Pumps, NetRun(p),
                 ~(p \in Clients /\ PollReceive(p))
          PROVE  ReceivesOnOpenConn'
      BY <3>4 DEF NetRun, LoopCheck, PollCheck, PollMessages, DataReturn, ForeignPump,
        RunCallbacks, RunCallbacksDone, StatusDropped, StatusChecked, StatusEnter,
        StatusIgnored, StatusProgress, StatusGone, StatusGoneClose, StatusGoneClear,
        ReceivesOnOpenConn
    <3>5. ASSUME fault = "none", Outside PROVE ReceivesOnOpenConn'
      BY <3>5 DEF Outside, ConnectBegin, StopBegin, Destroy, PeerEstablish, PeerGone,
        ReceivesOnOpenConn
    <3>6. ASSUME fault = "none", NEW p \in Pumps, NetRun(p) PROVE ReceivesOnOpenConn'
      BY <3>2, <3>4, <3>6
    <3>7. QED
      BY <2>1, <3>1, <3>3, <3>5, <3>6 DEF Next, Quiet
  <2>2. CASE Terminates
    BY <2>2 DEF Terminates, ReceivesOnOpenConn
  <2>3. QED
    BY <1>2, <2>1, <2>2, AsyncIsClient
<1>3. QED
  BY <1>1, <1>2, AlwaysAloneInv, PTL DEF AsyncSpec

\* When connect() answers false and the client runs nevertheless, the client was running
\* before the call or the limit of iterations was reached: for a client that is alone in its
\* process a failure that connect() has seen always comes with a client that is down.
THEOREM FalseIsStopped == ASSUME OneClient PROVE AsyncSpec => FalseMeansStopped
<1> DEFINE Claim(i) == cpc[i] # "done" /\ cpc'[i] = "done" /\ answer'[i] = "false" /\ m_running'[i]
                         => iter[i] = MaxIters \/ cpc[i] = "none"
<1>1. ASSUME AloneInv, [AsyncNext]_asyncVars, NEW i \in Clients
      PROVE  Claim(i) \/ UNCHANGED asyncVars
  <2>1. SUFFICES ASSUME cpc[i] # "done", cpc'[i] = "done", answer'[i] = "false", m_running'[i],
                        ~UNCHANGED asyncVars
                 PROVE  iter[i] = MaxIters \/ cpc[i] = "none"
    OBVIOUS
  <2>2. /\ cpc \in [Clients -> {"none", "call", "read", "sleep", "done"}] /\ iter \in [Clients -> Nat]
        /\ answer \in [Clients -> {"none", "true", "false"}] /\ TypeInv /\ MaxIters \in Nat
    BY <1>1, MaxItersTyped DEF AloneInv, AnswerInv, CoType, ClientInv
  <2>3. fault = "none"
    BY <1>1, <2>1 DEF AsyncNext, AsyncQuiet, coroutine
  <2>4. CASE \E j \in Clients : ConnectReturn(j)
    <3>1. PICK j \in Clients : ConnectReturn(j)
      BY <2>4
    <3>2. j = i
      BY <2>1, <2>2, <3>1 DEF ConnectReturn, GotoCo, Return
    <3>3. ~res[i] /\ app[i] = "spawn" /\ m_running' = m_running
      BY <2>1, <2>2, <3>1, <3>2 DEF ConnectReturn, ConnectSpawn, AppStep, GotoCo, Return,
        object
    <3>4. QED
      BY <1>1, <2>1, <2>3, <3>3 DEF AloneInv, OneInv, SpawnIsRes
  <2>5. CASE \E j \in Clients : Read(j)
    <3>1. PICK j \in Clients : Read(j)
      BY <2>5
    <3>2. j = i /\ iter[i] >= MaxIters /\ cpc[i] = "read"
      BY <2>1, <2>2, <3>1 DEF Read, GotoCo, Return
    <3>3. iter[i] <= MaxIters
      BY <1>1, <3>2 DEF AloneInv, AnswerInv, CoroutineInv
    <3>4. QED
      BY <2>2, <3>2, <3>3
  <2>6. CASE \E j \in Clients : Wake(j)
    <3>1. PICK j \in Clients : Wake(j)
      BY <2>6
    <3>2. j = i /\ cpc[i] = "sleep" /\ connection_status[i] \notin {"connecting", "connected"} /\ m_running' = m_running
      BY <2>1, <2>2, <3>1 DEF Wake, GotoCo, Return, vars, object
    <3>3. QED
      BY <1>1, <2>1, <2>3, <3>2 DEF AloneInv, StatusIsDown
  <2>7. CASE \E j \in Clients : ConnectRefused(j) \/ ConnectCall(j)
    <3>1. PICK j \in Clients : ConnectRefused(j) \/ ConnectCall(j)
      BY <2>7
    <3>2. j = i
      BY <2>1, <2>2, <3>1 DEF ConnectRefused, ConnectCall, Return
    <3>3. QED
      BY <2>1, <2>2, <3>1, <3>2 DEF ConnectRefused, ConnectCall, Return, Idle
  <2>8. CASE UNCHANGED cpc
    BY <2>1, <2>8
  <2>9. QED
    BY <1>1, <2>1, <2>4, <2>5, <2>6, <2>7, <2>8 DEF AsyncNext, CoRun, AsyncAppRun,
      AppElse, DestroyedByApp,
      AsyncNetRun, NetElse, CallbackReturn, AsyncOutside, Stop, DropByApp,
      DropInCallback, AsyncQuiet, coroutine
<1>2. AloneInv /\ [AsyncNext]_asyncVars => [\A i \in Clients : Claim(i)]_asyncVars
  BY <1>1
<1>3. QED
  BY <1>2, AlwaysAloneInv, PTL DEF AsyncSpec, FalseMeansStopped
=============================================================================
