--------------------------- MODULE KbServerProofs ---------------------------
(***************************************************************************)
(* Theorems about KbServer, for any number of servers, of connections and  *)
(* of starts.                                                              *)
(***************************************************************************)
EXTENDS KbServer, TLAPS

Record == [handle : {"null", "live", "dying", "freed"}, m_interface : 0..inits,
           m_is_running : BOOLEAN, m_network_thread : BOOLEAN, m_clients : SUBSET Conns,
           m_listen_socket : 0..MaxStarts, m_poll_group : 0..MaxStarts,
           starts : 0..MaxStarts]
States == {"free", "Connecting", "open", "gone", "closed"}
Sockets == Servers \X (1..MaxStarts)

\* The parts of the type invariant, by who changes them.
LibraryOK == s_initialized \in BOOLEAN /\ inits \in Nat /\ lib \in {0, inits}
ServersOK == server \in [Servers -> Record]
CallsOK ==
  /\ call \in [Servers ->
       {"none", "start_manual", "start_async", "close", "clear", "release", "free"}]
  /\ s_instance \in Servers \cup {NoServer}
PollsOK ==
  /\ pc \in [Servers -> {"idle", "poll", "run", "load"} \cup Handling]
  /\ batch \in [Servers -> SUBSET Conns] /\ conn \in [Servers -> Conns \cup {NoConn}]
  /\ inst \in [Servers -> Servers \cup {NoServer}]
  /\ \A t \in Servers : /\ pc[t] \in Handling => inst[t] \in Servers
                        /\ pc[t] \in Handling \cup {"load"} => conn[t] \in Conns
NetworkOK ==
  /\ connState \in [Conns -> States] /\ waitsAt \in [Conns -> Sockets \cup {<<>>}]
  /\ callbacks \subseteq Conns
RestOK ==
  /\ sockets \subseteq Sockets /\ groupless \subseteq Sockets
  /\ fault \in {"none", "nullInterface", "killedInterface", "invalidGroup", "nullInstance",
                "freedServer"}
  /\ late \subseteq Conns \X Servers \X Servers

LEMMA TypeParts ==
  /\ TypeOK <=> LibraryOK /\ ServersOK /\ CallsOK /\ PollsOK /\ NetworkOK /\ RestOK
  /\ TypeOK' <=> LibraryOK' /\ ServersOK' /\ CallsOK' /\ PollsOK' /\ NetworkOK' /\ RestOK'
  BY DEF TypeOK, LibraryOK, ServersOK, CallsOK, PollsOK, NetworkOK, RestOK, Record, States,
    Sockets

\* What a step leaves alone stays typed; a record is typed as long as inits is the same.
LEMMA LibraryFrame == LibraryOK /\ UNCHANGED library => LibraryOK'
  BY DEF LibraryOK, library
LEMMA ServersFrame == ServersOK /\ UNCHANGED <<library, server>> => ServersOK'
  BY DEF ServersOK, Record, library
LEMMA CallsFrame == CallsOK /\ UNCHANGED <<call, s_instance>> => CallsOK'
  BY DEF CallsOK
LEMMA PollsFrame == PollsOK /\ UNCHANGED polls => PollsOK'
  BY DEF PollsOK, polls
LEMMA NetworkFrame == NetworkOK /\ UNCHANGED network => NetworkOK'
  BY DEF NetworkOK, network
LEMMA RestFrame == RestOK /\ UNCHANGED <<sockets, fault, history>> => RestOK'
  BY DEF RestOK, history

LEMMA InitType == Init => TypeOK
<1> SUFFICES ASSUME Init PROVE TypeOK
  OBVIOUS
<1>1. NewServer \in Record
  BY KbConstants DEF Init, NewServer, Record
<1>2. ServersOK
  BY <1>1 DEF Init, ServersOK
<1>3. LibraryOK /\ CallsOK /\ PollsOK /\ NetworkOK /\ RestOK
  BY DEF Init, LibraryOK, CallsOK, PollsOK, NetworkOK, RestOK, Handling, States
<1>4. QED
  BY <1>2, <1>3, TypeParts

LEMMA BecomeType ==
  ASSUME NetworkOK, NEW cs, NEW st \in States, Become(cs, st), callbacks' \subseteq Conns
  PROVE  NetworkOK'
  BY DEF NetworkOK, Become, States

LEMMA CloseType == ASSUME NetworkOK, NEW cs, CloseConnections(cs) PROVE NetworkOK'
<1>1. "closed" \in States /\ callbacks' \subseteq Conns
  BY DEF CloseConnections, NetworkOK, States
<1>2. QED
  BY <1>1, BecomeType DEF CloseConnections

LEMMA FailsType ==
  ASSUME TypeOK, NEW f \in {"nullInterface", "killedInterface", "invalidGroup", "nullInstance",
                            "freedServer"}, Fails(f)
  PROVE  TypeOK'
<1>1. RestOK'
  BY TypeParts DEF RestOK, Fails, history
<1>2. QED
  BY <1>1, TypeParts, LibraryFrame, ServersFrame, CallsFrame, PollsFrame, NetworkFrame DEF Fails

LEMMA CrashType == ASSUME TypeOK, NEW s, Crash(s) PROVE TypeOK'
  BY FailsType DEF Crash

\* A step of poll() that changes no server.
LEMMA PollType ==
  ASSUME TypeOK, PollsOK', NetworkOK',
         UNCHANGED <<library, server, call, s_instance, sockets, fault, history>>
  PROVE  TypeOK'
  BY TypeParts, LibraryFrame, ServersFrame, CallsFrame, RestFrame

\* A step of a call that changes neither the library nor the polls.
LEMMA CallType ==
  ASSUME TypeOK, ServersOK', CallsOK', NetworkOK', RestOK', UNCHANGED <<library, polls>>
  PROVE  TypeOK'
  BY TypeParts, LibraryFrame, PollsFrame

LEMMA LibraryCallType ==
  ASSUME TypeOK, kb_networking_init \/ kb_networking_shutdown
  PROVE  TypeOK'
<1>1. CASE kb_networking_init
  <2>1. inits \in Nat /\ inits' = inits + 1
    BY <1>1 DEF kb_networking_init, TypeOK
  <2>2. LibraryOK'
    BY <1>1, <2>1 DEF kb_networking_init, LibraryOK
  <2>3. 0..inits \subseteq 0..inits'
    BY <2>1
  <2>4. Record \subseteq Record'
    BY <2>3 DEF Record
  <2>5. ServersOK'
    BY <1>1, <2>4, TypeParts DEF kb_networking_init, ServersOK
  <2>6. QED
    BY <1>1, <2>2, <2>5, TypeParts, CallsFrame, PollsFrame, NetworkFrame, RestFrame
      DEF kb_networking_init
<1>2. CASE kb_networking_shutdown
  <2>1. LibraryOK' /\ RestOK'
    BY <1>2, TypeParts DEF kb_networking_shutdown, Kill, LibraryOK, RestOK, history
  <2>2. ServersOK'
    BY <1>2, TypeParts DEF kb_networking_shutdown, Kill, ServersOK, Record
  <2>3. NetworkOK'
    <3>1. "closed" \in States
      BY DEF States
    <3>2. QED
      BY <1>2, <3>1, TypeParts, BecomeType DEF kb_networking_shutdown, Kill
  <2>4. QED
    BY <1>2, <2>1, <2>2, <2>3, TypeParts, CallsFrame, PollsFrame
      DEF kb_networking_shutdown, Kill
<1>3. QED
  BY <1>1, <1>2

LEMMA CallerType == ASSUME TypeOK, NEW s \in Servers, Caller(s) PROVE TypeOK'
<1>1. /\ server \in [Servers -> Record] /\ server[s] \in Record /\ 0 \in 0..MaxStarts
      /\ CallsOK /\ PollsOK /\ NetworkOK /\ RestOK /\ lib \in 0..inits
  BY TypeParts, KbConstants DEF LibraryOK, ServersOK
<1>2. CASE kb_server_create(s)
  <2>1. [server[s] EXCEPT !.handle = "live", !.m_interface = lib] \in Record
    BY <1>1 DEF Record
  <2>2. server' = [server EXCEPT ![s] = [server[s] EXCEPT !.handle = "live",
                                                          !.m_interface = lib]]
    BY <1>1, <1>2 DEF kb_server_create
  <2>3. ServersOK'
    BY <1>1, <1>2, <2>1, <2>2 DEF kb_server_create, ServersOK, library, Record
  <2>4. QED
    BY <1>1, <1>2, <2>3, CallType, CallsFrame, NetworkFrame, RestFrame DEF kb_server_create
<1>3. ASSUME NEW h \in {"live", "dying"}, Stop(s, h) PROVE TypeOK'
  <2>1. [server[s] EXCEPT !.handle = h, !.m_is_running = FALSE] \in Record
    BY <1>1 DEF Record
  <2>2. server' = [server EXCEPT ![s] = [server[s] EXCEPT !.handle = h,
                                                          !.m_is_running = FALSE]]
    BY <1>1, <1>3 DEF Stop
  <2>3. ServersOK'
    BY <1>1, <1>3, <2>1, <2>2 DEF Stop, ServersOK, library, Record
  <2>4. CallsOK'
    BY <1>1, <1>3 DEF Stop, CallsOK, AfterStop
  <2>5. QED
    BY <1>1, <1>3, <2>3, <2>4, CallType, NetworkFrame, RestFrame DEF Stop
<1>4. CASE kb_server_poll(s)
  <2>1. PollsOK'
    BY <1>1, <1>4 DEF kb_server_poll, BeginPoll, Goto, PollsOK, Handling
  <2>2. QED
    BY <1>1, <1>4, <2>1, PollType, NetworkFrame DEF kb_server_poll, BeginPoll
<1>5. ASSUME NEW how \in {"start_manual", "start_async"}, Start(s, how) PROVE TypeOK'
  <2> DEFINE k == server[s].starts + 1
  <2>1. k \in 1..MaxStarts /\ k \in 0..MaxStarts
    BY <1>1, <1>5, KbConstants DEF Start, Listen, Record
  <2> HIDE DEF k
  <2>2. [server[s] EXCEPT !.starts = k, !.m_listen_socket = k, !.m_poll_group = k] \in Record
    BY <1>1, <2>1 DEF Record
  <2>3. server' = [server EXCEPT ![s] = [server[s] EXCEPT !.starts = k, !.m_listen_socket = k,
                                                          !.m_poll_group = k]]
    BY <1>1, <1>5 DEF Start, Listen, k
  <2>4. ServersOK'
    BY <1>1, <1>5, <2>2, <2>3 DEF Start, Listen, ServersOK, library, Record
  <2>5. CallsOK' /\ RestOK'
    BY <1>1, <1>5, <2>1 DEF Start, Listen, CallsOK, RestOK, Sockets, history, k
  <2>6. QED
    BY <1>1, <1>5, <2>4, <2>5, CallType, NetworkFrame DEF Start, Listen
<1>6. CASE StartFails(s)
  <2> DEFINE k == server[s].starts + 1
  <2>1. k \in 1..MaxStarts /\ k \in 0..MaxStarts
    BY <1>1, <1>6, KbConstants DEF StartFails, Record
  <2> HIDE DEF k
  <2>2. /\ [server[s] EXCEPT !.starts = k, !.m_listen_socket = 0] \in Record
        /\ [server[s] EXCEPT !.starts = k, !.m_listen_socket = k, !.m_poll_group = 0] \in Record
    BY <1>1, <2>1 DEF Record
  <2>3. \/ server' = [server EXCEPT ![s] = [server[s] EXCEPT !.starts = k,
                                                             !.m_listen_socket = 0]]
        \/ server' = [server EXCEPT ![s] = [server[s] EXCEPT !.starts = k,
                                              !.m_listen_socket = k, !.m_poll_group = 0]]
    BY <1>1, <1>6 DEF StartFails, k
  <2>4. server' \in [Servers -> Record]
    BY <1>1, <2>2, <2>3
  <2>5. ServersOK'
    BY <1>6, <2>4 DEF StartFails, ServersOK, library, Record
  <2>6. RestOK'
    BY <1>1, <1>6, <2>1 DEF StartFails, RestOK, Sockets, k
  <2>7. QED
    BY <1>1, <1>6, <2>5, <2>6, CallType, CallsFrame, NetworkFrame DEF StartFails
<1>7. CASE Publish(s)
  <2>1. [server[s] EXCEPT !.m_is_running = TRUE,
                          !.m_network_thread = (call[s] = "start_async")] \in Record
    BY <1>1 DEF Record
  <2>2. server' = [server EXCEPT ![s] = [server[s] EXCEPT !.m_is_running = TRUE,
                                           !.m_network_thread = (call[s] = "start_async")]]
    BY <1>1, <1>7 DEF Publish
  <2>3. ServersOK'
    BY <1>1, <1>7, <2>1, <2>2 DEF Publish, ServersOK, library, Record
  <2>4. CallsOK'
    BY <1>1, <1>7 DEF Publish, CallsOK
  <2>5. QED
    BY <1>1, <1>7, <2>3, <2>4, CallType, NetworkFrame, RestFrame DEF Publish
<1>8. CASE StopClose(s)
  <2>1. server' \in [Servers -> Record]
    BY <1>1, <1>8 DEF StopClose, CloseClients, Record
  <2>2. ServersOK'
    BY <1>8, <2>1 DEF StopClose, CloseClients, ServersOK, library, Record
  <2>3. CallsOK'
    BY <1>1, <1>8 DEF StopClose, CloseClients, CallsOK
  <2>4. QED
    BY <1>1, <1>8, <2>2, <2>3, CallType, CloseType, RestFrame DEF StopClose, CloseClients
<1>9. CASE StopClear(s)
  <2>1. server' \in [Servers -> Record]
    BY <1>1, <1>9 DEF StopClear, Record
  <2>2. ServersOK'
    BY <1>9, <2>1 DEF StopClear, ServersOK, library, Record
  <2>3. CallsOK'
    BY <1>1, <1>9 DEF StopClear, CallsOK
  <2>4. QED
    BY <1>1, <1>9, <2>2, <2>3, CallType, NetworkFrame, RestFrame DEF StopClear
<1>10. CASE StopRelease(s)
  <2>1. [server[s] EXCEPT !.m_listen_socket = 0, !.m_poll_group = 0] \in Record
    BY <1>1 DEF Record
  <2>2. server' = [server EXCEPT ![s] = [server[s] EXCEPT !.m_listen_socket = 0,
                                                          !.m_poll_group = 0]]
    BY <1>1, <1>10 DEF StopRelease
  <2>3. ServersOK'
    BY <1>1, <1>10, <2>1, <2>2 DEF StopRelease, ServersOK, library, Record
  <2>4. CallsOK' /\ RestOK'
    BY <1>1, <1>10 DEF StopRelease, CallsOK, AfterStop, RestOK, history
  <2>5. QED
    BY <1>1, <1>10, <2>3, <2>4, CallType, CloseType DEF StopRelease
<1>11. CASE Free(s)
  <2>1. server' \in [Servers -> Record]
    BY <1>1, <1>11 DEF Free, Record
  <2>2. ServersOK'
    BY <1>11, <2>1 DEF Free, ServersOK, library, Record
  <2>3. CallsOK'
    BY <1>1, <1>11 DEF Free, CallsOK
  <2>4. QED
    BY <1>1, <1>11, <2>2, <2>3, CallType, NetworkFrame, RestFrame DEF Free
<1>12. ASSUME NEW c \in Conns, kb_server_disconnect(s, c) PROVE TypeOK'
  <2>1. server' \in [Servers -> Record]
    BY <1>1, <1>12 DEF kb_server_disconnect, Record
  <2>2. ServersOK'
    BY <1>12, <2>1 DEF kb_server_disconnect, ServersOK, library, Record
  <2>3. QED
    BY <1>1, <1>12, <2>2, CallType, CallsFrame, CloseType, RestFrame DEF kb_server_disconnect
<1>13. QED
  BY <1>2, <1>3, <1>4, <1>5, <1>6, <1>7, <1>8, <1>9, <1>10, <1>11, <1>12, CrashType
    DEF Caller, kb_server_stop, kb_server_destroy, CallCrash, StopCrash

LEMMA PollStepType == ASSUME TypeOK, NEW t \in Servers, Poll(t) PROVE TypeOK'
<1>1. ServersOK /\ CallsOK /\ PollsOK /\ NetworkOK /\ RestOK
  BY TypeParts
<1>2. CASE network_loop(t)
  <2>1. PollsOK'
    BY <1>1, <1>2 DEF network_loop, BeginPoll, Goto, PollsOK, Handling
  <2>2. QED
    BY <1>1, <1>2, <2>1, PollType, NetworkFrame DEF network_loop, BeginPoll
<1>3. CASE RunCallbacks(t)
  <2>1. PollsOK' /\ NetworkOK'
    BY <1>1, <1>3 DEF RunCallbacks, Goto, Rest, PollsOK, NetworkOK, Handling
  <2>2. QED
    BY <1>3, <2>1, PollType DEF RunCallbacks
<1>4. CASE Test(t)
  <2>1. PollsOK'
    BY <1>1, <1>4 DEF Test, Goto, Rest, PollsOK, Handling
  <2>2. QED
    BY <1>1, <1>4, <2>1, PollType, NetworkFrame DEF Test
<1>5. CASE Load(t)
  <2>1. PollsOK'
    BY <1>1, <1>5 DEF Load, Goto, PollsOK, CallsOK, Handling
  <2>2. QED
    BY <1>1, <1>5, <2>1, PollType, NetworkFrame DEF Load
<1>6. ASSUME Done(t) PROVE PollsOK'
  BY <1>1, <1>6 DEF Done, Goto, Rest, PollsOK, Handling
<1>7. ASSUME Refuse(t) PROVE PollsOK' /\ NetworkOK'
  BY <1>1, <1>6, <1>7, CloseType DEF Refuse
<1>8. CASE Handle(t)
  <2>1. ASSUME Become({conn[t]}, "open"), Goto(t, "group"),
               UNCHANGED <<callbacks, batch, conn, inst>>, pc[t] = "handle"
        PROVE  PollsOK' /\ NetworkOK'
    <3>1. "open" \in States
      BY DEF States
    <3>2. NetworkOK'
      BY <1>1, <2>1, <3>1, BecomeType DEF NetworkOK
    <3>3. PollsOK'
      BY <1>1, <2>1 DEF Goto, PollsOK, Handling
    <3>4. QED
      BY <3>2, <3>3
  <2>2. PollsOK' /\ NetworkOK'
    BY <1>7, <1>8, <2>1 DEF Handle
  <2>3. QED
    BY <1>8, <2>2, PollType DEF Handle
<1>9. CASE SetGroup(t)
  <2>1. ASSUME Goto(t, "insert"), UNCHANGED <<network, batch, conn, inst>>, pc[t] = "group"
        PROVE  PollsOK' /\ NetworkOK'
    <3>1. PollsOK'
      BY <1>1, <2>1 DEF Goto, PollsOK, Handling
    <3>2. QED
      BY <1>1, <2>1, <3>1, NetworkFrame
  <2>2. PollsOK' /\ NetworkOK'
    BY <1>7, <1>9, <2>1 DEF SetGroup
  <2>3. QED
    BY <1>9, <2>2, PollType DEF SetGroup
<1>10. CASE Insert(t)
  <2>1. inst[t] \in Servers /\ conn[t] \in Conns
    BY <1>1, <1>10 DEF Insert, PollsOK, Handling
  <2>2. server' \in [Servers -> Record]
    BY <1>1, <1>10, <2>1 DEF Insert, ServersOK, Record
  <2>3. ServersOK'
    BY <1>10, <2>2 DEF Insert, ServersOK, library, Record
  <2>4. RestOK'
    BY <1>1, <1>10, <2>1 DEF Insert, RestOK
  <2>5. PollsOK'
    BY <1>6, <1>10 DEF Insert
  <2>6. QED
    BY <1>1, <1>10, <2>3, <2>4, <2>5, TypeParts, LibraryFrame, CallsFrame, NetworkFrame
      DEF Insert
<1>11. CASE PollCrash(t) \/ LoadCrash(t) \/ HandlerCrash(t)
  BY <1>11, CrashType, FailsType DEF PollCrash, LoadCrash, HandlerCrash
<1>12. QED
  BY <1>2, <1>3, <1>4, <1>5, <1>8, <1>9, <1>10, <1>11 DEF Poll

LEMMA NextType == TypeOK /\ [Next]_vars => TypeOK'
<1> SUFFICES ASSUME TypeOK, [Next]_vars PROVE TypeOK'
  OBVIOUS
<1>1. CASE UNCHANGED vars
  BY <1>1, TypeParts, LibraryFrame, ServersFrame, CallsFrame, PollsFrame, NetworkFrame, RestFrame
    DEF vars
<1>2. ASSUME NEW c \in Conns, PeerGone(c) \/ PeerConnect(c) PROVE TypeOK'
  <2>1. NetworkOK /\ RestOK
    BY TypeParts
  <2>2. NetworkOK'
    <3>1. CASE PeerGone(c)
      <4>1. "gone" \in States /\ callbacks' \subseteq Conns
        BY <2>1, <3>1 DEF PeerGone, NetworkOK, States
      <4>2. QED
        BY <2>1, <3>1, <4>1, BecomeType DEF PeerGone
    <3>2. CASE PeerConnect(c)
      BY <2>1, <3>2 DEF PeerConnect, NetworkOK, RestOK, States
    <3>3. QED
      BY <1>2, <3>1, <3>2
  <2>3. QED
    BY <1>2, <2>2, TypeParts, LibraryFrame, ServersFrame, CallsFrame, PollsFrame, RestFrame
      DEF PeerGone, PeerConnect
<1>3. QED
  BY <1>1, <1>2, LibraryCallType, CallerType, PollStepType DEF Next

\* Type correctness of the C server API: in particular every handle, socket and
\* group is one that some start made, an interface one that some init made, and a
\* poll() that is inside a handler has a server and a connection.
THEOREM TypeCorrect == Spec => []TypeOK
  BY InitType, NextType, PTL DEF Spec

-----------------------------------------------------------------------------
(* The servers.                                                             *)

\* A server that runs is whole and inside no call but a poll; one that is about to
\* be published, or whose thread is being joined, still has its poll group.
StageInv ==
  \A s \in Servers :
    /\ server[s].m_is_running =>
         server[s].handle = "live" /\ server[s].m_poll_group # 0 /\ call[s] = "none"
    /\ call[s] \in {"start_manual", "start_async"} =>
         server[s].handle = "live" /\ server[s].m_poll_group # 0
    /\ call[s] = "close" => server[s].handle # "freed" /\ server[s].m_poll_group # 0

ServerInv ==
  StageInv /\ InstanceIsRunning /\ OpenIsOwned /\ OwnHandlerIsSafe /\ LeakOnlyByFailedStart

LEMMA InitServerInv == Init => ServerInv
  BY DEF Init, NewServer, ServerInv, StageInv, InstanceIsRunning, OpenIsOwned, OwnHandlerIsSafe,
    LeakOnlyByFailedStart, Handling

\* A server that is inside no call and does not run has no socket but those of failed
\* starts, owns no open connection, and no poll() of its own is in its handler.
LEMMA Launched ==
  ASSUME TypeOK, ServerInv, NEW s \in Servers,
         StartFails(s) \/ \E how \in {"start_manual", "start_async"} : Start(s, how)
  PROVE  ServerInv'
<1> DEFINE k == server[s].starts + 1
<1>1. /\ server \in [Servers -> Record] /\ k \in 1..MaxStarts /\ ~server[s].m_is_running
      /\ server[s].handle = "live" /\ call[s] = "none" /\ call \in [Servers ->
       {"none", "start_manual", "start_async", "close", "clear", "release", "free"}]
      /\ s_instance \in Servers \cup {NoServer}
      /\ UNCHANGED <<s_instance, polls, network, late>>
  BY TypeParts, KbConstants DEF ServersOK, CallsOK, Start, Listen, StartFails, CallerFree, Record,
    history
<1>2. /\ \A u \in Servers : /\ server'[u].handle = server[u].handle
                             /\ server'[u].m_is_running = server[u].m_is_running
                             /\ server'[u].m_clients = server[u].m_clients
      /\ \A u \in Servers \ {s} : server'[u] = server[u] /\ call'[u] = call[u]
      /\ call'[s] \in {"none", "start_manual", "start_async"}
  BY <1>1 DEF Start, Listen, StartFails, Record
<1>3. /\ call'[s] # "none" => /\ server'[s].m_poll_group = k /\ server'[s].m_listen_socket = k
                              /\ sockets' = sockets \cup {<<s, k>>} /\ groupless' = groupless
      /\ call'[s] = "none" => sockets' \ groupless' \subseteq sockets \ groupless
  BY <1>1 DEF Start, Listen, StartFails, Record, history
<1> HIDE DEF k
<1>4. StageInv'
  BY <1>1, <1>2, <1>3 DEF ServerInv, StageInv
<1>5. InstanceIsRunning'
  BY <1>1, <1>2 DEF ServerInv, InstanceIsRunning
<1>6. OpenIsOwned'
  BY <1>1, <1>2 DEF ServerInv, OpenIsOwned, network, polls
<1>7. OwnHandlerIsSafe'
  BY <1>1, <1>2 DEF ServerInv, OwnHandlerIsSafe, polls
<1>8. LeakOnlyByFailedStart'
  BY <1>1, <1>2, <1>3 DEF ServerInv, LeakOnlyByFailedStart
<1>9. QED
  BY <1>4, <1>5, <1>6, <1>7, <1>8 DEF ServerInv

LEMMA Published == ASSUME TypeOK, ServerInv, NEW s \in Servers, Publish(s) PROVE ServerInv'
<1>1. /\ server \in [Servers -> Record]
      /\ call \in [Servers ->
           {"none", "start_manual", "start_async", "close", "clear", "release", "free"}]
  BY TypeParts DEF ServersOK, CallsOK
<1>2. /\ \A u \in Servers : /\ server'[u].handle = server[u].handle
                             /\ server'[u].m_poll_group = server[u].m_poll_group
                             /\ server'[u].m_listen_socket = server[u].m_listen_socket
                             /\ server'[u].m_clients = server[u].m_clients
      /\ \A u \in Servers \ {s} : server'[u] = server[u] /\ call'[u] = call[u]
      /\ server'[s].m_is_running /\ call'[s] = "none"
      /\ call[s] \in {"start_manual", "start_async"}
  BY <1>1 DEF Publish, Record
<1>3. StageInv' /\ InstanceIsRunning'
  BY <1>1, <1>2 DEF Publish, ServerInv, StageInv, InstanceIsRunning
<1>4. OpenIsOwned'
  BY <1>1, <1>2 DEF Publish, ServerInv, OpenIsOwned, network, polls, history
<1>5. OwnHandlerIsSafe'
  BY <1>1, <1>2 DEF Publish, ServerInv, OwnHandlerIsSafe, polls
<1>6. LeakOnlyByFailedStart'
  BY <1>1, <1>2 DEF Publish, ServerInv, LeakOnlyByFailedStart, history
<1>7. QED
  BY <1>3, <1>4, <1>5, <1>6 DEF ServerInv

\* stop() takes s_instance from whoever has it; a server that ran has its clients
\* closed next.
LEMMA StopBegun ==
  ASSUME TypeOK, ServerInv, NEW s \in Servers, NEW h \in {"live", "dying"}, Stop(s, h)
  PROVE  ServerInv'
<1>1. /\ server \in [Servers -> Record] /\ call[s] = "none" /\ server[s].handle = "live"
      /\ call \in [Servers ->
           {"none", "start_manual", "start_async", "close", "clear", "release", "free"}]
  BY TypeParts DEF ServersOK, CallsOK, Stop, CallerFree
<1>2. /\ \A u \in Servers : /\ server'[u].m_poll_group = server[u].m_poll_group
                             /\ server'[u].m_listen_socket = server[u].m_listen_socket
                             /\ server'[u].m_clients = server[u].m_clients
      /\ \A u \in Servers \ {s} : server'[u] = server[u] /\ call'[u] = call[u]
      /\ ~server'[s].m_is_running /\ server'[s].handle = h
      /\ IF server[s].m_is_running THEN call'[s] = "close" ELSE call'[s] \in {"none", "free"}
  BY <1>1 DEF Stop, AfterStop, Record
<1>3. StageInv'
  BY <1>1, <1>2 DEF ServerInv, StageInv
<1>4. InstanceIsRunning'
  BY DEF Stop, InstanceIsRunning
<1>5. OpenIsOwned'
  BY <1>1, <1>2 DEF Stop, ServerInv, OpenIsOwned, network, polls, history
<1>6. OwnHandlerIsSafe'
  BY <1>1, <1>2 DEF Stop, ServerInv, OwnHandlerIsSafe, polls
<1>7. LeakOnlyByFailedStart'
  BY <1>1, <1>2 DEF Stop, ServerInv, LeakOnlyByFailedStart, history
<1>8. QED
  BY <1>3, <1>4, <1>5, <1>6, <1>7 DEF ServerInv

\* Closing connections opens none.
LEMMA Closing ==
  ASSUME NetworkOK, NEW cs, CloseConnections(cs)
  PROVE  \A c \in Conns : connState'[c] = "open" => connState[c] = "open" /\ c \notin cs
  BY DEF NetworkOK, CloseConnections, Become

\* The rest of stop(): the own thread was joined, so that no poll() of the server
\* itself is in its handler, and what its map had is closed before it is cleared.
LEMMA StopGoesOn ==
  ASSUME TypeOK, ServerInv, NEW s \in Servers,
         StopClose(s) \/ StopClear(s) \/ StopRelease(s)
  PROVE  ServerInv'
<1>1. /\ server \in [Servers -> Record] /\ call[s] \in {"close", "clear", "release"}
      /\ call \in [Servers ->
           {"none", "start_manual", "start_async", "close", "clear", "release", "free"}]
      /\ s_instance \in Servers \cup {NoServer} /\ NetworkOK
      /\ UNCHANGED <<s_instance, polls, history>> /\ ~server[s].m_is_running
  BY TypeParts DEF ServersOK, CallsOK, StopClose, CloseClients, StopClear, StopRelease, ServerInv,
    StageInv
<1>2. /\ \A u \in Servers \ {s} : server'[u] = server[u] /\ call'[u] = call[u]
      /\ ~server'[s].m_is_running
      /\ call'[s] \in {"clear", "release", "free", "none"}
  BY <1>1 DEF StopClose, CloseClients, StopClear, StopRelease, AfterStop, Record
<1>3. /\ \A c \in Conns : connState'[c] = "open" => connState[c] = "open"
      /\ \A c \in Conns : connState'[c] = "open" /\ c \in server[s].m_clients => call[s] # "close"
  BY <1>1, Closing DEF StopClose, CloseClients, StopClear, StopRelease, network
<1>4. StageInv' /\ InstanceIsRunning'
  BY <1>1, <1>2 DEF ServerInv, StageInv, InstanceIsRunning
<1>5. OpenIsOwned'
  BY <1>1, <1>2, <1>3 DEF ServerInv, OpenIsOwned, polls, history
<1>6. OwnHandlerIsSafe'
  <2>1. pc[s] \in Handling => inst[s] # s
    BY <1>1 DEF StopClose, StopClear, StopRelease, ServerInv, OwnHandlerIsSafe, Handling
  <2>2. QED
    BY <1>1, <1>2, <2>1 DEF ServerInv, OwnHandlerIsSafe, polls
<1>7. LeakOnlyByFailedStart'
  <2>1. CASE StopRelease(s)
    BY <1>1, <1>2, <2>1 DEF StopRelease, ServerInv, LeakOnlyByFailedStart, history
  <2>2. CASE StopClose(s) \/ StopClear(s)
    <3>1. /\ server'[s].m_listen_socket = server[s].m_listen_socket /\ UNCHANGED sockets
          /\ call'[s] \in {"clear", "release"}
      BY <1>1, <2>2 DEF StopClose, CloseClients, StopClear, Record
    <3>2. QED
      BY <1>1, <1>2, <3>1 DEF ServerInv, LeakOnlyByFailedStart, history
  <2>3. QED
    BY <2>1, <2>2
<1>8. QED
  BY <1>4, <1>5, <1>6, <1>7 DEF ServerInv

\* kb_server_create, the end of kb_server_destroy, and kb_server_disconnect.
LEMMA OtherCalls ==
  ASSUME TypeOK, ServerInv, NEW s \in Servers,
         kb_server_create(s) \/ Free(s) \/ \E c \in Conns : kb_server_disconnect(s, c)
  PROVE  ServerInv'
<1>1. /\ server \in [Servers -> Record] /\ NetworkOK
      /\ call \in [Servers ->
           {"none", "start_manual", "start_async", "close", "clear", "release", "free"}]
      /\ s_instance \in Servers \cup {NoServer}
      /\ UNCHANGED <<polls, sockets, history>>
  BY TypeParts DEF ServersOK, CallsOK, kb_server_create, Free, kb_server_disconnect
<1>2. CASE kb_server_create(s)
  <2>1. /\ \A u \in Servers \ {s} : server'[u] = server[u]
        /\ server'[s].handle = "live"
        /\ server'[s].m_is_running = server[s].m_is_running
        /\ server'[s].m_poll_group = server[s].m_poll_group
        /\ server'[s].m_listen_socket = server[s].m_listen_socket
        /\ server'[s].m_clients = server[s].m_clients
        /\ UNCHANGED <<call, s_instance, network>>
    BY <1>1, <1>2 DEF kb_server_create, Record
  <2>2. StageInv'
    BY <2>1 DEF ServerInv, StageInv
  <2>3. InstanceIsRunning'
    BY <1>1, <2>1 DEF ServerInv, InstanceIsRunning
  <2>4. OpenIsOwned'
    BY <1>1, <2>1 DEF ServerInv, OpenIsOwned, polls, network, history
  <2>5. OwnHandlerIsSafe'
    BY <1>1, <2>1 DEF ServerInv, OwnHandlerIsSafe, polls
  <2>6. LeakOnlyByFailedStart'
    BY <1>1, <2>1 DEF ServerInv, LeakOnlyByFailedStart, history
  <2>7. QED
    BY <2>2, <2>3, <2>4, <2>5, <2>6 DEF ServerInv
<1>3. CASE Free(s)
  <2>1. /\ \A u \in Servers \ {s} : server'[u] = server[u] /\ call'[u] = call[u]
        /\ call[s] = "free" /\ ~server[s].m_is_running
    BY <1>1, <1>3 DEF Free, ServerInv, StageInv
  <2>2. /\ call'[s] = "none" /\ ~server'[s].m_is_running
        /\ s_instance' = NoServer /\ UNCHANGED network
    BY <1>1, <1>3, <2>1 DEF Free, Record
  <2>3. StageInv'
    BY <2>1, <2>2 DEF ServerInv, StageInv
  <2>4. InstanceIsRunning'
    BY <2>2 DEF InstanceIsRunning
  <2>5. OpenIsOwned'
    BY <1>1, <2>1, <2>2 DEF ServerInv, OpenIsOwned, polls, network, history
  <2>6. OwnHandlerIsSafe'
    BY <1>1, <2>1, <2>2 DEF ServerInv, OwnHandlerIsSafe, polls
  <2>7. LeakOnlyByFailedStart'
    BY <1>1, <2>1, <2>2 DEF ServerInv, LeakOnlyByFailedStart, history
  <2>8. QED
    BY <2>3, <2>4, <2>5, <2>6, <2>7 DEF ServerInv
<1>4. ASSUME NEW c \in Conns, kb_server_disconnect(s, c) PROVE ServerInv'
  <2>1. /\ \A u \in Servers : /\ server'[u].handle = server[u].handle
                               /\ server'[u].m_is_running = server[u].m_is_running
                               /\ server'[u].m_poll_group = server[u].m_poll_group
                               /\ server'[u].m_listen_socket = server[u].m_listen_socket
                               /\ server[u].m_clients \ {c} \subseteq server'[u].m_clients
        /\ UNCHANGED <<call, s_instance>>
    BY <1>1, <1>4 DEF kb_server_disconnect, Record
  <2>2. \A d \in Conns : connState'[d] = "open" => connState[d] = "open" /\ d # c
    BY <1>1, <1>4, Closing DEF kb_server_disconnect
  <2>3. StageInv' /\ InstanceIsRunning'
    BY <1>1, <2>1 DEF ServerInv, StageInv, InstanceIsRunning
  <2>4. OpenIsOwned'
    BY <1>1, <2>1, <2>2 DEF ServerInv, OpenIsOwned, polls, history
  <2>5. OwnHandlerIsSafe' /\ LeakOnlyByFailedStart'
    BY <1>1, <2>1 DEF ServerInv, OwnHandlerIsSafe, LeakOnlyByFailedStart, polls, history
  <2>6. QED
    BY <2>3, <2>4, <2>5 DEF ServerInv
<1>5. QED
  BY <1>2, <1>3, <1>4

\* What OpenIsOwned says of an open connection.
Kept(c) ==
  \/ \E s \in Servers : /\ c \in server[s].m_clients
                        /\ server[s].m_is_running \/ call[s] = "close"
  \/ \E t \in Servers : pc[t] \in Handling /\ conn[t] = c
  \/ \E r \in late : r[1] = c /\ r[2] # r[3]

LEMMA OpenIsKept ==
  /\ OpenIsOwned <=> \A c \in Conns : connState[c] = "open" => Kept(c)
  /\ OpenIsOwned' <=> \A c \in Conns : connState'[c] = "open" => Kept(c)'
  BY DEF OpenIsOwned, Kept

\* What steps that change no server keep.
LEMMA ServersAlone ==
  ASSUME ServerInv, UNCHANGED <<server, call, s_instance, sockets, history>>
  PROVE  StageInv' /\ InstanceIsRunning' /\ LeakOnlyByFailedStart'
  BY DEF ServerInv, StageInv, InstanceIsRunning, LeakOnlyByFailedStart, history

\* A step of the poll() of t up to the call of the handler.
LEMMA PollKeeps ==
  ASSUME TypeOK, ServerInv, NEW t \in Servers,
         \/ kb_server_poll(t) \/ network_loop(t) \/ RunCallbacks(t) \/ Test(t) \/ Load(t)
  PROVE  ServerInv'
<1>1. /\ pc \in [Servers -> {"idle", "poll", "run", "load"} \cup Handling]
      /\ conn \in [Servers -> Conns \cup {NoConn}]
      /\ inst \in [Servers -> Servers \cup {NoServer}]
      /\ s_instance \in Servers \cup {NoServer}
  BY TypeParts DEF PollsOK, CallsOK
<1>2. UNCHANGED <<server, call, s_instance, sockets, connState, history>>
  BY DEF kb_server_poll, network_loop, BeginPoll, RunCallbacks, Test, Load, network
<1>3. /\ pc[t] \notin Handling
      /\ \A u \in Servers \ {t} : pc'[u] = pc[u] /\ conn'[u] = conn[u] /\ inst'[u] = inst[u]
  BY <1>1 DEF kb_server_poll, network_loop, BeginPoll, RunCallbacks, Test, Load, Goto, Handling
<1>4. pc'[t] \in Handling => inst'[t] = s_instance /\ s_instance # NoServer
  BY <1>1 DEF kb_server_poll, network_loop, BeginPoll, RunCallbacks, Test, Load, Goto, Rest,
    Handling
<1>5. OpenIsOwned'
  BY <1>2, <1>3 DEF ServerInv, OpenIsOwned, history
<1>6. OwnHandlerIsSafe'
  <2>1. SUFFICES ASSUME NEW u \in Servers, pc'[u] \in Handling, inst'[u] = u
                 PROVE  /\ server[u].handle # "freed" /\ server[u].m_poll_group # 0
                        /\ server[u].m_is_running \/ call[u] = "close"
    BY <1>2 DEF OwnHandlerIsSafe
  <2>2. CASE u = t
    BY <1>1, <1>4, <2>1, <2>2 DEF ServerInv, InstanceIsRunning
  <2>3. CASE u # t
    BY <1>3, <2>1, <2>3 DEF ServerInv, OwnHandlerIsSafe
  <2>4. QED
    BY <2>2, <2>3
<1>7. QED
  BY <1>2, <1>5, <1>6, ServersAlone DEF ServerInv

\* The handler up to the insertion: what it accepts it has in its hands, and what it
\* lets go of is closed.
LEMMA HandlerKeeps ==
  ASSUME TypeOK, ServerInv, NEW t \in Servers, Handle(t) \/ SetGroup(t)
  PROVE  ServerInv'
<1>1. /\ pc \in [Servers -> {"idle", "poll", "run", "load"} \cup Handling]
      /\ conn \in [Servers -> Conns \cup {NoConn}] /\ conn[t] \in Conns
      /\ inst \in [Servers -> Servers \cup {NoServer}] /\ NetworkOK
  BY TypeParts DEF PollsOK, Handle, SetGroup, Handling
<1>2. UNCHANGED <<server, call, s_instance, sockets, history>>
  BY DEF Handle, SetGroup
<1>3. /\ \A u \in Servers \ {t} : pc'[u] = pc[u] /\ conn'[u] = conn[u] /\ inst'[u] = inst[u]
      /\ pc[t] \in Handling
  BY <1>1 DEF Handle, SetGroup, Refuse, Done, Goto, Handling
<1>4. \/ /\ pc'[t] \in Handling /\ conn'[t] = conn[t] /\ inst'[t] = inst[t]
         /\ \A c \in Conns \ {conn[t]} : connState'[c] = connState[c]
      \/ /\ pc'[t] \notin Handling
         /\ \A c \in Conns : connState'[c] = "open" => connState[c] = "open" /\ c # conn[t]
  <2>1. CASE Refuse(t)
    BY <1>1, <2>1, Closing DEF Refuse, Done, Goto, Rest, Handling
  <2>2. CASE ~Refuse(t)
    BY <1>1, <2>2 DEF Handle, SetGroup, Goto, Handling, Become, network
  <2>3. QED
    BY <2>1, <2>2
<1>5. OpenIsOwned'
  <2>1. SUFFICES ASSUME NEW c \in Conns, connState'[c] = "open"
                 PROVE  Kept(c)'
    BY OpenIsKept
  <2>2. CASE c = conn[t]
    BY <1>4, <2>1, <2>2 DEF Kept
  <2>3. CASE c # conn[t]
    <3>1. connState[c] = "open"
      BY <1>4, <2>1, <2>3
    <3>2. Kept(c)
      BY <3>1, OpenIsKept DEF ServerInv
    <3>3. QED
      BY <1>2, <1>3, <2>3, <3>2 DEF Kept, history
  <2>4. QED
    BY <2>2, <2>3
<1>6. OwnHandlerIsSafe'
  BY <1>2, <1>3, <1>4 DEF ServerInv, OwnHandlerIsSafe
<1>7. QED
  BY <1>2, <1>5, <1>6, ServersAlone DEF ServerInv

\* The insertion: into a server that runs or closes its clients next, or late; and a
\* poll() that inserts into its own server is not late.
LEMMA Inserted == ASSUME TypeOK, ServerInv, NEW t \in Servers, Insert(t) PROVE ServerInv'
<1> DEFINE s == inst[t]
<1>1. /\ pc \in [Servers -> {"idle", "poll", "run", "load"} \cup Handling]
      /\ conn \in [Servers -> Conns \cup {NoConn}] /\ conn[t] \in Conns
      /\ inst \in [Servers -> Servers \cup {NoServer}] /\ s \in Servers
      /\ server \in [Servers -> Record] /\ s_instance \in Servers \cup {NoServer}
      /\ late \subseteq Conns \X Servers \X Servers /\ pc[t] = "insert"
  BY TypeParts DEF PollsOK, ServersOK, CallsOK, RestOK, Insert, Handling
<1>2. /\ \A u \in Servers \ {s} : server'[u] = server[u]
      /\ server'[s].handle = server[s].handle
      /\ server'[s].m_is_running = server[s].m_is_running
      /\ server'[s].m_poll_group = server[s].m_poll_group
      /\ server'[s].m_listen_socket = server[s].m_listen_socket
      /\ server'[s].m_clients = server[s].m_clients \cup {conn[t]}
      /\ UNCHANGED <<call, s_instance, sockets, connState, groupless>>
  BY <1>1 DEF Insert, Record, network
<1>3. /\ \A u \in Servers \ {t} : pc'[u] = pc[u] /\ conn'[u] = conn[u] /\ inst'[u] = inst[u]
      /\ pc'[t] \notin Handling /\ pc[t] \in Handling
  BY <1>1 DEF Insert, Done, Goto, Rest, Handling
<1>4. /\ late \subseteq late'
      /\ ~(server[s].m_is_running \/ call[s] = "close") => <<conn[t], t, s>> \in late'
  BY DEF Insert
<1>5. t = s => server[s].m_is_running \/ call[s] = "close"
  BY <1>3 DEF ServerInv, OwnHandlerIsSafe
<1> HIDE DEF s
<1>6. StageInv'
  BY <1>1, <1>2 DEF ServerInv, StageInv
<1>7. InstanceIsRunning'
  BY <1>1, <1>2 DEF ServerInv, InstanceIsRunning
<1>8. LeakOnlyByFailedStart'
  BY <1>1, <1>2 DEF ServerInv, LeakOnlyByFailedStart
<1>9. OwnHandlerIsSafe'
  BY <1>1, <1>2, <1>3 DEF ServerInv, OwnHandlerIsSafe
<1>10. OpenIsOwned'
  <2>1. SUFFICES ASSUME NEW c \in Conns, connState'[c] = "open"
                 PROVE  Kept(c)'
    BY OpenIsKept
  <2>2. CASE c = conn[t]
    <3>1. CASE server[s].m_is_running \/ call[s] = "close"
      BY <1>1, <1>2, <2>2, <3>1 DEF Kept
    <3>2. CASE ~(server[s].m_is_running \/ call[s] = "close")
      <4>1. <<c, t, s>> \in late' /\ t # s
        BY <1>4, <1>5, <2>2, <3>2
      <4>2. <<c, t, s>>[1] = c /\ <<c, t, s>>[2] # <<c, t, s>>[3]
        BY <4>1
      <4>3. QED
        BY <4>1, <4>2 DEF Kept
    <3>3. QED
      BY <3>1, <3>2
  <2>3. CASE c # conn[t]
    <3>1. Kept(c)
      BY <1>2, <2>1, OpenIsKept DEF ServerInv
    <3>2. QED
      BY <1>1, <1>2, <1>3, <1>4, <2>3, <3>1 DEF Kept
  <2>4. QED
    BY <2>2, <2>3
<1>11. QED
  BY <1>6, <1>7, <1>8, <1>9, <1>10 DEF ServerInv

LEMMA NextServerInv == TypeOK /\ ServerInv /\ [Next]_vars => ServerInv'
<1> SUFFICES ASSUME TypeOK, ServerInv, [Next]_vars PROVE ServerInv'
  OBVIOUS
<1>1. ASSUME UNCHANGED <<server, call, s_instance, polls, history>>,
             sockets' \subseteq sockets,
             \A c \in Conns : connState'[c] = "open" => connState[c] = "open"
      PROVE  ServerInv'
  <2>1. StageInv' /\ InstanceIsRunning' /\ LeakOnlyByFailedStart'
    BY <1>1 DEF ServerInv, StageInv, InstanceIsRunning, LeakOnlyByFailedStart, history
  <2>2. OpenIsOwned' /\ OwnHandlerIsSafe'
    BY <1>1 DEF ServerInv, OpenIsOwned, OwnHandlerIsSafe, polls, history
  <2>3. QED
    BY <2>1, <2>2 DEF ServerInv
<1>2. CASE kb_networking_init \/ kb_networking_shutdown
  BY <1>1, <1>2, TypeParts DEF kb_networking_init, kb_networking_shutdown, Kill, Become, network,
    NetworkOK
<1>3. ASSUME NEW f, Fails(f) PROVE ServerInv'
  BY <1>1, <1>3 DEF Fails, network
<1>4. ASSUME NEW s, Crash(s) PROVE ServerInv'
  BY <1>3, <1>4 DEF Crash
<1>5. ASSUME NEW s \in Servers, Caller(s) PROVE ServerInv'
  BY <1>4, <1>5, Launched, Published, StopBegun, StopGoesOn, OtherCalls, PollKeeps
    DEF Caller, kb_server_stop, kb_server_destroy, CallCrash, StopCrash
<1>6. ASSUME NEW t \in Servers, Poll(t) PROVE ServerInv'
  BY <1>3, <1>4, <1>6, PollKeeps, HandlerKeeps, Inserted
    DEF Poll, PollCrash, LoadCrash, HandlerCrash
<1>7. ASSUME NEW c \in Conns, PeerGone(c) \/ PeerConnect(c) PROVE ServerInv'
  BY <1>1, <1>7, TypeParts DEF PeerGone, PeerConnect, Become, NetworkOK
<1>8. CASE UNCHANGED vars
  BY <1>1, <1>8 DEF vars, network
<1>9. QED
  BY <1>2, <1>5, <1>6, <1>7, <1>8 DEF Next

\* However the starts, stops and destructions of any number of servers interleave,
\* status changes reach a live, running server with a poll group, or nobody.
THEOREM StatusGoesToRunningServer == Spec => []InstanceIsRunning
  BY InitType, NextType, InitServerInv, NextServerInv, PTL DEF Spec, ServerInv

\* An accepted connection has a server that will close it, or is in the hands of a
\* handler, unless the thread of another server put it into one that had cleaned up.
THEOREM AcceptedHasOwner == Spec => []OpenIsOwned
  BY InitType, NextType, InitServerInv, NextServerInv, PTL DEF Spec, ServerInv

\* A poll() that handles a status change for its own server finds the poll group and
\* the UdpServer there: the join of stop() comes before both are given up.
THEOREM OwnHandlerFindsServer == Spec => []OwnHandlerIsSafe
  BY InitType, NextType, InitServerInv, NextServerInv, PTL DEF Spec, ServerInv

\* The only listen sockets that outlive the start, run and stop of their server are
\* those of starts that failed at the poll group.
THEOREM OnlyFailedStartLeaks == Spec => []LeakOnlyByFailedStart
  BY InitType, NextType, InitServerInv, NextServerInv, PTL DEF Spec, ServerInv
=============================================================================
