--------------------------- MODULE UdpServerProofs ---------------------------
(***************************************************************************)
(* Theorems about UdpServer, for every set of connections and threads and  *)
(* every bound.                                                            *)
(***************************************************************************)
EXTENDS UdpServer, TLAPS, SequenceTheorems

\* Labels at which a thread is handling the first of its pending events.
Handling == {"deref", "accept", "setgroup", "insert", "inConn", "lookup",
             "findGone", "gone", "inGone", "close"}

\* A status handler has an event to handle, also while the application calls
\* disconnect() from the callback that the handler invoked.
HasEvent ==
  \A t \in Threads :
    (\/ pc[t] \in Handling
     \/ pc[t] \in {"eraseLock", "erase"} /\ ret[t] \in {"inConn", "inGone"})
    => pending[t] # <<>>

\* The disconnected callback is invoked with the client that was looked up.
GoneHasClient == \A t \in Threads : pc[t] = "gone" => client[t] \in Conns

TypeInv == TypeOK /\ HasEvent /\ GoneHasClient

LEMMA ThreadNames ==
  Net \in Threads /\ Owner \in Threads /\ Net # Owner /\ NoThread \notin Threads
  BY ThreadsDistinct DEF Threads

LEMMA NextEventType ==
  ASSUME NEW q \in Seq(Events), q # <<>>
  PROVE  /\ Tail(q) \in Seq(Events)
         /\ Head(q) \in Events
         /\ Head(q).conn \in Conns
         /\ Head(q).old \in ConnStates
         /\ Head(q).new \in ConnStates \cup {"None"}
<1>1. Head(q) \in Events /\ Tail(q) \in Seq(Events)
  BY HeadTailProperties
<1>2. QED
  BY <1>1 DEF Events

LEMMA HandlingEvent ==
  ASSUME TypeInv, NEW t \in Threads, pc[t] \in Handling
  PROVE  /\ pending[t] # <<>> /\ pending[t] \in Seq(Events)
         /\ Tail(pending[t]) \in Seq(Events)
         /\ Event(t) \in Events /\ Event(t).conn \in Conns
<1>1. pending[t] # <<>> /\ pending[t] \in Seq(Events)
  BY DEF TypeInv, TypeOK, HasEvent
<1>2. QED
  BY <1>1, NextEventType DEF Event

LEMMA PostType ==
  ASSUME NEW q \in Seq(Events), NEW c \in Conns, NEW old \in ConnStates,
         NEW new \in ConnStates \cup {"None"}
  PROVE  Append(q, [conn |-> c, old |-> old, new |-> new]) \in Seq(Events)
<1>1. [conn |-> c, old |-> old, new |-> new] \in Events
  BY DEF Events
<1>2. QED
  BY <1>1, AppendProperties

LEMMA ApiStateType == ASSUME NEW s \in ConnStates PROVE ApiState(s) \in ConnStates
  BY DEF ApiState, ConnStates

LEMMA CloseConnectionType ==
  ASSUME TypeOK, NEW c \in Conns, CloseConnection(c)
  PROVE  /\ connState' \in [Conns -> ConnStates]
         /\ groupConns' \subseteq Conns
         /\ inbox' \subseteq Msgs
         /\ callbacks' \in Seq(Events)
<1>1. connState' \in [Conns -> ConnStates]
  BY DEF TypeOK, CloseConnection, ConnStates
<1>2. groupConns' \subseteq Conns /\ inbox' \subseteq Msgs
  BY DEF TypeOK, CloseConnection
<1>3. callbacks' \in Seq(Events)
  <2>1. Append(callbacks, [conn |-> c, old |-> ApiState(connState[c]), new |-> "None"])
          \in Seq(Events)
    <3>1. callbacks \in Seq(Events) /\ connState[c] \in ConnStates
      BY DEF TypeOK
    <3>2. QED
      BY <3>1, ApiStateType, PostType
  <2>2. QED
    BY <2>1 DEF TypeOK, CloseConnection
<1>4. QED
  BY <1>1, <1>2, <1>3

LEMMA InitTypeInv == Init => TypeInv
<1> SUFFICES ASSUME Init PROVE TypeInv
  OBVIOUS
<1>1. TypeOK
  <2>1. pc \in [Threads -> Labels]
    BY DEF Init, Labels, PollLabels, StopLabels
  <2>2. pending \in [Threads -> Seq(Events)] /\ callbacks \in Seq(Events)
    BY DEF Init
  <2>3. sent \in [Conns -> 0..MaxMsgs] /\ starts \in 0..MaxStarts /\ calls \in 0..MaxCalls
    BY ConstantsTyped DEF Init
  <2>4. connState \in [Conns -> ConnStates]
    BY DEF Init, ConnStates
  <2>5. QED
    BY <2>1, <2>2, <2>3, <2>4 DEF Init, TypeOK
<1>2. HasEvent /\ GoneHasClient
  BY DEF Init, HasEvent, GoneHasClient, Handling
<1>3. QED
  BY <1>1, <1>2 DEF TypeInv

LEMMA OwnerType ==
  ASSUME TypeInv, OwnerStep
  PROVE  TypeInv'
<1> USE DEF TypeInv, TypeOK, HasEvent, GoneHasClient, Handling
<1> USE DEF server, flags, handles, clients, local, call, net, rest
<1> USE DEF Goto, Step, Lock, Release, NextEvent, Event
<1> USE DEF Labels, StopLabels, PollLabels, InCallback
<1>1. CASE StartGroup
  <2>1. starts \in Nat
    BY ConstantsTyped
  <2>2. m_poll_group' \in Nat
    BY <1>1, <2>1 DEF StartGroup
  <2>3. groups' \subseteq Nat
    BY <1>1, <2>1 DEF StartGroup
  <2>4. m_is_running' \in BOOLEAN
    BY <1>1 DEF StartGroup
  <2>5. pc' \in [Threads -> Labels] /\ HasEvent' /\ GoneHasClient'
    BY <1>1, ThreadNames DEF StartGroup
  <2>6. QED
    BY <1>1, <2>2, <2>3, <2>4, <2>5 DEF StartGroup
<1>2. CASE StartPublish
  BY <1>2, ThreadNames DEF StartPublish
<1>3. CASE StartSpawn
  BY <1>3, ThreadNames DEF StartSpawn
<1>4. CASE StopExchange
  BY <1>4, ThreadNames DEF StopExchange
<1>5. CASE StopJoin
  BY <1>5, ThreadNames DEF StopJoin
<1>6. CASE StopLock
  BY <1>6, ThreadNames DEF StopLock
<1>7. CASE StopClear
  BY <1>7, ThreadNames DEF StopClear
<1>8. CASE StopRelease
  <2>1. connState' \in [Conns -> ConnStates]
    BY <1>8 DEF StopRelease, CloseListenSocket, ConnStates
  <2>2. QED
    BY <1>8, <2>1, ThreadNames DEF StopRelease
<1>9. ASSUME NEW c \in Conns, StopCloseOne(c) PROVE TypeInv'
  <2>1. CloseConnection(c)
    BY <1>9 DEF StopCloseOne
  <2>2. QED
    BY <1>9, <2>1, CloseConnectionType DEF StopCloseOne
<1>10. QED
  BY <1>1, <1>2, <1>3, <1>4, <1>5, <1>6, <1>7, <1>8, <1>9 DEF OwnerStep

LEMMA PollType ==
  ASSUME TypeInv, NEW t \in Threads, PollStep(t)
  PROVE  TypeInv'
<1> USE DEF TypeInv, TypeOK, HasEvent, GoneHasClient, Handling
<1> USE DEF server, flags, handles, clients, local, call, net, rest
<1> USE DEF Goto, Step, Lock, Release, NextEvent, Event
<1> USE DEF Labels, StopLabels, PollLabels, InCallback
<1>1. CASE PollReceive(t)
  BY <1>1 DEF PollReceive
<1>2. CASE PollInvalid(t)
  BY <1>2 DEF PollInvalid
<1>3. CASE PollLock(t)
  BY <1>3 DEF PollLock
<1>4. CASE PollFind(t)
  <2>1. PICK m \in messages[t] :
          \/ m[1] \in m_clients /\ client' = [client EXCEPT ![t] = m[1]]
             /\ Goto(t, "data") /\ UNCHANGED messages
          \/ messages' = [messages EXCEPT ![t] = @ \ {m}]
             /\ Goto(t, "msg") /\ UNCHANGED client
    BY <1>4 DEF PollFind
  <2>2. client' \in [Threads -> Conns \cup {NoConn}]
    <3>1. client \in [Threads -> Conns \cup {NoConn}] /\ m_clients \subseteq Conns
      OBVIOUS
    <3>2. client' = client \/ \E c \in Conns : client' = [client EXCEPT ![t] = c]
      BY <2>1, <3>1
    <3>3. QED
      BY <3>1, <3>2
  <2>3. messages' \in [Threads -> SUBSET Msgs]
    <3>1. messages \in [Threads -> SUBSET Msgs]
      OBVIOUS
    <3>2. messages' = messages \/ messages' = [messages EXCEPT ![t] = @ \ {m}]
      BY <2>1
    <3>3. QED
      BY <3>1, <3>2
  <2>4. pc' \in [Threads -> Labels] /\ HasEvent' /\ GoneHasClient'
    BY <1>4, <2>1 DEF PollFind
  <2>5. QED
    BY <1>4, <2>2, <2>3, <2>4 DEF PollFind
<1>5. CASE DataCallback(t)
  BY <1>5 DEF DataCallback
<1>6. CASE DataReturn(t)
  BY <1>6 DEF DataReturn
<1>7. CASE PollMessagesDone(t)
  BY <1>7 DEF PollMessagesDone
<1>8. QED
  BY <1>1, <1>2, <1>3, <1>4, <1>5, <1>6, <1>7 DEF PollStep

LEMMA CallbackType ==
  ASSUME TypeInv, NEW t \in Threads, CallbackStep(t)
  PROVE  TypeInv'
<1> USE DEF TypeInv, TypeOK, HasEvent, GoneHasClient, Handling
<1> USE DEF server, flags, handles, clients, local, call, net, rest
<1> USE DEF Goto, Step, Lock, Release, NextEvent, Event
<1> USE DEF Labels, StopLabels, PollLabels, InCallback
<1>1. CASE RunCallbacks(t)
  BY <1>1 DEF RunCallbacks
<1>2. CASE RunCallbacksDone(t)
  BY <1>2 DEF RunCallbacksDone
<1>3. CASE StatusDropped(t)
  <2>1. Tail(pending[t]) \in Seq(Events)
    BY <1>3, NextEventType DEF StatusDropped
  <2>2. QED
    BY <1>3, <2>1 DEF StatusDropped
<1>4. CASE StatusChecked(t)
  BY <1>4 DEF StatusChecked
<1>5. CASE StatusCrash(t)
  BY <1>5 DEF StatusCrash
<1>6. CASE StatusGone(t)
  BY <1>6 DEF StatusGone
<1>7. CASE StatusConnecting(t)
  BY <1>7 DEF StatusConnecting
<1>8. CASE StatusIgnored(t)
  <2>1. pc[t] \in Handling
    BY <1>8 DEF StatusIgnored
  <2>2. QED
    BY <1>8, <2>1, HandlingEvent DEF StatusIgnored
<1>9. CASE Accept(t)
  <2>1. pc[t] \in Handling
    BY <1>9 DEF Accept
  <2>2. Event(t).conn \in Conns /\ Tail(pending[t]) \in Seq(Events)
    BY <2>1, HandlingEvent
  <2>3. /\ connState' \in [Conns -> ConnStates]
        /\ groupConns' \subseteq Conns
        /\ inbox' \subseteq Msgs
        /\ callbacks' \in Seq(Events)
    BY <1>9, <2>2, CloseConnectionType DEF Accept, ConnStates
  <2>4. pc' \in [Threads -> Labels] /\ pending' \in [Threads -> Seq(Events)]
    BY <1>9, <2>2 DEF Accept
  <2>5. HasEvent' /\ GoneHasClient'
    BY <1>9, <2>1 DEF Accept
  <2>6. QED
    BY <1>9, <2>3, <2>4, <2>5 DEF Accept
<1>10. CASE SetGroup(t)
  <2>1. pc[t] \in Handling
    BY <1>10 DEF SetGroup
  <2>2. Event(t).conn \in Conns /\ Tail(pending[t]) \in Seq(Events)
    BY <2>1, HandlingEvent
  <2>3. /\ connState' \in [Conns -> ConnStates]
        /\ groupConns' \subseteq Conns
        /\ inbox' \subseteq Msgs
        /\ callbacks' \in Seq(Events)
    BY <1>10, <2>2, CloseConnectionType DEF SetGroup, ConnStates
  <2>4. pc' \in [Threads -> Labels] /\ pending' \in [Threads -> Seq(Events)]
    <3>1. CASE Goto(t, "insert") /\ UNCHANGED pending
      BY <3>1
    <3>2. CASE NextEvent(t)
      BY <3>2, <2>2
    <3>3. QED
      BY <1>10, <3>1, <3>2 DEF SetGroup
  <2>5. HasEvent' /\ GoneHasClient'
    BY <1>10, <2>1 DEF SetGroup
  <2>6. QED
    BY <1>10, <2>3, <2>4, <2>5 DEF SetGroup
<1>11. CASE Insert(t)
  <2>1. pc[t] \in Handling
    BY <1>11 DEF Insert
  <2>2. QED
    BY <1>11, <2>1, HandlingEvent DEF Insert
<1>12. CASE InsertRace(t)
  BY <1>12 DEF InsertRace
<1>13. CASE ConnectedReturn(t)
  <2>1. pc[t] \in Handling
    BY <1>13 DEF ConnectedReturn
  <2>2. QED
    BY <1>13, <2>1, HandlingEvent DEF ConnectedReturn
<1>14. CASE LookupLock(t)
  BY <1>14 DEF LookupLock
<1>15. CASE LookupFind(t)
  <2>1. pc[t] \in Handling
    BY <1>15 DEF LookupFind
  <2>2. QED
    BY <1>15, <2>1, HandlingEvent DEF LookupFind
<1>16. CASE GoneCallback(t)
  BY <1>16 DEF GoneCallback
<1>17. CASE GoneReturn(t)
  BY <1>17 DEF GoneReturn
<1>18. CASE CloseGone(t)
  <2>1. pc[t] \in Handling
    BY <1>18 DEF CloseGone
  <2>2. Event(t).conn \in Conns /\ Tail(pending[t]) \in Seq(Events)
    BY <2>1, HandlingEvent
  <2>3. /\ connState' \in [Conns -> ConnStates]
        /\ groupConns' \subseteq Conns
        /\ inbox' \subseteq Msgs
        /\ callbacks' \in Seq(Events)
    BY <1>18, <2>2, CloseConnectionType DEF CloseGone, ConnStates
  <2>4. pc' \in [Threads -> Labels] /\ pending' \in [Threads -> Seq(Events)]
    BY <1>18, <2>2 DEF CloseGone
  <2>5. HasEvent' /\ GoneHasClient'
    BY <1>18, <2>1 DEF CloseGone
  <2>6. QED
    BY <1>18, <2>3, <2>4, <2>5 DEF CloseGone
<1>19. QED
  BY <1>1, <1>2, <1>3, <1>4, <1>5, <1>6, <1>7, <1>8, <1>9, <1>10, <1>11, <1>12, <1>13,
    <1>14, <1>15, <1>16, <1>17, <1>18 DEF CallbackStep

LEMMA CallType ==
  ASSUME TypeInv, NEW t \in Threads, CallStep(t)
  PROVE  TypeInv'
<1> USE DEF TypeInv, TypeOK, HasEvent, GoneHasClient, Handling
<1> USE DEF server, flags, handles, clients, local, call, net, rest
<1> USE DEF Goto, Step, Lock, Release, NextEvent, Event
<1> USE DEF Labels, StopLabels, PollLabels, InCallback
<1>1. CASE BroadcastSend(t)
  BY <1>1 DEF BroadcastSend
<1>2. CASE DisconnectLock(t)
  BY <1>2 DEF DisconnectLock
<1>3. CASE DisconnectErase(t)
  BY <1>3 DEF DisconnectErase
<1>4. QED
  BY <1>1, <1>2, <1>3 DEF CallStep

LEMMA AppCallType ==
  ASSUME TypeInv, AppCall
  PROVE  TypeInv'
<1> USE DEF TypeInv, TypeOK, HasEvent, GoneHasClient, Handling
<1> USE DEF server, flags, handles, clients, local, call, net, rest
<1> USE DEF Goto, Step, Lock, Release, NextEvent, Event
<1> USE DEF Labels, StopLabels, PollLabels, InCallback
<1>1. ASSUME NEW m \in Modes, StartListen(m) PROVE TypeInv'
  <2>1. m = "async" \/ m = "manual"
    BY <1>1, ConstantsTyped
  <2>2. starts' \in 0..MaxStarts /\ starts + 1 \in Nat
    BY <1>1, ConstantsTyped DEF StartListen
  <2>3. m_listen_socket' \in Nat
    BY <1>1, <2>2 DEF StartListen
  <2>4. sockets' \subseteq Nat
    <3>1. sockets' = sockets \/ sockets' = sockets \cup {starts + 1}
      BY <1>1 DEF StartListen
    <3>2. QED
      BY <2>2, <3>1
  <2>5. pc' \in [Threads -> Labels] /\ HasEvent' /\ GoneHasClient'
    BY <1>1, ThreadNames DEF StartListen
  <2>6. QED
    BY <1>1, <2>1, <2>2, <2>3, <2>4, <2>5 DEF StartListen
<1>2. CASE StopBegin
  BY <1>2, ThreadNames DEF StopBegin
<1>3. CASE PollManually
  BY <1>3, ThreadNames DEF PollManually
<1>4. ASSUME NEW w \in Workers, Broadcast(w) PROVE TypeInv'
  <2>1. w \in Threads
    BY <1>4 DEF Threads
  <2>2. calls' \in 0..MaxCalls
    BY <1>4, ConstantsTyped DEF Broadcast
  <2>3. QED
    BY <1>4, <2>1, <2>2 DEF Broadcast
<1>5. ASSUME NEW t \in Threads, NEW c \in Conns, Disconnect(t, c) PROVE TypeInv'
  <2>1. CloseConnection(c)
    BY <1>5 DEF Disconnect
  <2>2. /\ connState' \in [Conns -> ConnStates]
        /\ groupConns' \subseteq Conns
        /\ inbox' \subseteq Msgs
        /\ callbacks' \in Seq(Events)
    BY <1>5, <2>1, CloseConnectionType
  <2>3. calls' \in 0..MaxCalls
    BY <1>5, ConstantsTyped DEF Disconnect
  <2>4. /\ kick' \in [Threads -> Conns \cup {NoConn}]
        /\ ret' \in [Threads -> {"idle"} \cup InCallback]
    BY <1>5 DEF Disconnect
  <2>5. pc' \in [Threads -> Labels] /\ HasEvent' /\ GoneHasClient'
    BY <1>5 DEF Disconnect
  <2>6. QED
    BY <1>5, <2>2, <2>3, <2>4, <2>5 DEF Disconnect
<1>6. QED
  BY <1>1, <1>2, <1>3, <1>4, <1>5 DEF AppCall

LEMMA PeerType ==
  ASSUME TypeInv, Peer
  PROVE  TypeInv'
<1> USE DEF TypeInv, TypeOK, HasEvent, GoneHasClient, Handling
<1> USE DEF server, flags, handles, clients, local, call, net, rest
<1> USE DEF Goto, Step, Lock, Release, NextEvent, Event
<1> USE DEF Labels, StopLabels, PollLabels, InCallback
<1>1. ASSUME NEW c \in Conns, PeerConnect(c) PROVE TypeInv'
  <2>1. PICK s \in {"Connecting"} : PostStatus(c, s)
    BY <1>1 DEF PeerConnect
  <2>2. connState[c] \in ConnStates /\ callbacks \in Seq(Events) /\ s \in ConnStates
    BY <2>1 DEF ConnStates, Gone
  <2>3. connState' \in [Conns -> ConnStates]
    BY <2>1, <2>2 DEF PostStatus
  <2>4. callbacks' \in Seq(Events)
    BY <2>1, <2>2, ApiStateType, PostType DEF PostStatus
  <2>5. QED
    BY <1>1, <2>3, <2>4 DEF PeerConnect, Unmoved
<1>2. ASSUME NEW c \in Conns, PeerEstablish(c) PROVE TypeInv'
  <2>1. PICK s \in {"Connected"} : PostStatus(c, s)
    BY <1>2 DEF PeerEstablish
  <2>2. connState[c] \in ConnStates /\ callbacks \in Seq(Events) /\ s \in ConnStates
    BY <2>1 DEF ConnStates, Gone
  <2>3. connState' \in [Conns -> ConnStates]
    BY <2>1, <2>2 DEF PostStatus
  <2>4. callbacks' \in Seq(Events)
    BY <2>1, <2>2, ApiStateType, PostType DEF PostStatus
  <2>5. QED
    BY <1>2, <2>3, <2>4 DEF PeerEstablish, Unmoved
<1>3. ASSUME NEW c \in Conns, PeerSend(c) PROVE TypeInv'
  <2>1. sent' \in [Conns -> 0..MaxMsgs] /\ sent[c] + 1 \in 1..MaxMsgs
    BY <1>3, ConstantsTyped DEF PeerSend
  <2>2. inbox' \subseteq Msgs
    BY <1>3, <2>1 DEF PeerSend, Msgs
  <2>3. QED
    BY <1>3, <2>1, <2>2 DEF PeerSend, Unmoved
<1>4. ASSUME NEW c \in Conns, PeerGone(c) PROVE TypeInv'
  <2>1. PICK s \in Gone : PostStatus(c, s)
    BY <1>4 DEF PeerGone
  <2>2. connState[c] \in ConnStates /\ callbacks \in Seq(Events) /\ s \in ConnStates
    BY <2>1 DEF ConnStates, Gone
  <2>3. connState' \in [Conns -> ConnStates]
    BY <2>1, <2>2 DEF PostStatus
  <2>4. callbacks' \in Seq(Events)
    BY <2>1, <2>2, ApiStateType, PostType DEF PostStatus
  <2>5. QED
    BY <1>4, <2>3, <2>4 DEF PeerGone, Unmoved
<1>5. QED
  BY <1>1, <1>2, <1>3, <1>4 DEF Peer

LEMMA NextTypeInv == TypeInv /\ [Next]_vars => TypeInv'
<1> SUFFICES ASSUME TypeInv, [Next]_vars PROVE TypeInv'
  OBVIOUS
<1>1. ASSUME NEW t \in Threads, Run(t) PROVE TypeInv'
  <2>1. CASE t = Net /\ LoopCheck
    BY <2>1, ThreadNames DEF LoopCheck, Step, Goto, TypeInv, TypeOK, HasEvent,
      GoneHasClient, Handling, server, flags, handles, clients, local, call, net,
      rest, Labels, PollLabels
  <2>2. CASE t \in Foreign /\ ForeignPump(t)
    BY <2>2 DEF ForeignPump, Step, Goto, TypeInv, TypeOK, HasEvent,
      GoneHasClient, Handling, server, flags, handles, clients, local, call, net,
      rest, Labels, PollLabels
  <2>3. QED
    BY <1>1, <2>1, <2>2, OwnerType, PollType, CallbackType, CallType DEF Run
<1>2. CASE UNCHANGED vars
  BY <1>2 DEF vars, server, flags, handles, clients, local, call, net, rest,
    TypeInv, TypeOK, HasEvent, GoneHasClient
<1>3. QED
  BY <1>1, <1>2, AppCallType, PeerType DEF Next, Quiet

\* Type correctness of UdpServer, whatever the connections, the threads and the
\* bounds are.  TypeOK is not inductive alone: a status handler that found no
\* event, or a disconnected callback without a client, would leave the types.
THEOREM TypeCorrect == Spec => []TypeOK
<1>1. TypeInv => TypeOK
  BY DEF TypeInv
<1>2. QED
  BY InitTypeInv, NextTypeInv, <1>1, PTL DEF Spec

-----------------------------------------------------------------------------
\* The network thread lives while the server runs, and until stop() joins it.
NetJoined == pc[Net] # "off" => m_is_running \/ pc[Owner] = "join"

\* start_manual and start_async work without a network thread until they spawn it.
StartAlone ==
  /\ pc[Owner] \in {"group", "publish", "spawn"} => pc[Net] = "off"
  /\ pc[Owner] = "spawn" => m_is_running

\* After its exchange, stop() works on a server that is not running.
StopAlone == pc[Owner] \in {"join", "lock", "closing", "release"} => ~m_is_running

\* The poll group exists from its creation until the network thread is joined.
GroupExists ==
  m_is_running \/ pc[Owner] \in {"publish", "join"} => m_poll_group \in groups

\* Workers and threads of other objects do not poll this server.
OthersDoNotPoll == \A t \in Workers \cup Foreign : pc[t] # "recv"

LiveInv == NetJoined /\ StartAlone /\ StopAlone /\ GroupExists /\ OthersDoNotPoll

LEMMA InitLiveInv == Init => LiveInv
  BY ThreadsDistinct DEF Init, LiveInv, NetJoined, StartAlone, StopAlone, GroupExists,
    OthersDoNotPoll, Threads

\* A thread that is not starting, joining or off goes to a label that means
\* nothing to LiveInv, and leaves the running flag and the poll group alone.
LEMMA Elsewhere ==
  ASSUME LiveInv, pc \in [Threads -> Labels], NEW t \in Threads,
         pc[t] \notin {"off", "join"},
         NEW l \in Labels \ {"group", "publish", "spawn", "join", "lock", "closing",
                             "release", "recv", "off"},
         Goto(t, l), UNCHANGED <<m_is_running, m_poll_group, groups>>
  PROVE  LiveInv'
  BY ThreadsDistinct DEF LiveInv, NetJoined, StartAlone, StopAlone, GroupExists,
    OthersDoNotPoll, Threads, Goto

LEMMA SameLiveInv ==
  ASSUME LiveInv, UNCHANGED <<pc, m_is_running, m_poll_group, groups>>
  PROVE  LiveInv'
  BY DEF LiveInv, NetJoined, StartAlone, StopAlone, GroupExists, OthersDoNotPoll

LEMMA OwnerLive ==
  ASSUME TypeInv, LiveInv, OwnerStep
  PROVE  LiveInv'
<1> USE DEF Goto, Step, Lock, NextEvent, server, flags, handles
<1>1. pc \in [Threads -> Labels] /\ ret \in [Threads -> {"idle"} \cup InCallback]
  BY DEF TypeInv, TypeOK
<1>2. \A t \in Workers \cup Foreign : t \in Threads /\ t # Owner /\ t # Net
  BY ThreadsDistinct DEF Threads
<1>3. CASE StartGroup
  BY <1>1, <1>2, <1>3, ThreadNames DEF StartGroup, LiveInv, NetJoined, StartAlone,
    StopAlone, GroupExists, OthersDoNotPoll
<1>4. CASE StartPublish
  BY <1>1, <1>2, <1>4, ThreadNames DEF StartPublish, LiveInv, NetJoined, StartAlone,
    StopAlone, GroupExists, OthersDoNotPoll
<1>5. CASE StartSpawn
  BY <1>1, <1>2, <1>5, ThreadNames DEF StartSpawn, LiveInv, NetJoined, StartAlone,
    StopAlone, GroupExists, OthersDoNotPoll
<1>6. CASE StopExchange
  BY <1>1, <1>2, <1>6, ThreadNames DEF StopExchange, LiveInv, NetJoined, StartAlone,
    StopAlone, GroupExists, OthersDoNotPoll
<1>7. CASE StopJoin
  BY <1>1, <1>2, <1>7, ThreadNames DEF StopJoin, LiveInv, NetJoined, StartAlone,
    StopAlone, GroupExists, OthersDoNotPoll
<1>8. CASE StopLock
  BY <1>1, <1>2, <1>8, ThreadNames DEF StopLock, LiveInv, NetJoined, StartAlone,
    StopAlone, GroupExists, OthersDoNotPoll
<1>9. CASE StopClear
  BY <1>1, <1>2, <1>9, ThreadNames DEF StopClear, LiveInv, NetJoined, StartAlone,
    StopAlone, GroupExists, OthersDoNotPoll
<1>10. CASE StopRelease
  BY <1>1, <1>2, <1>10, ThreadNames DEF StopRelease, LiveInv, NetJoined, StartAlone,
    StopAlone, GroupExists, OthersDoNotPoll
<1>11. ASSUME NEW c \in Conns, StopCloseOne(c) PROVE LiveInv'
  BY <1>11, SameLiveInv DEF StopCloseOne
<1>12. QED
  BY <1>3, <1>4, <1>5, <1>6, <1>7, <1>8, <1>9, <1>10, <1>11 DEF OwnerStep

LEMMA PollLive ==
  ASSUME TypeInv, LiveInv, NEW t \in Threads, PollStep(t)
  PROVE  LiveInv'
<1> USE DEF Goto, Step, Lock, NextEvent, server, flags, handles
<1> USE DEF Labels, StopLabels, PollLabels, InCallback
<1>1. pc \in [Threads -> Labels] /\ ret \in [Threads -> {"idle"} \cup InCallback]
  BY DEF TypeInv, TypeOK
<1>2. CASE PollReceive(t)
  BY <1>1, <1>2, Elsewhere DEF PollReceive
<1>3. CASE PollInvalid(t)
  BY <1>3, SameLiveInv DEF PollInvalid
<1>4. CASE PollLock(t)
  BY <1>1, <1>4, Elsewhere DEF PollLock
<1>5. CASE PollFind(t)
  BY <1>1, <1>5, Elsewhere DEF PollFind
<1>6. CASE DataCallback(t)
  BY <1>1, <1>6, Elsewhere DEF DataCallback
<1>7. CASE DataReturn(t)
  BY <1>1, <1>7, Elsewhere DEF DataReturn
<1>8. CASE PollMessagesDone(t)
  BY <1>1, <1>8, Elsewhere DEF PollMessagesDone
<1>9. QED
  BY <1>2, <1>3, <1>4, <1>5, <1>6, <1>7, <1>8 DEF PollStep

LEMMA CallbackLive ==
  ASSUME TypeInv, LiveInv, NEW t \in Threads, CallbackStep(t)
  PROVE  LiveInv'
<1> USE DEF Goto, Step, Lock, NextEvent, server, flags, handles
<1> USE DEF Labels, StopLabels, PollLabels, InCallback
<1>1. pc \in [Threads -> Labels] /\ ret \in [Threads -> {"idle"} \cup InCallback]
  BY DEF TypeInv, TypeOK
<1>2. CASE RunCallbacks(t)
  BY <1>1, <1>2, Elsewhere DEF RunCallbacks
<1>3. CASE RunCallbacksDone(t)
  BY <1>1, <1>3, Elsewhere DEF RunCallbacksDone
<1>4. CASE StatusDropped(t)
  BY <1>1, <1>4, Elsewhere DEF StatusDropped
<1>5. CASE StatusChecked(t)
  BY <1>1, <1>5, Elsewhere DEF StatusChecked
<1>6. CASE StatusCrash(t)
  BY <1>6, SameLiveInv DEF StatusCrash
<1>7. CASE StatusGone(t)
  BY <1>1, <1>7, Elsewhere DEF StatusGone
<1>8. CASE StatusConnecting(t)
  BY <1>1, <1>8, Elsewhere DEF StatusConnecting
<1>9. CASE StatusIgnored(t)
  BY <1>1, <1>9, Elsewhere DEF StatusIgnored
<1>10. CASE Accept(t)
  BY <1>1, <1>10, Elsewhere DEF Accept
<1>11. CASE SetGroup(t)
  BY <1>1, <1>11, Elsewhere DEF SetGroup
<1>12. CASE Insert(t)
  BY <1>1, <1>12, Elsewhere DEF Insert
<1>13. CASE InsertRace(t)
  BY <1>13, SameLiveInv DEF InsertRace
<1>14. CASE ConnectedReturn(t)
  BY <1>1, <1>14, Elsewhere DEF ConnectedReturn
<1>15. CASE LookupLock(t)
  BY <1>1, <1>15, Elsewhere DEF LookupLock
<1>16. CASE LookupFind(t)
  BY <1>1, <1>16, Elsewhere DEF LookupFind
<1>17. CASE GoneCallback(t)
  BY <1>1, <1>17, Elsewhere DEF GoneCallback
<1>18. CASE GoneReturn(t)
  BY <1>1, <1>18, Elsewhere DEF GoneReturn
<1>19. CASE CloseGone(t)
  BY <1>1, <1>19, Elsewhere DEF CloseGone
<1>20. QED
  BY <1>2, <1>3, <1>4, <1>5, <1>6, <1>7, <1>8, <1>9, <1>10, <1>11, <1>12, <1>13, <1>14,
    <1>15, <1>16, <1>17, <1>18, <1>19 DEF CallbackStep

LEMMA CallLive ==
  ASSUME TypeInv, LiveInv, NEW t \in Threads, CallStep(t)
  PROVE  LiveInv'
<1> USE DEF Goto, Step, Lock, NextEvent, server, flags, handles
<1> USE DEF Labels, StopLabels, PollLabels, InCallback
<1>1. pc \in [Threads -> Labels] /\ ret \in [Threads -> {"idle"} \cup InCallback]
  BY DEF TypeInv, TypeOK
<1>2. CASE BroadcastSend(t)
  BY <1>1, <1>2, Elsewhere DEF BroadcastSend
<1>3. CASE DisconnectLock(t)
  BY <1>1, <1>3, Elsewhere DEF DisconnectLock
<1>4. CASE DisconnectErase(t)
  BY <1>1, <1>4, Elsewhere DEF DisconnectErase
<1>5. QED
  BY <1>2, <1>3, <1>4 DEF CallStep

LEMMA AppCallLive ==
  ASSUME TypeInv, LiveInv, AppCall
  PROVE  LiveInv'
<1> USE DEF Goto, Step, Lock, NextEvent, server, flags, handles
<1> USE DEF Labels, StopLabels, PollLabels, InCallback
<1>1. pc \in [Threads -> Labels] /\ ret \in [Threads -> {"idle"} \cup InCallback]
  BY DEF TypeInv, TypeOK
<1>2. ASSUME NEW m \in Modes, StartListen(m) PROVE LiveInv'
  BY <1>1, <1>2, ThreadNames, ThreadsDistinct DEF StartListen, LiveInv, NetJoined,
    StartAlone,
    StopAlone, GroupExists, OthersDoNotPoll, Threads
<1>3. CASE StopBegin
  BY <1>1, <1>3, ThreadNames, ThreadsDistinct DEF StopBegin, LiveInv, NetJoined, StartAlone,
    StopAlone, GroupExists, OthersDoNotPoll, Threads
<1>4. CASE PollManually
  BY <1>1, <1>4, ThreadNames, ThreadsDistinct DEF PollManually, LiveInv, NetJoined,
    StartAlone,
    StopAlone, GroupExists, OthersDoNotPoll, Threads
<1>5. ASSUME NEW w \in Workers, Broadcast(w) PROVE LiveInv'
  BY <1>1, <1>5, Elsewhere DEF Broadcast, Threads
<1>6. ASSUME NEW t \in Threads, NEW c \in Conns, Disconnect(t, c) PROVE LiveInv'
  BY <1>1, <1>6, Elsewhere DEF Disconnect
<1>7. QED
  BY <1>2, <1>3, <1>4, <1>5, <1>6 DEF AppCall

LEMMA NextLiveInv == TypeInv /\ LiveInv /\ [Next]_vars => LiveInv'
<1> SUFFICES ASSUME TypeInv, LiveInv, [Next]_vars PROVE LiveInv'
  OBVIOUS
<1>1. ASSUME NEW t \in Threads, Run(t) PROVE LiveInv'
  <2>1. CASE t = Net /\ LoopCheck
    BY <2>1, ThreadNames, ThreadsDistinct DEF LoopCheck, Step, Goto, TypeInv, TypeOK,
      Threads,
      server, flags, handles, LiveInv, NetJoined, StartAlone, StopAlone, GroupExists,
      OthersDoNotPoll
  <2>2. CASE t \in Foreign /\ ForeignPump(t)
    BY <2>2, Elsewhere DEF ForeignPump, Step, TypeInv, TypeOK, server, flags, handles,
      Labels, PollLabels
  <2>3. QED
    BY <1>1, <2>1, <2>2, OwnerLive, PollLive, CallbackLive, CallLive DEF Run
<1>2. CASE Peer
  BY <1>2, SameLiveInv DEF Peer, PeerConnect, PeerEstablish, PeerSend, PeerGone, Unmoved,
    server, flags, handles
<1>3. CASE UNCHANGED vars
  BY <1>3, SameLiveInv DEF vars, server, flags, handles
<1>4. QED
  BY <1>1, <1>2, <1>3, AppCallLive DEF Next, Quiet

\* stop() never destroys the poll group while the network thread can still receive
\* on it, for any number of restarts and whatever other threads do: the join comes
\* before the destruction, and a failed start never meets a live network thread.
THEOREM GroupOutlivesLoop == Spec => []ReceivesOnLiveGroup
<1>1. LiveInv => ReceivesOnLiveGroup
  BY DEF LiveInv, NetJoined, GroupExists, OthersDoNotPoll, ReceivesOnLiveGroup, Threads
<1>2. QED
  BY InitTypeInv, NextTypeInv, InitLiveInv, NextLiveInv, <1>1, PTL DEF Spec

-----------------------------------------------------------------------------
\* The thread at a label inside a critical section is the one that holds
\* m_client_mutex.
MutexHeld == \A t \in Threads : pc[t] \in Locked <=> m_client_mutex = t

\* A thread that was not spawned, or was joined, is nowhere.
NetIsThread == pc[Net] # "off" => m_network_thread

LockInv == MutexHeld /\ NetIsThread

LEMMA InitLockInv == Init => LockInv
  BY ThreadNames DEF Init, LockInv, MutexHeld, NetIsThread, Locked

LEMMA LockStep ==
  ASSUME LockInv, pc \in [Threads -> Labels], NEW t \in Threads,
         NEW from, NEW to \in Locked, from # "off", Lock(t, from, to)
  PROVE  LockInv'
  BY ThreadNames DEF LockInv, MutexHeld, NetIsThread, Lock, Goto, Locked, server, flags

LEMMA OwnerMutex ==
  ASSUME TypeInv, LiveInv, LockInv, OwnerStep
  PROVE  LockInv'
<1> USE DEF LockInv, MutexHeld, NetIsThread, Locked, Goto, Step, Release, NextEvent,
  server, flags, clients
<1>1. pc \in [Threads -> Labels] /\ ret \in [Threads -> {"idle"} \cup InCallback]
  BY DEF TypeInv, TypeOK
<1>2. CASE StartGroup
  BY <1>1, <1>2, ThreadNames DEF StartGroup
<1>3. CASE StartPublish
  BY <1>1, <1>3, ThreadNames DEF StartPublish
<1>4. CASE StartSpawn
  BY <1>1, <1>4, ThreadNames DEF StartSpawn, LiveInv, StartAlone
<1>5. CASE StopExchange
  BY <1>1, <1>5, ThreadNames DEF StopExchange
<1>6. CASE StopJoin
  BY <1>1, <1>6, ThreadNames DEF StopJoin
<1>7. CASE StopLock
  BY <1>1, <1>7, LockStep, ThreadNames DEF StopLock
<1>8. CASE StopClear
  BY <1>1, <1>8, ThreadNames DEF StopClear
<1>9. CASE StopRelease
  BY <1>1, <1>9, ThreadNames DEF StopRelease
<1>10. ASSUME NEW c \in Conns, StopCloseOne(c) PROVE LockInv'
  BY <1>1, <1>10, ThreadNames DEF StopCloseOne
<1>11. QED
  BY <1>2, <1>3, <1>4, <1>5, <1>6, <1>7, <1>8, <1>9, <1>10 DEF OwnerStep

LEMMA PollMutex ==
  ASSUME TypeInv, LockInv, NEW t \in Threads, PollStep(t)
  PROVE  LockInv'
<1> USE DEF LockInv, MutexHeld, NetIsThread, Locked, Goto, Step, Release, NextEvent,
  server, flags, clients
<1>1. pc \in [Threads -> Labels] /\ ret \in [Threads -> {"idle"} \cup InCallback]
  BY DEF TypeInv, TypeOK
<1>2. CASE PollReceive(t)
  BY <1>1, <1>2 DEF PollReceive
<1>3. CASE PollInvalid(t)
  BY <1>1, <1>3 DEF PollInvalid
<1>4. CASE PollLock(t)
  BY <1>1, <1>4, LockStep, ThreadNames DEF PollLock
<1>5. CASE PollFind(t)
  BY <1>1, <1>5, ThreadNames DEF PollFind
<1>6. CASE DataCallback(t)
  BY <1>1, <1>6 DEF DataCallback
<1>7. CASE DataReturn(t)
  BY <1>1, <1>7 DEF DataReturn
<1>8. CASE PollMessagesDone(t)
  BY <1>1, <1>8 DEF PollMessagesDone
<1>9. QED
  BY <1>2, <1>3, <1>4, <1>5, <1>6, <1>7, <1>8 DEF PollStep

LEMMA CallbackMutex ==
  ASSUME TypeInv, LockInv, NEW t \in Threads, CallbackStep(t)
  PROVE  LockInv'
<1> USE DEF LockInv, MutexHeld, NetIsThread, Locked, Goto, Step, Release, NextEvent,
  server, flags, clients
<1>1. pc \in [Threads -> Labels] /\ ret \in [Threads -> {"idle"} \cup InCallback]
  BY DEF TypeInv, TypeOK
<1>2. CASE RunCallbacks(t)
  BY <1>1, <1>2 DEF RunCallbacks
<1>3. CASE RunCallbacksDone(t)
  BY <1>1, <1>3 DEF RunCallbacksDone
<1>4. CASE StatusDropped(t)
  BY <1>1, <1>4 DEF StatusDropped
<1>5. CASE StatusChecked(t)
  BY <1>1, <1>5 DEF StatusChecked
<1>6. CASE StatusCrash(t)
  BY <1>1, <1>6 DEF StatusCrash
<1>7. CASE StatusGone(t)
  BY <1>1, <1>7 DEF StatusGone
<1>8. CASE StatusConnecting(t)
  BY <1>1, <1>8 DEF StatusConnecting
<1>9. CASE StatusIgnored(t)
  BY <1>1, <1>9 DEF StatusIgnored
<1>10. CASE Accept(t)
  <2>1. /\ pc[t] \notin Locked \cup {"off"} /\ UNCHANGED <<m_client_mutex, m_network_thread>>
        /\ \E l \in {"setgroup", "dispatch"} : Goto(t, l)
    BY <1>10 DEF Accept
  <2>2. QED
    BY <1>1, <2>1
<1>11. CASE SetGroup(t)
  <2>1. /\ pc[t] \notin Locked \cup {"off"} /\ UNCHANGED <<m_client_mutex, m_network_thread>>
        /\ \E l \in {"insert", "dispatch"} : Goto(t, l)
    BY <1>11 DEF SetGroup
  <2>2. QED
    BY <1>1, <2>1
<1>12. CASE Insert(t)
  BY <1>1, <1>12 DEF Insert
<1>13. CASE InsertRace(t)
  BY <1>1, <1>13 DEF InsertRace
<1>14. CASE ConnectedReturn(t)
  BY <1>1, <1>14 DEF ConnectedReturn
<1>15. CASE LookupLock(t)
  BY <1>1, <1>15, LockStep, ThreadNames DEF LookupLock
<1>16. CASE LookupFind(t)
  BY <1>1, <1>16, ThreadNames DEF LookupFind
<1>17. CASE GoneCallback(t)
  BY <1>1, <1>17 DEF GoneCallback
<1>18. CASE GoneReturn(t)
  BY <1>1, <1>18 DEF GoneReturn
<1>19. CASE CloseGone(t)
  BY <1>1, <1>19 DEF CloseGone
<1>20. QED
  BY <1>2, <1>3, <1>4, <1>5, <1>6, <1>7, <1>8, <1>9, <1>10, <1>11, <1>12, <1>13, <1>14,
    <1>15, <1>16, <1>17, <1>18, <1>19 DEF CallbackStep

LEMMA CallMutex ==
  ASSUME TypeInv, LockInv, NEW t \in Threads, CallStep(t)
  PROVE  LockInv'
<1> USE DEF LockInv, MutexHeld, NetIsThread, Locked, Goto, Step, Release, NextEvent,
  server, flags, clients
<1>1. pc \in [Threads -> Labels] /\ ret \in [Threads -> {"idle"} \cup InCallback]
  BY DEF TypeInv, TypeOK
<1>2. CASE BroadcastSend(t)
  BY <1>1, <1>2, ThreadNames DEF BroadcastSend
<1>3. CASE DisconnectLock(t)
  BY <1>1, <1>3, LockStep, ThreadNames DEF DisconnectLock
<1>4. CASE DisconnectErase(t)
  BY <1>1, <1>4, ThreadNames DEF DisconnectErase, InCallback
<1>5. QED
  BY <1>2, <1>3, <1>4 DEF CallStep

LEMMA AppCallMutex ==
  ASSUME TypeInv, LockInv, AppCall
  PROVE  LockInv'
<1> USE DEF LockInv, MutexHeld, NetIsThread, Locked, Goto, Step, Release, NextEvent,
  server, flags, clients
<1>1. pc \in [Threads -> Labels] /\ ret \in [Threads -> {"idle"} \cup InCallback]
  BY DEF TypeInv, TypeOK
<1>2. ASSUME NEW m \in Modes, StartListen(m) PROVE LockInv'
  BY <1>1, <1>2, ThreadNames DEF StartListen
<1>3. CASE StopBegin
  BY <1>1, <1>3, ThreadNames DEF StopBegin
<1>4. CASE PollManually
  BY <1>1, <1>4, ThreadNames DEF PollManually
<1>5. ASSUME NEW w \in Workers, Broadcast(w) PROVE LockInv'
  BY <1>1, <1>5, ThreadNames DEF Broadcast, Threads
<1>6. ASSUME NEW t \in Threads, NEW c \in Conns, Disconnect(t, c) PROVE LockInv'
  BY <1>1, <1>6 DEF Disconnect, InCallback
<1>7. QED
  BY <1>2, <1>3, <1>4, <1>5, <1>6 DEF AppCall

LEMMA NextLockInv == TypeInv /\ LiveInv /\ LockInv /\ [Next]_vars => LockInv'
<1> SUFFICES ASSUME TypeInv, LiveInv, LockInv, [Next]_vars PROVE LockInv'
  OBVIOUS
<1>1. ASSUME NEW t \in Threads, Run(t) PROVE LockInv'
  <2>1. CASE t = Net /\ LoopCheck
    BY <2>1, ThreadNames DEF LoopCheck, Step, Goto, LockInv, MutexHeld, NetIsThread,
      Locked, TypeInv, TypeOK, server, flags, clients
  <2>2. CASE t \in Foreign /\ ForeignPump(t)
    BY <2>2, ThreadsDistinct DEF ForeignPump, Step, Goto, LockInv, MutexHeld, NetIsThread,
      Locked, Threads, TypeInv, TypeOK, server, flags, clients
  <2>3. QED
    BY <1>1, <2>1, <2>2, OwnerMutex, PollMutex, CallbackMutex, CallMutex DEF Run
<1>2. CASE Peer
  BY <1>2 DEF Peer, PeerConnect, PeerEstablish, PeerSend, PeerGone, Unmoved, clients,
    server, flags, LockInv, MutexHeld, NetIsThread
<1>3. CASE UNCHANGED vars
  BY <1>3 DEF vars, clients, server, flags, LockInv, MutexHeld, NetIsThread
<1>4. QED
  BY <1>1, <1>2, <1>3, AppCallMutex DEF Next, Quiet

\* Of any number of threads, two are inside m_clients at once only if one of them
\* is at the unlocked insertion of an accepted connection (udp_server.cpp:229).
THEOREM RacesOnlyAtInsert == Spec => []OnlyInsertRaces
<1>1. LockInv => OnlyInsertRaces
  BY DEF LockInv, MutexHeld, NetIsThread, OnlyInsertRaces, InMap, Locked
<1>2. QED
  BY InitTypeInv, NextTypeInv, InitLiveInv, NextLiveInv, InitLockInv, NextLockInv, <1>1,
    PTL DEF Spec

\* m_client_mutex cannot be part of a deadlock, whatever the threads and the calls of
\* the application are: its holder waits for nothing - not for the mutex itself
\* (udp_server.hpp:81, udp_server.cpp:166) nor for the network thread (udp_server.cpp:84) -
\* and does not run callbacks, which lock it again when they call disconnect().
THEOREM LockIsNeverHeldWaiting == Spec => []NeverWaitsLocked
<1>1. LockInv => NeverWaitsLocked
  BY DEF LockInv, MutexHeld, NetIsThread, NeverWaitsLocked, Locked, Waits, InCallback
<1>2. QED
  BY InitTypeInv, NextTypeInv, InitLiveInv, NextLiveInv, InitLockInv, NextLockInv, <1>1,
    PTL DEF Spec
=============================================================================
