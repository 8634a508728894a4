------------------------- MODULE UdpServerRefinement -------------------------
(***************************************************************************)
(* Theorems about a UdpServer whose events no other object dispatches      *)
(* (Foreign = {}): what stop() leaves behind, what becomes of the messages,*)
(* and that the server implements ServerSessions.                          *)
(***************************************************************************)
EXTENDS UdpServerProofs, FiniteSetTheorems

\* Where thread t is, not counting a disconnect() call it may be in.
At(t) == IF pc[t] \in {"eraseLock", "erase"} THEN ret[t] ELSE pc[t]

Up == m_is_running \/ pc[Owner] = "join"

\* One thread polls: the network thread of an async server, or Owner.
NetIsAsync ==
  /\ pc[Net] # "off" => mode = "async" /\ m_network_thread
  /\ m_network_thread => pc[Net] # "off"
SpawnIsAsync == pc[Owner] = "spawn" => mode = "async"
OwnerIsManual ==
  At(Owner) \in PollLabels => mode = "manual" /\ (At(Owner) # "recv" => m_is_running)
OthersOutside == \A t \in Workers : At(t) \in {"idle", "bcast"}
\* A server that does not run has no poll group, outside start and stop.
NoGroup ==
  \/ m_is_running \/ pc[Owner] \in {"publish", "join", "lock", "closing", "release"}
  \/ m_poll_group = 0 /\ groups = {}
OneGroup == groups \subseteq {m_poll_group}
DownWhileStarting == pc[Owner] \in {"group", "publish", "stopped"} => ~m_is_running
Published == m_is_running /\ pc[Owner] # "exchange" => s_instance

SoloInv ==
  /\ NetIsAsync /\ SpawnIsAsync /\ OwnerIsManual /\ OthersOutside
  /\ NoGroup /\ OneGroup /\ DownWhileStarting /\ Published

\* What a thread has in its local variables at which labels.
BatchAt(t) == messages[t] # {} => At(t) \in {"msg", "find", "data", "inData"}
PendingAt(t) == pending[t] # <<>> => At(t) \in {"dispatch"} \cup Handling
ClientAt(t) ==
  /\ client[t] # NoConn => At(t) \in {"data", "inData", "inConn", "gone", "inGone"}
  /\ At(t) \in {"gone", "inGone"} => client[t] = Event(t).conn
  /\ At(t) \in {"data", "inData"} =>
       \E m \in messages[t] : m[1] = client[t] /\ (At(t) = "inData" => m \in delivered)
LocalAt(t) == BatchAt(t) /\ PendingAt(t) /\ ClientAt(t)
LocalInv == \A t \in Threads : LocalAt(t)

\* The clients, and the states of their connections.
ClientsAnnounced == m_clients \cup left \cup kicked \subseteq announced
DownIsEmpty == ~m_is_running /\ pc[Owner] \notin {"join", "lock", "closing"} => m_clients = {}
ErasedIsClosed == \A c \in announced : c \notin m_clients => connState[c] = "closed"
AnnouncedIsAccepted == \A c \in announced : connState[c] \notin {"free", "Connecting"}
KickedIsClosed ==
  \A t \in Threads : pc[t] \in {"eraseLock", "erase"} =>
    kick[t] \in kicked /\ kick[t] \in Conns /\ connState[kick[t]] = "closed"
NewIsAccepted ==
  \A t \in Threads : pc[t] \in {"setgroup", "insert"} =>
    Event(t).conn \notin announced /\ connState[Event(t).conn] \notin {"free", "Connecting"}
GroupIsAnnounced ==
  \A c \in groupConns : c \in announced \/ \E t \in Threads : pc[t] = "insert" /\ Event(t).conn = c
OpenIsClient ==
  \A c \in Conns : connState[c] \in {"Accepted", "Connected"} =>
    c \in m_clients \/ \E t \in Threads : pc[t] \in {"setgroup", "insert"} /\ Event(t).conn = c
ClientInv ==
  /\ ClientsAnnounced /\ DownIsEmpty /\ ErasedIsClosed /\ AnnouncedIsAccepted /\ KickedIsClosed
  /\ NewIsAccepted /\ GroupIsAnnounced /\ OpenIsClient /\ DanglesOnlyByDisconnect

\* Status changes: a connection ends once, and is told to have ended once.
Ends(q, c) == {i \in 1..Len(q) : q[i].conn = c /\ q[i].new \in Gone}
EndLabels == {"lookup", "findGone", "gone", "inGone", "close"}
Telling(t) == At(t) \in {"inGone", "close"}
NotEnded == {"free", "Connecting", "Accepted", "Connected"}
EndsOnce ==
  \A c \in Conns :
    /\ \A i, j \in Ends(callbacks, c) : i = j
    /\ \A t \in Threads : /\ \A i, j \in Ends(pending[t], c) : i = j
                          /\ Ends(pending[t], c) # {} => Ends(callbacks, c) = {}
NoEarlyEnd ==
  \A c \in Conns : connState[c] \in NotEnded =>
    Ends(callbacks, c) = {} /\ \A t \in Threads : Ends(pending[t], c) = {}
HandlesEnd == \A t \in Threads : At(t) \in EndLabels => Event(t).new \in Gone
LeftIsClosed ==
  \A c \in left : connState[c] = "closed" \/ \E t \in Threads : Telling(t) /\ Event(t).conn = c
LeftIsTold ==
  \A c \in left :
    /\ Ends(callbacks, c) = {}
    /\ \A t \in Threads : \A i \in Ends(pending[t], c) : i = 1 /\ Telling(t)
EventInv == EndsOnce /\ NoEarlyEnd /\ HandlesEnd /\ LeftIsClosed /\ LeftIsTold

\* Messages: those of one connection are delivered in order and without gaps.
Batch == UNION {messages[t] : t \in Threads}
Silent == {"free", "Connecting", "Accepted"}
SilentBefore == \A c \in Conns : connState[c] \in Silent => sent[c] = 0
AllWereSent == \A m \in inbox \cup Batch \cup delivered : m[2] <= sent[m[1]]
NothingLost ==
  \A c \in Conns : connState[c] # "closed" =>
    \A k \in 1..sent[c] : <<c, k>> \in inbox \cup delivered \cup Batch
ClosedIsSilent == \A m \in inbox : connState[m[1]] # "closed"
BatchFollows ==
  \A t \in Threads : \A m \in messages[t] :
    m[1] \in m_clients \/ (pc[t] = "data" /\ client[t] = m[1]) =>
      \A k \in 1..(m[2] - 1) : <<m[1], k>> \in delivered \cup messages[t]
BatchAfter ==
  \A t \in Threads : \A m \in messages[t] :
    /\ \A d \in delivered : d[1] = m[1] =>
         d[2] < m[2] \/ (d[2] = m[2] /\ At(t) = "inData" /\ client[t] = m[1])
    /\ m[1] \in announced \ left
InboxAfter == \A m \in inbox : \A d \in delivered \cup Batch : d[1] = m[1] => d[2] < m[2]
DeliveredFollows ==
  \A d \in delivered : \A k \in 1..(d[2] - 1) : <<d[1], k>> \in delivered
MessageInv ==
  /\ SilentBefore /\ AllWereSent /\ NothingLost /\ ClosedIsSilent
  /\ BatchFollows /\ BatchAfter /\ InboxAfter /\ DeliveredFollows

-----------------------------------------------------------------------------
(* Who polls: SoloInv is inductive, and at most one thread is in poll().   *)

LEMMA OtherThreads ==
  ASSUME NEW t \in Workers
  PROVE  t \in Threads /\ t # Owner /\ t # Net
  BY ThreadsDistinct DEF Threads

LEMMA InitSolo == Init => SoloInv
  BY ThreadsDistinct DEF Init, At, Threads, PollLabels, SoloInv, NetIsAsync,
    SpawnIsAsync, OwnerIsManual, OthersOutside, NoGroup, OneGroup, DownWhileStarting,
    Published

LEMMA OwnerSolo ==
  ASSUME TypeInv, LiveInv, SoloInv, OwnerStep
  PROVE  SoloInv'
<1> USE ThreadNames, OtherThreads
<1> USE DEF SoloInv, NetIsAsync, SpawnIsAsync, OwnerIsManual, OthersOutside, NoGroup,
  OneGroup, DownWhileStarting, Published
<1> USE DEF At, Goto, Step, Lock, NextEvent, server, flags, handles, call, PollLabels
<1>1. pc \in [Threads -> Labels] /\ ret \in [Threads -> {"idle"} \cup InCallback]
  BY DEF TypeInv, TypeOK
<1>2. CASE StartGroup
  BY <1>1, <1>2 DEF StartGroup
<1>3. CASE StartPublish
  BY <1>1, <1>3 DEF StartPublish
<1>4. CASE StartSpawn
  BY <1>1, <1>4 DEF StartSpawn
<1>5. CASE StopExchange
  BY <1>1, <1>5 DEF StopExchange
<1>6. CASE StopJoin
  BY <1>1, <1>6 DEF StopJoin
<1>7. CASE StopLock
  BY <1>1, <1>7 DEF StopLock
<1>8. CASE StopClear
  BY <1>1, <1>8 DEF StopClear
<1>9. CASE StopRelease
  BY <1>1, <1>9 DEF StopRelease, LiveInv, StopAlone
<1>10. ASSUME NEW c \in Conns, StopCloseOne(c) PROVE SoloInv'
  BY <1>1, <1>10 DEF StopCloseOne
<1>11. QED
  BY <1>2, <1>3, <1>4, <1>5, <1>6, <1>7, <1>8, <1>9, <1>10 DEF OwnerStep

LEMMA PollSolo ==
  ASSUME TypeInv, LiveInv, SoloInv, NEW t \in Threads \ Workers, PollStep(t)
  PROVE  SoloInv'
<1> USE ThreadNames, OtherThreads
<1> USE DEF SoloInv, NetIsAsync, SpawnIsAsync, OwnerIsManual, OthersOutside, NoGroup,
  OneGroup, DownWhileStarting, Published
<1> USE DEF At, Goto, Step, Lock, NextEvent, server, flags, handles, call, PollLabels
<1>1. pc \in [Threads -> Labels] /\ ret \in [Threads -> {"idle"} \cup InCallback]
  BY DEF TypeInv, TypeOK
<1>2. CASE PollReceive(t)
  BY <1>1, <1>2 DEF PollReceive
<1>3. CASE PollInvalid(t)
  BY <1>1, <1>3 DEF PollInvalid
<1>4. CASE PollLock(t)
  BY <1>1, <1>4 DEF PollLock
<1>5. CASE PollFind(t)
  BY <1>1, <1>5 DEF PollFind
<1>6. CASE DataCallback(t)
  BY <1>1, <1>6 DEF DataCallback
<1>7. CASE DataReturn(t)
  BY <1>1, <1>7 DEF DataReturn
<1>8. CASE PollMessagesDone(t)
  BY <1>1, <1>8 DEF PollMessagesDone
<1>9. QED
  BY <1>2, <1>3, <1>4, <1>5, <1>6, <1>7, <1>8 DEF PollStep

LEMMA CallbackSolo ==
  ASSUME TypeInv, LiveInv, SoloInv, NEW t \in Threads \ Workers, CallbackStep(t)
  PROVE  SoloInv'
<1> USE ThreadNames, OtherThreads
<1> USE DEF SoloInv, NetIsAsync, SpawnIsAsync, OwnerIsManual, OthersOutside, NoGroup,
  OneGroup, DownWhileStarting, Published
<1> USE DEF At, Goto, Step, Lock, NextEvent, server, flags, handles, call, PollLabels
<1>1. pc \in [Threads -> Labels] /\ ret \in [Threads -> {"idle"} \cup InCallback]
  BY DEF TypeInv, TypeOK
<1>2. CASE RunCallbacks(t)
  BY <1>1, <1>2 DEF RunCallbacks
<1>3. CASE RunCallbacksDone(t)
  BY <1>1, <1>3 DEF RunCallbacksDone
<1>4. CASE StatusDropped(t)
  BY <1>1, <1>4 DEF StatusDropped
<1>5. CASE StatusChecked(t)
  BY <1>1, <1>5 DEF StatusChecked
<1>6. CASE StatusCrash(t)
  BY <1>1, <1>6 DEF StatusCrash
<1>7. CASE StatusGone(t)
  BY <1>1, <1>7 DEF StatusGone
<1>8. CASE StatusConnecting(t)
  BY <1>1, <1>8 DEF StatusConnecting
<1>9. CASE StatusIgnored(t)
  BY <1>1, <1>9 DEF StatusIgnored
<1>10. CASE Accept(t)
  BY <1>1, <1>10 DEF Accept
<1>11. CASE SetGroup(t)
  BY <1>1, <1>11 DEF SetGroup
<1>12. CASE Insert(t)
  BY <1>1, <1>12 DEF Insert
<1>13. CASE InsertRace(t)
  BY <1>1, <1>13 DEF InsertRace
<1>14. CASE ConnectedReturn(t)
  BY <1>1, <1>14 DEF ConnectedReturn
<1>15. CASE LookupLock(t)
  BY <1>1, <1>15 DEF LookupLock
<1>16. CASE LookupFind(t)
  BY <1>1, <1>16 DEF LookupFind
<1>17. CASE GoneCallback(t)
  BY <1>1, <1>17 DEF GoneCallback
<1>18. CASE GoneReturn(t)
  BY <1>1, <1>18 DEF GoneReturn
<1>19. CASE CloseGone(t)
  BY <1>1, <1>19 DEF CloseGone
<1>20. QED
  BY <1>2, <1>3, <1>4, <1>5, <1>6, <1>7, <1>8, <1>9, <1>10, <1>11, <1>12, <1>13, <1>14,
    <1>15, <1>16, <1>17, <1>18, <1>19 DEF CallbackStep

LEMMA CallSolo ==
  ASSUME TypeInv, LiveInv, SoloInv, NEW t \in Threads, CallStep(t)
  PROVE  SoloInv'
<1> USE ThreadNames, OtherThreads
<1> USE DEF SoloInv, NetIsAsync, SpawnIsAsync, OwnerIsManual, OthersOutside, NoGroup,
  OneGroup, DownWhileStarting, Published
<1> USE DEF At, Goto, Step, Lock, NextEvent, server, flags, handles, call, PollLabels
<1>1. pc \in [Threads -> Labels] /\ ret \in [Threads -> {"idle"} \cup InCallback]
  BY DEF TypeInv, TypeOK
<1>2. CASE BroadcastSend(t)
  BY <1>1, <1>2 DEF BroadcastSend
<1>3. CASE DisconnectLock(t)
  BY <1>1, <1>3 DEF DisconnectLock
<1>4. CASE DisconnectErase(t)
  BY <1>1, <1>4 DEF DisconnectErase, InCallback
<1>5. QED
  BY <1>2, <1>3, <1>4 DEF CallStep

LEMMA AppCallSolo ==
  ASSUME TypeInv, LiveInv, SoloInv, AppCall
  PROVE  SoloInv'
<1> USE ThreadNames, OtherThreads
<1> USE DEF SoloInv, NetIsAsync, SpawnIsAsync, OwnerIsManual, OthersOutside, NoGroup,
  OneGroup, DownWhileStarting, Published
<1> USE DEF At, Goto, Step, Lock, NextEvent, server, flags, handles, call, PollLabels
<1>1. pc \in [Threads -> Labels] /\ ret \in [Threads -> {"idle"} \cup InCallback]
  BY DEF TypeInv, TypeOK
<1>2. ASSUME NEW m \in Modes, StartListen(m) PROVE SoloInv'
  BY <1>1, <1>2 DEF StartListen, LiveInv, NetJoined
<1>3. CASE StopBegin
  BY <1>1, <1>3 DEF StopBegin
<1>4. CASE PollManually
  BY <1>1, <1>4 DEF PollManually
<1>5. ASSUME NEW w \in Workers, Broadcast(w) PROVE SoloInv'
  BY <1>1, <1>5 DEF Broadcast
<1>6. ASSUME NEW t \in Threads, NEW c \in Conns, Disconnect(t, c) PROVE SoloInv'
  BY <1>1, <1>6 DEF Disconnect, InCallback
<1>7. QED
  BY <1>2, <1>3, <1>4, <1>5, <1>6 DEF AppCall

LEMMA NextSolo ==
  ASSUME Foreign = {}, TypeInv, LiveInv, SoloInv, [Next]_vars
  PROVE  SoloInv'
<1> USE ThreadNames, OtherThreads
<1>1. ASSUME NEW t \in Threads, Run(t) PROVE SoloInv'
  <2>1. CASE t = Net /\ LoopCheck
    BY <2>1 DEF LoopCheck, TypeInv, TypeOK, SoloInv, NetIsAsync, SpawnIsAsync,
      OwnerIsManual, OthersOutside, NoGroup, OneGroup, DownWhileStarting, Published, At,
      Goto, Step, server, flags, handles, call, PollLabels
  <2>2. t \notin Workers => t \in Threads \ Workers
    BY <1>1
  <2>3. Net \in Threads \ Workers /\ Owner \in Threads \ Workers
    BY ThreadsDistinct DEF Threads
  <2>4. QED
    BY <1>1, <2>1, <2>2, <2>3, OwnerSolo, PollSolo, CallbackSolo, CallSolo DEF Run
<1>2. CASE Peer
  BY <1>2 DEF Peer, PeerConnect, PeerEstablish, PeerSend, PeerGone, Unmoved, server,
    flags, handles, call, At,
    SoloInv, NetIsAsync, SpawnIsAsync, OwnerIsManual, OthersOutside, NoGroup, OneGroup,
    DownWhileStarting, Published
<1>3. CASE UNCHANGED vars
  BY <1>3 DEF vars, SoloInv, NetIsAsync, SpawnIsAsync, OwnerIsManual, OthersOutside,
    NoGroup, OneGroup, DownWhileStarting, Published, At, Goto, Step, server, flags,
    handles, call, PollLabels
<1>4. QED
  BY <1>1, <1>2, <1>3, AppCallSolo DEF Next, Quiet

\* The labels of a thread that is in poll().
Polling(t) == At(t) \in PollLabels

\* No two threads poll, and the one that does has a running server, or one that
\* stop() waits for it to leave.
LEMMA OnePoller ==
  ASSUME TypeInv, LiveInv, SoloInv, Foreign = {}, NEW t \in Threads, Polling(t)
  PROVE  /\ t \in {Net, Owner} /\ \A u \in Threads : Polling(u) => u = t
         /\ t = Owner => pc[Net] = "off" /\ pc[Owner] \notin StopLabels \cup {"stopped"}
         /\ At(t) # "recv" => Up
<1> USE DEF SoloInv, Polling
<1>1. \A u \in Workers : ~Polling(u)
  BY DEF OthersOutside, PollLabels
<1>2. \A u \in Threads : u \in {Net, Owner} \cup Workers
  BY DEF Threads
<1>3. Polling(Net) => pc[Net] # "off"
  BY DEF At, PollLabels
<1>4. Polling(Net) => ~Polling(Owner)
  BY <1>3 DEF NetIsAsync, OwnerIsManual
<1>5. Polling(Owner) => pc[Net] = "off" /\ pc[Owner] \notin StopLabels \cup {"stopped"}
  BY DEF NetIsAsync, OwnerIsManual, At, PollLabels, StopLabels
<1>6. Polling(Net) => Up
  BY <1>3 DEF LiveInv, NetJoined, Up
<1>7. Polling(Owner) /\ At(Owner) # "recv" => Up
  BY DEF OwnerIsManual, Up
<1>8. QED
  BY <1>1, <1>2, <1>4, <1>5, <1>6, <1>7

-----------------------------------------------------------------------------
(* The local variables of a thread: LocalInv is inductive.                 *)

\* A step leaves the local variables of thread u alone, and where it is.
SameLocal(u) ==
  /\ At(u)' = At(u) /\ messages'[u] = messages[u] /\ pending'[u] = pending[u]
  /\ client'[u] = client[u]

LEMMA LocalStep ==
  ASSUME LocalInv, NEW t \in Threads, \A u \in Threads \ {t} : SameLocal(u), LocalAt(t)',
         delivered \subseteq delivered'
  PROVE  LocalInv'
<1>1. SUFFICES ASSUME NEW u \in Threads \ {t} PROVE LocalAt(u)'
  BY DEF LocalInv
<1>2. LocalAt(u) /\ SameLocal(u)
  BY DEF LocalInv
<1>3. QED
  BY <1>2 DEF SameLocal, LocalAt, BatchAt, PendingAt, ClientAt, Event

LEMMA InitLocal == Init => LocalInv
  BY DEF Init, At, LocalInv, LocalAt, BatchAt, PendingAt, ClientAt

LEMMA OwnerLocal ==
  ASSUME TypeInv, LiveInv, SoloInv, LocalInv, OwnerStep
  PROVE  LocalInv'
<1> USE ThreadNames
<1> USE DEF LocalInv, LocalAt, BatchAt, PendingAt, ClientAt
<1> USE DEF At, Goto, Step, Lock, NextEvent, Event, Handling, local, call, rest
<1>1. pc \in [Threads -> Labels] /\ ret \in [Threads -> {"idle"} \cup InCallback]
  BY DEF TypeInv, TypeOK
<1>2. CASE StartGroup
  BY <1>1, <1>2 DEF StartGroup
<1>3. CASE StartPublish
  BY <1>1, <1>3 DEF StartPublish
<1>4. CASE StartSpawn
  BY <1>1, <1>4 DEF StartSpawn, LiveInv, StartAlone
<1>5. CASE StopExchange
  BY <1>1, <1>5 DEF StopExchange
<1>6. CASE StopJoin
  BY <1>1, <1>6 DEF StopJoin, SoloInv, NetIsAsync
<1>7. CASE StopLock
  BY <1>1, <1>7 DEF StopLock
<1>8. CASE StopClear
  BY <1>1, <1>8 DEF StopClear
<1>9. CASE StopRelease
  BY <1>1, <1>9 DEF StopRelease
<1>10. ASSUME NEW c \in Conns, StopCloseOne(c) PROVE LocalInv'
  BY <1>1, <1>10 DEF StopCloseOne
<1>11. QED
  BY <1>2, <1>3, <1>4, <1>5, <1>6, <1>7, <1>8, <1>9, <1>10 DEF OwnerStep

LEMMA PollLocal ==
  ASSUME TypeInv, LiveInv, SoloInv, LocalInv, NEW t \in Threads \ Workers, PollStep(t)
  PROVE  LocalInv'
<1> USE ThreadNames
<1> USE DEF LocalInv, LocalAt, BatchAt, PendingAt, ClientAt
<1> USE DEF At, Goto, Step, Lock, NextEvent, Event, Handling, local, call, rest
<1>1. pc \in [Threads -> Labels] /\ ret \in [Threads -> {"idle"} \cup InCallback]
  BY DEF TypeInv, TypeOK
<1>2. CASE PollReceive(t)
  BY <1>1, <1>2 DEF PollReceive
<1>3. CASE PollInvalid(t)
  BY <1>1, <1>3 DEF PollInvalid
<1>4. CASE PollLock(t)
  BY <1>1, <1>4 DEF PollLock
<1>5. CASE PollFind(t)
  <2>1. \A u \in Threads \ {t} : SameLocal(u)
    BY <1>1, <1>5 DEF PollFind, SameLocal, TypeInv, TypeOK
  <2>2. LocalAt(t)'
    BY <1>1, <1>5 DEF PollFind, TypeInv, TypeOK
  <2>3. QED
    BY <1>5, <2>1, <2>2, LocalStep DEF PollFind
<1>6. CASE DataCallback(t)
  BY <1>1, <1>6 DEF DataCallback
<1>7. CASE DataReturn(t)
  <2>1. \A u \in Threads \ {t} : SameLocal(u)
    BY <1>1, <1>7 DEF DataReturn, SameLocal, TypeInv, TypeOK
  <2>2. LocalAt(t)'
    BY <1>1, <1>7 DEF DataReturn, TypeInv, TypeOK
  <2>3. QED
    BY <1>7, <2>1, <2>2, LocalStep DEF DataReturn
<1>8. CASE PollMessagesDone(t)
  BY <1>1, <1>8 DEF PollMessagesDone
<1>9. QED
  BY <1>2, <1>3, <1>4, <1>5, <1>6, <1>7, <1>8 DEF PollStep

LEMMA CallbackLocal ==
  ASSUME TypeInv, LiveInv, SoloInv, LocalInv, NEW t \in Threads \ Workers, CallbackStep(t)
  PROVE  LocalInv'
<1> USE ThreadNames
<1> USE DEF LocalInv, LocalAt, BatchAt, PendingAt, ClientAt
<1> USE DEF At, Goto, Step, Lock, NextEvent, Event, Handling, local, call, rest
<1>1. pc \in [Threads -> Labels] /\ ret \in [Threads -> {"idle"} \cup InCallback]
  BY DEF TypeInv, TypeOK
<1>2. CASE RunCallbacks(t)
  BY <1>1, <1>2 DEF RunCallbacks
<1>3. CASE RunCallbacksDone(t)
  BY <1>1, <1>3 DEF RunCallbacksDone
<1>4. CASE StatusDropped(t)
  BY <1>1, <1>4 DEF StatusDropped
<1>5. CASE StatusChecked(t)
  BY <1>1, <1>5 DEF StatusChecked
<1>6. CASE StatusCrash(t)
  BY <1>1, <1>6 DEF StatusCrash
<1>7. CASE StatusGone(t)
  BY <1>1, <1>7 DEF StatusGone
<1>8. CASE StatusConnecting(t)
  BY <1>1, <1>8 DEF StatusConnecting
<1>9. CASE StatusIgnored(t)
  BY <1>1, <1>9 DEF StatusIgnored
<1>10. CASE Accept(t)
  <2>1. \A u \in Threads \ {t} : SameLocal(u)
    BY <1>1, <1>10 DEF Accept, SameLocal, TypeInv, TypeOK
  <2>2. /\ pc[t] = "accept" /\ pc'[t] \in {"setgroup", "dispatch"} /\ UNCHANGED <<messages, client>>
    BY <1>1, <1>10 DEF Accept
  <2>3. messages[t] = {} /\ client[t] = NoConn
    BY <2>2
  <2>4. LocalAt(t)'
    BY <2>2, <2>3
  <2>5. QED
    BY <1>10, <2>1, <2>4, LocalStep DEF Accept
<1>11. CASE SetGroup(t)
  <2>1. \A u \in Threads \ {t} : SameLocal(u)
    BY <1>1, <1>11 DEF SetGroup, SameLocal, TypeInv, TypeOK
  <2>2. LocalAt(t)'
    BY <1>1, <1>11 DEF SetGroup, TypeInv, TypeOK
  <2>3. QED
    BY <1>11, <2>1, <2>2, LocalStep DEF SetGroup
<1>12. CASE Insert(t)
  BY <1>1, <1>12 DEF Insert
<1>13. CASE InsertRace(t)
  BY <1>1, <1>13 DEF InsertRace
<1>14. CASE ConnectedReturn(t)
  <2>1. \A u \in Threads \ {t} : SameLocal(u)
    BY <1>1, <1>14 DEF ConnectedReturn, SameLocal, TypeInv, TypeOK
  <2>2. LocalAt(t)'
    BY <1>1, <1>14 DEF ConnectedReturn, TypeInv, TypeOK
  <2>3. QED
    BY <1>14, <2>1, <2>2, LocalStep DEF ConnectedReturn
<1>15. CASE LookupLock(t)
  BY <1>1, <1>15 DEF LookupLock
<1>16. CASE LookupFind(t)
  <2>1. \A u \in Threads \ {t} : SameLocal(u)
    BY <1>1, <1>16 DEF LookupFind, SameLocal, TypeInv, TypeOK
  <2>2. LocalAt(t)'
    BY <1>1, <1>16 DEF LookupFind, TypeInv, TypeOK
  <2>3. QED
    BY <1>16, <2>1, <2>2, LocalStep DEF LookupFind
<1>17. CASE GoneCallback(t)
  BY <1>1, <1>17 DEF GoneCallback
<1>18. CASE GoneReturn(t)
  <2>1. \A u \in Threads \ {t} : SameLocal(u)
    BY <1>1, <1>18 DEF GoneReturn, SameLocal, TypeInv, TypeOK
  <2>2. LocalAt(t)'
    BY <1>1, <1>18 DEF GoneReturn, TypeInv, TypeOK
  <2>3. QED
    BY <1>18, <2>1, <2>2, LocalStep DEF GoneReturn
<1>19. CASE CloseGone(t)
  BY <1>1, <1>19 DEF CloseGone
<1>20. QED
  BY <1>2, <1>3, <1>4, <1>5, <1>6, <1>7, <1>8, <1>9, <1>10, <1>11, <1>12, <1>13, <1>14,
    <1>15, <1>16, <1>17, <1>18, <1>19 DEF CallbackStep

LEMMA CallLocal ==
  ASSUME TypeInv, LiveInv, SoloInv, LocalInv, NEW t \in Threads, CallStep(t)
  PROVE  LocalInv'
<1> USE ThreadNames
<1> USE DEF LocalInv, LocalAt, BatchAt, PendingAt, ClientAt
<1> USE DEF At, Goto, Step, Lock, NextEvent, Event, Handling, local, call, rest
<1>1. pc \in [Threads -> Labels] /\ ret \in [Threads -> {"idle"} \cup InCallback]
  BY DEF TypeInv, TypeOK
<1>2. CASE BroadcastSend(t)
  BY <1>1, <1>2 DEF BroadcastSend
<1>3. CASE DisconnectLock(t)
  BY <1>1, <1>3 DEF DisconnectLock
<1>4. CASE DisconnectErase(t)
  BY <1>1, <1>4 DEF DisconnectErase, InCallback
<1>5. QED
  BY <1>2, <1>3, <1>4 DEF CallStep

LEMMA AppCallLocal ==
  ASSUME TypeInv, LiveInv, SoloInv, LocalInv, AppCall
  PROVE  LocalInv'
<1> USE ThreadNames
<1> USE DEF LocalInv, LocalAt, BatchAt, PendingAt, ClientAt
<1> USE DEF At, Goto, Step, Lock, NextEvent, Event, Handling, local, call, rest
<1>1. pc \in [Threads -> Labels] /\ ret \in [Threads -> {"idle"} \cup InCallback]
  BY DEF TypeInv, TypeOK
<1>2. ASSUME NEW m \in Modes, StartListen(m) PROVE LocalInv'
  BY <1>1, <1>2 DEF StartListen
<1>3. CASE StopBegin
  BY <1>1, <1>3 DEF StopBegin
<1>4. CASE PollManually
  BY <1>1, <1>4 DEF PollManually
<1>5. ASSUME NEW w \in Workers, Broadcast(w) PROVE LocalInv'
  BY <1>1, <1>5 DEF Broadcast, Threads
<1>6. ASSUME NEW t \in Threads, NEW c \in Conns, Disconnect(t, c) PROVE LocalInv'
  BY <1>1, <1>6 DEF Disconnect, InCallback
<1>7. QED
  BY <1>2, <1>3, <1>4, <1>5, <1>6 DEF AppCall

LEMMA NextLocal ==
  ASSUME Foreign = {}, TypeInv, LiveInv, SoloInv, LocalInv, [Next]_vars
  PROVE  LocalInv'
<1> USE ThreadNames
<1>1. ASSUME NEW t \in Threads, Run(t) PROVE LocalInv'
  <2>1. CASE t = Net /\ LoopCheck
    BY <2>1 DEF LoopCheck, TypeInv, TypeOK, LocalInv, LocalAt, BatchAt, PendingAt,
      ClientAt, At, Goto, Step, Lock, Event, Handling, local, call, rest
  <2>2. t \notin Workers => t \in Threads \ Workers
    BY <1>1
  <2>3. Net \in Threads \ Workers /\ Owner \in Threads \ Workers
    BY ThreadsDistinct DEF Threads
  <2>4. QED
    BY <1>1, <2>1, <2>2, <2>3, OwnerLocal, PollLocal, CallbackLocal, CallLocal DEF Run
<1>2. CASE Peer
  BY <1>2 DEF Peer, PeerConnect, PeerEstablish, PeerSend, PeerGone, Unmoved, At, Goto,
    Step, Lock, Event, Handling, local, call, rest,
    LocalInv, LocalAt, BatchAt, PendingAt, ClientAt
<1>3. CASE UNCHANGED vars
  BY <1>3 DEF vars, LocalInv, LocalAt, BatchAt, PendingAt, ClientAt, At, Goto, Step,
    Lock, Event, Handling, local, call, rest
<1>4. QED
  BY <1>1, <1>2, <1>3, AppCallLocal DEF Next, Quiet

-----------------------------------------------------------------------------
(* The client map and the connections behind it: ClientInv is inductive.   *)

LEMMA InitClient == Init => ClientInv
  BY DEF Init, ClientInv, ClientsAnnounced, DownIsEmpty, ErasedIsClosed,
    AnnouncedIsAccepted, KickedIsClosed, NewIsAccepted, GroupIsAnnounced, OpenIsClient,
    DanglesOnlyByDisconnect

LEMMA Closes ==
  ASSUME TypeOK, NEW c \in Conns, CloseConnection(c)
  PROVE  /\ connState'[c] = "closed" /\ groupConns' = groupConns \ {c}
         /\ \A d \in Conns : d # c => connState'[d] = connState[d]
         /\ inbox' = {m \in inbox : m[1] # c}
  BY DEF CloseConnection, TypeOK

\* What ClientInv says of a thread at "setgroup" or "insert" concerns the poller only.
LEMMA NoneIsNew ==
  ASSUME TypeInv, SoloInv, LiveInv, Foreign = {}, ~Up
  PROVE  \A t \in Threads : At(t) \notin PollLabels \ {"recv"}
  BY OnePoller DEF Polling

\* The connections that CloseConnection leaves alone are as they were.
LEMMA CloseClient ==
  ASSUME TypeInv, ClientInv, NEW c \in Conns, CloseConnection(c),
         UNCHANGED <<m_clients, announced, left, client, m_is_running>>,
         kicked \subseteq kicked', kicked' \subseteq announced,
         pc \in [Threads -> Labels],
         \A t \in Threads : /\ pc'[t] \in {"setgroup", "insert"} => pc'[t] = pc[t] /\ UNCHANGED pending[t]
                            /\ pc[t] \in {"setgroup", "insert"} =>
                                 (pc'[t] = pc[t] /\ UNCHANGED pending[t]) \/ Event(t).conn = c
                            /\ pc'[t] \in {"eraseLock", "erase"} =>
                                 \/ pc[t] \in {"eraseLock", "erase"} /\ UNCHANGED kick[t]
                                 \/ kick'[t] = c /\ c \in kicked',
         pc'[Owner] \notin {"join", "lock", "closing"} <=> pc[Owner] \notin {"join", "lock", "closing"},
         c \in announced => connState[c] \notin {"free", "Connecting"},
         announced \subseteq Conns
  PROVE  ClientInv'
<1> USE DEF Event
<1>1. /\ connState'[c] = "closed" /\ groupConns' = groupConns \ {c}
      /\ \A d \in Conns : d # c => connState'[d] = connState[d]
  BY Closes DEF TypeInv
<1>2. ClientsAnnounced' /\ DownIsEmpty' /\ DanglesOnlyByDisconnect'
  BY DEF ClientInv, ClientsAnnounced, DownIsEmpty, DanglesOnlyByDisconnect
<1>3. ErasedIsClosed' /\ AnnouncedIsAccepted'
  BY <1>1 DEF ClientInv, ErasedIsClosed, AnnouncedIsAccepted
<1>4. KickedIsClosed'
  BY <1>1 DEF ClientInv, KickedIsClosed
<1>5. NewIsAccepted'
  <2>1. \A t \in Threads : pc[t] \in {"setgroup", "insert"} => Event(t).conn \in Conns
    BY HandlingEvent DEF Handling
  <2>2. QED
    BY <1>1, <2>1 DEF ClientInv, NewIsAccepted
<1>6. GroupIsAnnounced'
  BY <1>1 DEF ClientInv, GroupIsAnnounced
<1>7. OpenIsClient'
  BY <1>1 DEF ClientInv, OpenIsClient
<1>8. QED
  BY <1>2, <1>3, <1>4, <1>5, <1>6, <1>7 DEF ClientInv

LEMMA OwnerClient ==
  ASSUME Foreign = {}, TypeInv, LiveInv, SoloInv, LocalInv, ClientInv, OwnerStep
  PROVE  ClientInv'
<1> USE ThreadNames
<1> USE DEF ClientInv, ClientsAnnounced, DownIsEmpty, ErasedIsClosed,
  AnnouncedIsAccepted, KickedIsClosed, NewIsAccepted, GroupIsAnnounced, OpenIsClient,
  DanglesOnlyByDisconnect
<1> USE DEF Goto, Step, Lock, NextEvent, Event, server, flags, clients, local, call, net,
  rest
<1>1. pc \in [Threads -> Labels] /\ ret \in [Threads -> {"idle"} \cup InCallback]
  BY DEF TypeInv, TypeOK
<1>2. CASE StartGroup
  <2>1. ClientsAnnounced'
    BY <1>1, <1>2 DEF StartGroup
  <2>2. DownIsEmpty'
    BY <1>1, <1>2 DEF StartGroup, SoloInv, DownWhileStarting
  <2>3. ErasedIsClosed'
    BY <1>1, <1>2 DEF StartGroup
  <2>4. AnnouncedIsAccepted'
    BY <1>1, <1>2 DEF StartGroup
  <2>5. KickedIsClosed'
    BY <1>1, <1>2 DEF StartGroup
  <2>6. NewIsAccepted'
    BY <1>1, <1>2 DEF StartGroup
  <2>7. GroupIsAnnounced'
    BY <1>1, <1>2 DEF StartGroup
  <2>8. OpenIsClient'
    BY <1>1, <1>2 DEF StartGroup
  <2>9. DanglesOnlyByDisconnect'
    BY <1>1, <1>2 DEF StartGroup
  <2>10. QED
    BY <2>1, <2>2, <2>3, <2>4, <2>5, <2>6, <2>7, <2>8, <2>9
<1>3. CASE StartPublish
  BY <1>1, <1>3 DEF StartPublish
<1>4. CASE StartSpawn
  <2>1. pc[Net] = "off"
    BY <1>4 DEF StartSpawn, LiveInv, StartAlone
  <2>2. ClientsAnnounced'
    BY <1>1, <1>4, <2>1 DEF StartSpawn
  <2>3. DownIsEmpty'
    BY <1>1, <1>4, <2>1 DEF StartSpawn
  <2>4. ErasedIsClosed'
    BY <1>1, <1>4, <2>1 DEF StartSpawn
  <2>5. AnnouncedIsAccepted'
    BY <1>1, <1>4, <2>1 DEF StartSpawn
  <2>6. KickedIsClosed'
    BY <1>1, <1>4, <2>1 DEF StartSpawn
  <2>7. NewIsAccepted'
    BY <1>1, <1>4, <2>1 DEF StartSpawn
  <2>8. GroupIsAnnounced'
    BY <1>1, <1>4, <2>1 DEF StartSpawn
  <2>9. OpenIsClient'
    BY <1>1, <1>4, <2>1 DEF StartSpawn
  <2>10. DanglesOnlyByDisconnect'
    BY <1>1, <1>4, <2>1 DEF StartSpawn
  <2>11. QED
    BY <2>2, <2>3, <2>4, <2>5, <2>6, <2>7, <2>8, <2>9, <2>10
<1>5. CASE StopExchange
  BY <1>1, <1>5 DEF StopExchange
<1>6. CASE StopJoin
  <2>1. pc[Net] \in {"off", "done"}
    BY <1>6 DEF StopJoin, SoloInv, NetIsAsync
  <2>2. ClientsAnnounced'
    BY <1>1, <1>6, <2>1 DEF StopJoin
  <2>3. DownIsEmpty'
    BY <1>1, <1>6, <2>1 DEF StopJoin
  <2>4. ErasedIsClosed'
    BY <1>1, <1>6, <2>1 DEF StopJoin
  <2>5. AnnouncedIsAccepted'
    BY <1>1, <1>6, <2>1 DEF StopJoin
  <2>6. KickedIsClosed'
    BY <1>1, <1>6, <2>1 DEF StopJoin
  <2>7. NewIsAccepted'
    BY <1>1, <1>6, <2>1 DEF StopJoin
  <2>8. GroupIsAnnounced'
    BY <1>1, <1>6, <2>1 DEF StopJoin
  <2>9. OpenIsClient'
    BY <1>1, <1>6, <2>1 DEF StopJoin
  <2>10. DanglesOnlyByDisconnect'
    BY <1>1, <1>6, <2>1 DEF StopJoin
  <2>11. QED
    BY <2>2, <2>3, <2>4, <2>5, <2>6, <2>7, <2>8, <2>9, <2>10
<1>7. CASE StopLock
  BY <1>1, <1>7 DEF StopLock
<1>8. CASE StopClear
  <2>1. \A t \in Threads : client[t] = NoConn
    <3>1. ~Up
      BY <1>8 DEF StopClear, LiveInv, StopAlone, Up
    <3>2. QED
      BY <3>1, NoneIsNew DEF LocalInv, LocalAt, ClientAt, PollLabels
  <2>2. ClientsAnnounced'
    BY <1>1, <1>8, <2>1 DEF StopClear
  <2>3. DownIsEmpty'
    BY <1>1, <1>8, <2>1 DEF StopClear
  <2>4. ErasedIsClosed'
    BY <1>1, <1>8, <2>1 DEF StopClear, TypeInv, TypeOK
  <2>5. AnnouncedIsAccepted'
    BY <1>1, <1>8, <2>1 DEF StopClear
  <2>6. KickedIsClosed'
    BY <1>1, <1>8, <2>1 DEF StopClear
  <2>7. NewIsAccepted'
    BY <1>1, <1>8, <2>1 DEF StopClear
  <2>8. GroupIsAnnounced'
    BY <1>1, <1>8, <2>1 DEF StopClear
  <2>9. OpenIsClient'
    BY <1>1, <1>8, <2>1 DEF StopClear
  <2>10. DanglesOnlyByDisconnect'
    BY <1>1, <1>8, <2>1 DEF StopClear
  <2>11. QED
    BY <2>2, <2>3, <2>4, <2>5, <2>6, <2>7, <2>8, <2>9, <2>10
<1>9. CASE StopRelease
  <2>1. \A c \in Conns : \/ connState'[c] = connState[c]
                         \/ connState[c] = "Connecting" /\ connState'[c] = "closed"
    <3>1. CASE m_listen_socket = 0
      BY <1>9, <3>1 DEF StopRelease
    <3>2. CASE m_listen_socket # 0
      <4>1. CloseListenSocket
        BY <1>9, <3>2 DEF StopRelease
      <4>2. QED
        BY <4>1 DEF CloseListenSocket
    <3>3. QED
      BY <3>1, <3>2
  <2>2. announced \subseteq Conns /\ groupConns' \subseteq groupConns
    BY <1>9 DEF StopRelease, TypeInv, TypeOK
  <2>3. \A t \in Threads : pc[t] \in {"setgroup", "insert"} => Event(t).conn \in Conns
    BY HandlingEvent DEF Handling
  <2>4. ClientsAnnounced'
    BY <1>1, <1>9, <2>1, <2>2, <2>3 DEF StopRelease
  <2>5. DownIsEmpty'
    BY <1>1, <1>9, <2>1, <2>2, <2>3 DEF StopRelease
  <2>6. ErasedIsClosed'
    BY <1>1, <1>9, <2>1, <2>2, <2>3 DEF StopRelease
  <2>7. AnnouncedIsAccepted'
    BY <1>1, <1>9, <2>1, <2>2, <2>3 DEF StopRelease
  <2>8. KickedIsClosed'
    BY <1>1, <1>9, <2>1, <2>2, <2>3 DEF StopRelease
  <2>9. NewIsAccepted'
    BY <1>1, <1>9, <2>1, <2>2, <2>3 DEF StopRelease
  <2>10. GroupIsAnnounced'
    BY <1>1, <1>9, <2>1, <2>2, <2>3 DEF StopRelease
  <2>11. OpenIsClient'
    BY <1>1, <1>9, <2>1, <2>2, <2>3 DEF StopRelease
  <2>12. DanglesOnlyByDisconnect'
    BY <1>1, <1>9, <2>1, <2>2, <2>3 DEF StopRelease
  <2>13. QED
    BY <2>4, <2>5, <2>6, <2>7, <2>8, <2>9, <2>10, <2>11, <2>12
<1>10. ASSUME NEW c \in Conns, StopCloseOne(c) PROVE ClientInv'
  <2>1. c \in announced /\ announced \subseteq Conns
    BY <1>10 DEF StopCloseOne, TypeInv, TypeOK
  <2>2. QED
    BY <1>1, <1>10, <2>1, CloseClient DEF StopCloseOne, TypeInv
<1>11. QED
  BY <1>2, <1>3, <1>4, <1>5, <1>6, <1>7, <1>8, <1>9, <1>10 DEF OwnerStep

LEMMA PollClient ==
  ASSUME Foreign = {}, TypeInv, LiveInv, SoloInv, LocalInv, ClientInv,
         NEW t \in Threads \ Workers, PollStep(t)
  PROVE  ClientInv'
<1> USE ThreadNames
<1> USE DEF ClientInv, ClientsAnnounced, DownIsEmpty, ErasedIsClosed,
  AnnouncedIsAccepted, KickedIsClosed, NewIsAccepted, GroupIsAnnounced, OpenIsClient,
  DanglesOnlyByDisconnect
<1> USE DEF Goto, Step, Lock, NextEvent, Event, server, flags, clients, local, call, net,
  rest
<1>1. pc \in [Threads -> Labels] /\ ret \in [Threads -> {"idle"} \cup InCallback]
  BY DEF TypeInv, TypeOK
<1>2. CASE PollReceive(t)
  BY <1>1, <1>2 DEF PollReceive
<1>3. CASE PollInvalid(t)
  BY <1>1, <1>3 DEF PollInvalid
<1>4. CASE PollLock(t)
  BY <1>1, <1>4 DEF PollLock
<1>5. CASE PollFind(t)
  <2>1. UNCHANGED client \/ \E c \in m_clients : client' = [client EXCEPT ![t] = c]
    BY <1>5 DEF PollFind
  <2>2. ClientsAnnounced'
    BY <1>1, <1>5, <2>1 DEF PollFind
  <2>3. DownIsEmpty'
    BY <1>1, <1>5, <2>1 DEF PollFind
  <2>4. ErasedIsClosed'
    BY <1>1, <1>5, <2>1 DEF PollFind
  <2>5. AnnouncedIsAccepted'
    BY <1>1, <1>5, <2>1 DEF PollFind
  <2>6. KickedIsClosed'
    BY <1>1, <1>5, <2>1 DEF PollFind
  <2>7. NewIsAccepted'
    BY <1>1, <1>5, <2>1 DEF PollFind
  <2>8. GroupIsAnnounced'
    BY <1>1, <1>5, <2>1 DEF PollFind
  <2>9. OpenIsClient'
    BY <1>1, <1>5, <2>1 DEF PollFind
  <2>10. DanglesOnlyByDisconnect'
    <3>1. UNCHANGED <<m_clients, kicked>> /\ client \in [Threads -> Conns \cup {NoConn}]
      BY <1>5 DEF PollFind, TypeInv, TypeOK
    <3>2. QED
      BY <2>1, <3>1
  <2>11. QED
    BY <2>2, <2>3, <2>4, <2>5, <2>6, <2>7, <2>8, <2>9, <2>10
<1>6. CASE DataCallback(t)
  BY <1>1, <1>6 DEF DataCallback
<1>7. CASE DataReturn(t)
  BY <1>1, <1>7 DEF DataReturn
<1>8. CASE PollMessagesDone(t)
  BY <1>1, <1>8 DEF PollMessagesDone
<1>9. QED
  BY <1>2, <1>3, <1>4, <1>5, <1>6, <1>7, <1>8 DEF PollStep

LEMMA CallbackClient ==
  ASSUME Foreign = {}, TypeInv, LiveInv, SoloInv, LocalInv, ClientInv,
         NEW t \in Threads \ Workers, CallbackStep(t)
  PROVE  ClientInv'
<1> USE ThreadNames
<1> USE DEF ClientInv, ClientsAnnounced, DownIsEmpty, ErasedIsClosed,
  AnnouncedIsAccepted, KickedIsClosed, NewIsAccepted, GroupIsAnnounced, OpenIsClient,
  DanglesOnlyByDisconnect
<1> USE DEF Goto, Step, Lock, NextEvent, Event, server, flags, clients, local, call, net,
  rest
<1>1. pc \in [Threads -> Labels] /\ ret \in [Threads -> {"idle"} \cup InCallback]
  BY DEF TypeInv, TypeOK
<1>2. CASE RunCallbacks(t)
  BY <1>1, <1>2 DEF RunCallbacks
<1>3. CASE RunCallbacksDone(t)
  BY <1>1, <1>3 DEF RunCallbacksDone
<1>4. CASE StatusDropped(t)
  BY <1>1, <1>4 DEF StatusDropped
<1>5. CASE StatusChecked(t)
  BY <1>1, <1>5 DEF StatusChecked
<1>6. CASE StatusCrash(t)
  BY <1>1, <1>6 DEF StatusCrash
<1>7. CASE StatusGone(t)
  BY <1>1, <1>7 DEF StatusGone
<1>8. CASE StatusConnecting(t)
  BY <1>1, <1>8 DEF StatusConnecting
<1>9. CASE StatusIgnored(t)
  BY <1>1, <1>9 DEF StatusIgnored
<1>10. CASE Accept(t)
  <2> DEFINE c == Event(t).conn
  <2>1. Event(t).conn \in Conns /\ announced \subseteq Conns
    BY <1>10, HandlingEvent DEF Accept, Handling, TypeInv, TypeOK

  <2>2. CASE connState[c] # "Connecting"
    <3>1. CloseConnection(c) /\ NextEvent(t)
      BY <1>10, <2>2 DEF Accept
    <3>2. QED
      BY <1>1, <1>10, <2>1, <3>1, CloseClient DEF Accept
  <2>3. CASE connState[c] = "Connecting"
    <3>1. c \notin announced
      BY <2>3
    <3>2. /\ connState'[c] = "Accepted" /\ \A d \in Conns : d # c => connState'[d] = connState[d]
      BY <1>10, <2>1, <2>3 DEF Accept, TypeInv, TypeOK
    <3>3. ErasedIsClosed' /\ AnnouncedIsAccepted' /\ ClientsAnnounced'
      BY <1>10, <2>1, <2>3, <3>1, <3>2 DEF Accept
    <3>4. KickedIsClosed'
      BY <1>1, <1>10, <2>1, <2>3, <3>2 DEF Accept
    <3>5. NewIsAccepted'
      <4>1. \A u \in Threads : pc[u] \in {"setgroup", "insert"} => Event(u).conn \in Conns
        BY HandlingEvent DEF Handling
      <4>2. QED
        BY <1>1, <1>10, <2>1, <2>3, <3>1, <3>2, <4>1 DEF Accept
    <3>6. GroupIsAnnounced'
      BY <1>1, <1>10, <2>3 DEF Accept
    <3>7. OpenIsClient'
      BY <1>1, <1>10, <2>1, <2>3, <3>2 DEF Accept
    <3>8. DownIsEmpty' /\ DanglesOnlyByDisconnect'
      BY <1>1, <1>10, <2>3 DEF Accept
    <3>9. QED
      BY <3>3, <3>4, <3>5, <3>6, <3>7, <3>8
  <2>4. QED
    BY <2>2, <2>3
<1>11. CASE SetGroup(t)
  <2> DEFINE c == Event(t).conn
  <2>1. Event(t).conn \in Conns /\ announced \subseteq Conns
    BY <1>11, HandlingEvent DEF SetGroup, Handling, TypeInv, TypeOK

  <2>2. CASE CloseConnection(c) /\ NextEvent(t)
    BY <1>1, <1>11, <2>1, <2>2, CloseClient DEF SetGroup, TypeInv
  <2>3. CASE groupConns' = groupConns \cup {c} /\ Goto(t, "insert") /\ UNCHANGED <<pending, connState>>
    <3>1. ErasedIsClosed' /\ AnnouncedIsAccepted' /\ ClientsAnnounced' /\ DownIsEmpty' /\ DanglesOnlyByDisconnect'
      BY <1>1, <1>11, <2>1, <2>3 DEF SetGroup
    <3>2. KickedIsClosed' /\ NewIsAccepted'
      BY <1>1, <1>11, <2>1, <2>3 DEF SetGroup
    <3>3. GroupIsAnnounced'
      BY <1>1, <1>11, <2>1, <2>3 DEF SetGroup
    <3>4. OpenIsClient'
      BY <1>1, <1>11, <2>1, <2>3 DEF SetGroup
    <3>5. QED
      BY <3>1, <3>2, <3>3, <3>4
  <2>4. QED
    BY <1>11, <2>2, <2>3 DEF SetGroup
<1>12. CASE Insert(t)
  <2>1. Event(t).conn \in Conns /\ announced \subseteq Conns
    BY <1>12, HandlingEvent DEF Insert, Handling, TypeInv, TypeOK

  <2>2. Up /\ \A u \in Threads : pc[u] \in {"setgroup", "insert"} => u = t
    BY <1>12, OnePoller DEF Insert, Polling, At, PollLabels
  <2>3. ClientsAnnounced'
    BY <1>1, <1>12, <2>1, <2>2 DEF Insert
  <2>4. DownIsEmpty'
    BY <1>1, <1>12, <2>1, <2>2 DEF Insert, Up
  <2>5. ErasedIsClosed'
    BY <1>1, <1>12, <2>1, <2>2 DEF Insert
  <2>6. AnnouncedIsAccepted'
    BY <1>1, <1>12, <2>1, <2>2 DEF Insert
  <2>7. KickedIsClosed'
    BY <1>1, <1>12, <2>1, <2>2 DEF Insert
  <2>8. NewIsAccepted'
    BY <1>1, <1>12, <2>1, <2>2 DEF Insert
  <2>9. GroupIsAnnounced'
    BY <1>1, <1>12, <2>1, <2>2 DEF Insert
  <2>10. OpenIsClient'
    BY <1>1, <1>12, <2>1, <2>2 DEF Insert
  <2>11. DanglesOnlyByDisconnect'
    BY <1>1, <1>12, <2>1, <2>2 DEF Insert, TypeInv, TypeOK
  <2>12. QED
    BY <2>3, <2>4, <2>5, <2>6, <2>7, <2>8, <2>9, <2>10, <2>11
<1>13. CASE InsertRace(t)
  BY <1>1, <1>13 DEF InsertRace
<1>14. CASE ConnectedReturn(t)
  BY <1>1, <1>14 DEF ConnectedReturn
<1>15. CASE LookupLock(t)
  BY <1>1, <1>15 DEF LookupLock
<1>16. CASE LookupFind(t)
  <2>1. ClientsAnnounced'
    BY <1>1, <1>16 DEF LookupFind
  <2>2. DownIsEmpty'
    BY <1>1, <1>16 DEF LookupFind
  <2>3. ErasedIsClosed'
    BY <1>1, <1>16 DEF LookupFind
  <2>4. AnnouncedIsAccepted'
    BY <1>1, <1>16 DEF LookupFind
  <2>5. KickedIsClosed'
    BY <1>1, <1>16 DEF LookupFind
  <2>6. NewIsAccepted'
    BY <1>1, <1>16 DEF LookupFind
  <2>7. GroupIsAnnounced'
    BY <1>1, <1>16 DEF LookupFind
  <2>8. OpenIsClient'
    BY <1>1, <1>16 DEF LookupFind
  <2>9. DanglesOnlyByDisconnect'
    BY <1>1, <1>16 DEF LookupFind, TypeInv, TypeOK
  <2>10. QED
    BY <2>1, <2>2, <2>3, <2>4, <2>5, <2>6, <2>7, <2>8, <2>9
<1>17. CASE GoneCallback(t)
  <2>1. client[t] \in announced
    BY <1>17, ConstantsTyped DEF GoneCallback, TypeInv, GoneHasClient
  <2>2. ClientsAnnounced'
    BY <1>1, <1>17, <2>1 DEF GoneCallback
  <2>3. DownIsEmpty'
    BY <1>1, <1>17, <2>1 DEF GoneCallback
  <2>4. ErasedIsClosed'
    BY <1>1, <1>17, <2>1 DEF GoneCallback
  <2>5. AnnouncedIsAccepted'
    BY <1>1, <1>17, <2>1 DEF GoneCallback
  <2>6. KickedIsClosed'
    BY <1>1, <1>17, <2>1 DEF GoneCallback
  <2>7. NewIsAccepted'
    BY <1>1, <1>17, <2>1 DEF GoneCallback
  <2>8. GroupIsAnnounced'
    BY <1>1, <1>17, <2>1 DEF GoneCallback
  <2>9. OpenIsClient'
    BY <1>1, <1>17, <2>1 DEF GoneCallback
  <2>10. DanglesOnlyByDisconnect'
    BY <1>1, <1>17, <2>1 DEF GoneCallback
  <2>11. QED
    BY <2>2, <2>3, <2>4, <2>5, <2>6, <2>7, <2>8, <2>9, <2>10
<1>18. CASE GoneReturn(t)
  BY <1>1, <1>18 DEF GoneReturn
<1>19. CASE CloseGone(t)
  <2>1. Event(t).conn \in Conns /\ announced \subseteq Conns
    BY <1>19, HandlingEvent DEF CloseGone, Handling, TypeInv, TypeOK

  <2>2. QED
    BY <1>1, <1>19, <2>1, CloseClient DEF CloseGone, TypeInv
<1>20. QED
  BY <1>2, <1>3, <1>4, <1>5, <1>6, <1>7, <1>8, <1>9, <1>10, <1>11, <1>12, <1>13, <1>14,
    <1>15, <1>16, <1>17, <1>18, <1>19 DEF CallbackStep

LEMMA CallClient ==
  ASSUME Foreign = {}, TypeInv, LiveInv, SoloInv, LocalInv, ClientInv, NEW t \in Threads,
         CallStep(t)
  PROVE  ClientInv'
<1> USE ThreadNames
<1> USE DEF ClientInv, ClientsAnnounced, DownIsEmpty, ErasedIsClosed,
  AnnouncedIsAccepted, KickedIsClosed, NewIsAccepted, GroupIsAnnounced, OpenIsClient,
  DanglesOnlyByDisconnect
<1> USE DEF Goto, Step, Lock, NextEvent, Event, server, flags, clients, local, call, net,
  rest
<1>1. pc \in [Threads -> Labels] /\ ret \in [Threads -> {"idle"} \cup InCallback]
  BY DEF TypeInv, TypeOK
<1>2. CASE BroadcastSend(t)
  BY <1>1, <1>2 DEF BroadcastSend
<1>3. CASE DisconnectLock(t)
  BY <1>1, <1>3 DEF DisconnectLock
<1>4. CASE DisconnectErase(t)
  BY <1>1, <1>4 DEF DisconnectErase, InCallback
<1>5. QED
  BY <1>2, <1>3, <1>4 DEF CallStep

LEMMA AppCallClient ==
  ASSUME Foreign = {}, TypeInv, LiveInv, SoloInv, LocalInv, ClientInv, AppCall
  PROVE  ClientInv'
<1> USE ThreadNames
<1> USE DEF ClientInv, ClientsAnnounced, DownIsEmpty, ErasedIsClosed,
  AnnouncedIsAccepted, KickedIsClosed, NewIsAccepted, GroupIsAnnounced, OpenIsClient,
  DanglesOnlyByDisconnect
<1> USE DEF Goto, Step, Lock, NextEvent, Event, server, flags, clients, local, call, net,
  rest
<1>1. pc \in [Threads -> Labels] /\ ret \in [Threads -> {"idle"} \cup InCallback]
  BY DEF TypeInv, TypeOK
<1>2. ASSUME NEW m \in Modes, StartListen(m) PROVE ClientInv'
  BY <1>1, <1>2 DEF StartListen
<1>3. CASE StopBegin
  BY <1>1, <1>3 DEF StopBegin
<1>4. CASE PollManually
  BY <1>1, <1>4 DEF PollManually
<1>5. ASSUME NEW w \in Workers, Broadcast(w) PROVE ClientInv'
  BY <1>1, <1>5 DEF Broadcast, Threads
<1>6. ASSUME NEW t \in Threads, NEW c \in Conns, Disconnect(t, c) PROVE ClientInv'
  <2>1. announced \subseteq Conns /\ kick \in [Threads -> Conns \cup {NoConn}]
    BY DEF TypeInv, TypeOK
  <2>2. QED
    BY <1>1, <1>6, <2>1, CloseClient DEF Disconnect, TypeInv, InCallback
<1>7. QED
  BY <1>2, <1>3, <1>4, <1>5, <1>6 DEF AppCall

LEMMA NextClient ==
  ASSUME Foreign = {}, TypeInv, LiveInv, SoloInv, LocalInv, ClientInv, [Next]_vars
  PROVE  ClientInv'
<1> USE ThreadNames
<1>1. ASSUME NEW t \in Threads, Run(t) PROVE ClientInv'
  <2>1. CASE t = Net /\ LoopCheck
    <3>1. UNCHANGED <<m_clients, m_is_running, announced, left, connState, kick, kicked, groupConns, client, pending>>
          /\ pc \in [Threads -> Labels] /\ pc[Net] = "check" /\ pc' = [pc EXCEPT ![Net] = pc'[Net]]
          /\ pc'[Net] \in {"recv", "done"}
      BY <2>1 DEF LoopCheck, Step, Goto, TypeInv, TypeOK, server, flags, clients, local,
        call, net, rest
    <3>2. ClientsAnnounced' /\ DownIsEmpty' /\ DanglesOnlyByDisconnect' /\ ErasedIsClosed' /\ AnnouncedIsAccepted'
      BY <3>1 DEF ClientInv, ClientsAnnounced, DownIsEmpty, DanglesOnlyByDisconnect,
        ErasedIsClosed, AnnouncedIsAccepted
    <3>3. KickedIsClosed' /\ NewIsAccepted' /\ GroupIsAnnounced' /\ OpenIsClient'
      BY <3>1 DEF ClientInv, KickedIsClosed, NewIsAccepted, GroupIsAnnounced,
        OpenIsClient, Event
    <3>4. QED
      BY <3>2, <3>3 DEF ClientInv
  <2>2. t \notin Workers => t \in Threads \ Workers
    BY <1>1
  <2>3. Net \in Threads \ Workers /\ Owner \in Threads \ Workers
    BY ThreadsDistinct DEF Threads
  <2>4. QED
    BY <1>1, <2>1, <2>2, <2>3, OwnerClient, PollClient, CallbackClient, CallClient DEF Run
<1>2. CASE Peer
  <2>1. PICK c \in Conns : PeerConnect(c) \/ PeerEstablish(c) \/ PeerSend(c) \/ PeerGone(c)
    BY <1>2 DEF Peer
  <2>2. /\ UNCHANGED <<pc, pending, client, m_clients, m_is_running, announced, left, kick, kicked, groupConns>>
        /\ \A d \in Conns : d # c => connState'[d] = connState[d]
        /\ \/ connState'[c] = connState[c]
           \/ connState[c] = "free" /\ connState'[c] = "Connecting"
           \/ connState[c] = "Accepted" /\ connState'[c] = "Connected"
           \/ connState[c] \in {"Connecting", "Accepted", "Connected"} /\ connState'[c] \in Gone
    BY <2>1 DEF PeerConnect, PeerEstablish, PeerSend, PeerGone, PostStatus, Unmoved,
      TypeInv, TypeOK,
      server, flags, clients, local, call, rest
  <2>3. announced \subseteq Conns /\ \A u \in Threads : pc[u] \in {"setgroup", "insert"} => Event(u).conn \in Conns
    BY HandlingEvent DEF Handling, TypeInv, TypeOK
  <2>4. ClientsAnnounced' /\ DownIsEmpty' /\ DanglesOnlyByDisconnect' /\ GroupIsAnnounced'
    BY <2>2 DEF ClientInv, ClientsAnnounced, DownIsEmpty, DanglesOnlyByDisconnect,
      GroupIsAnnounced, Event
  <2>5. ErasedIsClosed' /\ AnnouncedIsAccepted'
    BY <2>2, <2>3 DEF ClientInv, ErasedIsClosed, AnnouncedIsAccepted, Gone
  <2>6. KickedIsClosed' /\ NewIsAccepted'
    BY <2>2, <2>3 DEF ClientInv, KickedIsClosed, NewIsAccepted, Gone, Event
  <2>7. OpenIsClient'
    BY <2>2, <2>3 DEF ClientInv, OpenIsClient, Gone, Event
  <2>8. QED
    BY <2>4, <2>5, <2>6, <2>7 DEF ClientInv
<1>3. CASE UNCHANGED vars
  BY <1>3 DEF vars, ClientInv, ClientsAnnounced, DownIsEmpty, ErasedIsClosed,
    AnnouncedIsAccepted, KickedIsClosed, NewIsAccepted, GroupIsAnnounced, OpenIsClient,
    DanglesOnlyByDisconnect, Goto, Step, Lock, NextEvent, Event, server, flags, clients,
    local, call, net, rest
<1>4. QED
  BY <1>1, <1>2, <1>3, AppCallClient DEF Next, Quiet

-----------------------------------------------------------------------------
(* Status changes: EventInv is inductive, so no end of a connection is told twice. *)

LEMMA EndsEmpty == \A c : Ends(<<>>, c) = {}
  BY DEF Ends

LEMMA EndsAppend ==
  ASSUME NEW q \in Seq(Events), NEW e \in Events, NEW c \in Conns
  PROVE  /\ e.conn # c \/ e.new \notin Gone => Ends(Append(q, e), c) = Ends(q, c)
         /\ e.conn = c /\ e.new \in Gone => Ends(Append(q, e), c) = Ends(q, c) \cup {Len(q) + 1}
<1>1. /\ Len(q) \in Nat /\ Len(Append(q, e)) = Len(q) + 1
      /\ \A i \in 1..Len(q) : Append(q, e)[i] = q[i]
      /\ Append(q, e)[Len(q) + 1] = e
  BY AppendProperties, LenProperties
<1>2. \A i : i \in 1..(Len(q) + 1) <=> i \in 1..Len(q) \/ i = Len(q) + 1
  BY <1>1
<1>3. QED
  BY <1>1, <1>2 DEF Ends

LEMMA EndsTail ==
  ASSUME NEW q \in Seq(Events), q # <<>>, NEW c, NEW i \in Ends(Tail(q), c)
  PROVE  i \in Nat /\ i # 0 /\ i + 1 \in Ends(q, c)
<1>1. /\ Len(q) \in Nat /\ Len(q) # 0 /\ Len(Tail(q)) = Len(q) - 1
      /\ \A j \in 1..Len(Tail(q)) : Tail(q)[j] = q[j + 1]
  BY HeadTailProperties, EmptySeq, LenProperties
<1>2. i \in 1..(Len(q) - 1) /\ Tail(q)[i].conn = c /\ Tail(q)[i].new \in Gone
  BY <1>1 DEF Ends
<1>3. i + 1 \in 1..Len(q) /\ Tail(q)[i] = q[i + 1]
  BY <1>1, <1>2
<1>4. QED
  BY <1>2, <1>3 DEF Ends

LEMMA EndsHead ==
  ASSUME NEW q \in Seq(Events), q # <<>>, Head(q).new \in Gone
  PROVE  1 \in Ends(q, Head(q).conn)
<1>1. Len(q) \in Nat \ {0} /\ Head(q) = q[1]
  BY EmptySeq, LenProperties
<1>2. QED
  BY <1>1 DEF Ends

\* CloseConnection posts no end of a connection.
LEMMA CloseEnds ==
  ASSUME TypeOK, NEW c \in Conns, CloseConnection(c), NEW d \in Conns
  PROVE  Ends(callbacks', d) = Ends(callbacks, d)
<1> DEFINE e == [conn |-> c, old |-> ApiState(connState[c]), new |-> "None"]
<1>1. e \in Events /\ e.new \notin Gone /\ callbacks \in Seq(Events)
  BY ApiStateType DEF Events, TypeOK, Gone
<1>2. callbacks' = callbacks \/ callbacks' = Append(callbacks, e)
  BY DEF CloseConnection
<1>3. QED
  BY <1>1, <1>2, EndsAppend

\* A thread keeps its events, or is done with the first of them.
Keeps(t) ==
  /\ pending'[t] = pending[t]
  /\ Telling(t) => Telling(t)'
  /\ At(t)' \in EndLabels => At(t) \in EndLabels \/ Event(t).new \in Gone
Pops(t) ==
  /\ pending[t] # <<>> /\ pending'[t] = Tail(pending[t]) /\ At(t)' = "dispatch"
  /\ Telling(t) => connState'[Event(t).conn] = "closed"

\* A step that neither posts nor tells the end of a connection.
LEMMA EventStep ==
  ASSUME TypeInv, EventInv, UNCHANGED left,
         \A t \in Threads : Keeps(t) \/ Pops(t),
         \A c \in Conns : Ends(callbacks', c) = Ends(callbacks, c),
         \A c \in Conns : \/ connState'[c] \in {connState[c], "closed"}
                          \/ connState[c] \in NotEnded /\ connState'[c] \in NotEnded
  PROVE  EventInv'
<1>1. \A t \in Threads : pending[t] \in Seq(Events)
  BY DEF TypeInv, TypeOK
<1>2. \A t \in Threads : \A c \in Conns : \A i \in Ends(pending'[t], c) :
        \/ Keeps(t) /\ i \in Ends(pending[t], c)
        \/ Pops(t) /\ i \in Nat /\ i # 0 /\ i + 1 \in Ends(pending[t], c)
  BY <1>1, EndsTail DEF Keeps, Pops
<1>3. EndsOnce'
  <2>1. SUFFICES ASSUME NEW c \in Conns
                 PROVE  /\ \A i, j \in Ends(callbacks', c) : i = j
                        /\ \A t \in Threads : /\ \A i, j \in Ends(pending'[t], c) : i = j
                                              /\ Ends(pending'[t], c) # {} => Ends(callbacks', c) = {}
    BY DEF EndsOnce
  <2>2. \A t \in Threads : \A i, j \in Ends(pending'[t], c) : i = j
    <3>1. SUFFICES ASSUME NEW t \in Threads, NEW i \in Ends(pending'[t], c), NEW j \in Ends(pending'[t], c)
                   PROVE  i = j
      OBVIOUS
    <3>2. \A k, l \in Ends(pending[t], c) : k = l
      BY DEF EventInv, EndsOnce
    <3>3. CASE pending'[t] = pending[t]
      BY <3>2, <3>3
    <3>4. CASE Pops(t)
      <4>1. /\ i \in Nat /\ i + 1 \in Ends(pending[t], c)
            /\ j \in Nat /\ j + 1 \in Ends(pending[t], c)
        BY <1>1, <3>4, EndsTail DEF Pops
      <4>2. i + 1 = j + 1
        BY <3>2, <4>1
      <4>3. QED
        BY <4>1, <4>2
    <3>5. QED
      BY <3>3, <3>4 DEF Keeps
  <2>3. \A t \in Threads : Ends(pending'[t], c) # {} => Ends(callbacks', c) = {}
    BY <1>2 DEF EventInv, EndsOnce
  <2>4. QED
    BY <2>2, <2>3 DEF EventInv, EndsOnce
<1>4. NoEarlyEnd'
  <2>1. SUFFICES ASSUME NEW c \in Conns, connState'[c] \in NotEnded
                 PROVE  Ends(callbacks', c) = {} /\ \A t \in Threads : Ends(pending'[t], c) = {}
    BY DEF NoEarlyEnd
  <2>2. connState[c] \in NotEnded
    BY <2>1 DEF NotEnded
  <2>3. QED
    BY <1>2, <2>2 DEF EventInv, NoEarlyEnd
<1>5. HandlesEnd'
  BY DEF EventInv, HandlesEnd, Keeps, Pops, EndLabels, Event
<1>6. LeftIsClosed'
  <2>1. SUFFICES ASSUME NEW c \in left
                 PROVE  connState'[c] = "closed" \/ \E t \in Threads : Telling(t)' /\ Event(t)'.conn = c
    BY DEF LeftIsClosed
  <2>2. c \in Conns
    BY DEF TypeInv, TypeOK
  <2>3. CASE connState[c] = "closed"
    BY <2>2, <2>3 DEF NotEnded
  <2>4. ASSUME NEW t \in Threads, Telling(t), Event(t).conn = c
        PROVE  connState'[c] = "closed" \/ (Telling(t)' /\ Event(t)'.conn = c)
    BY <2>4 DEF Keeps, Pops, Event
  <2>5. QED
    BY <2>3, <2>4 DEF EventInv, LeftIsClosed
<1>7. LeftIsTold'
  <2>1. SUFFICES ASSUME NEW c \in left
                 PROVE  /\ Ends(callbacks', c) = {}
                        /\ \A t \in Threads : \A i \in Ends(pending'[t], c) : i = 1 /\ Telling(t)'
    BY DEF LeftIsTold
  <2>2. c \in Conns
    BY DEF TypeInv, TypeOK
  <2>3. ASSUME NEW t \in Threads, NEW i \in Ends(pending'[t], c) PROVE i = 1 /\ Telling(t)'
    <3>1. \A k \in Ends(pending[t], c) : k = 1 /\ Telling(t)
      BY DEF EventInv, LeftIsTold
    <3>2. CASE Keeps(t)
      BY <2>3, <3>1, <3>2 DEF Keeps
    <3>3. CASE Pops(t)
      <4>1. i \in Nat /\ i # 0 /\ i + 1 \in Ends(pending[t], c)
        BY <1>1, <2>3, <3>3, EndsTail DEF Pops
      <4>2. i + 1 = 1
        BY <3>1, <4>1
      <4>3. QED
        BY <4>1, <4>2
    <3>4. QED
      BY <3>2, <3>3
  <2>4. QED
    BY <2>2, <2>3 DEF EventInv, LeftIsTold
<1>8. QED
  BY <1>3, <1>4, <1>5, <1>6, <1>7 DEF EventInv

LEMMA InitEvent == Init => EventInv
<1> SUFFICES ASSUME Init PROVE EventInv
  OBVIOUS
<1>1. /\ \A c : Ends(callbacks, c) = {} /\ \A t \in Threads : Ends(pending[t], c) = {}
      /\ left = {} /\ \A t \in Threads : At(t) \in {"off", "idle"}
  BY EndsEmpty DEF Init, At
<1>2. QED
  BY <1>1 DEF EventInv, EndsOnce, NoEarlyEnd, HandlesEnd, LeftIsClosed, LeftIsTold,
    EndLabels
LEMMA OwnerTold ==
  ASSUME Foreign = {}, TypeInv, LiveInv, SoloInv, LocalInv, EventInv, OwnerStep
  PROVE  EventInv'
<1> USE ThreadNames
<1> USE DEF Keeps
<1> USE DEF Pops, Telling, EndLabels, At, Goto, Step, Lock, NextEvent, Event, local,
  call, net, rest
<1>1. pc \in [Threads -> Labels] /\ ret \in [Threads -> {"idle"} \cup InCallback]
  BY DEF TypeInv, TypeOK
<1>2. CASE StartGroup
  BY <1>1, <1>2, EventStep DEF StartGroup
<1>3. CASE StartPublish
  BY <1>1, <1>3, EventStep DEF StartPublish
<1>4. CASE StartSpawn
  BY <1>1, <1>4, EventStep DEF StartSpawn, LiveInv, StartAlone
<1>5. CASE StopExchange
  BY <1>1, <1>5, EventStep DEF StopExchange
<1>6. CASE StopJoin
  BY <1>1, <1>6, EventStep DEF StopJoin, SoloInv, NetIsAsync
<1>7. CASE StopLock
  BY <1>1, <1>7, EventStep DEF StopLock
<1>8. CASE StopClear
  BY <1>1, <1>8, EventStep DEF StopClear
<1>9. CASE StopRelease
  <2>1. \A c \in Conns : connState'[c] \in {connState[c], "closed"}
    BY <1>9 DEF StopRelease, CloseListenSocket
  <2>2. QED
    BY <1>1, <1>9, <2>1, EventStep DEF StopRelease
<1>10. ASSUME NEW c \in Conns, StopCloseOne(c) PROVE EventInv'
  <2>1. \A d \in Conns : connState'[d] \in {connState[d], "closed"}
    BY <1>10, Closes DEF StopCloseOne, TypeInv
  <2>2. \A d \in Conns : Ends(callbacks', d) = Ends(callbacks, d)
    BY <1>10, CloseEnds DEF StopCloseOne, TypeInv
  <2>3. QED
    BY <1>1, <1>10, <2>1, <2>2, EventStep DEF StopCloseOne
<1>11. QED
  BY <1>2, <1>3, <1>4, <1>5, <1>6, <1>7, <1>8, <1>9, <1>10 DEF OwnerStep

LEMMA PollTold ==
  ASSUME Foreign = {}, TypeInv, LiveInv, SoloInv, LocalInv, EventInv,
         NEW t \in Threads \ Workers, PollStep(t)
  PROVE  EventInv'
<1> USE ThreadNames
<1> USE DEF Keeps
<1> USE DEF Pops, Telling, EndLabels, At, Goto, Step, Lock, NextEvent, Event, local,
  call, net, rest
<1>1. pc \in [Threads -> Labels] /\ ret \in [Threads -> {"idle"} \cup InCallback]
  BY DEF TypeInv, TypeOK
<1>2. CASE PollReceive(t)
  BY <1>1, <1>2, EventStep DEF PollReceive
<1>3. CASE PollInvalid(t)
  BY <1>1, <1>3, EventStep DEF PollInvalid
<1>4. CASE PollLock(t)
  BY <1>1, <1>4, EventStep DEF PollLock
<1>5. CASE PollFind(t)
  BY <1>1, <1>5, EventStep DEF PollFind
<1>6. CASE DataCallback(t)
  BY <1>1, <1>6, EventStep DEF DataCallback
<1>7. CASE DataReturn(t)
  BY <1>1, <1>7, EventStep DEF DataReturn
<1>8. CASE PollMessagesDone(t)
  BY <1>1, <1>8, EventStep DEF PollMessagesDone
<1>9. QED
  BY <1>2, <1>3, <1>4, <1>5, <1>6, <1>7, <1>8 DEF PollStep

LEMMA CallbackTold ==
  ASSUME Foreign = {}, TypeInv, LiveInv, SoloInv, LocalInv, EventInv,
         NEW t \in Threads \ Workers, CallbackStep(t)
  PROVE  EventInv'
<1> USE ThreadNames
<1> USE DEF Keeps
<1> USE DEF Pops, Telling, EndLabels, At, Goto, Step, Lock, NextEvent, Event, local,
  call, net, rest
<1>1. pc \in [Threads -> Labels] /\ ret \in [Threads -> {"idle"} \cup InCallback]
  BY DEF TypeInv, TypeOK
<1>2. CASE RunCallbacks(t)
  <2>1. /\ pending[t] = <<>> /\ At(t) = "events" /\ At(t)' = "dispatch"
        /\ pending'[t] = callbacks /\ callbacks' = <<>> /\ UNCHANGED <<left, connState>>
        /\ \A u \in Threads : u # t => At(u)' = At(u) /\ pending'[u] = pending[u]
    BY <1>1, <1>2 DEF RunCallbacks, LocalInv, LocalAt, PendingAt, Handling, TypeInv, TypeOK
  <2>2. \A c : Ends(pending[t], c) = {} /\ Ends(callbacks', c) = {}
    BY <2>1, EndsEmpty
  <2>3. \A c : Ends(pending'[t], c) = Ends(callbacks, c)
    BY <2>1
  <2>4. \A u \in Threads : \A c : u # t => Ends(pending'[u], c) = Ends(pending[u], c)
    BY <2>1
  <2>5. EndsOnce'
    BY <2>2, <2>3, <2>4 DEF EventInv, EndsOnce
  <2>6. NoEarlyEnd'
    BY <2>1, <2>2, <2>3, <2>4 DEF EventInv, NoEarlyEnd
  <2>7. LeftIsTold'
    BY <2>1, <2>2, <2>3, <2>4 DEF EventInv, LeftIsTold
  <2>8. HandlesEnd' /\ LeftIsClosed'
    BY <2>1 DEF EventInv, HandlesEnd, LeftIsClosed
  <2>9. QED
    BY <2>5, <2>6, <2>7, <2>8 DEF EventInv
<1>3. CASE RunCallbacksDone(t)
  BY <1>1, <1>3, EventStep DEF RunCallbacksDone
<1>4. CASE StatusDropped(t)
  BY <1>1, <1>4, HandlingEvent, EventStep DEF StatusDropped, TypeInv, TypeOK, Handling
<1>5. CASE StatusChecked(t)
  BY <1>1, <1>5, EventStep DEF StatusChecked
<1>6. CASE StatusCrash(t)
  BY <1>1, <1>6, EventStep DEF StatusCrash
<1>7. CASE StatusGone(t)
  BY <1>1, <1>7, EventStep DEF StatusGone
<1>8. CASE StatusConnecting(t)
  BY <1>1, <1>8, EventStep DEF StatusConnecting
<1>9. CASE StatusIgnored(t)
  BY <1>1, <1>9, HandlingEvent, EventStep DEF StatusIgnored, TypeInv, TypeOK, Handling
<1>10. CASE Accept(t)
  <2> DEFINE c == Event(t).conn
  <2>1. c \in Conns /\ pending[t] # <<>> /\ pending \in [Threads -> Seq(Events)]
    BY <1>10, HandlingEvent DEF Accept, Handling, TypeInv, TypeOK
  <2>2. CASE connState[c] # "Connecting"
    <3>1. CloseConnection(c) /\ NextEvent(t) /\ pc[t] = "accept"
      BY <1>10, <2>2 DEF Accept
    <3>2. \A d \in Conns : connState'[d] \in {connState[d], "closed"} /\ Ends(callbacks', d) = Ends(callbacks, d)
      BY <2>1, <3>1, Closes, CloseEnds DEF TypeInv
    <3>3. \A u \in Threads : Keeps(u) \/ Pops(u)
      BY <1>1, <1>10, <2>1, <3>1 DEF Accept
    <3>4. QED
      BY <1>10, <3>2, <3>3, EventStep DEF Accept
  <2>3. CASE connState[c] = "Connecting"
    <3>1. \A d \in Conns : \/ connState'[d] = connState[d]
                           \/ connState[d] \in NotEnded /\ connState'[d] \in NotEnded
      BY <1>10, <2>1, <2>3 DEF Accept, NotEnded, TypeInv, TypeOK
    <3>2. \A u \in Threads : Keeps(u)
      BY <1>1, <1>10, <2>3 DEF Accept
    <3>3. QED
      BY <1>10, <2>3, <3>1, <3>2, EventStep DEF Accept
  <2>4. QED
    BY <2>2, <2>3
<1>11. CASE SetGroup(t)
  <2> DEFINE c == Event(t).conn
  <2>1. c \in Conns /\ pending[t] # <<>> /\ pending \in [Threads -> Seq(Events)]
    BY <1>11, HandlingEvent DEF SetGroup, Handling, TypeInv, TypeOK
  <2>2. CASE CloseConnection(c) /\ NextEvent(t)
    <3>1. \A d \in Conns : connState'[d] \in {connState[d], "closed"} /\ Ends(callbacks', d) = Ends(callbacks, d)
      BY <2>1, <2>2, Closes, CloseEnds DEF TypeInv
    <3>2. \A u \in Threads : Keeps(u) \/ Pops(u)
      BY <1>1, <1>11, <2>1, <2>2 DEF SetGroup
    <3>3. QED
      BY <1>11, <3>1, <3>2, EventStep DEF SetGroup
  <2>3. CASE Goto(t, "insert") /\ UNCHANGED <<pending, connState, callbacks>>
    BY <1>1, <1>11, <2>3, EventStep DEF SetGroup
  <2>4. QED
    BY <1>11, <2>2, <2>3 DEF SetGroup
<1>12. CASE Insert(t)
  BY <1>1, <1>12, EventStep DEF Insert
<1>13. CASE InsertRace(t)
  BY <1>1, <1>13, EventStep DEF InsertRace
<1>14. CASE ConnectedReturn(t)
  BY <1>1, <1>14, HandlingEvent, EventStep DEF ConnectedReturn, TypeInv, TypeOK, Handling
<1>15. CASE LookupLock(t)
  BY <1>1, <1>15, EventStep DEF LookupLock
<1>16. CASE LookupFind(t)
  BY <1>1, <1>16, EventStep DEF LookupFind
<1>17. CASE GoneCallback(t)
  <2> DEFINE c == Event(t).conn
  <2>1. /\ c \in Conns /\ pending[t] # <<>> /\ pending[t] \in Seq(Events)
        /\ client[t] = c /\ Event(t).new \in Gone
    BY <1>17, HandlingEvent DEF GoneCallback, Handling, LocalInv, LocalAt, ClientAt,
      EventInv, HandlesEnd
  <2>2. /\ left' = left \cup {c} /\ UNCHANGED <<pending, connState, callbacks>> /\ At(t)' = "inGone"
        /\ \A u \in Threads : u # t => At(u)' = At(u)
    BY <1>1, <1>17, <2>1 DEF GoneCallback
  <2>3. 1 \in Ends(pending[t], c)
    BY <2>1, EndsHead
  <2>4. Ends(callbacks, c) = {} /\ \A i \in Ends(pending[t], c) : i = 1
    BY <2>1, <2>3 DEF EventInv, EndsOnce
  <2>5. \A u \in Threads : u # t => Ends(pending[u], c) = {}
    <3>1. \A u \in Threads : u # t => ~Polling(u)
      BY <1>17, OnePoller DEF GoneCallback, Polling, PollLabels
    <3>2. \A u \in Threads : u # t => pending[u] = <<>>
      BY <3>1 DEF Polling, PollLabels, Handling, LocalInv, LocalAt, PendingAt
    <3>3. QED
      BY <3>2, EndsEmpty
  <2>6. EndsOnce' /\ NoEarlyEnd' /\ HandlesEnd'
    BY <1>17, <2>1, <2>2 DEF EventInv, EndsOnce, NoEarlyEnd, HandlesEnd, GoneCallback
  <2>7. LeftIsClosed'
    BY <1>17, <2>2 DEF EventInv, LeftIsClosed, GoneCallback
  <2>8. LeftIsTold'
    BY <1>17, <2>2, <2>4, <2>5 DEF EventInv, LeftIsTold, GoneCallback
  <2>9. QED
    BY <2>6, <2>7, <2>8 DEF EventInv
<1>18. CASE GoneReturn(t)
  BY <1>1, <1>18, EventStep DEF GoneReturn
<1>19. CASE CloseGone(t)
  <2>1. Event(t).conn \in Conns
    BY <1>19, HandlingEvent DEF CloseGone, Handling
  <2>2. connState'[Event(t).conn] = "closed" /\ \A d \in Conns : connState'[d] \in {connState[d], "closed"}
    BY <1>19, <2>1, Closes DEF CloseGone, TypeInv
  <2>3. \A d \in Conns : Ends(callbacks', d) = Ends(callbacks, d)
    BY <1>19, <2>1, CloseEnds DEF CloseGone, TypeInv
  <2>4. \A u \in Threads : Keeps(u) \/ Pops(u)
    BY <1>1, <1>19, <2>2, HandlingEvent DEF CloseGone, Handling, TypeInv, TypeOK
  <2>5. QED
    BY <1>19, <2>2, <2>3, <2>4, EventStep DEF CloseGone
<1>20. QED
  BY <1>2, <1>3, <1>4, <1>5, <1>6, <1>7, <1>8, <1>9, <1>10, <1>11, <1>12, <1>13, <1>14,
    <1>15, <1>16, <1>17, <1>18, <1>19 DEF CallbackStep

LEMMA CallTold ==
  ASSUME Foreign = {}, TypeInv, LiveInv, SoloInv, LocalInv, EventInv, NEW t \in Threads,
         CallStep(t)
  PROVE  EventInv'
<1> USE ThreadNames
<1> USE DEF Keeps
<1> USE DEF Pops, Telling, EndLabels, At, Goto, Step, Lock, NextEvent, Event, local,
  call, net, rest
<1>1. pc \in [Threads -> Labels] /\ ret \in [Threads -> {"idle"} \cup InCallback]
  BY DEF TypeInv, TypeOK
<1>2. CASE BroadcastSend(t)
  BY <1>1, <1>2, EventStep DEF BroadcastSend
<1>3. CASE DisconnectLock(t)
  BY <1>1, <1>3, EventStep DEF DisconnectLock
<1>4. CASE DisconnectErase(t)
  BY <1>1, <1>4, EventStep DEF DisconnectErase, InCallback
<1>5. QED
  BY <1>2, <1>3, <1>4 DEF CallStep

LEMMA AppCallTold ==
  ASSUME Foreign = {}, TypeInv, LiveInv, SoloInv, LocalInv, EventInv, AppCall
  PROVE  EventInv'
<1> USE ThreadNames
<1> USE DEF Keeps
<1> USE DEF Pops, Telling, EndLabels, At, Goto, Step, Lock, NextEvent, Event, local,
  call, net, rest
<1>1. pc \in [Threads -> Labels] /\ ret \in [Threads -> {"idle"} \cup InCallback]
  BY DEF TypeInv, TypeOK
<1>2. ASSUME NEW m \in Modes, StartListen(m) PROVE EventInv'
  BY <1>1, <1>2, EventStep DEF StartListen
<1>3. CASE StopBegin
  BY <1>1, <1>3, EventStep DEF StopBegin
<1>4. CASE PollManually
  BY <1>1, <1>4, EventStep DEF PollManually
<1>5. ASSUME NEW w \in Workers, Broadcast(w) PROVE EventInv'
  BY <1>1, <1>5, EventStep DEF Broadcast, Threads
<1>6. ASSUME NEW t \in Threads, NEW c \in Conns, Disconnect(t, c) PROVE EventInv'
  <2>1. \A d \in Conns : connState'[d] \in {connState[d], "closed"}
    BY <1>6, Closes DEF Disconnect, TypeInv
  <2>2. \A d \in Conns : Ends(callbacks', d) = Ends(callbacks, d)
    BY <1>6, CloseEnds DEF Disconnect, TypeInv
  <2>3. \A u \in Threads : At(u)' = At(u) /\ pending'[u] = pending[u]
    BY <1>1, <1>6 DEF Disconnect, InCallback
  <2>4. QED
    BY <1>6, <2>1, <2>2, <2>3, EventStep DEF Disconnect
<1>7. QED
  BY <1>2, <1>3, <1>4, <1>5, <1>6 DEF AppCall

LEMMA NextTold ==
  ASSUME Foreign = {}, TypeInv, LiveInv, SoloInv, LocalInv, EventInv, [Next]_vars
  PROVE  EventInv'
<1> USE ThreadNames
<1>1. ASSUME NEW t \in Threads, Run(t) PROVE EventInv'
  <2>1. CASE t = Net /\ LoopCheck
    BY <2>1, EventStep DEF LoopCheck, TypeInv, TypeOK, Keeps, Pops, Telling, EndLabels,
      At, Goto, Step, Lock, NextEvent, Event, local, call, net, rest
  <2>2. t \notin Workers => t \in Threads \ Workers
    BY <1>1
  <2>3. Net \in Threads \ Workers /\ Owner \in Threads \ Workers
    BY ThreadsDistinct DEF Threads
  <2>4. QED
    BY <1>1, <2>1, <2>2, <2>3, OwnerTold, PollTold, CallbackTold, CallTold DEF Run
<1>2. CASE Peer
  <2>1. PICK c \in Conns : PeerConnect(c) \/ PeerEstablish(c) \/ PeerSend(c) \/ PeerGone(c)
    BY <1>2 DEF Peer
  <2>2. /\ UNCHANGED <<left, pending>> /\ \A t \in Threads : At(t)' = At(t) /\ pending'[t] = pending[t]
        /\ connState \in [Conns -> ConnStates] /\ callbacks \in Seq(Events)
    BY <2>1 DEF PeerConnect, PeerEstablish, PeerSend, PeerGone, Unmoved, local, call,
      rest, At, TypeInv, TypeOK
  <2>3. CASE PeerSend(c)
    BY <2>2, <2>3, EventStep DEF PeerSend, Keeps, Telling
  <2>4. ASSUME NEW s \in {"Connecting", "Connected"} \cup Gone, connState[c] \in NotEnded, PostStatus(c, s)
        PROVE  EventInv'
    <3> DEFINE e == [conn |-> c, old |-> ApiState(connState[c]), new |-> s]
    <3>1. e \in Events /\ e.conn = c /\ e.new = s /\ callbacks' = Append(callbacks, e)
      BY <2>2, <2>4, ApiStateType DEF PostStatus, Events, ConnStates, Gone
    <3>2. connState'[c] = s /\ \A d \in Conns : d # c => connState'[d] = connState[d]
      BY <2>2, <2>4 DEF PostStatus
    <3>3. \A d \in Conns : d # c \/ s \notin Gone => Ends(callbacks', d) = Ends(callbacks, d)
      BY <2>2, <3>1, EndsAppend
    <3>4. CASE s \in {"Connecting", "Connected"}
      <4>1. \A d \in Conns : Ends(callbacks', d) = Ends(callbacks, d)
        BY <3>3, <3>4 DEF Gone
      <4>2. QED
        BY <2>2, <2>4, <3>2, <3>4, <4>1, EventStep DEF Keeps, Telling, NotEnded
    <3>5. CASE s \in Gone
      <4>1. Ends(callbacks, c) = {} /\ \A t \in Threads : Ends(pending[t], c) = {}
        BY <2>4 DEF EventInv, NoEarlyEnd
      <4>2. Ends(callbacks', c) = {Len(callbacks) + 1}
        BY <2>2, <3>1, <3>5, <4>1, EndsAppend
      <4>3. c \notin left
        <5>1. ASSUME NEW t \in Threads, Telling(t), Event(t).conn = c PROVE FALSE
          <6>1. Event(t).new \in Gone
            BY <5>1 DEF Telling, EndLabels, EventInv, HandlesEnd
          <6>2. \/ pc[t] \in Handling
                \/ pc[t] \in {"eraseLock", "erase"} /\ ret[t] \in {"inConn", "inGone"}
            BY <5>1 DEF Telling, At, Handling, TypeInv, TypeOK, InCallback
          <6>3. pending[t] # <<>> /\ pending[t] \in Seq(Events)
            BY <6>2 DEF TypeInv, TypeOK, HasEvent
          <6>4. 1 \in Ends(pending[t], c)
            BY <5>1, <6>1, <6>3, EndsHead DEF Event
          <6>5. QED
            BY <4>1, <6>4
        <5>2. QED
          BY <2>4, <5>1 DEF EventInv, LeftIsClosed, NotEnded
      <4>4. EndsOnce'
        <5>1. ASSUME NEW d \in Conns
              PROVE  /\ \A i, j \in Ends(callbacks', d) : i = j
                     /\ \A t \in Threads : Ends(pending[t], d) # {} => Ends(callbacks', d) = {}
          <6>1. CASE d = c
            BY <4>1, <4>2, <6>1
          <6>2. CASE d # c
            BY <3>3, <6>2 DEF EventInv, EndsOnce
          <6>3. QED
            BY <6>1, <6>2
        <5>2. QED
          BY <2>2, <5>1 DEF EventInv, EndsOnce
      <4>5. NoEarlyEnd'
        BY <2>2, <3>2, <3>3, <3>5 DEF EventInv, NoEarlyEnd, NotEnded, Gone
      <4>6. HandlesEnd'
        BY <2>2 DEF EventInv, HandlesEnd, Event
      <4>7. left \subseteq Conns
        BY DEF TypeInv, TypeOK
      <4>8. LeftIsClosed' /\ LeftIsTold'
        BY <2>2, <3>2, <3>3, <4>3, <4>7 DEF EventInv, LeftIsClosed, LeftIsTold, Telling,
          Event
      <4>9. QED
        BY <4>4, <4>5, <4>6, <4>8 DEF EventInv
    <3>6. QED
      BY <3>4, <3>5
  <2>5. QED
    BY <2>1, <2>3, <2>4 DEF PeerConnect, PeerEstablish, PeerGone, NotEnded
<1>3. CASE UNCHANGED vars
  BY <1>3, EventStep DEF vars, Keeps, Pops, Telling, EndLabels, At, Goto, Step, Lock,
    NextEvent, Event, local, call, net, rest
<1>4. QED
  BY <1>1, <1>2, <1>3, AppCallTold DEF Next, Quiet

-----------------------------------------------------------------------------
(* Where the null instance comes from.                                     *)

\* Only StatusCrash ends the process with a null instance.
LEMMA FaultIsCrash ==
  ASSUME Foreign = {}, [Next]_vars, fault = "none", fault' = "nullInstance"
  PROVE  \E t \in Threads : StatusCrash(t)
<1> USE DEF rest, Step, Lock
<1>1. ASSUME NEW t \in Threads, Run(t) PROVE StatusCrash(t)
  <2>1. ~OwnerStep
    BY DEF OwnerStep, StartGroup, StartPublish, StartSpawn, StopExchange, StopJoin,
      StopLock, StopClear, StopRelease, StopCloseOne
  <2>2. ~PollStep(t) /\ ~LoopCheck
    BY DEF PollStep, LoopCheck, PollReceive, PollInvalid, PollLock, PollFind,
      DataCallback, DataReturn, PollMessagesDone
  <2>3. ~CallStep(t)
    BY DEF CallStep, BroadcastSend, DisconnectLock, DisconnectErase
  <2>4. CallbackStep(t) => StatusCrash(t)
    BY DEF CallbackStep, RunCallbacks, RunCallbacksDone, StatusDropped, StatusChecked,
      StatusGone, StatusConnecting, StatusIgnored, Accept, SetGroup, Insert, InsertRace,
      ConnectedReturn, LookupLock, LookupFind, GoneCallback, GoneReturn, CloseGone
  <2>5. QED
    BY <1>1, <2>1, <2>2, <2>3, <2>4 DEF Run
<1>2. ~AppCall
  BY DEF AppCall, StartListen, StopBegin, PollManually, Broadcast, Disconnect
<1>3. ~Peer
  BY DEF Peer, PeerConnect, PeerEstablish, PeerSend, PeerGone, Unmoved
<1>4. QED
  BY <1>1, <1>2, <1>3 DEF Next, Quiet, vars

-----------------------------------------------------------------------------
(* The invariants together, and what they say about stop().                *)

\* What the theorems about a server without Foreign threads rest on.
ServerInv == TypeInv /\ LiveInv /\ SoloInv /\ LocalInv /\ ClientInv /\ EventInv

LEMMA InitServer == Init => ServerInv
  BY InitTypeInv, InitLiveInv, InitSolo, InitLocal, InitClient, InitEvent DEF ServerInv

LEMMA NextServer == ASSUME Foreign = {}, ServerInv, [Next]_vars PROVE ServerInv'
<1> USE DEF ServerInv
<1>1. TypeInv' /\ LiveInv'
  BY NextTypeInv, NextLiveInv
<1>2. SoloInv'
  BY NextSolo
<1>3. LocalInv'
  BY NextLocal
<1>4. ClientInv'
  BY NextClient
<1>5. EventInv'
  BY NextTold
<1>6. QED
  BY <1>1, <1>2, <1>3, <1>4, <1>5

LEMMA ServerCorrect == ASSUME Foreign = {} PROVE Spec => []ServerInv
<1>1. ServerInv /\ [Next]_vars => ServerInv'
  BY NextServer
<1>2. QED
  BY <1>1, InitServer, PTL DEF Spec

\* stop() leaves nothing behind, however often the server is restarted and whatever
\* the workers and the peers do meanwhile: when it has returned, the network thread is
\* joined, the map and the poll group are gone, and every connection the server
\* accepted is closed - also one whose handler was between AcceptConnection and the
\* insertion into the map when stop() began (udp_server.cpp:77-104, 212-229).
THEOREM StopCleansUp == ASSUME Foreign = {} PROVE Spec => []StoppedIsClean
<1>1. ServerInv => StoppedIsClean
  <2>1. SUFFICES ASSUME ServerInv, pc[Owner] = "stopped"
                 PROVE  /\ ~m_network_thread /\ pc[Net] = "off" /\ m_clients = {} /\ groups = {}
                        /\ \A c \in Conns : connState[c] \notin {"Accepted", "Connected"}
    BY DEF StoppedIsClean, ConnStates, ServerInv, TypeInv, TypeOK
  <2>2. ~m_is_running /\ ~Up
    BY <2>1 DEF ServerInv, SoloInv, DownWhileStarting, Up
  <2>3. pc[Net] = "off" /\ ~m_network_thread
    BY <2>1, <2>2 DEF ServerInv, LiveInv, NetJoined, SoloInv, NetIsAsync
  <2>4. m_clients = {} /\ groups = {}
    BY <2>1, <2>2 DEF ServerInv, ClientInv, DownIsEmpty, SoloInv, NoGroup
  <2>5. \A t \in Threads : pc[t] \notin {"setgroup", "insert"}
    BY <2>1, <2>2, NoneIsNew DEF ServerInv, At, PollLabels
  <2>6. QED
    BY <2>3, <2>4, <2>5, <2>1 DEF ServerInv, ClientInv, OpenIsClient
<1>2. QED
  BY <1>1, ServerCorrect, PTL

\* A callback's client_info_t* points to a live entry of the map unless the application
\* itself asked to disconnect that client: neither stop() (which joins first) nor the end
\* of a connection (whose entry stays) takes an entry from under a callback.
THEOREM ClientPointersLive == ASSUME Foreign = {} PROVE Spec => []DanglesOnlyByDisconnect
<1>1. ServerInv => DanglesOnlyByDisconnect
  BY DEF ServerInv, ClientInv
<1>2. QED
  BY <1>1, ServerCorrect, PTL

\* The second load of s_instance (udp_server.cpp:179-184) can find null only while
\* stop() is running: start() publishes the instance before anything is polled, and
\* when stop() has returned nobody is between the test and the use.
THEOREM CrashNeedsStop == ASSUME Foreign = {} PROVE Spec => []CrashOnlyInStop
<1>1. Init => CrashOnlyInStop
  BY DEF Init, CrashOnlyInStop
<1>2. ASSUME ServerInv, CrashOnlyInStop, [Next]_vars PROVE CrashOnlyInStop'
  <2>1. CASE fault # "none"
    BY <1>2, <2>1 DEF Next, Run, Quiet, vars, CrashOnlyInStop, rest
  <2>2. CASE fault = "none"
    <3>1. SUFFICES ASSUME fault' = "nullInstance" PROVE pc'[Owner] \in StopLabels
      BY DEF CrashOnlyInStop
    <3>2. PICK t \in Threads : StatusCrash(t)
      BY <1>2, <2>2, <3>1, FaultIsCrash
    <3>3. Polling(t) /\ At(t) # "recv" /\ ~s_instance /\ pc' = pc
      BY <3>2 DEF StatusCrash, Polling, At, PollLabels
    <3>4. Up
      BY <1>2, <3>3, OnePoller DEF ServerInv
    <3>5. pc[Owner] \in {"exchange", "join"}
      BY <1>2, <3>3, <3>4 DEF Up, ServerInv, SoloInv, Published
    <3>6. QED
      BY <3>3, <3>5 DEF StopLabels
  <2>3. QED
    BY <2>1, <2>2
<1>3. QED
  BY <1>1, <1>2, ServerCorrect, PTL DEF Spec

-----------------------------------------------------------------------------
(* Messages: MessageInv is inductive.                                      *)

LEMMA MsgType ==
  ASSUME NEW m \in Msgs
  PROVE  m[1] \in Conns /\ m[2] \in Nat /\ m[2] # 0 /\ m = <<m[1], m[2]>>
  BY ConstantsTyped DEF Msgs

LEMMA MsgEqual ==
  ASSUME NEW m \in Msgs, NEW n \in Msgs, m[1] = n[1], m[2] = n[2]
  PROVE  m = n
  BY DEF Msgs

LEMMA BatchType ==
  ASSUME TypeInv
  PROVE  /\ inbox \subseteq Msgs /\ delivered \subseteq Msgs /\ Batch \subseteq Msgs
         /\ \A t \in Threads : messages[t] \subseteq Msgs /\ messages[t] \subseteq Batch
         /\ sent \in [Conns -> Nat]
<1>1. sent \in [Conns -> Nat]
  BY ConstantsTyped DEF TypeInv, TypeOK
<1>2. QED
  BY <1>1 DEF TypeInv, TypeOK, Batch

\* Only the thread that polls has messages.
LEMMA OneBatch ==
  ASSUME Foreign = {}, ServerInv, NEW t \in Threads, At(t) \in PollLabels
  PROVE  Batch = messages[t] /\ \A u \in Threads : u # t => messages[u] = {}
<1>1. \A u \in Threads : u # t => messages[u] = {}
  <2>1. SUFFICES ASSUME NEW u \in Threads, messages[u] # {} PROVE u = t
    OBVIOUS
  <2>2. Polling(u)
    BY <2>1 DEF ServerInv, LocalInv, LocalAt, BatchAt, Polling, PollLabels
  <2>3. QED
    BY <2>2, OnePoller DEF ServerInv, Polling
<1>2. QED
  BY <1>1 DEF Batch

\* Thread t keeps its batch, and what it may assume of it.
KeepsBatch(t) ==
  \/ messages[t] = {}
  \/ /\ At(t) = "inData" => At(t)' = "inData" /\ client'[t] = client[t]
     /\ pc'[t] = "data" => pc[t] = "data" /\ client'[t] = client[t]
     /\ \A m \in messages[t] : /\ m[1] \in m_clients' => m[1] \in m_clients
                               /\ m[1] \in announced' /\ m[1] \notin left'

\* Connections are opened, established or closed, and closed with their messages.
ClosesInbox ==
  /\ \A c \in Conns : \/ connState'[c] \in {connState[c], "closed"}
                      \/ /\ connState[c] # "closed"
                         /\ connState'[c] \in Silent => connState[c] \in Silent
  /\ \A m \in inbox' : m \in inbox /\ connState'[m[1]] # "closed"
  /\ \A m \in inbox : m \in inbox' \/ connState'[m[1]] = "closed"

\* A step that neither sends, receives, delivers nor releases a message.
LEMMA MessageStep ==
  ASSUME TypeInv, MessageInv, UNCHANGED <<messages, delivered, sent>>,
         \A t \in Threads : KeepsBatch(t),
         UNCHANGED <<inbox, connState>> \/ ClosesInbox
  PROVE  MessageInv'
<1>1. Batch' = Batch
  BY DEF Batch
<1>2. \A m \in inbox' : m \in inbox /\ connState'[m[1]] # "closed"
  BY DEF MessageInv, ClosedIsSilent, ClosesInbox
<1>3. SilentBefore'
  BY DEF MessageInv, SilentBefore, ClosesInbox, Silent
<1>4. AllWereSent' /\ InboxAfter'
  BY <1>1, <1>2 DEF MessageInv, AllWereSent, InboxAfter
<1>5. NothingLost'
  <2>1. SUFFICES ASSUME NEW c \in Conns, connState'[c] # "closed", NEW k \in 1..sent[c]
                 PROVE  <<c, k>> \in inbox' \cup delivered \cup Batch
    BY <1>1 DEF NothingLost
  <2>2. connState[c] # "closed"
    BY <2>1 DEF ClosesInbox
  <2>3. <<c, k>> \in inbox \cup delivered \cup Batch
    BY <2>1, <2>2 DEF MessageInv, NothingLost
  <2>4. <<c, k>> \in inbox => <<c, k>> \in inbox'
    BY <2>1 DEF ClosesInbox
  <2>5. QED
    BY <2>3, <2>4
<1>6. ClosedIsSilent' /\ DeliveredFollows'
  BY <1>2 DEF MessageInv, ClosedIsSilent, DeliveredFollows
<1>7. BatchFollows'
  BY DEF MessageInv, BatchFollows, KeepsBatch
<1>8. BatchAfter'
  BY DEF MessageInv, BatchAfter, KeepsBatch
<1>9. QED
  BY <1>3, <1>4, <1>5, <1>6, <1>7, <1>8 DEF MessageInv

LEMMA ClosesMessages ==
  ASSUME TypeInv, NEW c \in Conns, CloseConnection(c), MessageInv
  PROVE  ClosesInbox
<1>1. \A m \in inbox : m[1] \in Conns
  BY BatchType, MsgType
<1>2. QED
  BY <1>1, Closes DEF ClosesInbox, MessageInv, ClosedIsSilent, TypeInv

LEMMA InitMessage == Init => MessageInv
<1> SUFFICES ASSUME Init PROVE MessageInv
  OBVIOUS
<1>1. Batch = {} /\ \A t \in Threads : messages[t] = {}
  BY DEF Init, Batch
<1>2. QED
  BY <1>1 DEF Init, MessageInv, SilentBefore, AllWereSent, NothingLost, ClosedIsSilent,
    BatchFollows, BatchAfter, InboxAfter, DeliveredFollows

\* Thread t releases the first message m of its connection: it was delivered, or
\* its connection is closed.
Releases(t, m) ==
  /\ At(t) \in PollLabels /\ pc'[t] = "msg"
  /\ m \in messages[t] /\ messages' = [messages EXCEPT ![t] = @ \ {m}]
  /\ UNCHANGED <<inbox, delivered, sent, connState, m_clients, announced, left>>
  /\ m \in delivered \/ (connState[m[1]] = "closed" /\ m[1] \notin m_clients)
  /\ At(t) = "inData" =>
       client[t] = m[1] /\ \A n \in messages[t] \ {m} : n[1] = m[1] => m[2] < n[2]

LEMMA BatchShrinks ==
  ASSUME Foreign = {}, ServerInv, MessageInv, NEW t \in Threads, NEW m, Releases(t, m)
  PROVE  MessageInv'
<1> USE DEF Releases
<1>1. messages'[t] = messages[t] \ {m} /\ \A u \in Threads : u # t => messages'[u] = {}
  BY OneBatch DEF ServerInv, TypeInv, TypeOK
<1>2. Batch = messages[t] /\ Batch' = messages[t] \ {m}
  BY <1>1, OneBatch DEF Batch
<1>3. messages[t] \subseteq Msgs /\ delivered \subseteq Msgs /\ m \in Msgs
  BY BatchType DEF ServerInv
<1>4. SilentBefore' /\ AllWereSent' /\ ClosedIsSilent' /\ InboxAfter' /\ DeliveredFollows'
  BY <1>2 DEF MessageInv, SilentBefore, AllWereSent, ClosedIsSilent, InboxAfter,
    DeliveredFollows
<1>5. NothingLost'
  <2>1. SUFFICES ASSUME NEW c \in Conns, connState[c] # "closed", NEW k \in 1..sent[c]
                 PROVE  <<c, k>> \in inbox \cup delivered \cup (messages[t] \ {m})
    BY <1>2 DEF NothingLost
  <2>2. <<c, k>> \in inbox \cup delivered \cup messages[t]
    BY <1>2, <2>1 DEF MessageInv, NothingLost
  <2>3. <<c, k>> = m => m \in delivered
    BY <2>1
  <2>4. QED
    BY <2>2, <2>3
<1>6. BatchFollows'
  <2>1. SUFFICES ASSUME NEW n \in messages[t] \ {m}, n[1] \in m_clients, NEW k \in 1..(n[2] - 1)
                 PROVE  <<n[1], k>> \in delivered \cup (messages[t] \ {m})
    BY <1>1 DEF BatchFollows
  <2>2. <<n[1], k>> \in delivered \cup messages[t]
    BY <2>1 DEF MessageInv, BatchFollows
  <2>3. <<n[1], k>> = m => m \in delivered
    BY <2>1
  <2>4. QED
    BY <2>2, <2>3
<1>7. BatchAfter'
  <2>1. SUFFICES ASSUME NEW n \in messages[t] \ {m}
                 PROVE  /\ \A d \in delivered : d[1] = n[1] => d[2] < n[2]
                        /\ n[1] \in announced \ left
    BY <1>1 DEF BatchAfter
  <2>2. n[1] \in announced \ left /\ m[1] \in announced \ left
    BY DEF MessageInv, BatchAfter
  <2>3. ASSUME NEW d \in delivered, d[1] = n[1] PROVE d[2] < n[2]
    <3>1. d[2] < n[2] \/ (d[2] = n[2] /\ At(t) = "inData" /\ client[t] = n[1])
      BY <2>3 DEF MessageInv, BatchAfter
    <3>2. CASE d[2] = n[2] /\ At(t) = "inData" /\ client[t] = n[1]
      <4>1. m[2] < n[2] /\ m[1] = d[1]
        BY <2>3, <3>2
      <4>2. d[2] < m[2] \/ d[2] = m[2]
        BY <4>1 DEF MessageInv, BatchAfter
      <4>3. m[2] \in Nat /\ n[2] \in Nat /\ d[2] \in Nat
        BY <1>3, MsgType
      <4>4. QED
        BY <3>2, <4>1, <4>2, <4>3
    <3>3. QED
      BY <3>1, <3>2
  <2>4. QED
    BY <2>2, <2>3
<1>8. QED
  BY <1>4, <1>5, <1>6, <1>7 DEF MessageInv

LEMMA OwnerMessage ==
  ASSUME Foreign = {}, ServerInv, MessageInv, OwnerStep
  PROVE  MessageInv'
<1> USE ThreadNames
<1> USE DEF ServerInv
<1> USE DEF KeepsBatch, At, Goto, Step, Lock, NextEvent, server, flags, handles, clients,
  local, call, net, rest
<1>1. pc \in [Threads -> Labels] /\ ret \in [Threads -> {"idle"} \cup InCallback]
  BY DEF TypeInv, TypeOK
<1>2. CASE StartGroup
  BY <1>1, <1>2, MessageStep DEF StartGroup, MessageInv, BatchAfter
<1>3. CASE StartPublish
  BY <1>1, <1>3, MessageStep DEF StartPublish, MessageInv, BatchAfter
<1>4. CASE StartSpawn
  BY <1>1, <1>4, MessageStep DEF StartSpawn, MessageInv, BatchAfter, LiveInv, StartAlone
<1>5. CASE StopExchange
  BY <1>1, <1>5, MessageStep DEF StopExchange, MessageInv, BatchAfter
<1>6. CASE StopJoin
  BY <1>1, <1>6, MessageStep DEF StopJoin, MessageInv, BatchAfter, SoloInv, NetIsAsync
<1>7. CASE StopLock
  BY <1>1, <1>7, MessageStep DEF StopLock, MessageInv, BatchAfter
<1>8. CASE StopClear
  BY <1>1, <1>8, MessageStep DEF StopClear, MessageInv, BatchAfter
<1>9. CASE StopRelease
  <2>1. ClosesInbox
    <3>1. \A m \in inbox : m[1] \in Conns /\ connState[m[1]] # "Connecting"
      <4>1. SUFFICES ASSUME NEW m \in inbox, connState[m[1]] = "Connecting" PROVE FALSE
        BY BatchType, MsgType
      <4>2. m[1] \in Conns /\ m[2] \in Nat /\ m[2] # 0 /\ m[2] <= sent[m[1]]
        BY BatchType, MsgType DEF MessageInv, AllWereSent
      <4>3. sent[m[1]] = 0
        BY <4>1, <4>2 DEF MessageInv, SilentBefore, Silent
      <4>4. QED
        BY <4>2, <4>3
    <3>2. \A c \in Conns : connState'[c] = connState[c] \/ (connState'[c] = "closed" /\ connState[c] = "Connecting")
      BY <1>9 DEF StopRelease, CloseListenSocket
    <3>3. inbox' = inbox
      BY <1>9 DEF StopRelease
    <3>4. \A m \in inbox : connState'[m[1]] # "closed"
      BY <3>1, <3>2 DEF MessageInv, ClosedIsSilent
    <3>5. QED
      BY <3>2, <3>3, <3>4 DEF ClosesInbox
  <2>2. QED
    BY <1>1, <1>9, <2>1, MessageStep DEF StopRelease, MessageInv, BatchAfter
<1>10. ASSUME NEW c \in Conns, StopCloseOne(c) PROVE MessageInv'
  <2>1. ClosesInbox
    BY <1>10, ClosesMessages DEF StopCloseOne
  <2>2. QED
    BY <1>1, <1>10, <2>1, MessageStep DEF StopCloseOne, MessageInv, BatchAfter
<1>11. QED
  BY <1>2, <1>3, <1>4, <1>5, <1>6, <1>7, <1>8, <1>9, <1>10 DEF OwnerStep

LEMMA PollMessage ==
  ASSUME Foreign = {}, ServerInv, MessageInv, NEW t \in Threads \ Workers, PollStep(t)
  PROVE  MessageInv'
<1> USE ThreadNames
<1> USE DEF ServerInv
<1> USE DEF KeepsBatch, At, Goto, Step, Lock, NextEvent, server, flags, handles, clients,
  local, call, net, rest
<1>1. pc \in [Threads -> Labels] /\ ret \in [Threads -> {"idle"} \cup InCallback]
  BY DEF TypeInv, TypeOK
<1>2. CASE PollReceive(t)
  <2>1. At(t) = "recv" /\ At(t) \in PollLabels /\ messages[t] = {}
    BY <1>2 DEF PollReceive, PollLabels, LocalInv, LocalAt, BatchAt
  <2>2. \A u \in Threads : messages[u] = {}
    BY <2>1, OneBatch
  <2>3. PICK batch \in SUBSET {m \in inbox : m[1] \in groupConns} :
               /\ \A m \in batch, n \in inbox : n[1] = m[1] /\ n[2] < m[2] => n \in batch
               /\ messages' = [messages EXCEPT ![t] = batch]
               /\ inbox' = inbox \ batch
    BY <1>2 DEF PollReceive
  <2>4. messages'[t] = batch /\ \A u \in Threads : u # t => messages'[u] = {}
    BY <2>2, <2>3 DEF TypeInv, TypeOK
  <2>5. Batch' = batch /\ Batch = {}
    BY <2>2, <2>4 DEF Batch
  <2>6. UNCHANGED <<delivered, sent, connState, m_clients, announced, left>>
    BY <1>2 DEF PollReceive
  <2>7. batch \subseteq inbox /\ inbox \subseteq Msgs /\ delivered \subseteq Msgs
    BY <2>3, BatchType
  <2>8. SilentBefore' /\ ClosedIsSilent' /\ DeliveredFollows'
    BY <2>3, <2>6 DEF MessageInv, SilentBefore, ClosedIsSilent, DeliveredFollows
  <2>9. AllWereSent' /\ NothingLost'
    BY <2>3, <2>5, <2>6, <2>7 DEF MessageInv, AllWereSent, NothingLost
  <2>10. BatchFollows'
    <3>1. SUFFICES ASSUME NEW m \in batch, NEW k \in 1..(m[2] - 1)
                   PROVE  <<m[1], k>> \in delivered \cup batch
      BY <2>4, <2>6 DEF BatchFollows
    <3>2. m \in Msgs /\ m[1] \in Conns /\ m[2] \in Nat /\ m[2] <= sent[m[1]] /\ sent[m[1]] \in Nat
      BY <2>7, MsgType, BatchType DEF MessageInv, AllWereSent
    <3>3. k \in 1..sent[m[1]] /\ k < m[2]
      BY <3>2
    <3>4. <<m[1], k>> \in inbox \cup delivered
      BY <2>5, <2>7, <3>2, <3>3 DEF MessageInv, ClosedIsSilent, NothingLost
    <3>5. QED
      BY <2>3, <3>3, <3>4
  <2>11. BatchAfter'
    <3>1. SUFFICES ASSUME NEW m \in batch
                   PROVE  /\ \A d \in delivered : d[1] = m[1] => d[2] < m[2]
                          /\ m[1] \in announced /\ m[1] \notin left
      BY <2>4, <2>6 DEF BatchAfter
    <3>2. \A d \in delivered : d[1] = m[1] => d[2] < m[2]
      BY <2>7 DEF MessageInv, InboxAfter
    <3>3. \A u \in Threads : pc[u] # "insert" /\ ~Telling(u)
      BY <2>1, OnePoller DEF Polling, PollLabels, Telling
    <3>4. m[1] \in announced
      BY <2>3, <3>3 DEF ClientInv, GroupIsAnnounced
    <3>5. m[1] \notin left
      BY <2>7, <3>3 DEF EventInv, LeftIsClosed, MessageInv, ClosedIsSilent
    <3>6. QED
      BY <3>2, <3>4, <3>5
  <2>12. InboxAfter'
    <3>1. SUFFICES ASSUME NEW m \in inbox \ batch, NEW d \in delivered \cup batch, d[1] = m[1]
                   PROVE  d[2] < m[2]
      BY <2>3, <2>5, <2>6 DEF InboxAfter
    <3>2. CASE d \in delivered
      BY <3>1, <3>2 DEF MessageInv, InboxAfter
    <3>3. CASE d \in batch
      <4>1. d \in Msgs /\ m \in Msgs /\ d[2] \in Nat /\ m[2] \in Nat
        BY <2>7, <3>3, MsgType
      <4>2. ~(m[2] < d[2])
        BY <2>3, <3>1, <3>3
      <4>3. m[2] # d[2]
        BY <3>1, <3>3, <4>1, MsgEqual
      <4>4. QED
        BY <4>1, <4>2, <4>3
    <3>4. QED
      BY <3>1, <3>2, <3>3
  <2>13. QED
    BY <2>8, <2>9, <2>10, <2>11, <2>12 DEF MessageInv
<1>3. CASE PollInvalid(t)
  BY <1>1, <1>3, MessageStep DEF PollInvalid, MessageInv, BatchAfter
<1>4. CASE PollLock(t)
  BY <1>1, <1>4, MessageStep DEF PollLock, MessageInv, BatchAfter
<1>5. CASE PollFind(t)
  <2>1. /\ pc[t] = "find" /\ At(t) \in PollLabels /\ At(t) # "inData"
        /\ UNCHANGED <<inbox, delivered, sent, connState, m_clients, announced, left>>
    BY <1>5 DEF PollFind, PollLabels
  <2>2. PICK m \in messages[t] :
          \/ /\ m[1] \in m_clients /\ client' = [client EXCEPT ![t] = m[1]]
             /\ Goto(t, "data") /\ messages' = messages
          \/ /\ m[1] \notin m_clients /\ messages' = [messages EXCEPT ![t] = @ \ {m}] /\ Goto(t, "msg")
    BY <1>5 DEF PollFind
  <2>3. CASE m[1] \notin m_clients
    <3>1. m[1] \in announced /\ connState[m[1]] = "closed"
      BY <2>3 DEF MessageInv, BatchAfter, ClientInv, ErasedIsClosed
    <3>2. pc'[t] = "msg" /\ messages' = [messages EXCEPT ![t] = @ \ {m}]
      BY <1>1, <2>2, <2>3
    <3>3. Releases(t, m)
      BY <2>1, <2>3, <3>1, <3>2 DEF Releases
    <3>4. QED
      BY <3>3, BatchShrinks
  <2>4. CASE m[1] \in m_clients
    <3>1. client'[t] = m[1] /\ pc'[t] = "data" /\ messages' = messages
      BY <1>1, <2>2, <2>4 DEF TypeInv, TypeOK
    <3>2. \A u \in Threads : u # t => messages[u] = {}
      BY <2>1, OneBatch
    <3>3. Batch' = Batch
      BY <3>1 DEF Batch
    <3>4. SilentBefore' /\ AllWereSent' /\ NothingLost' /\ ClosedIsSilent' /\ InboxAfter' /\ DeliveredFollows'
      BY <2>1, <3>3 DEF MessageInv, SilentBefore, AllWereSent, NothingLost,
        ClosedIsSilent, InboxAfter, DeliveredFollows
    <3>5. BatchFollows'
      BY <2>1, <2>4, <3>1, <3>2 DEF MessageInv, BatchFollows
    <3>6. BatchAfter'
      BY <2>1, <3>1, <3>2 DEF MessageInv, BatchAfter
    <3>7. QED
      BY <3>4, <3>5, <3>6 DEF MessageInv
  <2>5. QED
    BY <2>3, <2>4
<1>6. CASE DataCallback(t)
  <2>1. /\ pc[t] = "data" /\ At(t) = "data" /\ At(t) \in PollLabels /\ At(t)' = "inData" /\ pc'[t] = "inData"
        /\ UNCHANGED <<inbox, messages, client, sent, connState, m_clients, announced, left>>
    BY <1>1, <1>6 DEF DataCallback, PollLabels
  <2>2. PICK m \in messages[t] : IsNext(t, m) /\ m[1] = client[t] /\ delivered' = delivered \cup {m}
    BY <1>6 DEF DataCallback
  <2>3. Batch' = Batch /\ Batch = messages[t] /\ \A u \in Threads : u # t => messages[u] = {}
    BY <2>1, OneBatch DEF Batch
  <2>4. messages[t] \subseteq Msgs /\ m \in Msgs /\ m[2] \in Nat
    BY BatchType, MsgType
  <2>5. SilentBefore' /\ AllWereSent' /\ NothingLost' /\ ClosedIsSilent' /\ InboxAfter'
    BY <2>1, <2>2, <2>3 DEF MessageInv, SilentBefore, AllWereSent, NothingLost,
      ClosedIsSilent, InboxAfter
  <2>6. BatchFollows'
    BY <2>1, <2>2, <2>3 DEF MessageInv, BatchFollows
  <2>7. BatchAfter'
    <3>1. SUFFICES ASSUME NEW n \in messages[t], NEW d \in delivered \cup {m}, d[1] = n[1]
                   PROVE  d[2] < n[2] \/ (d[2] = n[2] /\ client[t] = n[1])
      BY <2>1, <2>2, <2>3 DEF MessageInv, BatchAfter
    <3>2. CASE d \in delivered
      BY <2>1, <3>1, <3>2 DEF MessageInv, BatchAfter
    <3>3. CASE d = m
      <4>1. m[2] <= n[2] /\ n[2] \in Nat
        BY <2>2, <2>4, <3>1, <3>3, MsgType DEF IsNext
      <4>2. QED
        BY <2>2, <2>4, <3>1, <3>3, <4>1
    <3>4. QED
      BY <3>1, <3>2, <3>3
  <2>8. DeliveredFollows'
    <3>1. ASSUME NEW k \in 1..(m[2] - 1) PROVE <<m[1], k>> \in delivered
      <4>1. <<m[1], k>> \in delivered \cup messages[t]
        BY <2>1, <2>2 DEF MessageInv, BatchFollows
      <4>2. <<m[1], k>> \in messages[t] => m[2] <= k
        BY <2>2 DEF IsNext
      <4>3. ~(m[2] <= k)
        BY <2>4
      <4>4. QED
        BY <4>1, <4>2, <4>3
    <3>2. QED
      BY <2>2, <3>1 DEF MessageInv, DeliveredFollows
  <2>9. QED
    BY <2>5, <2>6, <2>7, <2>8 DEF MessageInv
<1>7. CASE DataReturn(t)
  <2>1. /\ pc[t] = "inData" /\ At(t) = "inData" /\ At(t) \in PollLabels /\ pc'[t] = "msg"
        /\ UNCHANGED <<inbox, delivered, sent, connState, m_clients, announced, left>>
    BY <1>1, <1>7 DEF DataReturn, PollLabels
  <2>2. PICK m \in messages[t] : /\ IsNext(t, m) /\ m[1] = client[t]
                                 /\ messages' = [messages EXCEPT ![t] = @ \ {m}]
    BY <1>7 DEF DataReturn
  <2>3. messages[t] \subseteq Msgs
    BY BatchType
  <2>4. ASSUME NEW n \in messages[t] \ {m}, n[1] = m[1] PROVE m[2] < n[2]
    <3>1. m \in Msgs /\ n \in Msgs /\ m[2] \in Nat /\ n[2] \in Nat
      BY <2>3, MsgType
    <3>2. m[2] <= n[2] /\ m[2] # n[2]
      BY <2>2, <2>4, <3>1, MsgEqual DEF IsNext
    <3>3. QED
      BY <3>1, <3>2
  <2>5. m \in delivered
    <3>1. PICK n \in messages[t] : n[1] = client[t] /\ n \in delivered
      BY <2>1 DEF LocalInv, LocalAt, ClientAt
    <3>2. n[2] < m[2] \/ n[2] = m[2]
      BY <2>2, <3>1 DEF MessageInv, BatchAfter
    <3>3. m[2] <= n[2]
      BY <2>2, <3>1 DEF IsNext
    <3>4. m \in Msgs /\ n \in Msgs /\ m[2] \in Nat /\ n[2] \in Nat
      BY <2>3, MsgType
    <3>5. m[2] = n[2]
      BY <3>2, <3>3, <3>4
    <3>6. QED
      BY <2>2, <3>1, <3>4, <3>5, MsgEqual
  <2>6. \A n \in messages[t] \ {m} : n[1] = m[1] => m[2] < n[2]
    BY <2>4
  <2>7. Releases(t, m)
    BY <2>1, <2>2, <2>5, <2>6 DEF Releases
  <2>8. QED
    BY <2>7, BatchShrinks
<1>8. CASE PollMessagesDone(t)
  BY <1>1, <1>8, MessageStep DEF PollMessagesDone, MessageInv, BatchAfter
<1>9. QED
  BY <1>2, <1>3, <1>4, <1>5, <1>6, <1>7, <1>8 DEF PollStep

LEMMA CallbackMessage ==
  ASSUME Foreign = {}, ServerInv, MessageInv, NEW t \in Threads \ Workers, CallbackStep(t)
  PROVE  MessageInv'
<1> USE ThreadNames
<1> USE DEF ServerInv
<1> USE DEF KeepsBatch, At, Goto, Step, Lock, NextEvent, server, flags, handles, clients,
  local, call, net, rest
<1>1. pc \in [Threads -> Labels] /\ ret \in [Threads -> {"idle"} \cup InCallback]
  BY DEF TypeInv, TypeOK
<1>2. CASE RunCallbacks(t)
  BY <1>1, <1>2, MessageStep DEF RunCallbacks, MessageInv, BatchAfter
<1>3. CASE RunCallbacksDone(t)
  BY <1>1, <1>3, MessageStep DEF RunCallbacksDone, MessageInv, BatchAfter
<1>4. CASE StatusDropped(t)
  BY <1>1, <1>4, MessageStep DEF StatusDropped, MessageInv, BatchAfter
<1>5. CASE StatusChecked(t)
  BY <1>1, <1>5, MessageStep DEF StatusChecked, MessageInv, BatchAfter
<1>6. CASE StatusCrash(t)
  BY <1>1, <1>6, MessageStep DEF StatusCrash, MessageInv, BatchAfter
<1>7. CASE StatusGone(t)
  BY <1>1, <1>7, MessageStep DEF StatusGone, MessageInv, BatchAfter
<1>8. CASE StatusConnecting(t)
  BY <1>1, <1>8, MessageStep DEF StatusConnecting, MessageInv, BatchAfter
<1>9. CASE StatusIgnored(t)
  BY <1>1, <1>9, MessageStep DEF StatusIgnored, MessageInv, BatchAfter
<1>10. CASE Accept(t)
  <2> DEFINE c == Event(t).conn
  <2>1. c \in Conns
    BY <1>10, HandlingEvent DEF Accept, Handling
  <2>2. UNCHANGED <<messages, delivered, sent, client, m_clients, announced, left>>
    BY <1>10 DEF Accept
  <2>3. \A u \in Threads : KeepsBatch(u)
    BY <1>1, <1>10, <2>2 DEF Accept, MessageInv, BatchAfter
  <2>4. CASE CloseConnection(c)
    BY <2>1, <2>2, <2>3, <2>4, ClosesMessages, MessageStep
  <2>5. CASE connState[c] = "Connecting" /\ connState' = [connState EXCEPT ![c] = "Accepted"] /\ inbox' = inbox
    <3>1. \A d \in Conns : \/ connState'[d] = connState[d]
                           \/ connState[d] = "Connecting" /\ connState'[d] = "Accepted"
      BY <2>1, <2>5 DEF TypeInv, TypeOK
    <3>2. \A m \in inbox : m[1] \in Conns /\ connState'[m[1]] # "closed"
      BY <3>1, BatchType, MsgType DEF MessageInv, ClosedIsSilent
    <3>3. ClosesInbox
      BY <2>5, <3>1, <3>2 DEF ClosesInbox, Silent
    <3>4. QED
      BY <2>2, <2>3, <3>3, MessageStep
  <2>6. QED
    BY <1>10, <2>4, <2>5 DEF Accept
<1>11. CASE SetGroup(t)
  <2> DEFINE c == Event(t).conn
  <2>1. c \in Conns
    BY <1>11, HandlingEvent DEF SetGroup, Handling
  <2>2. UNCHANGED <<messages, delivered, sent, client, m_clients, announced, left>>
    BY <1>11 DEF SetGroup
  <2>3. \A u \in Threads : KeepsBatch(u)
    BY <1>1, <1>11, <2>2 DEF SetGroup, MessageInv, BatchAfter
  <2>4. CASE CloseConnection(c)
    BY <2>1, <2>2, <2>3, <2>4, ClosesMessages, MessageStep
  <2>5. CASE UNCHANGED <<connState, inbox>>
    BY <2>2, <2>3, <2>5, MessageStep
  <2>6. QED
    BY <1>11, <2>4, <2>5 DEF SetGroup
<1>12. CASE Insert(t)
  <2>1. At(t) \in PollLabels /\ messages[t] = {}
    BY <1>12 DEF Insert, PollLabels, LocalInv, LocalAt, BatchAt
  <2>2. \A u \in Threads : KeepsBatch(u)
    BY <2>1, OneBatch
  <2>3. QED
    BY <1>12, <2>2, MessageStep DEF Insert
<1>13. CASE InsertRace(t)
  BY <1>1, <1>13, MessageStep DEF InsertRace, MessageInv, BatchAfter
<1>14. CASE ConnectedReturn(t)
  BY <1>1, <1>14, MessageStep DEF ConnectedReturn, MessageInv, BatchAfter
<1>15. CASE LookupLock(t)
  BY <1>1, <1>15, MessageStep DEF LookupLock, MessageInv, BatchAfter
<1>16. CASE LookupFind(t)
  <2>1. UNCHANGED <<messages, delivered, sent, inbox, connState, m_clients, announced, left>>
    BY <1>16 DEF LookupFind
  <2>2. \A u \in Threads : KeepsBatch(u)
    <3>1. messages[t] = {}
      BY <1>16 DEF LookupFind, LocalInv, LocalAt, BatchAt
    <3>2. \A u \in Threads : u # t => messages[u] = {}
      BY <1>16, OneBatch DEF LookupFind, PollLabels
    <3>3. QED
      BY <3>1, <3>2
  <2>3. QED
    BY <2>1, <2>2, MessageStep
<1>17. CASE GoneCallback(t)
  <2>1. At(t) \in PollLabels /\ messages[t] = {}
    BY <1>17 DEF GoneCallback, PollLabels, LocalInv, LocalAt, BatchAt
  <2>2. \A u \in Threads : KeepsBatch(u)
    BY <2>1, OneBatch
  <2>3. QED
    BY <1>17, <2>2, MessageStep DEF GoneCallback
<1>18. CASE GoneReturn(t)
  BY <1>1, <1>18, MessageStep DEF GoneReturn, MessageInv, BatchAfter
<1>19. CASE CloseGone(t)
  <2>1. Event(t).conn \in Conns
    BY <1>19, HandlingEvent DEF CloseGone, Handling
  <2>2. ClosesInbox
    BY <1>19, <2>1, ClosesMessages DEF CloseGone
  <2>3. QED
    BY <1>1, <1>19, <2>2, MessageStep DEF CloseGone, MessageInv, BatchAfter
<1>20. QED
  BY <1>2, <1>3, <1>4, <1>5, <1>6, <1>7, <1>8, <1>9, <1>10, <1>11, <1>12, <1>13, <1>14,
    <1>15, <1>16, <1>17, <1>18, <1>19 DEF CallbackStep

LEMMA CallMessage ==
  ASSUME Foreign = {}, ServerInv, MessageInv, NEW t \in Threads, CallStep(t)
  PROVE  MessageInv'
<1> USE ThreadNames
<1> USE DEF ServerInv
<1> USE DEF KeepsBatch, At, Goto, Step, Lock, NextEvent, server, flags, handles, clients,
  local, call, net, rest
<1>1. pc \in [Threads -> Labels] /\ ret \in [Threads -> {"idle"} \cup InCallback]
  BY DEF TypeInv, TypeOK
<1>2. CASE BroadcastSend(t)
  BY <1>1, <1>2, MessageStep DEF BroadcastSend, MessageInv, BatchAfter
<1>3. CASE DisconnectLock(t)
  BY <1>1, <1>3, MessageStep DEF DisconnectLock, MessageInv, BatchAfter
<1>4. CASE DisconnectErase(t)
  BY <1>1, <1>4, MessageStep DEF DisconnectErase, MessageInv, BatchAfter, InCallback
<1>5. QED
  BY <1>2, <1>3, <1>4 DEF CallStep

LEMMA AppCallMessage ==
  ASSUME Foreign = {}, ServerInv, MessageInv, AppCall
  PROVE  MessageInv'
<1> USE ThreadNames
<1> USE DEF ServerInv
<1> USE DEF KeepsBatch, At, Goto, Step, Lock, NextEvent, server, flags, handles, clients,
  local, call, net, rest
<1>1. pc \in [Threads -> Labels] /\ ret \in [Threads -> {"idle"} \cup InCallback]
  BY DEF TypeInv, TypeOK
<1>2. ASSUME NEW m \in Modes, StartListen(m) PROVE MessageInv'
  BY <1>1, <1>2, MessageStep DEF StartListen, MessageInv, BatchAfter
<1>3. CASE StopBegin
  BY <1>1, <1>3, MessageStep DEF StopBegin, MessageInv, BatchAfter
<1>4. CASE PollManually
  BY <1>1, <1>4, MessageStep DEF PollManually, MessageInv, BatchAfter
<1>5. ASSUME NEW w \in Workers, Broadcast(w) PROVE MessageInv'
  BY <1>1, <1>5, MessageStep DEF Broadcast, MessageInv, BatchAfter, Threads
<1>6. ASSUME NEW t \in Threads, NEW c \in Conns, Disconnect(t, c) PROVE MessageInv'
  <2>1. ClosesInbox
    BY <1>6, ClosesMessages DEF Disconnect
  <2>2. \A u \in Threads : At(u)' = At(u) /\ (pc'[u] = "data" => pc[u] = "data")
    BY <1>1, <1>6 DEF Disconnect, InCallback
  <2>3. QED
    BY <1>6, <2>1, <2>2, MessageStep DEF Disconnect, MessageInv, BatchAfter
<1>7. QED
  BY <1>2, <1>3, <1>4, <1>5, <1>6 DEF AppCall

LEMMA NextMessage ==
  ASSUME Foreign = {}, ServerInv, MessageInv, [Next]_vars
  PROVE  MessageInv'
<1> USE ThreadNames
<1>1. ASSUME NEW t \in Threads, Run(t) PROVE MessageInv'
  <2>1. CASE t = Net /\ LoopCheck
    BY <2>1, MessageStep DEF LoopCheck, ServerInv, TypeInv, TypeOK, MessageInv,
      BatchAfter, KeepsBatch, At, Goto, Step, Lock, NextEvent, server, flags, handles,
      clients, local, call, net, rest
  <2>2. t \notin Workers => t \in Threads \ Workers
    BY <1>1
  <2>3. Net \in Threads \ Workers /\ Owner \in Threads \ Workers
    BY ThreadsDistinct DEF Threads
  <2>4. QED
    BY <1>1, <2>1, <2>2, <2>3, OwnerMessage, PollMessage, CallbackMessage,
      CallMessage DEF Run
<1>2. CASE Peer
  <2> USE DEF ServerInv
  <2>1. PICK c \in Conns : PeerConnect(c) \/ PeerEstablish(c) \/ PeerSend(c) \/ PeerGone(c)
    BY <1>2 DEF Peer
  <2>2. /\ UNCHANGED <<delivered, messages, client, pc, m_clients, announced, left, ret>>
        /\ connState \in [Conns -> ConnStates]
    BY <2>1 DEF PeerConnect, PeerEstablish, PeerSend, PeerGone, Unmoved, clients, local,
      call, rest, TypeInv, TypeOK
  <2>3. \A t \in Threads : KeepsBatch(t)
    BY <2>2 DEF KeepsBatch, At, MessageInv, BatchAfter
  <2>4. CASE ~PeerSend(c)
    <3>1. UNCHANGED <<inbox, sent>>
      BY <2>1, <2>4 DEF PeerConnect, PeerEstablish, PeerGone
    <3>2. \A d \in Conns : \/ connState'[d] = connState[d]
                           \/ /\ connState[d] # "closed" /\ connState'[d] # "closed"
                              /\ connState'[d] \in Silent => connState[d] \in Silent
      BY <2>1, <2>2, <2>4 DEF PeerConnect, PeerEstablish, PeerGone, PostStatus, Silent, Gone
    <3>3. \A m \in inbox : m[1] \in Conns
      BY BatchType, MsgType
    <3>4. ClosesInbox
      BY <3>1, <3>2, <3>3 DEF ClosesInbox, MessageInv, ClosedIsSilent
    <3>5. QED
      BY <2>2, <2>3, <3>1, <3>4, MessageStep
  <2>5. CASE PeerSend(c)
    <3> DEFINE m == <<c, sent[c] + 1>>
    <3>1. /\ connState[c] = "Connected" /\ inbox' = inbox \cup {m} /\ connState' = connState
          /\ sent[c] \in Nat /\ sent'[c] = sent[c] + 1 /\ sent \in [Conns -> Nat]
          /\ \A d \in Conns : d # c => sent'[d] = sent[d]
      BY <2>5, BatchType DEF PeerSend
    <3>2. /\ inbox \subseteq Msgs /\ delivered \subseteq Msgs /\ Batch \subseteq Msgs
          /\ \A n \in inbox \cup Batch \cup delivered : n[1] \in Conns /\ n[2] \in Nat
      BY BatchType, MsgType
    <3>3. Batch' = Batch
      BY <2>2 DEF Batch
    <3>4. SilentBefore' /\ ClosedIsSilent'
      BY <3>1 DEF MessageInv, SilentBefore, ClosedIsSilent, Silent
    <3>5. \A n \in inbox \cup Batch \cup delivered : n[2] <= sent[n[1]] /\ sent[n[1]] \in Nat
      BY <3>1, <3>2 DEF MessageInv, AllWereSent
    <3>6. AllWereSent'
      <4>1. \A n \in inbox \cup Batch \cup delivered : n[2] <= sent'[n[1]]
        BY <3>1, <3>2, <3>5
      <4>2. QED
        BY <2>2, <3>1, <3>3, <4>1 DEF AllWereSent
    <3>7. NothingLost'
      <4>1. SUFFICES ASSUME NEW d \in Conns, connState[d] # "closed", NEW k \in 1..sent'[d]
                     PROVE  <<d, k>> \in inbox' \cup delivered \cup Batch
        BY <2>2, <3>1, <3>3 DEF NothingLost
      <4>2. k \in 1..sent[d] \/ (d = c /\ k = sent[c] + 1)
        BY <3>1
      <4>3. QED
        BY <3>1, <4>1, <4>2 DEF MessageInv, NothingLost
    <3>8. InboxAfter'
      <4>1. \A d \in delivered \cup Batch : d[1] = c => d[2] < sent[c] + 1
        BY <3>1, <3>2, <3>5
      <4>2. QED
        BY <2>2, <3>1, <3>3, <4>1 DEF MessageInv, InboxAfter
    <3>9. BatchFollows' /\ BatchAfter' /\ DeliveredFollows'
      BY <2>2 DEF MessageInv, BatchFollows, BatchAfter, DeliveredFollows, At
    <3>10. QED
      BY <3>4, <3>6, <3>7, <3>8, <3>9 DEF MessageInv
  <2>6. QED
    BY <2>4, <2>5
<1>3. CASE UNCHANGED vars
  BY <1>3, MessageStep DEF vars, ServerInv, MessageInv, BatchAfter, KeepsBatch, At, Goto,
    Step, Lock, NextEvent, server, flags, handles, clients, local, call, net, rest
<1>4. QED
  BY <1>1, <1>2, <1>3, AppCallMessage DEF Next, Quiet

\* A message of an open connection is never lost between its arrival and the data
\* callback, whatever the batches and whoever connects, leaves or is disconnected
\* meanwhile: poll() releases a message unread only when its connection is closed.
THEOREM NothingDropped == ASSUME Foreign = {} PROVE Spec => []NoSilentDrop
<1>1. ASSUME ServerInv, MessageInv, [Next]_vars PROVE MessageInv'
  BY <1>1, NextMessage
<1>2. MessageInv => NoSilentDrop
  BY DEF MessageInv, NothingLost, NoSilentDrop, Batch
<1>3. QED
  BY <1>1, <1>2, InitMessage, ServerCorrect, PTL DEF Spec

-----------------------------------------------------------------------------
(* The refinement: a step of the server is a step of its sessions, or none. *)

\* The session of a connection, case by case.
Sees(c, s) ==
  \/ c \notin announced /\ s = "none"
  \/ c \in announced /\ c \in left /\ s = "left"
  \/ c \in announced /\ c \notin left /\ c \in m_clients /\ s = "open"
  \/ c \in announced /\ c \notin left /\ c \notin m_clients /\ UnderWay(c) /\ s = "closing"
  \/ c \in announced /\ c \notin left /\ c \notin m_clients /\ ~UnderWay(c) /\ s = "closed"

LEMMA SessionNow == ASSUME ClientsAnnounced, NEW c, NEW s, s = Session(c) PROVE Sees(c, s)
<1>1. CASE c \notin announced
  BY <1>1 DEF Session, Sees, ClientsAnnounced
<1>2. CASE c \in announced /\ c \in left
  BY <1>2 DEF Session, Sees
<1>3. CASE c \in announced /\ c \notin left /\ c \in m_clients
  BY <1>3 DEF Session, Sees
<1>4. CASE c \in announced /\ c \notin left /\ c \notin m_clients
  BY <1>4 DEF Session, Sees
<1>5. QED
  BY <1>1, <1>2, <1>3, <1>4

LEMMA SessionNext ==
  ASSUME ClientsAnnounced', NEW c, NEW s, s = Session(c)'
  PROVE  Sees(c, s)'
<1>1. CASE c \notin announced'
  BY <1>1 DEF Session, Sees, ClientsAnnounced
<1>2. CASE c \in announced' /\ c \in left'
  BY <1>2 DEF Session, Sees
<1>3. CASE c \in announced' /\ c \notin left' /\ c \in m_clients'
  BY <1>3 DEF Session, Sees
<1>4. CASE c \in announced' /\ c \notin left' /\ c \notin m_clients'
  BY <1>4 DEF Session, Sees
<1>5. QED
  BY <1>1, <1>2, <1>3, <1>4

\* ServerSessions counts with the Cardinality of its own FiniteSets.
LEMMA SameCount == ASSUME NEW S PROVE Sessions!Cardinality(S) = Cardinality(S)
  BY DEF Sessions!Cardinality, Cardinality

LEMMA InitSessions == Init => Sessions!Init
  BY ThreadNames DEF Init, Sessions!Init, Session

LEMMA SessionOf ==
  ASSUME ServerInv, ServerInv'
  PROVE  \A c : Sees(c, Session(c)) /\ \A s : s = Session(c)' => Sees(c, s)'
  BY SessionNow, SessionNext DEF ServerInv, ClientInv

\* Thread t is not in a callback for a connection without an entry that it was
\* not in before, and the other way round.
SameCallback(t) ==
  /\ pc[t] \in {"data", "gone"} => pc'[t] \in {"data", "gone"} /\ client'[t] = client[t]
  /\ pc'[t] \in {"data", "gone"} =>
       (pc[t] \in {"data", "gone"} /\ client'[t] = client[t]) \/ client'[t] \in m_clients

LEMMA SameSession ==
  ASSUME ServerInv, ServerInv', NEW c,
         c \in announced' <=> c \in announced, c \in left' <=> c \in left,
         c \in m_clients' <=> c \in m_clients,
         \A t \in Threads : SameCallback(t) \/ (client[t] # c /\ client'[t] # c)
  PROVE  Session(c)' = Session(c)
<1>1. c \notin m_clients => (UnderWay(c)' <=> UnderWay(c))
  BY DEF UnderWay, SameCallback
<1>2. QED
  BY <1>1, SessionOf DEF Sees

SameUp == Up' <=> Up

LEMMA Stutters ==
  ASSUME ServerInv, ServerInv', SameUp, UNCHANGED <<delivered, announced, left, m_clients>>,
         \A t \in Threads : SameCallback(t)
  PROVE  UNCHANGED Sessions!vars
<1>1. ASSUME NEW c \in Conns PROVE Session(c)' = Session(c)
  BY SameSession
<1>2. QED
  BY <1>1 DEF Sessions!vars, SameUp, Up

\* A step of the sessions, or none.
SessionStep == Sessions!Next \/ UNCHANGED Sessions!vars

\* A step at which one session changes.
LEMMA OthersSame ==
  ASSUME ServerInv, ServerInv', NEW c \in Conns,
         \A d \in Conns : d # c => /\ d \in announced' <=> d \in announced
                                   /\ d \in left' <=> d \in left
                                   /\ d \in m_clients' <=> d \in m_clients,
         \A d \in Conns : d # c =>
           \A t \in Threads : SameCallback(t) \/ (client[t] # d /\ client'[t] # d)
  PROVE  [d \in Conns |-> Session(d)]' = [[d \in Conns |-> Session(d)] EXCEPT ![c] = Session(c)']
<1>1. ASSUME NEW d \in Conns, d # c PROVE Session(d)' = Session(d)
  BY <1>1, SameSession
<1>2. QED
  BY <1>1
LEMMA OwnerSession ==
  ASSUME Foreign = {}, ServerInv, ServerInv', MessageInv, OwnerStep
  PROVE  SessionStep
<1> USE ThreadNames
<1> USE DEF ServerInv
<1> USE DEF SameCallback, SameUp, Up, Goto, Step, Lock, NextEvent, server, flags,
  handles, clients, local, call, net, rest
<1>1. pc \in [Threads -> Labels] /\ ret \in [Threads -> {"idle"} \cup InCallback]
  BY DEF TypeInv, TypeOK
<1>2. CASE StartGroup
  BY <1>1, <1>2, Stutters DEF StartGroup, SessionStep, SoloInv, DownWhileStarting
<1>3. CASE StartPublish
  <2>1. ~Up /\ Up' /\ m_clients = {} /\ UNCHANGED <<delivered, announced, left, m_clients, client>>
    BY <1>1, <1>3 DEF StartPublish, SoloInv, DownWhileStarting, ClientInv, DownIsEmpty
  <2>2. \A t \in Threads : pc[t] \notin {"data", "gone"}
    BY <2>1, NoneIsNew DEF At, PollLabels
  <2>3. ASSUME NEW c \in Conns
        PROVE  Session(c) \in {"none", "left", "closed"} /\ Session(c)' = Session(c)
    <3>1. Session(c)' = Session(c)
      BY <1>1, <1>3, <2>1, SameSession DEF StartPublish
    <3>2. Session(c) \in {"none", "left", "closed"}
      BY <2>1, <2>2, SessionOf DEF Sees, UnderWay
    <3>3. QED
      BY <3>1, <3>2
  <2>4. Sessions!Start
    BY <2>1, <2>3 DEF Sessions!Start
  <2>5. QED
    BY <2>4 DEF SessionStep, Sessions!Next
<1>4. CASE StartSpawn
  BY <1>1, <1>4, Stutters DEF StartSpawn, SessionStep, LiveInv, StartAlone
<1>5. CASE StopExchange
  BY <1>1, <1>5, Stutters DEF StopExchange, SessionStep, TypeInv, TypeOK
<1>6. CASE StopJoin
  <2>1. Up /\ ~Up' /\ UNCHANGED <<delivered, announced, left, m_clients, client>>
    BY <1>1, <1>6 DEF StopJoin, LiveInv, StopAlone
  <2>2. \A t \in Threads : SameCallback(t)
    BY <1>1, <1>6 DEF StopJoin, SoloInv, NetIsAsync
  <2>3. ASSUME NEW c \in Conns PROVE Session(c)' = Session(c)
    BY <2>1, <2>2, SameSession
  <2>4. Sessions!Down
    BY <2>1, <2>3 DEF Sessions!Down
  <2>5. QED
    BY <2>4 DEF SessionStep, Sessions!Next
<1>7. CASE StopLock
  BY <1>1, <1>7, Stutters DEF StopLock, SessionStep
<1>8. CASE StopClear
  <2>1. ~Up /\ ~Up' /\ m_clients' = {} /\ UNCHANGED <<delivered, announced, left, client>>
    BY <1>1, <1>8 DEF StopClear, LiveInv, StopAlone
  <2>2. \A t \in Threads : pc[t] \notin {"data", "gone"} /\ pc'[t] \notin {"data", "gone"}
    BY <1>1, <1>8, <2>1, NoneIsNew DEF StopClear, At, PollLabels
  <2>3. ASSUME NEW c \in Conns
        PROVE  Session(c)' = IF Session(c) = "open" THEN "closed" ELSE Session(c)
    BY <2>1, <2>2, SessionOf DEF Sees, UnderWay
  <2>4. Sessions!CloseAll
    BY <2>1, <2>3 DEF Sessions!CloseAll
  <2>5. QED
    BY <2>4 DEF SessionStep, Sessions!Next
<1>9. CASE StopRelease
  BY <1>1, <1>9, Stutters DEF StopRelease, SessionStep
<1>10. ASSUME NEW c \in Conns, StopCloseOne(c) PROVE SessionStep
  BY <1>1, <1>10, Stutters DEF StopCloseOne, SessionStep
<1>11. QED
  BY <1>2, <1>3, <1>4, <1>5, <1>6, <1>7, <1>8, <1>9, <1>10 DEF OwnerStep

LEMMA PollSession ==
  ASSUME Foreign = {}, ServerInv, ServerInv', MessageInv, NEW t \in Threads \ Workers,
         PollStep(t)
  PROVE  SessionStep
<1> USE ThreadNames
<1> USE DEF ServerInv
<1> USE DEF SameCallback, SameUp, Up, Goto, Step, Lock, NextEvent, server, flags,
  handles, clients, local, call, net, rest
<1>1. pc \in [Threads -> Labels] /\ ret \in [Threads -> {"idle"} \cup InCallback]
  BY DEF TypeInv, TypeOK
<1>2. CASE PollReceive(t)
  BY <1>1, <1>2, Stutters DEF PollReceive, SessionStep
<1>3. CASE PollInvalid(t)
  BY <1>1, <1>3, Stutters DEF PollInvalid, SessionStep
<1>4. CASE PollLock(t)
  BY <1>1, <1>4, Stutters DEF PollLock, SessionStep
<1>5. CASE PollFind(t)
  <2>1. SameUp /\ UNCHANGED <<delivered, announced, left, m_clients>> /\ \A u \in Threads : SameCallback(u)
    BY <1>1, <1>5 DEF PollFind, TypeInv, TypeOK
  <2>2. QED
    BY <2>1, Stutters DEF SessionStep
<1>6. CASE DataCallback(t)
  <2>1. PICK c \in Conns : c = client[t]
    <3>1. PICK m \in messages[t] : m[1] = client[t]
      BY <1>6 DEF DataCallback
    <3>2. QED
      BY <3>1, BatchType, MsgType
  <2> DEFINE H(q) == {k \in 1..MaxMsgs : <<q, k>> \in delivered}
  <2>2. /\ pc[t] = "data" /\ At(t) = "data" /\ Polling(t) /\ pc'[t] = "inData" /\ UNCHANGED <<announced, left, m_clients, client>>
        /\ \A u \in Threads : u # t => SameCallback(u)
    BY <1>1, <1>6 DEF DataCallback, Polling, At, PollLabels
  <2>3. Up /\ Up'
    BY <1>1, <1>6, <2>2, OnePoller DEF DataCallback
  <2>4. PICK m \in messages[t] : IsNext(t, m) /\ m[1] = c /\ delivered' = delivered \cup {m}
    BY <1>6, <2>1 DEF DataCallback
  <2>5. m \in Msgs /\ c \in Conns /\ m[2] \in 1..MaxMsgs /\ m[2] \in Nat /\ m[2] # 0 /\ m = <<c, m[2]>> /\ delivered \subseteq Msgs
    BY <2>4, BatchType, MsgType DEF Msgs
  <2>6. c \in announced /\ c \notin left
    BY <2>4 DEF MessageInv, BatchAfter
  <2>7. H(c) = 1..(m[2] - 1)
    <3>1. ASSUME NEW k \in 1..(m[2] - 1) PROVE k \in H(c)
      <4>1. <<m[1], k>> \in delivered \cup messages[t]
        BY <2>1, <2>2, <2>4 DEF MessageInv, BatchFollows
      <4>2. <<m[1], k>> \in messages[t] => m[2] <= k
        BY <2>4 DEF IsNext
      <4>3. ~(m[2] <= k) /\ k \in 1..MaxMsgs
        BY <2>5, ConstantsTyped
      <4>4. QED
        BY <2>4, <4>1, <4>2, <4>3
    <3>2. ASSUME NEW k \in H(c) PROVE k \in 1..(m[2] - 1)
      <4>1. <<c, k>>[2] < m[2]
        BY <2>2, <2>4 DEF MessageInv, BatchAfter
      <4>2. QED
        BY <2>5, <4>1, ConstantsTyped
    <3>3. QED
      BY <3>1, <3>2
  <2>8. Cardinality(H(c)) + 1 = m[2]
    <3>1. Cardinality(1..(m[2] - 1)) = m[2] - 1
      BY <2>5, FS_Interval
    <3>2. Cardinality(H(c)) = m[2] - 1
      BY <2>7, <3>1
    <3> HIDE DEF H
    <3>3. QED
      BY <2>5, <3>2
  <2>9. [d \in Conns |-> H(d)]' = [[d \in Conns |-> H(d)] EXCEPT ![c] = @ \cup {Cardinality(@) + 1}]
    <3>1. ASSUME NEW d \in Conns PROVE H(d)' = IF d = c THEN H(d) \cup {m[2]} ELSE H(d)
      BY <2>4, <2>5
    <3>2. QED
      BY <2>5, <2>8, <3>1
  <2>10. Session(c) \in {"open", "closing"} /\ Session(c)' = IF Session(c) = "closing" THEN "closed" ELSE Session(c)
    <3>1. UnderWay(c)
      BY <2>1, <2>2 DEF UnderWay
    <3>2. ~UnderWay(c)'
      <4>1. \A u \in Threads : u # t => pc[u] \notin {"data", "gone"} /\ pc'[u] \notin {"data", "gone"}
        <5>1. \A u \in Threads : u # t => pc[u] \notin {"data", "gone"}
          BY <2>2, OnePoller DEF Polling, At, PollLabels
        <5>2. QED
          BY <1>1, <1>6, <5>1 DEF DataCallback
      <4>2. QED
        BY <2>2, <4>1 DEF UnderWay
    <3>3. QED
      BY <2>2, <2>6, <3>1, <3>2, SessionOf DEF Sees
  <2>11. \A d \in Conns : d # c => \A u \in Threads : SameCallback(u) \/ (client[u] # d /\ client'[u] # d)
    BY <2>1, <2>2
  <2>12. [d \in Conns |-> Session(d)]' = [[d \in Conns |-> Session(d)] EXCEPT ![c] = IF @ = "closing" THEN "closed" ELSE @]
    BY <2>2, <2>5, <2>10, <2>11, OthersSame
  <2>13. Sessions!Deliver(c)
    BY <2>3, <2>5, <2>9, <2>10, <2>12, SameCount DEF Sessions!Deliver
  <2>14. QED
    BY <2>5, <2>13 DEF SessionStep, Sessions!Next
<1>7. CASE DataReturn(t)
  BY <1>1, <1>7, Stutters DEF DataReturn, SessionStep
<1>8. CASE PollMessagesDone(t)
  BY <1>1, <1>8, Stutters DEF PollMessagesDone, SessionStep
<1>9. QED
  BY <1>2, <1>3, <1>4, <1>5, <1>6, <1>7, <1>8 DEF PollStep

LEMMA CallbackSession ==
  ASSUME Foreign = {}, ServerInv, ServerInv', MessageInv, NEW t \in Threads \ Workers,
         CallbackStep(t)
  PROVE  SessionStep
<1> USE ThreadNames
<1> USE DEF ServerInv
<1> USE DEF SameCallback, SameUp, Up, Goto, Step, Lock, NextEvent, server, flags,
  handles, clients, local, call, net, rest
<1>1. pc \in [Threads -> Labels] /\ ret \in [Threads -> {"idle"} \cup InCallback]
  BY DEF TypeInv, TypeOK
<1>2. CASE RunCallbacks(t)
  BY <1>1, <1>2, Stutters DEF RunCallbacks, SessionStep
<1>3. CASE RunCallbacksDone(t)
  BY <1>1, <1>3, Stutters DEF RunCallbacksDone, SessionStep
<1>4. CASE StatusDropped(t)
  BY <1>1, <1>4, Stutters DEF StatusDropped, SessionStep
<1>5. CASE StatusChecked(t)
  BY <1>1, <1>5, Stutters DEF StatusChecked, SessionStep
<1>6. CASE StatusCrash(t)
  BY <1>1, <1>6, Stutters DEF StatusCrash, SessionStep
<1>7. CASE StatusGone(t)
  BY <1>1, <1>7, Stutters DEF StatusGone, SessionStep
<1>8. CASE StatusConnecting(t)
  BY <1>1, <1>8, Stutters DEF StatusConnecting, SessionStep
<1>9. CASE StatusIgnored(t)
  BY <1>1, <1>9, Stutters DEF StatusIgnored, SessionStep
<1>10. CASE Accept(t)
  BY <1>1, <1>10, Stutters DEF Accept, SessionStep
<1>11. CASE SetGroup(t)
  BY <1>1, <1>11, Stutters DEF SetGroup, SessionStep
<1>12. CASE Insert(t)
  <2>1. PICK c \in Conns : c = Event(t).conn
    BY <1>12, HandlingEvent DEF Insert, Handling
  <2>2. c \in Conns /\ c \notin announced /\ c \notin left
    BY <1>12, <2>1, HandlingEvent DEF Insert, Handling, ClientInv, NewIsAccepted,
      ClientsAnnounced
  <2>3. Up /\ Up'
    BY <1>1, <1>12, OnePoller DEF Insert, Polling, At, PollLabels
  <2>4. /\ m_clients' = m_clients \cup {c} /\ announced' = announced \cup {c} /\ UNCHANGED <<delivered, left>>
        /\ \A u \in Threads : SameCallback(u)
    BY <1>1, <1>12, <2>1 DEF Insert
  <2>5. Session(c) = "none" /\ Session(c)' = "open"
    BY <2>2, <2>4, SessionOf DEF Sees
  <2>6. [d \in Conns |-> Session(d)]' = [[d \in Conns |-> Session(d)] EXCEPT ![c] = "open"]
    BY <2>2, <2>4, <2>5, OthersSame
  <2>7. Sessions!Announce(c)
    BY <2>2, <2>3, <2>4, <2>5, <2>6 DEF Sessions!Announce
  <2>8. QED
    BY <2>2, <2>7 DEF SessionStep, Sessions!Next
<1>13. CASE InsertRace(t)
  BY <1>1, <1>13, Stutters DEF InsertRace, SessionStep
<1>14. CASE ConnectedReturn(t)
  BY <1>1, <1>14, Stutters DEF ConnectedReturn, SessionStep
<1>15. CASE LookupLock(t)
  BY <1>1, <1>15, Stutters DEF LookupLock, SessionStep
<1>16. CASE LookupFind(t)
  <2>1. SameUp /\ UNCHANGED <<delivered, announced, left, m_clients>> /\ \A u \in Threads : SameCallback(u)
    BY <1>1, <1>16 DEF LookupFind, TypeInv, TypeOK
  <2>2. QED
    BY <2>1, Stutters DEF SessionStep
<1>17. CASE GoneCallback(t)
  <2>1. PICK c \in Conns : c = client[t]
    BY <1>17 DEF GoneCallback, TypeInv, GoneHasClient
  <2>2. /\ c \in Conns /\ c = Event(t).conn /\ pending[t] # <<>> /\ pending[t] \in Seq(Events)
        /\ Event(t).new \in Gone
    BY <1>17, <2>1, HandlingEvent DEF GoneCallback, Handling, LocalInv, LocalAt,
      ClientAt, At, EventInv, HandlesEnd, EndLabels
  <2>3. Up /\ Up'
    BY <1>1, <1>17, OnePoller DEF GoneCallback, Polling, At, PollLabels
  <2>4. c \notin left
    <3>1. 1 \in Ends(pending[t], c)
      BY <2>2, EndsHead DEF Event
    <3>2. ~Telling(t)
      BY <1>17 DEF GoneCallback, Telling, At
    <3>3. QED
      BY <3>1, <3>2 DEF EventInv, LeftIsTold
  <2>5. c \in announced
    BY <2>1, <2>2, ConstantsTyped DEF ClientInv, DanglesOnlyByDisconnect, ClientsAnnounced
  <2>6. /\ left' = left \cup {c} /\ UNCHANGED <<delivered, announced, m_clients, client>>
        /\ \A u \in Threads : u # t => SameCallback(u)
    BY <1>1, <1>17, <2>1 DEF GoneCallback
  <2>7. Session(c) \in {"open", "closing"} /\ Session(c)' = "left"
    <3>1. UnderWay(c)
      BY <1>17, <2>1 DEF GoneCallback, UnderWay
    <3>2. QED
      BY <2>4, <2>5, <2>6, <3>1, SessionOf DEF Sees
  <2>8. \A d \in Conns : d # c => \A u \in Threads : SameCallback(u) \/ (client[u] # d /\ client'[u] # d)
    BY <2>1, <2>6
  <2>9. [d \in Conns |-> Session(d)]' = [[d \in Conns |-> Session(d)] EXCEPT ![c] = "left"]
    BY <2>2, <2>6, <2>7, <2>8, OthersSame
  <2>10. Sessions!Leave(c)
    BY <2>2, <2>3, <2>6, <2>7, <2>9 DEF Sessions!Leave
  <2>11. QED
    BY <2>2, <2>10 DEF SessionStep, Sessions!Next
<1>18. CASE GoneReturn(t)
  BY <1>1, <1>18, Stutters DEF GoneReturn, SessionStep
<1>19. CASE CloseGone(t)
  BY <1>1, <1>19, Stutters DEF CloseGone, SessionStep
<1>20. QED
  BY <1>2, <1>3, <1>4, <1>5, <1>6, <1>7, <1>8, <1>9, <1>10, <1>11, <1>12, <1>13, <1>14,
    <1>15, <1>16, <1>17, <1>18, <1>19 DEF CallbackStep

LEMMA CallSession ==
  ASSUME Foreign = {}, ServerInv, ServerInv', MessageInv, NEW t \in Threads, CallStep(t)
  PROVE  SessionStep
<1> USE ThreadNames
<1> USE DEF ServerInv
<1> USE DEF SameCallback, SameUp, Up, Goto, Step, Lock, NextEvent, server, flags,
  handles, clients, local, call, net, rest
<1>1. pc \in [Threads -> Labels] /\ ret \in [Threads -> {"idle"} \cup InCallback]
  BY DEF TypeInv, TypeOK
<1>2. CASE BroadcastSend(t)
  BY <1>1, <1>2, Stutters DEF BroadcastSend, SessionStep
<1>3. CASE DisconnectLock(t)
  BY <1>1, <1>3, Stutters DEF DisconnectLock, SessionStep
<1>4. CASE DisconnectErase(t)
  <2>1. PICK c \in Conns : c = kick[t]
    BY <1>4 DEF DisconnectErase, ClientInv, KickedIsClosed
  <2>2. c \in Conns /\ c \in announced
    BY <1>4, <2>1 DEF DisconnectErase, ClientInv, KickedIsClosed, ClientsAnnounced
  <2>3. /\ SameUp /\ m_clients' = m_clients \ {c} /\ UNCHANGED <<delivered, announced, left, client>>
        /\ \A u \in Threads : SameCallback(u)
    BY <1>1, <1>4, <2>1 DEF DisconnectErase, InCallback
  <2>4. CASE c \in left \/ c \notin m_clients
    <3>1. Session(c)' = Session(c)
      <4>1. c \in left => Session(c)' = Session(c)
        BY <2>2, <2>3, SessionOf DEF Sees
      <4>2. c \notin m_clients => Session(c)' = Session(c)
        BY <2>3, SameSession
      <4>3. QED
        BY <2>4, <4>1, <4>2
    <3>2. ASSUME NEW d \in Conns, d # c PROVE Session(d)' = Session(d)
      BY <2>3, <3>2, SameSession
    <3>3. QED
      BY <2>3, <3>1, <3>2 DEF SessionStep, Sessions!vars
  <2>5. CASE c \notin left /\ c \in m_clients
    <3>1. Session(c) = "open" /\ Session(c)' \in {"closing", "closed"}
      BY <2>2, <2>3, <2>5, SessionOf DEF Sees
    <3>2. [d \in Conns |-> Session(d)]' = [[d \in Conns |-> Session(d)] EXCEPT ![c] = Session(c)']
      BY <2>2, <2>3, OthersSame
    <3>3. Sessions!Disconnect(c)
      BY <2>2, <2>3, <3>1, <3>2 DEF Sessions!Disconnect
    <3>4. QED
      BY <2>2, <3>3 DEF SessionStep, Sessions!Next
  <2>6. QED
    BY <2>4, <2>5
<1>5. QED
  BY <1>2, <1>3, <1>4 DEF CallStep

LEMMA AppCallSession ==
  ASSUME Foreign = {}, ServerInv, ServerInv', MessageInv, AppCall
  PROVE  SessionStep
<1> USE ThreadNames
<1> USE DEF ServerInv
<1> USE DEF SameCallback, SameUp, Up, Goto, Step, Lock, NextEvent, server, flags,
  handles, clients, local, call, net, rest
<1>1. pc \in [Threads -> Labels] /\ ret \in [Threads -> {"idle"} \cup InCallback]
  BY DEF TypeInv, TypeOK
<1>2. ASSUME NEW m \in Modes, StartListen(m) PROVE SessionStep
  BY <1>1, <1>2, Stutters DEF StartListen, SessionStep
<1>3. CASE StopBegin
  BY <1>1, <1>3, Stutters DEF StopBegin, SessionStep
<1>4. CASE PollManually
  BY <1>1, <1>4, Stutters DEF PollManually, SessionStep
<1>5. ASSUME NEW w \in Workers, Broadcast(w) PROVE SessionStep
  BY <1>1, <1>5, Stutters DEF Broadcast, SessionStep, Threads
<1>6. ASSUME NEW t \in Threads, NEW c \in Conns, Disconnect(t, c) PROVE SessionStep
  BY <1>1, <1>6, Stutters DEF Disconnect, SessionStep, InCallback
<1>7. QED
  BY <1>2, <1>3, <1>4, <1>5, <1>6 DEF AppCall

LEMMA NextSession ==
  ASSUME Foreign = {}, ServerInv, ServerInv', MessageInv, [Next]_vars
  PROVE  SessionStep
<1> USE ThreadNames
<1>1. ASSUME NEW t \in Threads, Run(t) PROVE SessionStep
  <2>1. CASE t = Net /\ LoopCheck
    BY <2>1, Stutters DEF LoopCheck, ServerInv, TypeInv, TypeOK, SessionStep,
      SameCallback, SameUp, Up, Goto, Step, Lock, NextEvent, server, flags, handles,
      clients, local, call, net, rest
  <2>2. t \notin Workers => t \in Threads \ Workers
    BY <1>1
  <2>3. Net \in Threads \ Workers /\ Owner \in Threads \ Workers
    BY ThreadsDistinct DEF Threads
  <2>4. QED
    BY <1>1, <2>1, <2>2, <2>3, OwnerSession, PollSession, CallbackSession,
      CallSession DEF Run
<1>2. CASE Peer
  BY <1>2, Stutters DEF Peer, PeerConnect, PeerEstablish, PeerSend, PeerGone, Unmoved,
    SessionStep, SameCallback, SameUp, Up, Goto, Step, Lock, NextEvent, server, flags,
    handles, clients, local, call, net, rest
<1>3. CASE UNCHANGED vars
  BY <1>3, Stutters DEF vars, SessionStep, SameCallback, SameUp, Up, Goto, Step, Lock,
    NextEvent, server, flags, handles, clients, local, call, net, rest
<1>4. QED
  BY <1>1, <1>2, <1>3, AppCallSession DEF Next, Quiet

\* The server implements ServerSessions: for any number of connections, messages, threads,
\* calls and restarts, and any batch size, every callback the application gets is one that
\* the sessions allow - connected first and once, the data of a peer in order and without
\* gaps, disconnected once and last, one callback at most after a disconnect(), none after
\* stop(), and no session of an earlier start in a new one.
THEOREM ServerImplementsSessions == ASSUME Foreign = {} PROVE Spec => ImplementsSessions
<1>1. ASSUME ServerInv, MessageInv, [Next]_vars PROVE MessageInv'
  BY <1>1, NextMessage
<1>2. ASSUME ServerInv, ServerInv', MessageInv, [Next]_vars
      PROVE  [Sessions!Next]_(Sessions!vars)
  BY <1>2, NextSession DEF SessionStep
<1>3. QED
  BY <1>1, <1>2, InitMessage, InitSessions, ServerCorrect, PTL DEF Spec,
    ImplementsSessions, Sessions!Spec
=============================================================================
