--------------------------- MODULE UdpClientProofs ---------------------------
(***************************************************************************)
(* Theorems about UdpClient, for any number of clients, of threads of      *)
(* other objects and of connects.                                          *)
(***************************************************************************)
EXTENDS UdpClient, TLAPS, SequenceTheorems

\* A thread that dispatches a status change has one.
HasEvent ==
  \A p \in Pumps : net[p] \in {"deref", "handle", "close", "clear"} => pending[p] # <<>>

\* A status handler runs on a client: the null pointer ends the process.
HasInstance ==
  \A p \in Pumps : net[p] \in {"handle", "close", "clear"} /\ fault = "none" =>
    inst[p] \in Clients

\* connect() counts before it opens a connection.
HasHandle == \A i \in Clients : app[i] = "try" => connects[i] # 0

TypeInv == TypeOK /\ HasEvent /\ HasInstance /\ HasHandle

LEMMA EventType ==
  ASSUME NEW q \in Seq(Events), q # <<>>
  PROVE  /\ Tail(q) \in Seq(Events)
         /\ Head(q).conn \in Conns
         /\ Head(q).new \in ConnStates \cup {"None"}
<1>1. Head(q) \in Events /\ Tail(q) \in Seq(Events)
  BY HeadTailProperties
<1>2. QED
  BY <1>1 DEF Events

LEMMA PostType ==
  ASSUME TypeOK, NEW c \in Conns, NEW s \in ConnStates \cup {"None"}, PostStatus(c, s)
  PROVE  connState' \in [Conns -> ConnStates] /\ callbacks' \in Seq(Events)
<1>1. [conn |-> c, new |-> s] \in Events
  BY DEF Events
<1>2. callbacks' \in Seq(Events)
  BY <1>1, AppendProperties DEF PostStatus, TypeOK
<1>3. connState' \in [Conns -> ConnStates]
  BY DEF PostStatus, TypeOK, ConnStates
<1>4. QED
  BY <1>2, <1>3

LEMMA CloseType ==
  ASSUME TypeOK, NEW c \in Conns, CloseConnection(c)
  PROVE  connState' \in [Conns -> ConnStates] /\ callbacks' \in Seq(Events)
  BY PostType DEF CloseConnection, TypeOK, steam

LEMMA InitTypeInv == Init => TypeInv
<1> SUFFICES ASSUME Init PROVE TypeInv
  OBVIOUS
<1>1. net \in [Pumps -> NetLabels] /\ app \in [Clients -> AppLabels]
  BY DEF Init, NetLabels, AppLabels
<1>2. connects \in [Clients -> 0..MaxConnects]
  BY ConstantsDistinct DEF Init
<1>3. connState \in [Conns -> ConnStates] /\ m_connection_status \in [Clients -> Status]
  BY DEF Init, ConnStates, Status
<1>4. TypeOK
  BY <1>1, <1>2, <1>3 DEF Init, TypeOK, Faults
<1>5. HasEvent /\ HasInstance /\ HasHandle
  BY DEF Init, HasEvent, HasInstance, HasHandle
<1>6. QED
  BY <1>4, <1>5 DEF TypeInv

LEMMA AppType ==
  ASSUME TypeInv, fault = "none", NEW i \in Clients, AppRun(i)
  PROVE  TypeInv'
<1> USE DEF TypeInv, TypeOK, HasEvent, HasInstance, HasHandle
<1> USE DEF object, steam, loop, AppStep, NetStep, GotoApp, GotoNet, NextEvent, SetStatus
<1> USE DEF AppLabels, StopLabels, NetLabels, Status, Faults
<1> USE DEF Pumps
<1>1. CASE TryConnectFails(i)
  BY <1>1 DEF TryConnectFails
<1>2. CASE TryConnectStarts(i)
  <2>1. <<i, connects[i]>> \in Conns
    BY <1>2 DEF TryConnectStarts, Conns
  <2>2. connState' \in [Conns -> ConnStates] /\ callbacks' \in Seq(Events)
    BY <1>2, <2>1, PostType DEF TryConnectStarts, ConnStates
  <2>3. QED
    BY <1>2, <2>1, <2>2 DEF TryConnectStarts
<1>3. CASE ConnectStore(i)
  BY <1>3 DEF ConnectStore
<1>4. CASE ConnectSpawn(i)
  BY <1>4 DEF ConnectSpawn
<1>5. CASE StopExchange(i)
  BY <1>5 DEF StopExchange
<1>6. CASE StopJoin(i)
  BY <1>6 DEF StopJoin
<1>7. CASE StopClose(i)
  <2>1. connState' \in [Conns -> ConnStates] /\ callbacks' \in Seq(Events)
    BY <1>7, CloseType DEF StopClose
  <2>2. QED
    BY <1>7, <2>1 DEF StopClose
<1>8. QED
  BY <1>1, <1>2, <1>3, <1>4, <1>5, <1>6, <1>7 DEF AppRun

LEMMA NetType ==
  ASSUME TypeInv, fault = "none", NEW p \in Pumps, NetRun(p)
  PROVE  TypeInv'
<1> USE DEF TypeInv, TypeOK, HasEvent, HasInstance, HasHandle
<1> USE DEF object, steam, loop, AppStep, NetStep, GotoApp, GotoNet, NextEvent, SetStatus
<1> USE DEF AppLabels, StopLabels, NetLabels, Status, Faults
<1>1. CASE LoopCheck(p)
  BY <1>1 DEF LoopCheck
<1>2. CASE PollCheck(p)
  BY <1>2 DEF PollCheck
<1>3. CASE PollMessages(p)
  BY <1>3 DEF PollMessages
<1>4. CASE PollReceive(p)
  BY <1>4 DEF PollReceive
<1>5. CASE ForeignPump(p)
  BY <1>5 DEF ForeignPump
<1>6. CASE RunCallbacks(p)
  BY <1>6 DEF RunCallbacks
<1>7. CASE RunCallbacksDone(p)
  BY <1>7 DEF RunCallbacksDone
<1>8. CASE StatusDropped(p)
  <2>1. Tail(pending[p]) \in Seq(Events)
    BY <1>8, EventType DEF StatusDropped
  <2>2. QED
    BY <1>8, <2>1 DEF StatusDropped
<1>9. CASE StatusChecked(p)
  BY <1>9 DEF StatusChecked
<1>10. CASE StatusEnter(p)
  <2>1. PICK i \in {inst[p], s_instance} :
          /\ inst' = [inst EXCEPT ![p] = i]
          /\ fault' = IF i = NoClient THEN "nullInstance"
                      ELSE IF app[i] = "destroyed" THEN "useAfterFree" ELSE fault
    BY <1>10 DEF StatusEnter
  <2>2. i \in Clients \cup {NoClient}
    BY <2>1
  <2>3. QED
    BY <1>10, <2>1, <2>2 DEF StatusEnter
<1>11. CASE StatusIgnored(p)
  <2>1. Tail(pending[p]) \in Seq(Events)
    BY <1>11, EventType DEF StatusIgnored
  <2>2. QED
    BY <1>11, <2>1 DEF StatusIgnored
<1>12. CASE StatusProgress(p)
  <2>1. Tail(pending[p]) \in Seq(Events)
    BY <1>12, EventType DEF StatusProgress
  <2>2. QED
    BY <1>12, <2>1 DEF StatusProgress
<1>13. CASE StatusGone(p)
  BY <1>13 DEF StatusGone
<1>14. CASE StatusGoneClose(p)
  <2>1. Event(p).conn \in Conns
    BY <1>14, EventType DEF StatusGoneClose, Event
  <2>2. connState' \in [Conns -> ConnStates] /\ callbacks' \in Seq(Events)
    BY <1>14, <2>1, CloseType DEF StatusGoneClose
  <2>3. QED
    BY <1>14, <2>2 DEF StatusGoneClose
<1>15. CASE StatusGoneClear(p)
  <2>1. Tail(pending[p]) \in Seq(Events)
    BY <1>15, EventType DEF StatusGoneClear
  <2>2. QED
    BY <1>15, <2>1 DEF StatusGoneClear
<1>16. CASE DataReturn(p)
  BY <1>16 DEF DataReturn
<1>17. QED
  BY <1>1, <1>2, <1>3, <1>4, <1>5, <1>6, <1>7, <1>8, <1>9, <1>10, <1>11, <1>12, <1>13, <1>14, <1>15, <1>16 DEF NetRun

LEMMA OutsideType ==
  ASSUME TypeInv, fault = "none", Outside
  PROVE  TypeInv'
<1> USE DEF TypeInv, TypeOK, HasEvent, HasInstance, HasHandle
<1> USE DEF object, steam, loop, AppStep, NetStep, GotoApp, GotoNet, NextEvent, SetStatus
<1> USE DEF AppLabels, StopLabels, NetLabels, Status, Faults
<1> USE DEF Pumps
<1>1. ASSUME NEW i \in Clients, ConnectBegin(i) PROVE TypeInv'
  <2>1. connects' \in [Clients -> 0..MaxConnects]
    BY <1>1, ConstantsDistinct DEF ConnectBegin
  <2>2. HasHandle'
    BY <1>1, ConstantsDistinct DEF ConnectBegin
  <2>3. QED
    BY <1>1, <2>1, <2>2 DEF ConnectBegin
<1>2. ASSUME NEW i \in Clients, StopBegin(i) PROVE TypeInv'
  BY <1>2 DEF StopBegin
<1>3. ASSUME NEW i \in Clients, Destroy(i) PROVE TypeInv'
  BY <1>3 DEF Destroy
<1>4. ASSUME NEW c \in Conns, PeerEstablish(c) PROVE TypeInv'
  <2>1. PICK s \in {"Connected"} : PostStatus(c, s)
    BY <1>4 DEF PeerEstablish
  <2>2. connState' \in [Conns -> ConnStates] /\ callbacks' \in Seq(Events)
    BY <2>1, PostType DEF ConnStates, Gone
  <2>3. QED
    BY <1>4, <2>2 DEF PeerEstablish
<1>5. ASSUME NEW c \in Conns, PeerGone(c) PROVE TypeInv'
  <2>1. PICK s \in Gone : PostStatus(c, s)
    BY <1>5 DEF PeerGone
  <2>2. connState' \in [Conns -> ConnStates] /\ callbacks' \in Seq(Events)
    BY <2>1, PostType DEF ConnStates, Gone
  <2>3. QED
    BY <1>5, <2>2 DEF PeerGone
<1>6. QED
  BY <1>1, <1>2, <1>3, <1>4, <1>5 DEF Outside

LEMMA NextTypeInv == TypeInv /\ [Next]_vars => TypeInv'
<1> SUFFICES ASSUME TypeInv, [Next]_vars PROVE TypeInv'
  OBVIOUS
<1>1. CASE UNCHANGED vars
  BY <1>1 DEF vars, object, steam, loop, TypeInv, TypeOK, HasEvent, HasInstance, HasHandle
<1>2. QED
  BY <1>1, AppType, NetType, OutsideType DEF Next, Quiet

\* Type correctness of UdpClient: above all, a status handler that runs has an event
\* and a client to run on, and the status is one of the enumeration's.
THEOREM TypeCorrect == Spec => []TypeOK
<1>1. TypeInv => TypeOK
  BY DEF TypeInv
<1>2. QED
  BY InitTypeInv, NextTypeInv, <1>1, PTL DEF Spec

-----------------------------------------------------------------------------
\* A step that moves neither a thread on or off nor an application out of or into
\* destruction keeps NoOrphanThread.
LEMMA SameThreads ==
  ASSUME NoOrphanThread,
         \A i \in Clients : net'[i] # "off" => net[i] # "off",
         \A i \in Clients : app'[i] = "destroyed" => app[i] = "destroyed",
         UNCHANGED m_network_thread, fault = "none"
  PROVE  NoOrphanThread'
  BY DEF NoOrphanThread

LEMMA NextNoOrphanThread == TypeInv /\ NoOrphanThread /\ [Next]_vars => NoOrphanThread'
<1> SUFFICES ASSUME TypeInv, NoOrphanThread, [Next]_vars PROVE NoOrphanThread'
  OBVIOUS
<1> USE DEF AppStep, NetStep, GotoApp, GotoNet, loop
<1>1. /\ net \in [Pumps -> NetLabels] /\ app \in [Clients -> AppLabels]
      /\ m_network_thread \in [Clients -> BOOLEAN] /\ Clients \subseteq Pumps
  BY DEF TypeInv, TypeOK, Pumps
<1>2. ASSUME NEW i \in Clients, AppRun(i), fault = "none" PROVE NoOrphanThread'
  <2>1. CASE ConnectSpawn(i)
    BY <1>1, <1>2, <2>1 DEF ConnectSpawn, NoOrphanThread
  <2>2. CASE StopJoin(i)
    BY <1>1, <1>2, <2>2 DEF StopJoin, NoOrphanThread
  <2>3. CASE TryConnectFails(i) \/ TryConnectStarts(i) \/ ConnectStore(i)
    BY <1>1, <1>2, <2>3, SameThreads DEF TryConnectFails, TryConnectStarts, ConnectStore
  <2>4. CASE StopExchange(i) \/ StopClose(i)
    BY <1>1, <1>2, <2>4, SameThreads DEF StopExchange, StopClose
  <2>5. QED
    BY <1>2, <2>1, <2>2, <2>3, <2>4 DEF AppRun
<1>3. ASSUME NEW p \in Pumps, NetRun(p), fault = "none" PROVE NoOrphanThread'
  <2>1. PICK from \in NetLabels \ {"off"}, to \in NetLabels : NetStep(p, from, to)
    <3>1. CASE p \in Clients /\ (LoopCheck(p) \/ PollCheck(p) \/ PollMessages(p)
                                  \/ PollReceive(p) \/ DataReturn(p))
      BY <3>1 DEF LoopCheck, PollCheck, PollMessages, PollReceive, DataReturn, NetLabels
    <3>2. CASE ForeignPump(p) \/ RunCallbacks(p) \/ RunCallbacksDone(p)
      BY <3>2 DEF ForeignPump, RunCallbacks, RunCallbacksDone, NetLabels
    <3>3. CASE StatusDropped(p) \/ StatusChecked(p) \/ StatusEnter(p) \/ StatusIgnored(p)
      BY <3>3 DEF StatusDropped, StatusChecked, StatusEnter, StatusIgnored, NetLabels
    <3>4. CASE StatusProgress(p) \/ StatusGone(p) \/ StatusGoneClose(p) \/ StatusGoneClear(p)
      BY <3>4 DEF StatusProgress, StatusGone, StatusGoneClose, StatusGoneClear, NetLabels
    <3>5. QED
      BY <1>3, <3>1, <3>2, <3>3, <3>4 DEF NetRun
  <2>2. QED
    BY <1>1, <1>3, <2>1, SameThreads
<1>4. ASSUME Outside, fault = "none" PROVE NoOrphanThread'
  <2>1. ASSUME NEW i \in Clients, ConnectBegin(i) \/ StopBegin(i) PROVE NoOrphanThread'
    BY <1>1, <1>4, <2>1, SameThreads DEF ConnectBegin, StopBegin
  <2>2. ASSUME NEW i \in Clients, Destroy(i) PROVE NoOrphanThread'
    BY <1>1, <1>4, <2>2 DEF Destroy, NoOrphanThread
  <2>3. ASSUME NEW c \in Conns, PeerEstablish(c) \/ PeerGone(c) PROVE NoOrphanThread'
    BY <1>4, <2>3, SameThreads DEF PeerEstablish, PeerGone
  <2>4. QED
    BY <1>4, <2>1, <2>2, <2>3 DEF Outside
<1>5. CASE UNCHANGED vars
  BY <1>5 DEF vars, NoOrphanThread
<1>6. QED
  BY <1>2, <1>3, <1>4, <1>5 DEF Next, Quiet

\* However many clients share the process, and whatever they and other objects
\* dispatch, a network thread always has a std::thread object that can join it, and
\* a client that was destroyed without ending the process has no thread left.
THEOREM NoThreadOutlivesClient == Spec => []NoOrphanThread
<1>1. Init => NoOrphanThread
  BY DEF Init, NoOrphanThread, Pumps
<1>2. QED
  BY InitTypeInv, NextTypeInv, NextNoOrphanThread, <1>1, PTL DEF Spec
=============================================================================
