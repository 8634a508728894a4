----------------------------- MODULE AsyncClient -----------------------------
(***************************************************************************)
(* AsyncUdpPacketClient::connect and the lifetime of the object            *)
(* (src/src/kb/net/udp/client/async_udp_packet_client.{hpp,inl}), on top   *)
(* of the UdpClient that it reaches through UdpPacketClient.               *)
(*                                                                         *)
(* connect() is a coroutine on a thread of the pool: it calls              *)
(* UdpClient::connect (labels of app[i]) and then polls the status of the  *)
(* connection.  Meanwhile the application may call stop().  The            *)
(* application drops its shared_ptr when no connect() is under way; the    *)
(* data callback holds another one, so that the last release may be on the *)
(* network thread.                                                         *)
(***************************************************************************)
EXTENDS UdpClient

CONSTANTS MaxIters  \* max_iters: how often the status is read (20)

ASSUME MaxItersTyped == MaxIters \in Nat

VARIABLES
  cpc,                \* where the connect() coroutine of a client is
  iter,
  connection_status,  \* its local copy of the status
  answer,             \* what it returned ("none": nothing yet)
  news,               \* history: connections it was told of since it began
  unsettled,          \* history: connections it could be told of when it began
  dropped             \* who has the last reference, once the application lets go

coroutine == <<cpc, iter, connection_status, answer>>
histories == <<news, unsettled>>
asyncVars == <<vars, coroutine, histories, dropped>>

AsyncInit ==
  /\ Init
  /\ cpc = [i \in Clients |-> "none"]
  /\ iter = [i \in Clients |-> 0]
  /\ connection_status = [i \in Clients |-> "disconnected"]
  /\ answer = [i \in Clients |-> "none"]
  /\ news = [i \in Clients |-> {}]
  /\ unsettled = [i \in Clients |-> {}]
  /\ dropped = [i \in Clients |-> "no"]

Idle(i) == cpc[i] \in {"none", "done"} /\ app[i] \in {"idle", "stopped"} /\ dropped[i] = "no"

GotoCo(i, l) == cpc' = [cpc EXCEPT ![i] = l] /\ UNCHANGED answer

\* co_return connection_status == connected
Return(i, status) ==
  /\ cpc' = [cpc EXCEPT ![i] = "done"]
  /\ answer' = [answer EXCEPT ![i] = IF status = "connected" THEN "true" ELSE "false"]

\* The status changes that nobody has handled, and the connections that can
\* still be reported as connected: to whichever client s_instance points then.
Undelivered ==
  {callbacks[n] : n \in DOMAIN callbacks}
    \cup UNION {{pending[p][n] : n \in DOMAIN pending[p]} : p \in Pumps}

Unsettled ==
  {c \in Conns : \/ connState[c] = "Connecting"
                 \/ [conn |-> c, new |-> "Connected"] \in Undelivered}

-----------------------------------------------------------------------------
(* connect, on a thread of the pool.                                        *)

ConnectRefused(i) ==
  /\ Idle(i)
  /\ m_running[i]
  /\ Return(i, "connecting")
  /\ UNCHANGED <<vars, iter, connection_status, histories, dropped>>

ConnectCall(i) ==
  /\ Idle(i)
  /\ ConnectBegin(i)
  /\ cpc' = [cpc EXCEPT ![i] = "call"]
  /\ answer' = [answer EXCEPT ![i] = "none"]
  /\ news' = [news EXCEPT ![i] = {}]
  /\ unsettled' = [unsettled EXCEPT ![i] = Unsettled]
  /\ UNCHANGED <<iter, connection_status, dropped>>

\* UdpClient::connect returns res.
ConnectReturn(i) ==
  /\ ConnectSpawn(i)
  /\ IF res[i] THEN GotoCo(i, "read") ELSE Return(i, "failed_to_connect")
  /\ iter' = [iter EXCEPT ![i] = 0]
  /\ UNCHANGED <<connection_status, histories, dropped>>

\* Mutant: the iterations are not counted.
ReadUncounted(i) ==
  /\ cpc[i] = "read"
  /\ connection_status' = [connection_status EXCEPT ![i] = m_connection_status[i]]
  /\ GotoCo(i, "sleep")
  /\ UNCHANGED <<vars, iter, histories, dropped>>

\* The status is read before the iterations are compared with the limit.
Read(i) ==
  /\ cpc[i] = "read"
  /\ connection_status' = [connection_status EXCEPT ![i] = m_connection_status[i]]
  /\ iter' = [iter EXCEPT ![i] = @ + 1]
  /\ IF iter[i] >= MaxIters THEN Return(i, m_connection_status[i]) ELSE GotoCo(i, "sleep")
  /\ UNCHANGED <<vars, histories, dropped>>

\* After the sleep the loop looks at the copy it took before.
Wake(i) ==
  /\ cpc[i] = "sleep"
  /\ IF connection_status[i] = "connecting" THEN GotoCo(i, "read")
     ELSE Return(i, connection_status[i])
  /\ UNCHANGED <<vars, iter, connection_status, histories, dropped>>

-----------------------------------------------------------------------------
(* stop(), and the end of the object.                                       *)

Stop(i) ==
  /\ cpc[i] # "call" /\ dropped[i] = "no"
  /\ StopBegin(i)
  /\ UNCHANGED <<coroutine, histories, dropped>>

\* The application releases its reference, and destroys the client unless the
\* data callback of the network thread has locked the weak_ptr.
DropByApp(i) ==
  /\ Idle(i)
  /\ dropped' = [dropped EXCEPT ![i] = "app"]
  /\ StopBegin(i)
  /\ UNCHANGED <<coroutine, histories>>

DropInCallback(i) ==
  /\ Idle(i)
  /\ net[i] = "inData"
  /\ dropped' = [dropped EXCEPT ![i] = "net"]
  /\ UNCHANGED <<vars, coroutine, histories>>

DestroyedByApp(i) ==
  /\ dropped[i] = "app"
  /\ Destroy(i)
  /\ UNCHANGED <<coroutine, histories, dropped>>

\* The data callback returns.  If it had the last reference, the destructor
\* joins its own thread, or finds a joinable one: the process ends.
CallbackReturn(i) ==
  /\ IF dropped[i] = "net"
     THEN /\ net[i] = "inData"
          /\ fault' = "terminate"
          /\ UNCHANGED <<s_instance, object, m_network_thread, app, res, loop,
                         steam, connects, lost>>
     ELSE DataReturn(i)
  /\ UNCHANGED <<coroutine, histories, dropped>>

-----------------------------------------------------------------------------
\* The other steps of the UdpClient.  The coroutine sees none of them but
\* through the status.
AppElse(i) == app[i] # "spawn" /\ AppRun(i) /\ UNCHANGED <<coroutine, histories, dropped>>

NetElse(p) ==
  /\ net[p] # "inData"
  /\ NetRun(p)
  /\ news' = IF net[p] = "handle" /\ Event(p).new = "Connected"
             THEN [news EXCEPT ![inst[p]] = @ \cup {Event(p).conn}] ELSE news
  /\ UNCHANGED <<coroutine, unsettled, dropped>>

CoRun(i) == ConnectReturn(i) \/ Read(i) \/ Wake(i)
AsyncAppRun(i) == AppElse(i) \/ DestroyedByApp(i)
AsyncNetRun(p) == NetElse(p) \/ (p \in Clients /\ CallbackReturn(p))

AsyncOutside ==
  \/ \E i \in Clients : ConnectRefused(i) \/ ConnectCall(i) \/ Stop(i)
                        \/ DropByApp(i) \/ DropInCallback(i)
  \/ /\ \E c \in Conns : PeerEstablish(c) \/ PeerGone(c)
     /\ UNCHANGED <<coroutine, histories, dropped>>

AsyncQuiet ==
  /\ Quiet
  /\ fault # "none" \/ \A i \in Clients : cpc[i] \in {"none", "done"}
  /\ UNCHANGED <<coroutine, histories, dropped>>

AsyncNext ==
  \/ fault = "none" /\ \E i \in Clients : CoRun(i) \/ AsyncAppRun(i)
  \/ fault = "none" /\ \E p \in Pumps : AsyncNetRun(p)
  \/ fault = "none" /\ AsyncOutside
  \/ AsyncQuiet

AsyncSpec ==
  /\ AsyncInit /\ [][AsyncNext]_asyncVars
  /\ \A i \in Clients : /\ WF_asyncVars(fault = "none" /\ CoRun(i))
                        /\ WF_asyncVars(fault = "none" /\ AsyncAppRun(i))
  /\ \A p \in Pumps : WF_asyncVars(fault = "none" /\ AsyncNetRun(p))

-----------------------------------------------------------------------------
\* connect() answers: the loop ends although the status may stay at connecting
\* for ever, also when stop() ends the network thread meanwhile.
ConnectAnswers ==
  \A i \in Clients : cpc[i] \in {"call", "read", "sleep"} ~> (cpc[i] = "done" \/ fault # "none")

\* What a client can be told of during a call of connect(): the connection the
\* call opened, one that was unsettled when the call began, or another client's.
Reportable(i, c) == c = <<i, connects[i]>> \/ c \in unsettled[i] \/ c[1] # i

\* connect() answers true only if the client was told since the call began that
\* a connection is established, and not one it had lost or closed, with the news
\* delivered, before: the status that an earlier connection left is never the
\* answer.  For the first call of the only client it is the connection opened.
TrueIsNews ==
  \A i \in Clients : answer[i] = "true" => \E c \in news[i] : Reportable(i, c)

\* connect() answers false and leaves the client running only if it was running
\* before or the time is up: a connection that failed takes the client down.
FalseMeansStopped ==
  [][\A i \in Clients :
       cpc[i] # "done" /\ cpc'[i] = "done" /\ answer'[i] = "false" /\ m_running'[i]
         => iter[i] = MaxIters \/ cpc[i] = "none"]_asyncVars

\* The process is terminated by a joinable thread only after a failed or lost
\* connection, or when the data callback had the last reference.
TerminateExplained ==
  fault = "terminate" => lost # {} \/ \E i \in Clients : dropped[i] = "net"

=============================================================================
