--------------------------- MODULE ServerSessions ---------------------------
(***************************************************************************)
(* What UdpServer promises the application that set its three callbacks.   *)
(* For every connection there is one session: it opens with the connected  *)
(* callback, hears the messages of the peer in the order in which they     *)
(* were sent and without gaps, and ends with the disconnected callback,    *)
(* with disconnect() or with stop().  Threads, locks, batches, the client  *)
(* map and the Steam library are not visible here.                         *)
(***************************************************************************)
EXTENDS Naturals, FiniteSets

CONSTANT Conns

VARIABLES
  up,       \* the application may get callbacks
  session,  \* where each connection is
  heard     \* the numbers of the messages that its data callback got

vars == <<up, session, heard>>

Init ==
  /\ up = FALSE
  /\ session = [c \in Conns |-> "none"]
  /\ heard = [c \in Conns |-> {}]

\* A server starts with no session of an earlier start.
Start ==
  /\ ~up
  /\ \A c \in Conns : session[c] \in {"none", "left", "closed"}
  /\ up' = TRUE
  /\ UNCHANGED <<session, heard>>

\* The connected callback.
Announce(c) ==
  /\ up
  /\ session[c] = "none"
  /\ session' = [session EXCEPT ![c] = "open"]
  /\ UNCHANGED <<up, heard>>

\* The data callback, with the message after the ones it already got.  A
\* disconnect() that another thread calls meanwhile lets one callback pass.
Deliver(c) ==
  /\ up
  /\ session[c] \in {"open", "closing"}
  /\ heard' = [heard EXCEPT ![c] = @ \cup {Cardinality(@) + 1}]
  /\ session' = [session EXCEPT ![c] = IF @ = "closing" THEN "closed" ELSE @]
  /\ UNCHANGED up

\* The disconnected callback, once, and the last of its connection.
Leave(c) ==
  /\ up
  /\ session[c] \in {"open", "closing"}
  /\ session' = [session EXCEPT ![c] = "left"]
  /\ UNCHANGED <<up, heard>>

\* disconnect(): at most one callback is still under way.
Disconnect(c) ==
  /\ session[c] = "open"
  /\ \E s \in {"closing", "closed"} : session' = [session EXCEPT ![c] = s]
  /\ UNCHANGED <<up, heard>>

\* stop(): first the callbacks end, then all sessions are closed at once.
Down ==
  /\ up
  /\ up' = FALSE
  /\ UNCHANGED <<session, heard>>

CloseAll ==
  /\ ~up
  /\ session' = [c \in Conns |-> IF session[c] = "open" THEN "closed" ELSE session[c]]
  /\ UNCHANGED <<up, heard>>

Next ==
  \/ Start \/ Down \/ CloseAll
  \/ \E c \in Conns : Announce(c) \/ Deliver(c) \/ Leave(c) \/ Disconnect(c)

Spec == Init /\ [][Next]_vars
=============================================================================
