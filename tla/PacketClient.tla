---------------------------- MODULE PacketClient ----------------------------
(***************************************************************************)
(* UdpPacketClient and AsyncUdpPacketClient                                *)
(* (src/src/kb/net/udp/client/{,async_}udp_packet_client.{hpp,inl}): what  *)
(* happens to a packet that the network thread of the underlying UdpClient *)
(* hands to handle_message().                                              *)
(*                                                                         *)
(* A packet is a number, in order of arrival, with a packet type and a     *)
(* kind: "good", "badPayload" (its payload does not deserialize) or        *)
(* "badHeader" (malformed, or of another serialization type).  Waiters are *)
(* coroutines inside async_wait_for_packet(); App is a thread that binds   *)
(* and unbinds packet handlers.  m_awaiters_mutex is held for the length   *)
(* of one action.                                                          *)
(***************************************************************************)
EXTENDS Naturals, Sequences

CONSTANTS
  Waiters,     \* calls of async_wait_for_packet
  NoWaiter,
  Types,       \* packet types
  Serde,       \* the serializer of the client: "bin" or "msgpack"
  MaxPackets,  \* bound: packets that arrive
  MaxBinds     \* bound: calls of bind and unbind

ASSUME ConstantsTyped ==
  /\ NoWaiter \notin Waiters /\ Serde \in {"bin", "msgpack"}
  /\ MaxPackets \in Nat /\ MaxBinds \in Nat

VARIABLES
  m_awaiters,  \* per packet type, the queue of awaiting_packet_t
  m_handlers,  \* per packet type, the number of its binding (0: none)
  wpc, wtype,  \* where a waiter is, and the type it waits for
  event,       \* its coro::event is set
  got,         \* the packet it returned (0: nullopt, or none yet)
  net,         \* where the network thread is in handle_message
  packets,     \* packets that arrived; the last one is being handled
  ptype, kind, \* its type and kind
  unreleased,  \* messages of the current poll_messages() call, not yet released
  awaiter,     \* the waiter whose queue entry the network thread points to
  handler_it,  \* the binding that the iterator of the network thread points to
  app, atype,  \* what App does with m_handlers, for which type
  binds,       \* bindings and unbindings so far
  fault,       \* the undefined behaviour that ended the process
  order,       \* history: waiters in the order in which they registered
  taken,       \* history: good packets that the pre-handler claimed as handled
  handled      \* history: packets given to a handler

waiting == <<m_awaiters, wpc, wtype, event, got, order>>
packet  == <<packets, ptype, kind, unreleased>>
binding == <<m_handlers, app, atype, binds>>
hist    == <<taken, handled>>
vars    == <<waiting, net, packet, awaiter, handler_it, binding, fault, hist>>

Packets == 1..MaxPackets
Entries == [w : Waiters, data : {0} \cup Packets]  \* data 0: std::nullopt
WaiterLabels == {"start", "registered", "suspended", "ready", "resumed", "done"}
NetLabels == {"idle", "pre", "write", "set", "resume", "lock", "find", "invoke"}
Faults == {"none", "mapRace", "danglingAwaiter", "danglingHandler",
           "danglingPayload", "danglingInline"}

Init ==
  /\ m_awaiters = [y \in Types |-> <<>>] /\ m_handlers = [y \in Types |-> 0]
  /\ wpc = [w \in Waiters |-> "start"]
  /\ wtype \in [Waiters -> Types]
  /\ event = [w \in Waiters |-> FALSE] /\ got = [w \in Waiters |-> 0]
  /\ net = "idle" /\ packets = 0 /\ kind = "good" /\ ptype \in Types
  /\ unreleased = {}
  /\ awaiter = NoWaiter /\ handler_it = 0
  /\ app = "idle" /\ atype = ptype /\ binds = 0
  /\ fault = "none" /\ order = <<>> /\ taken = {} /\ handled = {}

GotoW(w, l) == wpc' = [wpc EXCEPT ![w] = l]
Queue(w) == m_awaiters[wtype[w]]

-----------------------------------------------------------------------------
(* async_wait_for_packet, on a thread of the pool.                          *)

\* Mutant: the newest waiter goes first.
RegisterFirst(w) ==
  /\ wpc[w] = "start"
  /\ m_awaiters' = [m_awaiters EXCEPT ![wtype[w]] = <<[w |-> w, data |-> 0]>> \o @]
  /\ order' = Append(order, w)
  /\ GotoW(w, "registered")
  /\ UNCHANGED <<wtype, event, got, net, packet, awaiter, handler_it, binding, fault, hist>>

\* register_packet_awaiter
Register(w) ==
  /\ wpc[w] = "start"
  /\ m_awaiters' = [m_awaiters EXCEPT ![wtype[w]] = Append(@, [w |-> w, data |-> 0])]
  /\ order' = Append(order, w)
  /\ GotoW(w, "registered")
  /\ UNCHANGED <<wtype, event, got, net, packet, awaiter, handler_it, binding, fault, hist>>

\* Mutant: the event is not awaited.
AwaitSkipped(w) ==
  /\ wpc[w] = "registered"
  /\ GotoW(w, "ready")
  /\ UNCHANGED <<m_awaiters, wtype, event, got, order, net, packet, awaiter,
                 handler_it, binding, fault, hist>>

\* co_await event: a set event does not suspend.
Await(w) ==
  /\ wpc[w] = "registered"
  /\ GotoW(w, IF event[w] THEN "ready" ELSE "suspended")
  /\ UNCHANGED <<m_awaiters, wtype, event, got, order, net, packet, awaiter,
                 handler_it, binding, fault, hist>>

\* Mutant: the front entry is read after the pop.
PopFrontLate(w) ==
  /\ IF Len(Queue(w)) < 2
     THEN UNCHANGED got
     ELSE got' = [got EXCEPT ![w] = Queue(w)[2].data]
  /\ m_awaiters' = [m_awaiters EXCEPT ![wtype[w]] = IF @ = <<>> THEN @ ELSE Tail(@)]
  /\ GotoW(w, "done")

\* get_packet_awaiter moves the front entry out, whosever it is.
PopFront(w) ==
  /\ IF Queue(w) = <<>>
     THEN UNCHANGED <<m_awaiters, got>>
     ELSE /\ got' = [got EXCEPT ![w] = Head(Queue(w)).data]
          /\ m_awaiters' = [m_awaiters EXCEPT ![wtype[w]] = Tail(@)]
  /\ GotoW(w, "done")

\* The payload_t of the binary serializer is a span over the message; msgpack
\* unpacks into memory of its own.
PayloadIsView == Serde = "bin"

\* payload_as() reads a payload that is part of a message already released.
ReadsReleased(w) == PayloadIsView /\ got'[w] # 0 /\ got'[w] \notin unreleased

\* On the pool, after the event was found set: the network thread goes on
\* meanwhile, and may have released the message.
Pop(w) ==
  /\ wpc[w] = "ready"
  /\ PopFront(w)
  /\ fault' = IF ReadsReleased(w) THEN "danglingPayload" ELSE fault
  /\ UNCHANGED <<wtype, event, order, net, packet, awaiter, handler_it, binding, hist>>

-----------------------------------------------------------------------------
(* handle_message, on the network thread.                                   *)

\* Mutant: a message is released before it is handled.
ReceiveReleased(y, k) ==
  /\ net = "idle"
  /\ packets < MaxPackets
  /\ packets' = packets + 1
  /\ ptype' = y
  /\ kind' = k
  /\ net' = IF k = "badHeader" THEN "idle" ELSE "pre"
  /\ UNCHANGED <<waiting, unreleased, awaiter, handler_it, binding, fault, hist>>

\* Another message of poll_messages(): without a valid header it is dropped.
Receive(y, k) ==
  /\ net = "idle"
  /\ packets < MaxPackets
  /\ packets' = packets + 1
  /\ ptype' = y
  /\ kind' = k
  /\ unreleased' = unreleased \cup {packets + 1}
  /\ net' = IF k = "badHeader" THEN "idle" ELSE "pre"
  /\ UNCHANGED <<waiting, awaiter, handler_it, binding, fault, hist>>

\* poll_messages() releases its messages when all of them were handled.
ReleaseMessages ==
  /\ net = "idle"
  /\ unreleased # {}
  /\ unreleased' = {}
  /\ UNCHANGED <<waiting, net, packets, ptype, kind, awaiter, handler_it, binding,
                 fault, hist>>

\* Mutant: the awaiter is taken from the back of the queue.
PreHandlerBack ==
  /\ net = "pre"
  /\ LET q == m_awaiters[ptype] IN
     IF q = <<>> THEN net' = "lock" /\ UNCHANGED awaiter
                 ELSE net' = "write" /\ awaiter' = q[Len(q)].w
  /\ UNCHANGED <<waiting, packet, handler_it, binding, fault, hist>>

\* on_data_received_pre_handler: the front awaiter, looked up under the mutex
\* and used after its release.
PreHandler ==
  /\ net = "pre"
  /\ LET q == m_awaiters[ptype] IN
     IF q = <<>> THEN net' = "lock" /\ UNCHANGED awaiter
                 ELSE net' = "write" /\ awaiter' = Head(q).w
  /\ UNCHANGED <<waiting, packet, handler_it, binding, fault, hist>>

\* Where the entry is that `awaiter` points to, if it was not popped meanwhile.
EntryAt == {n \in 1..Len(m_awaiters[ptype]) : m_awaiters[ptype][n].w = awaiter}

\* Mutant: a payload that does not deserialize leaves its waiter alone.
WriteOrGiveUp ==
  /\ net = "write"
  /\ IF kind = "good"
     THEN /\ m_awaiters' = [m_awaiters EXCEPT ![ptype] =
               [n \in DOMAIN @ |-> IF n \in EntryAt THEN [@[n] EXCEPT !.data = packets]
                                   ELSE @[n]]]
          /\ net' = "set"
          /\ taken' = taken \cup {packets}
     ELSE net' = "idle" /\ UNCHANGED <<m_awaiters, taken>>
  /\ UNCHANGED <<wpc, wtype, event, got, order, packet, awaiter, handler_it,
                 binding, fault, handled>>

\* Mutant: m_data is assigned before the payload is tested.
WriteUntested ==
  /\ net = "write"
  /\ net' = "set"
  /\ fault' = IF EntryAt = {} THEN "danglingAwaiter" ELSE fault
  /\ taken' = IF kind = "good" THEN taken \cup {packets} ELSE taken
  /\ m_awaiters' = [m_awaiters EXCEPT ![ptype] =
       [n \in DOMAIN @ |-> IF n \in EntryAt
          THEN [@[n] EXCEPT !.data = IF kind = "good" THEN packets ELSE 0] ELSE @[n]]]
  /\ UNCHANGED <<wpc, wtype, event, got, order, packet, awaiter, handler_it,
                 binding, handled>>

\* awaiter->m_data = payload; without a payload the event is set all the same.
Write ==
  /\ net = "write"
  /\ net' = "set"
  /\ IF kind # "good" THEN UNCHANGED <<m_awaiters, taken, fault>>
     ELSE /\ taken' = taken \cup {packets}
          /\ fault' = IF EntryAt = {} THEN "danglingAwaiter" ELSE fault
          /\ m_awaiters' = [m_awaiters EXCEPT ![ptype] =
               [n \in DOMAIN @ |-> IF n \in EntryAt THEN [@[n] EXCEPT !.data = packets]
                                   ELSE @[n]]]
  /\ UNCHANGED <<wpc, wtype, event, got, order, packet, awaiter, handler_it,
                 binding, handled>>

\* Mutant: the pre-handler answers false, and the packet goes on to a handler.
SetAndPassOn ==
  /\ net = "set"
  /\ net' = "lock"
  /\ event' = [event EXCEPT ![awaiter] = TRUE]
  /\ GotoW(awaiter, IF wpc[awaiter] = "suspended" THEN "ready" ELSE wpc[awaiter])
  /\ UNCHANGED <<m_awaiters, wtype, got, order, packet, awaiter, handler_it,
                 binding, fault, hist>>

\* awaiter->m_event->set() resumes a suspended coroutine on this very thread.
\* A waiter that has registered and not yet suspended finds the event set.
SetEvent ==
  /\ net = "set"
  /\ IF EntryAt = {}
     THEN fault' = "danglingAwaiter" /\ UNCHANGED <<net, event, wpc>>
     ELSE /\ event' = [event EXCEPT ![awaiter] = TRUE]
          /\ IF wpc[awaiter] = "suspended"
             THEN GotoW(awaiter, "resumed") /\ net' = "resume"
             ELSE net' = "idle" /\ UNCHANGED wpc
          /\ UNCHANGED fault
  /\ UNCHANGED <<m_awaiters, wtype, got, order, packet, awaiter, handler_it,
                 binding, hist>>

\* The resumed coroutine pops its entry and ends before set() returns.
ResumeInline ==
  /\ net = "resume"
  /\ PopFront(awaiter)
  /\ net' = "idle"
  /\ fault' = IF ReadsReleased(awaiter) THEN "danglingInline" ELSE fault
  /\ UNCHANGED <<wtype, event, order, packet, awaiter, handler_it, binding, hist>>

\* The scoped_lock of handle_message is an unnamed temporary: it waits for the
\* mutex and releases it before the lookup.
HandlerLock ==
  /\ net = "lock"
  /\ app = "idle"
  /\ net' = "find"
  /\ UNCHANGED <<waiting, packet, awaiter, handler_it, binding, fault, hist>>

HandlerFind ==
  /\ net = "find"
  /\ handler_it' = m_handlers[ptype]
  /\ net' = IF m_handlers[ptype] = 0 THEN "idle" ELSE "invoke"
  /\ UNCHANGED <<waiting, packet, awaiter, binding, fault, hist>>

\* The lookup overlaps a change of the map: it may go well (HandlerFind) or not.
HandlerFindRace ==
  /\ net = "find"
  /\ app # "idle"
  /\ fault' = "mapRace"
  /\ UNCHANGED <<waiting, net, packet, awaiter, handler_it, binding, hist>>

\* handler_it->second(payload), if the payload deserializes.
HandlerInvoke ==
  /\ net = "invoke"
  /\ net' = "idle"
  /\ IF kind # "good" THEN UNCHANGED <<handled, fault>>
     ELSE IF m_handlers[ptype] = handler_it
     THEN handled' = handled \cup {packets} /\ UNCHANGED fault
     ELSE fault' = "danglingHandler" /\ UNCHANGED handled
  /\ UNCHANGED <<waiting, packet, awaiter, handler_it, binding, taken>>

-----------------------------------------------------------------------------
(* bind_packet_handler and unbind_packet_handler, on App, under the mutex.  *)

BindBegin(op, y) ==
  /\ app = "idle"
  /\ binds < MaxBinds
  /\ binds' = binds + 1
  /\ app' = op
  /\ atype' = y
  /\ UNCHANGED <<waiting, net, packet, awaiter, handler_it, m_handlers, fault, hist>>

\* A type that has a handler keeps it: bind returns false.
BindEnd ==
  /\ app = "bind"
  /\ m_handlers' = [m_handlers EXCEPT ![atype] = IF @ = 0 THEN binds ELSE @]
  /\ app' = "idle"
  /\ UNCHANGED <<waiting, net, packet, awaiter, handler_it, atype, binds, fault, hist>>

UnbindEnd ==
  /\ app = "unbind"
  /\ m_handlers' = [m_handlers EXCEPT ![atype] = 0]
  /\ app' = "idle"
  /\ UNCHANGED <<waiting, net, packet, awaiter, handler_it, atype, binds, fault, hist>>

-----------------------------------------------------------------------------
WaiterRun(w) == Await(w) \/ Pop(w)
NetRun ==
  \/ PreHandler \/ Write \/ SetEvent \/ ResumeInline \/ ReleaseMessages
  \/ HandlerLock \/ HandlerFind \/ HandlerFindRace \/ HandlerInvoke
AppRun == BindEnd \/ UnbindEnd

\* What nothing forces to happen: packets, and calls of the application.
Outside ==
  \/ \E y \in Types, k \in {"good", "badPayload", "badHeader"} : Receive(y, k)
  \/ \E w \in Waiters : Register(w)
  \/ \E op \in {"bind", "unbind"}, y \in Types : BindBegin(op, y)

\* The process died, or every packet was handled and nobody is on the move.
Quiet ==
  /\ \/ fault # "none"
     \/ /\ net = "idle" /\ app = "idle" /\ unreleased = {}
        /\ \A w \in Waiters : wpc[w] \in {"start", "suspended", "done"}
  /\ UNCHANGED vars

Next ==
  \/ fault = "none" /\ \E w \in Waiters : WaiterRun(w)
  \/ fault = "none" /\ NetRun
  \/ fault = "none" /\ AppRun
  \/ fault = "none" /\ Outside
  \/ Quiet

Spec == Init /\ [][Next]_vars

\* The pool, the network thread and App keep running.
FairSpec ==
  /\ Spec
  /\ \A w \in Waiters : WF_vars(fault = "none" /\ WaiterRun(w))
  /\ WF_vars(fault = "none" /\ NetRun)
  /\ WF_vars(fault = "none" /\ AppRun)

-----------------------------------------------------------------------------
TypeOK ==
  /\ m_awaiters \in [Types -> Seq(Entries)]
  /\ m_handlers \in [Types -> 0..MaxBinds]
  /\ wpc \in [Waiters -> WaiterLabels] /\ wtype \in [Waiters -> Types]
  /\ event \in [Waiters -> BOOLEAN] /\ got \in [Waiters -> {0} \cup Packets]
  /\ net \in NetLabels /\ packets \in 0..MaxPackets /\ ptype \in Types
  /\ kind \in {"good", "badPayload", "badHeader"} /\ unreleased \subseteq Packets
  /\ awaiter \in Waiters \cup {NoWaiter} /\ handler_it \in 0..MaxBinds
  /\ app \in {"idle", "bind", "unbind"} /\ atype \in Types /\ binds \in 0..MaxBinds
  /\ fault \in Faults /\ order \in Seq(Waiters)
  /\ taken \subseteq Packets /\ handled \subseteq Packets

\* A waiter that was woken finds its own entry at the front of the queue,
\* although get_packet_awaiter() takes whatever is there.
WokenIsFront ==
  \A w \in Waiters : wpc[w] \in {"ready", "resumed"} /\ fault = "none" =>
    Queue(w) # <<>> /\ Head(Queue(w)).w = w

\* Waiters of one type are served in the order in which they registered.
ServedInOrder ==
  \A m, n \in 1..Len(order) :
    m < n /\ wtype[order[m]] = wtype[order[n]] /\ got[order[n]] # 0
      => wpc[order[m]] = "done" /\ got[order[m]] < got[order[n]]

\* A packet goes to one waiter, or to a handler, and never to two of them.
ServedOnce ==
  /\ \A v, w \in Waiters : v # w /\ got[v] # 0 => got[v] # got[w]
  /\ \A w \in Waiters : got[w] \notin handled
  /\ taken \cap handled = {}

\* The packets that a waiter has returned or will find in its entry.
Kept == {got[w] : w \in Waiters} \cup
        UNION {{m_awaiters[y][n].data : n \in 1..Len(m_awaiters[y])} : y \in Types}

\* A packet that a waiter should get is overwritten only by a later one, while
\* that waiter was woken and has not yet collected it.
LostOnlyInWindow ==
  [][\A k \in taken : k \in Kept /\ k \notin Kept' =>
       event[awaiter] /\ wpc[awaiter] \in {"registered", "ready"}]_vars

\* The network thread writes through a dangling entry only for a waiter that an
\* earlier packet woke: a waiter that got nothing yet keeps its entry alive.
DanglesOnlyAfterWake ==
  fault = "danglingAwaiter" => event[awaiter] /\ wpc[awaiter] = "done"

\* "Unpack the awaiting state and try to return the packet data": the payload a
\* waiter reads is not part of a message that was already released.
PayloadOutlivesMessage == fault \notin {"danglingPayload", "danglingInline"}

\* A waiter that set() resumes on the network thread reads its payload while
\* poll_messages() still holds the message, whichever the serializer: what it
\* finds in its entry is the packet that woke it, not an older one.
InlinePayloadIsHeld == fault # "danglingInline"

\* A waiter that the network thread has picked for a packet returns, with or
\* without a payload.
PickedReturns ==
  \A w \in Waiters :
    (net \in {"write", "set"} /\ awaiter = w) ~> (wpc[w] = "done" \/ fault # "none")

\* What the application sees of the packets: the entries of a queue without their
\* data, the data of the front entry, and how far the last packet has come.
StageOf(l) == CASE l = "pre" -> "new"
                [] l \in {"write", "set"} -> "offered"
                [] l \in {"lock", "find", "invoke"} -> "passed"
                [] l \in {"idle", "resume"} -> "over"
StateOf(w) == CASE wpc[w] = "start" -> "new"
                [] wpc[w] = "done" -> "returned"
                [] OTHER -> IF event[w] THEN "woken" ELSE "waiting"
LineOf(y) == [n \in 1..Len(m_awaiters[y]) |-> m_awaiters[y][n].w]
OfferOf(y) == IF m_awaiters[y] = <<>> THEN 0 ELSE Head(m_awaiters[y]).data

Delivery == INSTANCE PacketDelivery WITH
  line <- [y \in Types |-> LineOf(y)], offer <- [y \in Types |-> OfferOf(y)],
  state <- [w \in Waiters |-> StateOf(w)], arrived <- packets, type <- ptype,
  good <- (kind = "good"), stage <- StageOf(net)

\* The client delivers its packets as PacketDelivery says, until the process ends.
ImplementsDelivery == Delivery!Spec

\* "Early return if the callback successfully handled the packet": a packet the
\* pre-handler claims is in the hands of its waiter.
HandledReachesWaiter ==
  fault = "none" /\ net \notin {"write", "set"} => taken \subseteq Kept

=============================================================================
