------------------------- MODULE PacketClientProofs -------------------------
(***************************************************************************)
(* Theorems about PacketClient, for any number of waiters, packet types,   *)
(* packets and bindings.                                                   *)
(***************************************************************************)
EXTENDS PacketClient, TLAPS, SequenceTheorems

InQueue == {"registered", "suspended", "ready", "resumed"}

\* Between the arrival of a packet and its delivery there is one.
HasPacket == net # "idle" => packets # 0

TypeInv == TypeOK /\ HasPacket

\* The entries of a queue are those of the waiters of its type that have
\* registered and not yet returned, one each.
EntriesWait ==
  \A y \in Types : \A n \in 1..Len(m_awaiters[y]) :
    wtype[m_awaiters[y][n].w] = y /\ wpc[m_awaiters[y][n].w] \in InQueue
OneEntry ==
  \A y \in Types : \A m, n \in 1..Len(m_awaiters[y]) :
    m_awaiters[y][m].w = m_awaiters[y][n].w => m = n
HasEntry ==
  \A w \in Waiters : wpc[w] \in InQueue =>
    \E n \in 1..Len(Queue(w)) : Queue(w)[n].w = w

AtFront(w) == Queue(w) # <<>> /\ Queue(w)[1].w = w

\* An event that was set belongs to a waiter that is at the front, or returned.
EventIsFront ==
  \A w \in Waiters : event[w] => wpc[w] = "done" \/ (wpc[w] \in InQueue /\ AtFront(w))
WokenHasEvent ==
  \A w \in Waiters :
    /\ wpc[w] \in {"ready", "resumed"} => event[w]
    /\ wpc[w] = "suspended" => ~event[w]
    /\ wpc[w] = "resumed" => net = "resume" /\ awaiter = w

\* The waiter that the network thread points to is still at the front, or was woken
\* by an earlier packet and has returned since.
PickedIsFront ==
  /\ net \in {"write", "set"} =>
       /\ awaiter \in Waiters /\ wtype[awaiter] = ptype
       /\ AtFront(awaiter) \/ (wpc[awaiter] = "done" /\ event[awaiter])
  /\ net = "resume" => awaiter \in Waiters /\ wpc[awaiter] = "resumed"

WakeInv == EntriesWait /\ OneEntry /\ HasEntry /\ EventIsFront /\ WokenHasEvent /\ PickedIsFront

\* Waiters are recorded once, when they register, and queue up in that order.
OrderOnce ==
  /\ \A i \in 1..Len(order) : wpc[order[i]] # "start"
  /\ \A i, j \in 1..Len(order) : order[i] = order[j] => i = j
QueueInOrder ==
  \A y \in Types : \A m, n \in 1..Len(m_awaiters[y]), i, j \in 1..Len(order) :
    m < n /\ order[i] = m_awaiters[y][m].w /\ order[j] = m_awaiters[y][n].w => i < j
\* Of the waiters of one type, those that registered first have returned.
DoneInOrder ==
  \A i, j \in 1..Len(order) :
    i < j /\ wtype[order[i]] = wtype[order[j]] /\ wpc[order[j]] = "done"
      => wpc[order[i]] = "done"
QueueInv == OrderOnce /\ QueueInOrder /\ DoneInOrder

\* A packet is claimed once, by the pre-handler or by a handler.
ClaimedOnce ==
  /\ taken \cap handled = {} /\ taken \subseteq 1..packets /\ handled \subseteq 1..packets
  /\ net \in {"pre", "write", "lock", "find", "invoke"} => packets \notin taken \cup handled
\* What a waiter returned, or finds in its entry, was claimed for it; only the
\* front entry has a packet, later than those that its type has returned.
GotIsTaken ==
  \A w \in Waiters : got[w] # 0 => got[w] \in taken /\ wpc[w] = "done"
DataIsTaken ==
  \A y \in Types : \A n \in 1..Len(m_awaiters[y]) : m_awaiters[y][n].data # 0 =>
    /\ n = 1 /\ m_awaiters[y][n].data \in taken
    /\ \A v \in Waiters : /\ got[v] # m_awaiters[y][n].data
                          /\ wtype[v] = y => got[v] < m_awaiters[y][n].data
DataDiffers ==
  \A y, z \in Types : \A m \in 1..Len(m_awaiters[y]), n \in 1..Len(m_awaiters[z]) :
    y # z /\ m_awaiters[y][m].data # 0 => m_awaiters[y][m].data # m_awaiters[z][n].data
DataInv == ClaimedOnce /\ GotIsTaken /\ DataIsTaken /\ DataDiffers

\* An entry has a packet only if its event is set or about to be.
DataWakes ==
  \A y \in Types : \A n \in 1..Len(m_awaiters[y]) : m_awaiters[y][n].data # 0 =>
    \/ event[m_awaiters[y][n].w]
    \/ net = "set" /\ awaiter = m_awaiters[y][n].w

\* When the event is set, the front entry has the packet of this round, unless it has
\* none that can be read; an older one is there only for a waiter that was woken before.
FrontAtSet ==
  net = "set" /\ AtFront(awaiter) =>
    /\ kind = "good" => Queue(awaiter)[1].data = packets
    /\ Queue(awaiter)[1].data # 0 => Queue(awaiter)[1].data = packets \/ event[awaiter]
ResumeData == net = "resume" => Queue(awaiter)[1].data \in {0, packets}
\* poll_messages() holds the message that it hands to handle_message().
Held == net # "idle" => packets \in unreleased
OfferInv == FrontAtSet /\ ResumeData /\ Held /\ InlinePayloadIsHeld

-----------------------------------------------------------------------------
(* What the steps that change the queues do to them.                        *)

LEMMA QueueType ==
  ASSUME TypeOK, NEW y \in Types
  PROVE  /\ m_awaiters[y] \in Seq(Entries) /\ Len(m_awaiters[y]) \in Nat
         /\ DOMAIN m_awaiters[y] = 1..Len(m_awaiters[y])
         /\ m_awaiters[y] # <<>> <=> Len(m_awaiters[y]) # 0
         /\ \A n \in 1..Len(m_awaiters[y]) :
              /\ m_awaiters[y][n] \in Entries
              /\ m_awaiters[y][n].w \in Waiters /\ m_awaiters[y][n].data \in {0} \cup Packets
<1>1. m_awaiters[y] \in Seq(Entries)
  BY DEF TypeOK
<1>2. \A n \in 1..Len(m_awaiters[y]) : m_awaiters[y][n] \in Entries
  BY <1>1, ElementOfSeq
<1>3. QED
  BY <1>1, <1>2, LenProperties, EmptySeq DEF Entries

LEMMA Registered ==
  ASSUME TypeOK, NEW w \in Waiters, Register(w)
  PROVE  LET q == m_awaiters[wtype[w]]  r == m_awaiters'[wtype[w]] IN
         /\ m_awaiters' \in [Types -> Seq(Entries)]
         /\ \A y \in Types : y # wtype[w] => m_awaiters'[y] = m_awaiters[y]
         /\ Len(q) \in Nat /\ Len(r) = Len(q) + 1
         /\ \A n \in 1..Len(q) : r[n] = q[n]
         /\ r[Len(q) + 1] = [w |-> w, data |-> 0]
         /\ order' \in Seq(Waiters) /\ Len(order) \in Nat /\ Len(order') = Len(order) + 1
         /\ \A n \in 1..Len(order) : order'[n] = order[n]
         /\ order'[Len(order) + 1] = w
<1> DEFINE e == [w |-> w, data |-> 0]  q == m_awaiters[wtype[w]]
<1>1. wtype[w] \in Types /\ q \in Seq(Entries) /\ e \in Entries /\ order \in Seq(Waiters)
  BY DEF TypeOK, Entries
<1>2. /\ Append(q, e) \in Seq(Entries) /\ Len(Append(q, e)) = Len(q) + 1
      /\ \A n \in 1..Len(q) : Append(q, e)[n] = q[n]
      /\ Append(q, e)[Len(q) + 1] = e /\ Len(q) \in Nat
  BY <1>1, AppendProperties, LenProperties
<1>3. /\ order' \in Seq(Waiters) /\ Len(order) \in Nat /\ Len(order') = Len(order) + 1
      /\ \A n \in 1..Len(order) : order'[n] = order[n]
      /\ order'[Len(order) + 1] = w
  BY <1>1, AppendProperties, LenProperties DEF Register
<1>4. m_awaiters' = [m_awaiters EXCEPT ![wtype[w]] = Append(q, e)]
  BY DEF Register
<1>5. m_awaiters' \in [Types -> Seq(Entries)] /\ m_awaiters'[wtype[w]] = Append(q, e)
  BY <1>1, <1>2, <1>4 DEF TypeOK
<1>6. \A y \in Types : y # wtype[w] => m_awaiters'[y] = m_awaiters[y]
  BY <1>1, <1>4 DEF TypeOK
<1>7. QED
  BY <1>2, <1>3, <1>5, <1>6

LEMMA Popped ==
  ASSUME TypeOK, NEW w \in Waiters, AtFront(w), PopFront(w)
  PROVE  LET q == m_awaiters[wtype[w]]  r == m_awaiters'[wtype[w]] IN
         /\ m_awaiters' \in [Types -> Seq(Entries)]
         /\ \A y \in Types : y # wtype[w] => m_awaiters'[y] = m_awaiters[y]
         /\ Len(q) \in Nat \ {0} /\ Len(r) = Len(q) - 1
         /\ \A n \in 1..Len(r) : r[n] = q[n + 1]
         /\ got' = [got EXCEPT ![w] = q[1].data] /\ q[1].data \in {0} \cup Packets
         /\ wpc' = [wpc EXCEPT ![w] = "done"]
<1> DEFINE q == m_awaiters[wtype[w]]
<1>1. wtype[w] \in Types /\ q \in Seq(Entries) /\ q # <<>>
  BY DEF TypeOK, AtFront, Queue
<1>2. /\ Tail(q) \in Seq(Entries) /\ Len(Tail(q)) = Len(q) - 1
      /\ \A n \in 1..Len(Tail(q)) : Tail(q)[n] = q[n + 1]
      /\ Len(q) \in Nat \ {0}
  BY <1>1, HeadTailProperties, EmptySeq
<1>3. Head(q) = q[1]
  BY <1>1
<1>4. /\ m_awaiters' = [m_awaiters EXCEPT ![wtype[w]] = Tail(q)]
      /\ got' = [got EXCEPT ![w] = q[1].data] /\ wpc' = [wpc EXCEPT ![w] = "done"]
  BY <1>1, <1>3 DEF PopFront, Queue, GotoW
<1>5. m_awaiters' \in [Types -> Seq(Entries)] /\ m_awaiters'[wtype[w]] = Tail(q)
  BY <1>1, <1>2, <1>4 DEF TypeOK
<1>6. \A y \in Types : y # wtype[w] => m_awaiters'[y] = m_awaiters[y]
  BY <1>1, <1>4 DEF TypeOK
<1>7. q[1].data \in {0} \cup Packets
  BY <1>1, <1>2, QueueType
<1>8. QED
  BY <1>2, <1>4, <1>5, <1>6, <1>7

\* A write changes the packet of an entry, and no entry's waiter.
LEMMA Written ==
  ASSUME TypeInv, Write
  PROVE  /\ m_awaiters' \in [Types -> Seq(Entries)]
         /\ \A y \in Types : Len(m_awaiters'[y]) = Len(m_awaiters[y])
         /\ \A y \in Types : \A n \in 1..Len(m_awaiters[y]) :
              /\ m_awaiters'[y][n].w = m_awaiters[y][n].w
              /\ m_awaiters'[y][n].data =
                   IF kind = "good" /\ y = ptype /\ m_awaiters[y][n].w = awaiter
                   THEN packets ELSE m_awaiters[y][n].data
<1> DEFINE q == m_awaiters[ptype]
           e(n) == IF n \in EntryAt THEN [q[n] EXCEPT !.data = packets] ELSE q[n]
           r == [n \in 1..Len(q) |-> e(n)]
<1>1. ptype \in Types /\ packets \in Packets
  BY DEF TypeInv, TypeOK, HasPacket, Write, Packets
<1>2. /\ q \in Seq(Entries) /\ Len(q) \in Nat /\ DOMAIN q = 1..Len(q)
      /\ \A n \in 1..Len(q) : q[n] \in Entries
  BY <1>1, QueueType DEF TypeInv
<1>3. \A n \in 1..Len(q) :
        /\ e(n) \in Entries /\ e(n).w = q[n].w
        /\ e(n).data = IF q[n].w = awaiter THEN packets ELSE q[n].data
  BY <1>1, <1>2 DEF EntryAt, Entries
<1>4. r \in Seq(Entries) /\ Len(r) = Len(q)
  <2>1. r \in [1..Len(q) -> Entries]
    BY <1>3
  <2>2. QED
    BY <1>2, <2>1
<1>5. CASE kind # "good"
  BY <1>5 DEF Write, TypeInv, TypeOK
<1>6. CASE kind = "good"
  <2>1. m_awaiters' = [m_awaiters EXCEPT ![ptype] = r]
    BY <1>2, <1>6 DEF Write
  <2>2. m_awaiters' \in [Types -> Seq(Entries)] /\ m_awaiters'[ptype] = r
    BY <1>1, <1>4, <2>1 DEF TypeInv, TypeOK
  <2>3. \A y \in Types : y # ptype => m_awaiters'[y] = m_awaiters[y]
    BY <1>1, <2>1 DEF TypeInv, TypeOK
  <2>4. \A n \in 1..Len(q) : m_awaiters'[ptype][n] = e(n)
    BY <2>2
  <2>5. SUFFICES ASSUME NEW y \in Types
                 PROVE  /\ Len(m_awaiters'[y]) = Len(m_awaiters[y])
                        /\ \A n \in 1..Len(m_awaiters[y]) :
                             /\ m_awaiters'[y][n].w = m_awaiters[y][n].w
                             /\ m_awaiters'[y][n].data =
                                  IF y = ptype /\ m_awaiters[y][n].w = awaiter
                                  THEN packets ELSE m_awaiters[y][n].data
    BY <1>6, <2>2
  <2>6. CASE y = ptype
    BY <1>3, <1>4, <2>2, <2>4, <2>6
  <2>7. CASE y # ptype
    BY <2>3, <2>7
  <2>8. QED
    BY <2>6, <2>7
<1>7. QED
  BY <1>5, <1>6

-----------------------------------------------------------------------------
(* Types, and the discipline of waking.                                     *)

LEMMA InitWake == Init => TypeInv /\ WakeInv
<1> SUFFICES ASSUME Init PROVE TypeInv /\ WakeInv
  OBVIOUS
<1>1. m_awaiters \in [Types -> Seq(Entries)] /\ order \in Seq(Waiters)
  BY DEF Init
<1>2. \A y \in Types : Len(m_awaiters[y]) = 0
  BY DEF Init
<1>3. TypeInv
  BY <1>1, ConstantsTyped DEF Init, TypeInv, TypeOK, HasPacket, Faults, WaiterLabels,
    NetLabels
<1>4. EntriesWait /\ OneEntry
  BY <1>2 DEF EntriesWait, OneEntry
<1>5. HasEntry /\ EventIsFront /\ WokenHasEvent /\ PickedIsFront
  BY DEF Init, HasEntry, EventIsFront, WokenHasEvent, PickedIsFront, InQueue
<1>6. QED
  BY <1>3, <1>4, <1>5 DEF WakeInv

\* A woken waiter is at the front of its queue.
LEMMA WokenAtFront ==
  ASSUME TypeInv, WakeInv, NEW w \in Waiters, wpc[w] \in {"ready", "resumed"}
  PROVE  AtFront(w)
  BY DEF WakeInv, WokenHasEvent, EventIsFront

\* The coroutine that a thread of the pool or the network thread continues pops.
PopStep(w) ==
  \/ Pop(w)
  \/ awaiter = w /\ ResumeInline

LEMMA PopStepIs ==
  ASSUME TypeInv, WakeInv, NEW w \in Waiters, PopStep(w)
  PROVE  /\ wpc[w] \in {"ready", "resumed"} /\ AtFront(w) /\ event[w] /\ PopFront(w)
         /\ net' \in {net, "idle"}
         /\ net = "resume" /\ net' = "resume" => wpc[w] = "ready"
         /\ net' = "idle" /\ net # "idle" => net = "resume" /\ awaiter = w
         /\ fault' \in {fault, "danglingPayload", "danglingInline"}
         /\ UNCHANGED <<wtype, event, order, packet, awaiter, handler_it, binding, hist>>
<1>1. CASE Pop(w)
  BY <1>1, WokenAtFront DEF Pop, WakeInv, WokenHasEvent
<1>2. CASE awaiter = w /\ ResumeInline
  <2>1. wpc[w] = "resumed"
    BY <1>2 DEF ResumeInline, WakeInv, PickedIsFront
  <2>2. QED
    BY <1>2, <2>1, WokenAtFront DEF ResumeInline, WakeInv, WokenHasEvent
<1>3. QED
  BY <1>1, <1>2 DEF PopStep

LEMMA PopWake ==
  ASSUME TypeInv, WakeInv, NEW w \in Waiters, PopStep(w)
  PROVE  TypeInv' /\ WakeInv'
<1> DEFINE y == wtype[w]
<1>1. /\ wpc[w] \in {"ready", "resumed"} /\ AtFront(w) /\ event[w] /\ PopFront(w)
      /\ net' \in {net, "idle"}
      /\ net = "resume" /\ net' = "resume" => wpc[w] = "ready"
      /\ net' = "idle" /\ net # "idle" => net = "resume" /\ awaiter = w
      /\ fault' \in {fault, "danglingPayload", "danglingInline"}
      /\ UNCHANGED <<wtype, event, order, packet, awaiter, handler_it, binding, hist>>
  BY PopStepIs
<1>2. /\ m_awaiters' \in [Types -> Seq(Entries)]
      /\ \A z \in Types : z # y => m_awaiters'[z] = m_awaiters[z]
      /\ Len(m_awaiters[y]) \in Nat \ {0} /\ Len(m_awaiters'[y]) = Len(m_awaiters[y]) - 1
      /\ \A n \in 1..Len(m_awaiters'[y]) : m_awaiters'[y][n] = m_awaiters[y][n + 1]
      /\ got' = [got EXCEPT ![w] = m_awaiters[y][1].data]
      /\ m_awaiters[y][1].data \in {0} \cup Packets
      /\ wpc' = [wpc EXCEPT ![w] = "done"]
  BY <1>1, Popped DEF TypeInv
<1>3. /\ wpc \in [Waiters -> WaiterLabels] /\ wtype \in [Waiters -> Types] /\ y \in Types
      /\ wpc'[w] = "done" /\ \A v \in Waiters \ {w} : wpc'[v] = wpc[v]
      /\ m_awaiters[y][1].w = w
  BY <1>1, <1>2 DEF TypeInv, TypeOK, AtFront, Queue
<1>4. TypeInv'
  BY <1>1, <1>2, <1>3 DEF TypeInv, TypeOK, HasPacket, WaiterLabels, NetLabels, Faults,
    packet,
    binding, hist
<1>5. \A m, n \in 1..Len(m_awaiters[y]) : m_awaiters[y][m].w = m_awaiters[y][n].w => m = n
  BY <1>3 DEF WakeInv, OneEntry
<1>6. \A n \in 2..Len(m_awaiters[y]) : m_awaiters[y][n].w # w
  <2>1. SUFFICES ASSUME NEW n \in 2..Len(m_awaiters[y]), m_awaiters[y][n].w = w PROVE FALSE
    OBVIOUS
  <2>2. 1 \in 1..Len(m_awaiters[y]) /\ n \in 1..Len(m_awaiters[y]) /\ n # 1
    BY <1>2
  <2>3. QED
    BY <1>3, <1>5, <2>1, <2>2
<1>7. EntriesWait'
  <2>1. SUFFICES ASSUME NEW z \in Types, NEW n \in 1..Len(m_awaiters'[z])
                 PROVE  /\ wtype[m_awaiters'[z][n].w] = z
                        /\ wpc'[m_awaiters'[z][n].w] \in InQueue
    BY <1>1 DEF EntriesWait
  <2>2. CASE z = y
    <3>1. n + 1 \in 2..Len(m_awaiters[y]) /\ n + 1 \in 1..Len(m_awaiters[y])
      BY <1>2, <2>2
    <3>2. m_awaiters[y][n + 1].w \in Waiters
      BY <1>3, <3>1, QueueType DEF TypeInv
    <3>3. QED
      BY <1>2, <1>3, <1>6, <2>2, <3>1, <3>2 DEF WakeInv, EntriesWait
  <2>3. CASE z # y
    <3>1. m_awaiters[z][n].w \in Waiters
      BY <1>2, <2>3, QueueType DEF TypeInv
    <3>2. QED
      BY <1>2, <1>3, <2>3, <3>1 DEF WakeInv, EntriesWait
  <2>4. QED
    BY <2>2, <2>3
<1>8. OneEntry'
  <2>1. SUFFICES ASSUME NEW z \in Types, NEW m \in 1..Len(m_awaiters'[z]),
                        NEW n \in 1..Len(m_awaiters'[z]),
                        m_awaiters'[z][m].w = m_awaiters'[z][n].w
                 PROVE  m = n
    BY DEF OneEntry
  <2>2. CASE z = y
    <3>1. m + 1 \in 1..Len(m_awaiters[y]) /\ n + 1 \in 1..Len(m_awaiters[y])
      BY <1>2, <2>2
    <3>2. m_awaiters[y][m + 1].w = m_awaiters[y][n + 1].w
      BY <1>2, <2>1, <2>2
    <3>3. m + 1 = n + 1
      BY <1>5, <3>1, <3>2
    <3>4. QED
      BY <1>2, <3>3
  <2>3. CASE z # y
    BY <1>2, <2>1, <2>3 DEF WakeInv, OneEntry
  <2>4. QED
    BY <2>2, <2>3
<1>9. HasEntry'
  <2>1. SUFFICES ASSUME NEW v \in Waiters, wpc'[v] \in InQueue
                 PROVE  \E n \in 1..Len(m_awaiters'[wtype[v]]) : m_awaiters'[wtype[v]][n].w = v
    BY <1>1 DEF HasEntry, Queue
  <2>2. v # w /\ wpc[v] \in InQueue
    BY <1>3, <2>1 DEF InQueue
  <2>3. PICK n \in 1..Len(m_awaiters[wtype[v]]) : m_awaiters[wtype[v]][n].w = v
    BY <2>2 DEF WakeInv, HasEntry, Queue
  <2>4. CASE wtype[v] = y
    <3>1. n # 1 /\ n - 1 \in 1..Len(m_awaiters'[y]) /\ (n - 1) + 1 = n
      BY <1>2, <1>3, <2>2, <2>3, <2>4
    <3>2. m_awaiters'[y][n - 1] = m_awaiters[y][n]
      BY <1>2, <3>1
    <3>3. QED
      BY <2>3, <2>4, <3>1, <3>2
  <2>5. CASE wtype[v] # y
    BY <1>2, <1>3, <2>3, <2>5
  <2>6. QED
    BY <2>4, <2>5
<1>10. \A v \in Waiters \ {w} : wtype[v] = y /\ event[v] => wpc[v] = "done"
  BY <1>3 DEF WakeInv, EventIsFront, AtFront, Queue
<1>11. EventIsFront'
  BY <1>1, <1>2, <1>3, <1>10, SMTT(30) DEF WakeInv, EventIsFront, AtFront, Queue
<1>12. WokenHasEvent'
  BY <1>1, <1>3 DEF WakeInv, WokenHasEvent
<1>13. PickedIsFront'
  <2>1. CASE net' \in {"write", "set"}
    <3>1. /\ net' = net /\ awaiter \in Waiters /\ wtype[awaiter] = ptype
          /\ AtFront(awaiter) \/ (wpc[awaiter] = "done" /\ event[awaiter])
      BY <1>1, <2>1 DEF WakeInv, PickedIsFront
    <3>2. CASE awaiter = w
      BY <1>1, <1>3, <2>1, <3>1, <3>2 DEF PickedIsFront, packet
    <3>3. CASE awaiter # w
      BY <1>1, <1>2, <1>3, <2>1, <3>1, <3>3 DEF PickedIsFront, packet, AtFront, Queue
    <3>4. QED
      BY <3>2, <3>3
  <2>2. CASE net' = "resume"
    BY <1>1, <1>3, <2>2 DEF WakeInv, PickedIsFront, WokenHasEvent
  <2>3. QED
    BY <1>1, <2>1, <2>2 DEF PickedIsFront
<1>14. QED
  BY <1>4, <1>7, <1>8, <1>9, <1>11, <1>12, <1>13 DEF WakeInv

LEMMA RegisterWake ==
  ASSUME TypeInv, WakeInv, NEW w \in Waiters, Register(w)
  PROVE  TypeInv' /\ WakeInv'
<1> DEFINE y == wtype[w]  q == m_awaiters[y]  r == m_awaiters'[y]
<1>1. /\ m_awaiters' \in [Types -> Seq(Entries)]
      /\ \A z \in Types : z # y => m_awaiters'[z] = m_awaiters[z]
      /\ Len(q) \in Nat /\ Len(r) = Len(q) + 1
      /\ \A n \in 1..Len(q) : r[n] = q[n]
      /\ r[Len(q) + 1].w = w
      /\ order' \in Seq(Waiters)
  <2>1. [w |-> w, data |-> 0].w = w
    OBVIOUS
  <2>2. QED
    BY <2>1, Registered DEF TypeInv
<1>2. /\ wpc \in [Waiters -> WaiterLabels] /\ wtype \in [Waiters -> Types] /\ y \in Types
      /\ wpc[w] = "start" /\ wpc'[w] = "registered" /\ \A v \in Waiters \ {w} : wpc'[v] = wpc[v]
      /\ UNCHANGED <<wtype, event, got, net, packet, awaiter, handler_it, binding, fault, hist>>
  BY DEF Register, GotoW, TypeInv, TypeOK
<1>3. TypeInv'
  BY <1>1, <1>2 DEF Register, GotoW, TypeInv, TypeOK, HasPacket, WaiterLabels, packet,
    binding, hist
<1>4. \A z \in Types : \A n \in 1..Len(m_awaiters[z]) :
        m_awaiters[z][n].w \in Waiters /\ m_awaiters[z][n].w # w
  BY <1>2, QueueType DEF TypeInv, WakeInv, EntriesWait, InQueue
<1>5. EntriesWait'
  <2>1. SUFFICES ASSUME NEW z \in Types, NEW n \in 1..Len(m_awaiters'[z])
                 PROVE  /\ wtype[m_awaiters'[z][n].w] = z
                        /\ wpc'[m_awaiters'[z][n].w] \in InQueue
    BY <1>2 DEF EntriesWait
  <2>2. CASE z = y /\ n = Len(q) + 1
    BY <1>1, <1>2, <2>2 DEF InQueue
  <2>3. CASE ~(z = y /\ n = Len(q) + 1)
    <3>1. n \in 1..Len(m_awaiters[z]) /\ m_awaiters'[z][n] = m_awaiters[z][n]
      BY <1>1, <2>3
    <3>2. QED
      BY <1>2, <1>4, <3>1 DEF WakeInv, EntriesWait
  <2>4. QED
    BY <2>2, <2>3
<1>6. OneEntry'
  <2>1. \A m, n \in 1..Len(q) : q[m].w = q[n].w => m = n
    BY <1>2 DEF WakeInv, OneEntry
  <2>2. \A m, n \in 1..Len(r) : r[m].w = r[n].w => m = n
    <3>1. SUFFICES ASSUME NEW m \in 1..Len(r), NEW n \in 1..Len(r), r[m].w = r[n].w
                   PROVE  m = n
      OBVIOUS
    <3>2. \A k \in 1..Len(r) : k \in 1..Len(q) \/ k = Len(q) + 1
      BY <1>1
    <3>3. \A k \in 1..Len(q) : r[k].w # w
      <4>1. \A k \in 1..Len(q) : r[k] = q[k]
        BY <1>1
      <4>2. \A k \in 1..Len(q) : q[k].w # w
        BY <1>2, <1>4
      <4>3. QED
        BY <4>1, <4>2
    <3>4. CASE m = Len(q) + 1 \/ n = Len(q) + 1
      BY <1>1, <3>1, <3>2, <3>3, <3>4
    <3>5. CASE m \in 1..Len(q) /\ n \in 1..Len(q)
      BY <1>1, <2>1, <3>1, <3>5
    <3>6. QED
      BY <3>2, <3>4, <3>5
  <2>3. QED
    BY <1>1, <2>2 DEF WakeInv, OneEntry
<1>7. \A v \in Waiters : AtFront(v) => AtFront(v)'
  <2>1. SUFFICES ASSUME NEW v \in Waiters, AtFront(v) PROVE AtFront(v)'
    OBVIOUS
  <2>2. CASE wtype[v] = y
    <3>1. Len(q) # 0 /\ 1 \in 1..Len(q)
      BY <1>1, <1>2, <2>1, <2>2, QueueType DEF TypeInv, AtFront, Queue
    <3>2. r[1] = q[1] /\ r # <<>>
      <4>1. Len(r) # 0
        BY <1>1
      <4>2. r # <<>>
        BY <4>1
      <4>3. QED
        BY <1>1, <3>1, <4>2
    <3>3. QED
      BY <1>2, <2>1, <2>2, <3>2 DEF AtFront, Queue
  <2>3. CASE wtype[v] # y
    BY <1>1, <1>2, <2>1, <2>3 DEF AtFront, Queue
  <2>4. QED
    BY <2>2, <2>3
<1>8. HasEntry'
  <2>1. SUFFICES ASSUME NEW v \in Waiters, wpc'[v] \in InQueue
                 PROVE  \E n \in 1..Len(m_awaiters'[wtype[v]]) : m_awaiters'[wtype[v]][n].w = v
    BY <1>2 DEF HasEntry, Queue
  <2>2. CASE v = w
    <3>1. Len(q) + 1 \in 1..Len(r) /\ r[Len(q) + 1].w = w
      BY <1>1
    <3>2. QED
      BY <2>2, <3>1
  <2>3. CASE v # w
    <3>1. PICK n \in 1..Len(m_awaiters[wtype[v]]) : m_awaiters[wtype[v]][n].w = v
      BY <1>2, <2>1, <2>3 DEF WakeInv, HasEntry, Queue
    <3>2. CASE wtype[v] = y
      <4>1. n \in 1..Len(r) /\ r[n] = q[n]
        BY <1>1, <3>2
      <4>2. QED
        BY <3>1, <3>2, <4>1
    <3>3. CASE wtype[v] # y
      BY <1>1, <1>2, <3>1, <3>3
    <3>4. QED
      BY <3>2, <3>3
  <2>4. QED
    BY <2>2, <2>3
<1>9. EventIsFront'
  BY <1>2, <1>7 DEF WakeInv, EventIsFront, InQueue
<1>10. WokenHasEvent'
  BY <1>2 DEF WakeInv, WokenHasEvent
<1>11. PickedIsFront'
  BY <1>2, <1>7 DEF WakeInv, PickedIsFront, packet
<1>12. QED
  BY <1>3, <1>5, <1>6, <1>8, <1>9, <1>10, <1>11 DEF WakeInv

LEMMA WriteWake ==
  ASSUME TypeInv, WakeInv, Write
  PROVE  TypeInv' /\ WakeInv'
<1>1. /\ m_awaiters' \in [Types -> Seq(Entries)]
      /\ \A y \in Types : Len(m_awaiters'[y]) = Len(m_awaiters[y])
      /\ \A y \in Types : \A n \in 1..Len(m_awaiters[y]) :
           m_awaiters'[y][n].w = m_awaiters[y][n].w
  BY Written
<1>2. /\ wtype \in [Waiters -> Types]
      /\ net = "write" /\ net' = "set" /\ UNCHANGED <<wpc, wtype, event, got, order, packet, awaiter, handler_it, binding>>
  BY DEF Write, TypeInv, TypeOK
<1>3. packets \in Packets
  BY DEF TypeInv, TypeOK, HasPacket, Write, Packets
<1>4. taken' \subseteq Packets /\ handled' \subseteq Packets /\ fault' \in Faults
  BY <1>3 DEF TypeInv, TypeOK, Write, Faults
<1>5. TypeInv'
  BY <1>1, <1>2, <1>3, <1>4 DEF TypeInv, TypeOK, HasPacket, NetLabels, packet, binding
<1>6. \A v \in Waiters : AtFront(v) => AtFront(v)'
  <2>1. SUFFICES ASSUME NEW v \in Waiters, AtFront(v) PROVE AtFront(v)'
    OBVIOUS
  <2>2. wtype[v] \in Types /\ Len(m_awaiters[wtype[v]]) \in Nat \ {0}
    BY <1>2, <2>1, QueueType DEF TypeInv, AtFront, Queue
  <2>3. m_awaiters'[wtype[v]] # <<>>
    BY <1>1, <2>2
  <2>4. QED
    BY <1>1, <1>2, <2>1, <2>2, <2>3 DEF AtFront, Queue
<1>7. EntriesWait' /\ OneEntry' /\ HasEntry'
  <2>1. EntriesWait'
    BY <1>1, <1>2 DEF WakeInv, EntriesWait
  <2>2. OneEntry'
    BY <1>1, <1>2 DEF WakeInv, OneEntry
  <2>3. HasEntry'
    BY <1>1, <1>2 DEF WakeInv, HasEntry, Queue
  <2>4. QED
    BY <2>1, <2>2, <2>3
<1>8. EventIsFront' /\ WokenHasEvent' /\ PickedIsFront'
  BY <1>2, <1>6 DEF WakeInv, EventIsFront, WokenHasEvent, PickedIsFront, packet
<1>9. QED
  BY <1>5, <1>7, <1>8 DEF WakeInv

\* The entry the network thread points to is there exactly if it is at the front.
LEMMA EntryIsFront ==
  ASSUME TypeInv, WakeInv, net \in {"write", "set"}
  PROVE  /\ awaiter \in Waiters /\ wtype[awaiter] = ptype /\ ptype \in Types
         /\ EntryAt # {} => AtFront(awaiter) /\ wpc[awaiter] \in InQueue
         /\ EntryAt = {} => wpc[awaiter] = "done" /\ event[awaiter]
<1>1. /\ awaiter \in Waiters /\ wtype[awaiter] = ptype /\ ptype \in Types
      /\ AtFront(awaiter) \/ (wpc[awaiter] = "done" /\ event[awaiter])
  BY DEF WakeInv, PickedIsFront, TypeInv, TypeOK
<1>2. AtFront(awaiter) => 1 \in EntryAt
  <2>1. ASSUME AtFront(awaiter) PROVE 1 \in 1..Len(m_awaiters[ptype])
    BY <1>1, <2>1, QueueType DEF AtFront, Queue, TypeInv
  <2>2. QED
    BY <1>1, <2>1 DEF AtFront, Queue, EntryAt
<1>3. EntryAt # {} => wpc[awaiter] \in InQueue
  BY <1>1 DEF EntryAt, WakeInv, EntriesWait
<1>4. QED
  BY <1>1, <1>2, <1>3 DEF InQueue

LEMMA SetWake ==
  ASSUME TypeInv, WakeInv, SetEvent
  PROVE  TypeInv' /\ WakeInv'
<1>1. /\ awaiter \in Waiters /\ wtype[awaiter] = ptype
      /\ EntryAt # {} => AtFront(awaiter) /\ wpc[awaiter] \in InQueue
  BY EntryIsFront DEF SetEvent
<1>2. /\ net = "set" /\ UNCHANGED <<m_awaiters, wtype, got, order, packet, awaiter, handler_it, binding, hist>>
      /\ wpc \in [Waiters -> WaiterLabels] /\ event \in [Waiters -> BOOLEAN]
  BY DEF SetEvent, TypeInv, TypeOK
<1>3. CASE EntryAt = {}
  <2>1. fault' = "danglingAwaiter" /\ UNCHANGED <<net, event, wpc>>
    BY <1>3 DEF SetEvent
  <2>2. TypeInv'
    BY <1>2, <2>1 DEF TypeInv, TypeOK, HasPacket, NetLabels, Faults, packet, binding, hist
  <2>3. EntriesWait' /\ OneEntry' /\ HasEntry' /\ EventIsFront' /\ WokenHasEvent'
    BY <1>2, <2>1 DEF WakeInv, EntriesWait, OneEntry, HasEntry, EventIsFront,
      WokenHasEvent, AtFront, Queue
  <2>4. PickedIsFront'
    BY <1>2, <2>1 DEF WakeInv, PickedIsFront, AtFront, Queue, packet
  <2>5. QED
    BY <2>2, <2>3, <2>4 DEF WakeInv
<1>4. CASE EntryAt # {}
  <2>1. /\ event' = [event EXCEPT ![awaiter] = TRUE] /\ UNCHANGED fault
        /\ \/ wpc[awaiter] = "suspended" /\ net' = "resume" /\ wpc' = [wpc EXCEPT ![awaiter] = "resumed"]
           \/ wpc[awaiter] # "suspended" /\ net' = "idle" /\ UNCHANGED wpc
    BY <1>4 DEF SetEvent, GotoW
  <2>2. TypeInv'
    BY <1>2, <2>1 DEF TypeInv, TypeOK, HasPacket, NetLabels, WaiterLabels, packet,
      binding, hist
  <2>3. \A v \in Waiters : wpc[v] \in InQueue <=> wpc'[v] \in InQueue
    BY <1>1, <1>2, <2>1 DEF InQueue
  <2>4. EntriesWait' /\ OneEntry' /\ HasEntry'
    <3>1. \A y \in Types : \A n \in 1..Len(m_awaiters[y]) : m_awaiters[y][n].w \in Waiters
      BY QueueType DEF TypeInv
    <3>2. QED
      BY <1>2, <2>3, <3>1 DEF WakeInv, EntriesWait, OneEntry, HasEntry, Queue
  <2>5. EventIsFront'
    BY <1>1, <1>2, <1>4, <2>1, <2>3 DEF WakeInv, EventIsFront, AtFront, Queue, InQueue
  <2>6. WokenHasEvent' /\ PickedIsFront'
    BY <1>1, <1>2, <1>4, <2>1, <2>3 DEF WakeInv, WokenHasEvent, PickedIsFront, InQueue
  <2>7. QED
    BY <2>2, <2>4, <2>5, <2>6 DEF WakeInv
<1>5. QED
  BY <1>3, <1>4

\* The steps of the network thread and of the application that concern no waiter.
Aside ==
  \/ \E y \in Types, k \in {"good", "badPayload", "badHeader"} : Receive(y, k)
  \/ ReleaseMessages \/ HandlerLock \/ HandlerFind \/ HandlerFindRace \/ HandlerInvoke
  \/ BindEnd \/ UnbindEnd
  \/ \E op \in {"bind", "unbind"}, y \in Types : BindBegin(op, y)

LEMMA AsideType ==
  ASSUME TypeInv, Aside
  PROVE  TypeInv'
<1> USE DEF TypeInv, TypeOK, HasPacket, waiting, packet, binding, hist, NetLabels, Faults
<1>1. ASSUME NEW y \in Types, NEW k \in {"good", "badPayload", "badHeader"}, Receive(y, k)
      PROVE  TypeInv'
  <2>1. packets + 1 \in Packets /\ packets' = packets + 1 /\ packets' \in 0..MaxPackets
        /\ packets' # 0
    BY <1>1, ConstantsTyped DEF Receive, Packets
  <2>2. QED
    BY <1>1, <2>1 DEF Receive
<1>2. CASE ReleaseMessages
  BY <1>2 DEF ReleaseMessages
<1>3. CASE HandlerLock \/ HandlerFind \/ HandlerFindRace
  BY <1>3 DEF HandlerLock, HandlerFind, HandlerFindRace
<1>4. CASE HandlerInvoke
  <2>1. packets \in Packets
    BY <1>4 DEF HandlerInvoke, Packets
  <2>2. QED
    BY <1>4, <2>1 DEF HandlerInvoke
<1>5. CASE BindEnd \/ UnbindEnd
  <2>1. m_handlers' \in [Types -> 0..MaxBinds]
    BY <1>5, ConstantsTyped DEF BindEnd, UnbindEnd
  <2>2. QED
    BY <1>5, <2>1 DEF BindEnd, UnbindEnd
<1>6. ASSUME NEW op \in {"bind", "unbind"}, NEW y \in Types, BindBegin(op, y) PROVE TypeInv'
  <2>1. binds' \in 0..MaxBinds
    BY <1>6, ConstantsTyped DEF BindBegin
  <2>2. QED
    BY <1>6, <2>1 DEF BindBegin
<1>7. QED
  BY <1>1, <1>2, <1>3, <1>4, <1>5, <1>6 DEF Aside

LEMMA AsideLeaves ==
  ASSUME Aside
  PROVE  /\ UNCHANGED <<waiting, awaiter, taken>>
         /\ net' \in {net, "idle", "pre", "find", "invoke"}
         /\ net' = net \/ net \in {"idle", "lock", "find", "invoke"}
  BY DEF Aside, Receive, ReleaseMessages, HandlerLock, HandlerFind, HandlerFindRace,
    HandlerInvoke, BindEnd, UnbindEnd, BindBegin, hist

LEMMA AsideWake ==
  ASSUME TypeInv, WakeInv, Aside
  PROVE  TypeInv' /\ WakeInv'
<1>1. /\ UNCHANGED <<waiting, awaiter>>
      /\ net' \in {net, "idle", "pre", "find", "invoke"}
      /\ net' = net \/ net \in {"idle", "lock", "find", "invoke"}
  BY AsideLeaves
<1>2. net \in {"write", "set"} => UNCHANGED ptype
  BY DEF Aside, Receive, ReleaseMessages, HandlerLock, HandlerFind, HandlerFindRace,
    HandlerInvoke, BindEnd, UnbindEnd, BindBegin, packet
<1>3. WakeInv'
  BY <1>1, <1>2 DEF waiting, WakeInv, EntriesWait, OneEntry, HasEntry, EventIsFront,
    WokenHasEvent,
    PickedIsFront, AtFront, Queue
<1>4. QED
  BY <1>3, AsideType

LEMMA AwaitWake ==
  ASSUME TypeInv, WakeInv, NEW w \in Waiters, Await(w)
  PROVE  TypeInv' /\ WakeInv'
<1>1. /\ wpc \in [Waiters -> WaiterLabels] /\ wpc[w] = "registered"
      /\ wpc' = [wpc EXCEPT ![w] = IF event[w] THEN "ready" ELSE "suspended"]
      /\ UNCHANGED <<m_awaiters, wtype, event, got, order, net, packet, awaiter,
                     handler_it, binding, fault, hist>>
  BY DEF Await, GotoW, TypeInv, TypeOK
<1>2. TypeInv'
  BY <1>1 DEF TypeInv, TypeOK, HasPacket, WaiterLabels, packet, binding, hist
<1>3. \A v \in Waiters : wpc[v] \in InQueue <=> wpc'[v] \in InQueue
  BY <1>1 DEF InQueue
<1>4. \A y \in Types : \A n \in 1..Len(m_awaiters[y]) : m_awaiters[y][n].w \in Waiters
  BY QueueType DEF TypeInv
<1>5. EntriesWait' /\ OneEntry' /\ HasEntry'
  BY <1>1, <1>3, <1>4 DEF WakeInv, EntriesWait, OneEntry, HasEntry, Queue
<1>6. EventIsFront' /\ WokenHasEvent'
  BY <1>1, <1>3 DEF WakeInv, EventIsFront, WokenHasEvent, AtFront, Queue
<1>7. PickedIsFront'
  BY <1>1 DEF WakeInv, PickedIsFront, AtFront, Queue, packet
<1>8. QED
  BY <1>2, <1>5, <1>6, <1>7 DEF WakeInv

LEMMA PreHandlerWake ==
  ASSUME TypeInv, WakeInv, PreHandler
  PROVE  TypeInv' /\ WakeInv'
<1>1. /\ UNCHANGED <<waiting, packet, handler_it, binding, fault, hist>> /\ net = "pre"
      /\ ptype \in Types
  BY DEF PreHandler, TypeInv, TypeOK
<1>2. CASE m_awaiters[ptype] = <<>>
  <2>1. net' = "lock" /\ awaiter' = awaiter
    BY <1>2 DEF PreHandler
  <2>2. QED
    BY <1>1, <2>1 DEF TypeInv, TypeOK, HasPacket, NetLabels, waiting, packet, binding,
      hist, WakeInv, EntriesWait, OneEntry, HasEntry,
      EventIsFront, WokenHasEvent, PickedIsFront, AtFront, Queue
<1>3. CASE m_awaiters[ptype] # <<>>
  <2>1. 1 \in 1..Len(m_awaiters[ptype]) /\ m_awaiters[ptype][1].w \in Waiters
    BY <1>1, <1>3, QueueType DEF TypeInv
  <2>2. net' = "write" /\ awaiter' = m_awaiters[ptype][1].w
    <3>1. Head(m_awaiters[ptype]) = m_awaiters[ptype][1]
      BY <1>1, <1>3, QueueType DEF TypeInv
    <3>2. QED
      BY <1>3, <3>1 DEF PreHandler
  <2>3. wtype[awaiter'] = ptype
    BY <1>1, <2>1, <2>2 DEF WakeInv, EntriesWait
  <2>4. TypeInv'
    BY <1>1, <2>1, <2>2 DEF TypeInv, TypeOK, HasPacket, NetLabels, waiting, packet,
      binding, hist
  <2>5. PickedIsFront'
    BY <1>1, <1>3, <2>1, <2>2, <2>3 DEF PickedIsFront, AtFront, Queue, waiting, packet
  <2>6. QED
    BY <1>1, <2>2, <2>4, <2>5 DEF waiting, WakeInv, EntriesWait, OneEntry, HasEntry,
      EventIsFront, WokenHasEvent, AtFront, Queue
<1>4. QED
  BY <1>2, <1>3

\* Every step, sorted by what it does to the waiters.
LEMMA StepKinds ==
  ASSUME TypeInv, WakeInv, [Next]_vars
  PROVE  \/ \E w \in Waiters : Register(w) \/ Await(w) \/ PopStep(w)
         \/ PreHandler \/ Write \/ SetEvent \/ Aside
         \/ UNCHANGED vars
<1>1. ResumeInline => \E w \in Waiters : PopStep(w)
  BY DEF ResumeInline, PopStep, WakeInv, PickedIsFront
<1>2. QED
  BY <1>1 DEF Next, WaiterRun, NetRun, AppRun, Outside, Quiet, Aside, PopStep

LEMMA NextWake == TypeInv /\ WakeInv /\ [Next]_vars => TypeInv' /\ WakeInv'
<1> SUFFICES ASSUME TypeInv, WakeInv, [Next]_vars PROVE TypeInv' /\ WakeInv'
  OBVIOUS
<1>1. CASE UNCHANGED vars
  <2>1. TypeInv'
    BY <1>1 DEF vars, waiting, packet, binding, hist, TypeInv, TypeOK, HasPacket
  <2>2. WakeInv'
    BY <1>1 DEF vars, waiting, packet, WakeInv, EntriesWait, OneEntry, HasEntry,
      EventIsFront,
      WokenHasEvent, PickedIsFront, AtFront, Queue
  <2>3. QED
    BY <2>1, <2>2
<1>2. QED
  BY <1>1, StepKinds, RegisterWake, AwaitWake, PopWake, PreHandlerWake, WriteWake,
    SetWake, AsideWake

\* Type correctness of the packet client: above all, whatever the network thread
\* points to is a waiter, and whatever a waiter returns is a packet or nothing.
THEOREM TypeCorrect == Spec => []TypeOK
<1>1. TypeInv => TypeOK
  BY DEF TypeInv
<1>2. QED
  BY InitWake, NextWake, <1>1, PTL DEF Spec

\* However many waiters and packets there are, a waiter that was woken takes its own
\* entry out of the queue, although get_packet_awaiter() pops whatever is in front.
THEOREM WokenTakesOwn == Spec => []WokenIsFront
<1>1. TypeInv /\ WakeInv => WokenIsFront
  <2>1. SUFFICES ASSUME TypeInv, WakeInv, NEW w \in Waiters, wpc[w] \in {"ready", "resumed"}
                 PROVE  Queue(w) # <<>> /\ Head(Queue(w)).w = w
    BY DEF WokenIsFront
  <2>2. AtFront(w)
    BY <2>1, WokenAtFront
  <2>3. Queue(w) \in Seq(Entries)
    BY <2>1 DEF TypeInv, TypeOK, Queue
  <2>4. QED
    BY <2>2, <2>3 DEF AtFront
<1>2. QED
  BY InitWake, NextWake, <1>1, PTL DEF Spec

LEMMA NextDangles ==
  TypeInv /\ WakeInv /\ DanglesOnlyAfterWake /\ [Next]_vars => DanglesOnlyAfterWake'
<1> SUFFICES ASSUME TypeInv, WakeInv, DanglesOnlyAfterWake, [Next]_vars
             PROVE  DanglesOnlyAfterWake'
  OBVIOUS
<1>1. CASE UNCHANGED vars
  BY <1>1 DEF vars, waiting, DanglesOnlyAfterWake
<1>2. CASE fault = "none" /\ fault' # "danglingAwaiter"
  BY <1>2 DEF DanglesOnlyAfterWake
<1>3. CASE fault = "none" /\ Write
  <2>1. fault' = "danglingAwaiter" => EntryAt = {}
    BY <1>3 DEF Write
  <2>2. QED
    BY <1>3, <2>1, EntryIsFront DEF Write, DanglesOnlyAfterWake
<1>4. CASE fault = "none" /\ SetEvent
  <2>1. CASE EntryAt = {}
    BY <1>4, <2>1, EntryIsFront DEF SetEvent, DanglesOnlyAfterWake
  <2>2. CASE EntryAt # {}
    BY <1>2, <1>4, <2>2 DEF SetEvent
  <2>3. QED
    BY <2>1, <2>2
<1>5. ASSUME fault = "none", fault' = "danglingAwaiter", ~Write, ~SetEvent
      PROVE  UNCHANGED vars
  BY <1>5 DEF Next, WaiterRun, NetRun, AppRun, Outside, Quiet, Await, Pop, PreHandler,
    ResumeInline,
    ReleaseMessages, HandlerLock, HandlerFind, HandlerFindRace, HandlerInvoke, BindEnd,
    UnbindEnd,
    Receive, Register, BindBegin
<1>6. CASE fault # "none"
  BY <1>1, <1>6 DEF Next, Quiet
<1>7. QED
  BY <1>1, <1>2, <1>3, <1>4, <1>5, <1>6

\* The network thread writes through a dangling entry only for a waiter that an earlier
\* packet woke and that returned meanwhile: a waiter that got nothing keeps its entry.
THEOREM DanglesAfterWake == Spec => []DanglesOnlyAfterWake
<1>1. Init => DanglesOnlyAfterWake
  BY DEF Init, DanglesOnlyAfterWake
<1>2. QED
  BY InitWake, NextWake, <1>1, NextDangles, PTL DEF Spec
-----------------------------------------------------------------------------
(* The order in which waiters are served.                                   *)

LEMMA OrderType ==
  ASSUME TypeInv
  PROVE  Len(order) \in Nat /\ \A i \in 1..Len(order) : order[i] \in Waiters
<1>1. order \in Seq(Waiters)
  BY DEF TypeInv, TypeOK
<1>2. QED
  BY <1>1, ElementOfSeq, LenProperties

LEMMA InitQueue == Init => QueueInv
<1> SUFFICES ASSUME Init PROVE QueueInv
  OBVIOUS
<1>1. Len(order) = 0
  BY DEF Init
<1>2. QED
  BY <1>1 DEF QueueInv, OrderOnce, QueueInOrder, DoneInOrder

\* A step that registers and pops nothing keeps the order.
LEMMA StillQueue ==
  ASSUME TypeInv, QueueInv, UNCHANGED <<order, wtype>>,
         \A v \in Waiters : /\ wpc'[v] = "start" <=> wpc[v] = "start"
                            /\ wpc'[v] = "done" <=> wpc[v] = "done",
         \A y \in Types : /\ Len(m_awaiters'[y]) = Len(m_awaiters[y])
                          /\ \A n \in 1..Len(m_awaiters[y]) :
                               m_awaiters'[y][n].w = m_awaiters[y][n].w
  PROVE  QueueInv'
<1>1. OrderOnce' /\ DoneInOrder'
  BY OrderType DEF QueueInv, OrderOnce, DoneInOrder
<1>2. QueueInOrder'
  <2>1. SUFFICES ASSUME NEW y \in Types, NEW m \in 1..Len(m_awaiters[y]),
                        NEW n \in 1..Len(m_awaiters[y]),
                        NEW i \in 1..Len(order), NEW j \in 1..Len(order),
                        m < n, order[i] = m_awaiters[y][m].w, order[j] = m_awaiters[y][n].w
                 PROVE  i < j
    BY SMTT(30) DEF QueueInOrder
  <2>2. QED
    BY <2>1 DEF QueueInv, QueueInOrder
<1>3. QED
  BY <1>1, <1>2 DEF QueueInv

LEMMA RegisterQueue ==
  ASSUME TypeInv, WakeInv, QueueInv, NEW w \in Waiters, Register(w)
  PROVE  QueueInv'
<1> DEFINE y == wtype[w]  q == m_awaiters[y]  r == m_awaiters'[y]  k == Len(order) + 1
<1>1. /\ \A z \in Types : z # y => m_awaiters'[z] = m_awaiters[z]
      /\ Len(q) \in Nat /\ Len(r) = Len(q) + 1
      /\ \A n \in 1..Len(q) : r[n] = q[n]
      /\ r[Len(q) + 1].w = w
      /\ Len(order) \in Nat /\ Len(order') = k
      /\ \A n \in 1..Len(order) : order'[n] = order[n]
      /\ order'[k] = w
  <2>1. [w |-> w, data |-> 0].w = w
    OBVIOUS
  <2>2. QED
    BY <2>1, Registered DEF TypeInv
<1>2. /\ y \in Types /\ UNCHANGED wtype
      /\ wpc[w] = "start" /\ wpc'[w] = "registered" /\ \A v \in Waiters \ {w} : wpc'[v] = wpc[v]
  BY DEF Register, GotoW, TypeInv, TypeOK
<1>3. \A i \in 1..Len(order') : i \in 1..Len(order) \/ i = k
  BY <1>1
<1>4. \A i \in 1..Len(order) : order[i] \in Waiters /\ order[i] # w /\ i # k
  BY <1>1, <1>2, OrderType DEF QueueInv, OrderOnce
<1>5. OrderOnce'
  <2>1. \A i \in 1..Len(order') : wpc'[order'[i]] # "start"
    <3>1. ASSUME NEW i \in 1..Len(order) PROVE wpc'[order'[i]] # "start"
      <4>1. order'[i] = order[i] /\ order[i] \in Waiters \ {w}
        BY <1>1, <1>4
      <4>2. wpc[order[i]] # "start"
        BY DEF QueueInv, OrderOnce
      <4>3. QED
        BY <1>2, <4>1, <4>2
    <3>2. wpc'[order'[k]] # "start"
      BY <1>1, <1>2
    <3>3. QED
      BY <1>3, <3>1, <3>2
  <2>2. \A i, j \in 1..Len(order') : order'[i] = order'[j] => i = j
    BY <1>1, <1>3, <1>4 DEF QueueInv, OrderOnce
  <2>3. QED
    BY <2>1, <2>2 DEF OrderOnce
<1>6. DoneInOrder'
  <2>1. SUFFICES ASSUME NEW i \in 1..Len(order'), NEW j \in 1..Len(order'), i < j,
                        wtype[order'[i]] = wtype[order'[j]], wpc'[order'[j]] = "done"
                 PROVE  wpc'[order'[i]] = "done"
    BY <1>2 DEF DoneInOrder
  <2>2. j \in 1..Len(order) /\ i \in 1..Len(order)
    BY <1>1, <1>2, <1>3, <2>1
  <2>3. order'[i] = order[i] /\ order'[j] = order[j] /\ order[i] # w /\ order[j] # w
    BY <1>1, <1>4, <2>2
  <2>4. QED
    BY <1>2, <1>4, <2>1, <2>2, <2>3 DEF QueueInv, DoneInOrder
<1>7. QueueInOrder'
  <2>1. SUFFICES ASSUME NEW z \in Types, NEW m \in 1..Len(m_awaiters'[z]),
                        NEW n \in 1..Len(m_awaiters'[z]),
                        NEW i \in 1..Len(order'), NEW j \in 1..Len(order'),
                        m < n, order'[i] = m_awaiters'[z][m].w, order'[j] = m_awaiters'[z][n].w
                 PROVE  i < j
    BY DEF QueueInOrder
  <2>2. m \in 1..Len(m_awaiters[z]) /\ m_awaiters'[z][m] = m_awaiters[z][m]
    <3>1. CASE z = y
      <4>1. m \in 1..Len(q)
        BY <1>1, <2>1, <3>1
      <4>2. QED
        BY <1>1, <3>1, <4>1
    <3>2. CASE z # y
      BY <1>1, <3>2
    <3>3. QED
      BY <3>1, <3>2
  <2>3. m_awaiters[z][m].w # w
    BY <1>2, <2>2 DEF WakeInv, EntriesWait, InQueue
  <2>4. i \in 1..Len(order) /\ order[i] = m_awaiters[z][m].w
    BY <1>1, <1>3, <2>1, <2>2, <2>3
  <2>5. CASE j = k
    BY <1>1, <2>4, <2>5
  <2>6. CASE j # k
    <3>1. j \in 1..Len(order) /\ order'[j] = order[j] /\ order[j] # w
      BY <1>1, <1>3, <1>4, <2>6
    <3>2. n \in 1..Len(m_awaiters[z]) /\ m_awaiters'[z][n] = m_awaiters[z][n]
      <4>1. CASE z = y
        <5>1. n # Len(q) + 1
          BY <1>1, <2>1, <3>1, <4>1
        <5>2. n \in 1..Len(q)
          BY <1>1, <4>1, <5>1
        <5>3. QED
          BY <1>1, <4>1, <5>2
      <4>2. CASE z # y
        BY <1>1, <4>2
      <4>3. QED
        BY <4>1, <4>2
    <3>3. QED
      BY <2>1, <2>2, <2>4, <3>1, <3>2 DEF QueueInv, QueueInOrder
  <2>7. QED
    BY <2>5, <2>6
<1>8. QED
  BY <1>5, <1>6, <1>7 DEF QueueInv

\* Whoever registered before the waiter at the front, for the same type, has returned.
LEMMA FrontIsNext ==
  ASSUME TypeInv, WakeInv, QueueInv, NEW w \in Waiters, AtFront(w),
         NEW i \in 1..Len(order), NEW j \in 1..Len(order), i < j,
         order[j] = w, wtype[order[i]] = wtype[w]
  PROVE  wpc[order[i]] = "done"
<1> DEFINE v == order[i]  q == m_awaiters[wtype[w]]
<1>1. /\ v \in Waiters /\ wpc[v] # "start" /\ wpc[v] \in WaiterLabels /\ v # w
      /\ wtype[w] \in Types /\ i \in Nat /\ j \in Nat
  <2>1. i \in Nat /\ j \in Nat /\ i # j /\ v \in Waiters
    BY OrderType
  <2>2. wpc[v] # "start" /\ v # w
    BY <2>1 DEF QueueInv, OrderOnce
  <2>3. QED
    BY <2>1, <2>2 DEF TypeInv, TypeOK
<1>2. SUFFICES ASSUME wpc[v] \in InQueue PROVE FALSE
  BY <1>1 DEF WaiterLabels, InQueue
<1>3. PICK n \in 1..Len(q) : q[n].w = v
  BY <1>1, <1>2 DEF WakeInv, HasEntry, Queue
<1>4. q[1].w = w /\ Len(q) \in Nat /\ n # 1
  BY <1>1, <1>3, QueueType DEF AtFront, Queue, TypeInv
<1>5. 1 \in 1..Len(q) /\ 1 < n
  BY <1>3, <1>4
<1>6. j < i
  BY <1>1, <1>3, <1>4, <1>5 DEF QueueInv, QueueInOrder
<1>7. QED
  BY <1>1, <1>6

LEMMA PopQueue ==
  ASSUME TypeInv, WakeInv, QueueInv, NEW w \in Waiters, PopStep(w)
  PROVE  QueueInv'
<1> DEFINE y == wtype[w]
<1>1. AtFront(w) /\ PopFront(w) /\ UNCHANGED <<wtype, order>> /\ wpc[w] \in {"ready", "resumed"}
  BY PopStepIs
<1>2. /\ \A z \in Types : z # y => m_awaiters'[z] = m_awaiters[z]
      /\ Len(m_awaiters[y]) \in Nat \ {0} /\ Len(m_awaiters'[y]) = Len(m_awaiters[y]) - 1
      /\ \A n \in 1..Len(m_awaiters'[y]) : m_awaiters'[y][n] = m_awaiters[y][n + 1]
      /\ wpc' = [wpc EXCEPT ![w] = "done"]
  BY <1>1, Popped DEF TypeInv
<1>3. wpc'[w] = "done" /\ (\A v \in Waiters \ {w} : wpc'[v] = wpc[v]) /\ y \in Types
  BY <1>2 DEF TypeInv, TypeOK
<1>4. OrderOnce'
  BY <1>1, <1>3, OrderType DEF QueueInv, OrderOnce
<1>5. DoneInOrder'
  <2>1. SUFFICES ASSUME NEW i \in 1..Len(order), NEW j \in 1..Len(order), i < j,
                        wtype[order[i]] = wtype[order[j]], wpc'[order[j]] = "done"
                 PROVE  wpc'[order[i]] = "done"
    BY <1>1 DEF DoneInOrder
  <2>2. wpc[order[i]] = "done" => wpc'[order[i]] = "done"
    BY <1>1, <1>3, OrderType
  <2>3. CASE order[j] = w
    BY <1>1, <2>1, <2>2, <2>3, FrontIsNext
  <2>4. CASE order[j] # w
    BY <1>3, <2>1, <2>2, <2>4, OrderType DEF QueueInv, DoneInOrder
  <2>5. QED
    BY <2>3, <2>4
<1>6. QueueInOrder'
  <2>1. SUFFICES ASSUME NEW z \in Types, NEW m \in 1..Len(m_awaiters'[z]),
                        NEW n \in 1..Len(m_awaiters'[z]),
                        NEW i \in 1..Len(order), NEW j \in 1..Len(order),
                        m < n, order[i] = m_awaiters'[z][m].w, order[j] = m_awaiters'[z][n].w
                 PROVE  i < j
    BY <1>1 DEF QueueInOrder
  <2>2. CASE z # y
    BY <1>2, <2>1, <2>2 DEF QueueInv, QueueInOrder
  <2>3. CASE z = y
    <3>1. /\ m + 1 \in 1..Len(m_awaiters[y]) /\ n + 1 \in 1..Len(m_awaiters[y]) /\ m + 1 < n + 1
          /\ m_awaiters'[y][m] = m_awaiters[y][m + 1] /\ m_awaiters'[y][n] = m_awaiters[y][n + 1]
      BY <1>2, <2>1, <2>3
    <3>2. order[i] = m_awaiters[y][m + 1].w /\ order[j] = m_awaiters[y][n + 1].w
      BY <2>1, <2>3, <3>1
    <3>3. QED
      BY <1>3, <3>1, <3>2 DEF QueueInv, QueueInOrder
  <2>4. QED
    BY <2>2, <2>3
<1>7. QED
  BY <1>4, <1>5, <1>6 DEF QueueInv

LEMMA NextQueue == TypeInv /\ WakeInv /\ QueueInv /\ [Next]_vars => QueueInv'
<1> SUFFICES ASSUME TypeInv, WakeInv, QueueInv, [Next]_vars PROVE QueueInv'
  OBVIOUS
<1>1. ASSUME NEW w \in Waiters, Await(w) PROVE QueueInv'
  <2>1. /\ UNCHANGED <<order, wtype, m_awaiters>>
        /\ \A v \in Waiters : /\ wpc'[v] = "start" <=> wpc[v] = "start"
                              /\ wpc'[v] = "done" <=> wpc[v] = "done"
    BY <1>1 DEF Await, GotoW, TypeInv, TypeOK
  <2>2. QED
    BY <2>1, StillQueue
<1>2. CASE SetEvent
  <2>1. awaiter \in Waiters
    BY <1>2, EntryIsFront DEF SetEvent
  <2>2. /\ UNCHANGED <<order, wtype, m_awaiters>>
        /\ \A v \in Waiters : /\ wpc'[v] = "start" <=> wpc[v] = "start"
                              /\ wpc'[v] = "done" <=> wpc[v] = "done"
    BY <1>2, <2>1 DEF SetEvent, GotoW, TypeInv, TypeOK
  <2>3. QED
    BY <2>2, StillQueue
<1>3. CASE Write
  <2>1. UNCHANGED <<order, wtype, wpc>>
    BY <1>3 DEF Write
  <2>2. QED
    BY <1>3, <2>1, Written, StillQueue
<1>4. CASE PreHandler \/ Aside \/ UNCHANGED vars
  <2>1. UNCHANGED waiting
    BY <1>4, AsideLeaves DEF PreHandler, vars
  <2>2. QED
    BY <2>1, StillQueue DEF waiting
<1>5. QED
  BY <1>1, <1>2, <1>3, <1>4, StepKinds, RegisterQueue, PopQueue
-----------------------------------------------------------------------------
(* The packets that the pre-handler claims.                                 *)

LEMMA InitData == Init => DataInv /\ DataWakes
<1> SUFFICES ASSUME Init PROVE DataInv /\ DataWakes
  OBVIOUS
<1>1. \A y \in Types : Len(m_awaiters[y]) = 0
  BY DEF Init
<1>2. DataIsTaken /\ DataDiffers /\ DataWakes
  BY <1>1 DEF DataIsTaken, DataDiffers, DataWakes
<1>3. ClaimedOnce /\ GotIsTaken
  BY DEF Init, ClaimedOnce, GotIsTaken
<1>4. QED
  BY <1>2, <1>3 DEF DataInv

\* A step that neither moves nor claims a packet keeps what is said about them.
LEMMA StillData ==
  ASSUME TypeInv, DataInv, UNCHANGED <<wtype, got, taken>>,
         \A v \in Waiters : wpc[v] = "done" => wpc'[v] = "done",
         \A y \in Types : \A n \in 1..Len(m_awaiters'[y]) : m_awaiters'[y][n].data # 0 =>
           n \in 1..Len(m_awaiters[y]) /\ m_awaiters'[y][n].data = m_awaiters[y][n].data
  PROVE  GotIsTaken' /\ DataIsTaken' /\ DataDiffers'
<1>1. GotIsTaken'
  BY DEF DataInv, GotIsTaken
<1>2. DataIsTaken'
  BY DEF DataInv, DataIsTaken
<1>3. DataDiffers'
  <2>1. SUFFICES ASSUME NEW y \in Types, NEW z \in Types,
                        NEW m \in 1..Len(m_awaiters'[y]), NEW n \in 1..Len(m_awaiters'[z]),
                        y # z, m_awaiters'[y][m].data # 0,
                        m_awaiters'[y][m].data = m_awaiters'[z][n].data
                 PROVE  FALSE
    BY DEF DataDiffers
  <2>2. /\ m \in 1..Len(m_awaiters[y]) /\ m_awaiters'[y][m].data = m_awaiters[y][m].data
        /\ n \in 1..Len(m_awaiters[z]) /\ m_awaiters'[z][n].data = m_awaiters[z][n].data
    BY <2>1
  <2>3. m_awaiters[y][m].data # 0 /\ m_awaiters[y][m].data = m_awaiters[z][n].data
    BY <2>1, <2>2
  <2>4. DataDiffers
    BY DEF DataInv
  <2>5. QED
    BY <2>1, <2>2, <2>3, <2>4 DEF DataDiffers
<1>4. QED
  BY <1>1, <1>2, <1>3

LEMMA RegisterData ==
  ASSUME TypeInv, WakeInv, DataInv, DataWakes, NEW w \in Waiters, Register(w)
  PROVE  DataInv' /\ DataWakes'
<1> DEFINE y == wtype[w]  q == m_awaiters[y]  r == m_awaiters'[y]
<1>1. /\ \A z \in Types : z # y => m_awaiters'[z] = m_awaiters[z]
      /\ Len(q) \in Nat /\ Len(r) = Len(q) + 1
      /\ \A n \in 1..Len(q) : r[n] = q[n]
      /\ r[Len(q) + 1].data = 0
  <2>1. [w |-> w, data |-> 0].data = 0
    OBVIOUS
  <2>2. QED
    BY <2>1, Registered DEF TypeInv
<1>2. /\ UNCHANGED <<wtype, event, got, net, packet, awaiter, hist>>
      /\ \A v \in Waiters : wpc[v] = "done" => wpc'[v] = "done"
  BY DEF Register, GotoW, TypeInv, TypeOK
<1>3. \A z \in Types : \A n \in 1..Len(m_awaiters'[z]) : m_awaiters'[z][n].data # 0 =>
        n \in 1..Len(m_awaiters[z]) /\ m_awaiters'[z][n] = m_awaiters[z][n]
  <2>1. SUFFICES ASSUME NEW z \in Types, NEW n \in 1..Len(m_awaiters'[z]),
                        m_awaiters'[z][n].data # 0
                 PROVE  n \in 1..Len(m_awaiters[z]) /\ m_awaiters'[z][n] = m_awaiters[z][n]
    OBVIOUS
  <2>2. CASE z = y
    <3>1. n \in 1..Len(q)
      BY <1>1, <2>1, <2>2
    <3>2. QED
      BY <1>1, <2>2, <3>1
  <2>3. CASE z # y
    BY <1>1, <2>3
  <2>4. QED
    BY <2>2, <2>3
<1>4. GotIsTaken' /\ DataIsTaken' /\ DataDiffers'
  BY <1>2, <1>3, StillData DEF hist
<1>5. ClaimedOnce'
  BY <1>2 DEF DataInv, ClaimedOnce, hist, packet
<1>6. DataWakes'
  BY <1>2, <1>3 DEF DataWakes
<1>7. QED
  BY <1>4, <1>5, <1>6 DEF DataInv

\* The queue of a waiter that returns has no packet any more.
LEMMA PopClears ==
  ASSUME TypeInv, WakeInv, DataInv, NEW w \in Waiters, PopStep(w)
  PROVE  \A n \in 1..Len(m_awaiters'[wtype[w]]) : m_awaiters'[wtype[w]][n].data = 0
<1> DEFINE y == wtype[w]
<1>1. SUFFICES ASSUME NEW n \in 1..Len(m_awaiters'[y]) PROVE m_awaiters'[y][n].data = 0
  OBVIOUS
<1>2. /\ Len(m_awaiters[y]) \in Nat \ {0} /\ Len(m_awaiters'[y]) = Len(m_awaiters[y]) - 1
      /\ \A m \in 1..Len(m_awaiters'[y]) : m_awaiters'[y][m] = m_awaiters[y][m + 1]
  BY PopStepIs, Popped DEF TypeInv
<1>3. n + 1 \in 1..Len(m_awaiters[y]) /\ n + 1 # 1 /\ y \in Types
  BY <1>2 DEF TypeInv, TypeOK
<1>4. QED
  BY <1>2, <1>3 DEF DataInv, DataIsTaken

LEMMA PopData ==
  ASSUME TypeInv, WakeInv, DataInv, DataWakes, NEW w \in Waiters, PopStep(w)
  PROVE  DataInv' /\ DataWakes'
<1> DEFINE y == wtype[w]  d == m_awaiters[y][1].data
<1>1. /\ AtFront(w) /\ PopFront(w) /\ event[w] /\ net' \in {net, "idle"}
      /\ net' = "idle" /\ net # "idle" => net = "resume"
      /\ UNCHANGED <<wtype, event, packet, awaiter, hist>>
  BY PopStepIs
<1>2. /\ \A z \in Types : z # y => m_awaiters'[z] = m_awaiters[z]
      /\ Len(m_awaiters[y]) \in Nat \ {0} /\ Len(m_awaiters'[y]) = Len(m_awaiters[y]) - 1
      /\ \A n \in 1..Len(m_awaiters'[y]) : m_awaiters'[y][n] = m_awaiters[y][n + 1]
      /\ wpc' = [wpc EXCEPT ![w] = "done"]
      /\ got' = [got EXCEPT ![w] = d]
  BY <1>1, Popped DEF TypeInv
<1>3. /\ wpc'[w] = "done" /\ (\A v \in Waiters \ {w} : wpc'[v] = wpc[v]) /\ y \in Types
      /\ got'[w] = d /\ (\A v \in Waiters \ {w} : got'[v] = got[v])
      /\ 1 \in 1..Len(m_awaiters[y])
  BY <1>2 DEF TypeInv, TypeOK
<1>4. ClaimedOnce'
  BY <1>1 DEF DataInv, ClaimedOnce, hist, packet
<1>5. GotIsTaken'
  BY <1>1, <1>3 DEF DataInv, GotIsTaken, DataIsTaken, hist
<1>6. \A n \in 1..Len(m_awaiters'[y]) : m_awaiters'[y][n].data = 0
  BY PopClears
<1>7. \A z \in Types : \A n \in 1..Len(m_awaiters'[z]) : m_awaiters'[z][n].data # 0 =>
        z # y /\ m_awaiters'[z] = m_awaiters[z] /\ n \in 1..Len(m_awaiters[z])
  BY <1>2, <1>6
<1>8. DataIsTaken'
  <2>1. SUFFICES ASSUME NEW z \in Types, NEW n \in 1..Len(m_awaiters'[z]),
                        m_awaiters'[z][n].data # 0
                 PROVE  /\ n = 1 /\ m_awaiters'[z][n].data \in taken
                        /\ \A v \in Waiters : /\ got'[v] # m_awaiters'[z][n].data
                                              /\ wtype[v] = z => got'[v] < m_awaiters'[z][n].data
    BY <1>1 DEF DataIsTaken, hist
  <2>2. /\ z # y /\ m_awaiters'[z] = m_awaiters[z] /\ n \in 1..Len(m_awaiters[z])
        /\ m_awaiters[z][n].data # 0
    BY <1>7, <2>1
  <2>3. d # m_awaiters[z][n].data
    BY <1>3, <2>2 DEF DataInv, DataDiffers
  <2>4. QED
    BY <1>3, <2>2, <2>3 DEF DataInv, DataIsTaken
<1>9. DataDiffers'
  <2>1. SUFFICES ASSUME NEW a \in Types, NEW b \in Types,
                        NEW m \in 1..Len(m_awaiters'[a]), NEW n \in 1..Len(m_awaiters'[b]),
                        a # b, m_awaiters'[a][m].data # 0,
                        m_awaiters'[a][m].data = m_awaiters'[b][n].data
                 PROVE  FALSE
    BY DEF DataDiffers
  <2>2. /\ m_awaiters'[a] = m_awaiters[a] /\ m \in 1..Len(m_awaiters[a])
        /\ m_awaiters'[b] = m_awaiters[b] /\ n \in 1..Len(m_awaiters[b])
    BY <1>7, <2>1
  <2>3. QED
    BY <2>1, <2>2 DEF DataInv, DataDiffers
<1>10. DataWakes'
  BY <1>1, <1>7 DEF DataWakes
<1>11. QED
  BY <1>4, <1>5, <1>8, <1>9, <1>10 DEF DataInv

LEMMA WriteData ==
  ASSUME TypeInv, WakeInv, DataInv, DataWakes, Write
  PROVE  DataInv' /\ DataWakes'
<1>1. /\ \A y \in Types : Len(m_awaiters'[y]) = Len(m_awaiters[y])
      /\ \A y \in Types : \A n \in 1..Len(m_awaiters[y]) :
           /\ m_awaiters'[y][n].w = m_awaiters[y][n].w
           /\ m_awaiters'[y][n].data =
                IF kind = "good" /\ y = ptype /\ m_awaiters[y][n].w = awaiter
                THEN packets ELSE m_awaiters[y][n].data
  BY Written
<1>2. /\ net = "write" /\ net' = "set"
      /\ UNCHANGED <<wpc, wtype, event, got, packet, awaiter, handled>>
      /\ kind = "good" => taken' = taken \cup {packets}
      /\ kind # "good" => taken' = taken
  BY DEF Write
<1>3. packets \in Nat \ {0} /\ packets \notin taken \cup handled /\ ptype \in Types
  BY <1>2, ConstantsTyped DEF TypeInv, TypeOK, HasPacket, DataInv, ClaimedOnce
<1>4. ClaimedOnce'
  <2>1. packets \in 1..packets /\ taken' \subseteq taken \cup {packets}
    BY <1>2, <1>3
  <2>2. /\ taken \cap handled = {} /\ taken \subseteq 1..packets /\ handled \subseteq 1..packets
    BY DEF DataInv, ClaimedOnce
  <2>3. taken' \cap handled = {} /\ taken' \subseteq 1..packets
    BY <1>3, <2>1, <2>2
  <2>4. QED
    BY <1>2, <2>2, <2>3 DEF ClaimedOnce, packet
<1>5. GotIsTaken'
  BY <1>2 DEF DataInv, GotIsTaken
<1>6. DataWakes'
  <2>1. SUFFICES ASSUME NEW y \in Types, NEW n \in 1..Len(m_awaiters[y]),
                        m_awaiters'[y][n].data # 0
                 PROVE  \/ event[m_awaiters[y][n].w] \/ awaiter = m_awaiters[y][n].w
    BY <1>1, <1>2 DEF DataWakes
  <2>2. QED
    BY <1>1, <1>2, <2>1 DEF DataWakes
<1>7. CASE kind # "good"
  BY <1>1, <1>2, <1>4, <1>6, <1>7, StillData DEF DataInv
<1>8. CASE kind = "good"
  \* The packet of an entry is the new one, or the one it had; only the front has one.
  <2>1. \A y \in Types : \A n \in 1..Len(m_awaiters[y]) :
          \/ y = ptype /\ n = 1 /\ m_awaiters'[y][n].data = packets
          \/ m_awaiters'[y][n].data = m_awaiters[y][n].data
    <3>1. SUFFICES ASSUME NEW n \in 1..Len(m_awaiters[ptype]), m_awaiters[ptype][n].w = awaiter
                   PROVE  n = 1
      BY <1>1, <1>8
    <3>2. EntryAt # {}
      BY <3>1 DEF EntryAt
    <3>3. m_awaiters[ptype][1].w = awaiter
      BY <1>2, <3>2, EntryIsFront DEF AtFront, Queue
    <3>4. 1 \in 1..Len(m_awaiters[ptype])
      BY <1>3, <3>1, QueueType DEF TypeInv
    <3>5. QED
      BY <1>3, <3>1, <3>3, <3>4 DEF WakeInv, OneEntry
  \* The new packet is later than all that were claimed.
  <2>2. \A k \in taken : k \in Nat /\ k < packets
    BY <1>3 DEF DataInv, ClaimedOnce
  <2>3. \A v \in Waiters : got[v] \in Nat /\ got[v] < packets
    <3>1. \A v \in Waiters : got[v] = 0 \/ got[v] \in taken
      BY DEF DataInv, GotIsTaken
    <3>2. 0 \in Nat /\ 0 < packets
      BY <1>3
    <3>3. QED
      BY <2>2, <3>1, <3>2
  <2>4. DataIsTaken'
    <3>1. SUFFICES ASSUME NEW y \in Types, NEW n \in 1..Len(m_awaiters[y]),
                          m_awaiters'[y][n].data # 0
                   PROVE  /\ n = 1 /\ m_awaiters'[y][n].data \in taken'
                          /\ \A v \in Waiters : /\ got[v] # m_awaiters'[y][n].data
                                                /\ wtype[v] = y => got[v] < m_awaiters'[y][n].data
      BY <1>1, <1>2 DEF DataIsTaken
    <3>2. CASE n = 1 /\ m_awaiters'[y][n].data = packets
      BY <1>2, <1>8, <2>3, <3>2
    <3>3. CASE m_awaiters'[y][n].data = m_awaiters[y][n].data
      BY <1>2, <1>8, <3>1, <3>3 DEF DataInv, DataIsTaken
    <3>4. QED
      BY <2>1, <3>2, <3>3
  <2>5. DataDiffers'
    <3>1. SUFFICES ASSUME NEW y \in Types, NEW z \in Types,
                          NEW m \in 1..Len(m_awaiters[y]), NEW n \in 1..Len(m_awaiters[z]),
                          y # z, m_awaiters'[y][m].data # 0,
                          m_awaiters'[y][m].data = m_awaiters'[z][n].data
                   PROVE  FALSE
      BY <1>1 DEF DataDiffers
    <3>2. \A x \in Types : \A l \in 1..Len(m_awaiters[x]) : m_awaiters[x][l].data # packets
      BY <1>3 DEF DataInv, DataIsTaken
    <3>3. QED
      BY <2>1, <3>1, <3>2 DEF DataInv, DataDiffers
  <2>6. QED
    BY <1>4, <1>5, <1>6, <2>4, <2>5 DEF DataInv
<1>9. QED
  BY <1>7, <1>8

LEMMA AsideClaims ==
  ASSUME TypeInv, DataInv, Aside
  PROVE  ClaimedOnce'
<1> USE DEF DataInv, ClaimedOnce, hist, packet, TypeInv, TypeOK
<1>1. ASSUME NEW y \in Types, NEW k \in {"good", "badPayload", "badHeader"}, Receive(y, k)
      PROVE  ClaimedOnce'
  <2>1. packets \in Nat /\ packets' = packets + 1 /\ UNCHANGED hist
    BY <1>1 DEF Receive
  <2>2. 1..packets \subseteq 1..packets' /\ packets' \notin 1..packets
    BY <2>1
  <2>3. QED
    BY <2>1, <2>2
<1>2. CASE HandlerInvoke
  <2>1. packets \in 1..packets /\ net = "invoke" /\ net' = "idle"
    BY <1>2 DEF HandlerInvoke, HasPacket
  <2>2. QED
    BY <1>2, <2>1 DEF HandlerInvoke
<1>3. CASE ReleaseMessages \/ HandlerLock \/ HandlerFind \/ HandlerFindRace \/ BindEnd \/ UnbindEnd
  BY <1>3 DEF ReleaseMessages, HandlerLock, HandlerFind, HandlerFindRace, BindEnd, UnbindEnd
<1>4. ASSUME NEW op \in {"bind", "unbind"}, NEW y \in Types, BindBegin(op, y)
      PROVE  ClaimedOnce'
  BY <1>4 DEF BindBegin
<1>5. QED
  BY <1>1, <1>2, <1>3, <1>4 DEF Aside

LEMMA NextData ==
  TypeInv /\ WakeInv /\ DataInv /\ DataWakes /\ [Next]_vars => DataInv' /\ DataWakes'
<1> SUFFICES ASSUME TypeInv, WakeInv, DataInv, DataWakes, [Next]_vars
             PROVE  DataInv' /\ DataWakes'
  OBVIOUS
<1>1. ASSUME NEW w \in Waiters, Await(w) PROVE DataInv' /\ DataWakes'
  <2>1. /\ UNCHANGED <<m_awaiters, wtype, event, got, net, packet, awaiter, hist>>
        /\ \A v \in Waiters : wpc[v] = "done" => wpc'[v] = "done"
    BY <1>1 DEF Await, GotoW, TypeInv, TypeOK
  <2>2. GotIsTaken' /\ DataIsTaken' /\ DataDiffers'
    BY <2>1, StillData DEF hist
  <2>3. ClaimedOnce' /\ DataWakes'
    BY <2>1 DEF DataInv, ClaimedOnce, DataWakes, hist, packet
  <2>4. QED
    BY <2>2, <2>3 DEF DataInv
<1>2. CASE SetEvent
  <2>1. /\ awaiter \in Waiters /\ wtype[awaiter] = ptype
        /\ EntryAt = {} => event[awaiter]
    BY <1>2, EntryIsFront DEF SetEvent
  <2>2. /\ UNCHANGED <<m_awaiters, wtype, got, packet, awaiter, hist>> /\ net' \in {"set", "idle", "resume"}
        /\ \A v \in Waiters : wpc[v] = "done" => wpc'[v] = "done"
    BY <1>2, <2>1 DEF SetEvent, GotoW, TypeInv, TypeOK
  <2>3. event'[awaiter] /\ \A v \in Waiters : event[v] => event'[v]
    BY <1>2, <2>1 DEF SetEvent, TypeInv, TypeOK
  <2>4. GotIsTaken' /\ DataIsTaken' /\ DataDiffers'
    BY <2>2, StillData DEF hist
  <2>5. ClaimedOnce'
    BY <2>2 DEF DataInv, ClaimedOnce, hist, packet
  <2>6. \A y \in Types : \A n \in 1..Len(m_awaiters[y]) : m_awaiters[y][n].w \in Waiters
    BY QueueType DEF TypeInv
  <2>7. DataWakes'
    BY <2>2, <2>3, <2>6 DEF DataWakes
  <2>8. QED
    BY <2>4, <2>5, <2>7 DEF DataInv
<1>3. CASE PreHandler
  <2>1. /\ UNCHANGED <<waiting, packet, hist>> /\ net = "pre" /\ net' \in {"lock", "write"}
    BY <1>3 DEF PreHandler
  <2>2. GotIsTaken' /\ DataIsTaken' /\ DataDiffers'
    BY <2>1, StillData DEF hist, waiting
  <2>3. ClaimedOnce' /\ DataWakes'
    BY <2>1 DEF DataInv, ClaimedOnce, DataWakes, hist, packet, waiting
  <2>4. QED
    BY <2>2, <2>3 DEF DataInv
<1>4. CASE Aside
  <2>1. UNCHANGED <<waiting, awaiter, taken>> /\ (net = "set" => net' = net)
    BY <1>4, AsideLeaves
  <2>2. GotIsTaken' /\ DataIsTaken' /\ DataDiffers'
    BY <2>1, StillData DEF waiting
  <2>3. DataWakes'
    BY <2>1 DEF DataWakes, waiting
  <2>4. QED
    BY <1>4, <2>2, <2>3, AsideClaims DEF DataInv
<1>5. CASE UNCHANGED vars
  BY <1>5 DEF vars, waiting, packet, hist, DataInv, ClaimedOnce, GotIsTaken, DataIsTaken,
    DataDiffers, DataWakes
<1>6. QED
  BY <1>1, <1>2, <1>3, <1>4, <1>5, StepKinds, RegisterData, PopData, WriteData
\* What a returned packet says about the others; the inductive part of the theorems below.
LEMMA PopServes ==
  ASSUME TypeInv, WakeInv, QueueInv, DataInv, ServedInOrder, ServedOnce,
         NEW w \in Waiters, PopStep(w)
  PROVE  ServedInOrder' /\ ServedOnce'
<1> DEFINE y == wtype[w]  d == m_awaiters[y][1].data
<1>1. /\ AtFront(w) /\ PopFront(w) /\ wpc[w] \in {"ready", "resumed"}
      /\ UNCHANGED <<wtype, order, hist>>
  BY PopStepIs
<1>2. /\ Len(m_awaiters[y]) \in Nat \ {0}
      /\ wpc' = [wpc EXCEPT ![w] = "done"] /\ got' = [got EXCEPT ![w] = d]
  BY <1>1, Popped DEF TypeInv
<1>3. /\ wpc'[w] = "done" /\ (\A v \in Waiters \ {w} : wpc'[v] = wpc[v]) /\ y \in Types
      /\ got'[w] = d /\ (\A v \in Waiters \ {w} : got'[v] = got[v])
      /\ 1 \in 1..Len(m_awaiters[y])
  BY <1>2 DEF TypeInv, TypeOK
<1>4. d # 0 => /\ d \in taken
               /\ \A v \in Waiters : got[v] # d /\ (wtype[v] = y => got[v] < d)
  BY <1>3 DEF DataInv, DataIsTaken
<1>5. ServedOnce'
  <2>1. \A u, v \in Waiters : u # v /\ got'[u] # 0 => got'[u] # got'[v]
    BY <1>3, <1>4 DEF ServedOnce
  <2>2. d \notin handled
    <3>1. taken \cap handled = {} /\ 0 \notin handled
      BY DEF DataInv, ClaimedOnce, TypeInv, TypeOK, Packets
    <3>2. QED
      BY <1>4, <3>1
  <2>3. \A v \in Waiters : got'[v] \notin handled'
    BY <1>1, <1>3, <2>2 DEF ServedOnce, hist
  <2>4. QED
    BY <1>1, <2>1, <2>3 DEF ServedOnce, hist
<1>6. ServedInOrder'
  <2>1. SUFFICES ASSUME NEW i \in 1..Len(order), NEW j \in 1..Len(order), i < j,
                        wtype[order[i]] = wtype[order[j]], got'[order[j]] # 0
                 PROVE  wpc'[order[i]] = "done" /\ got'[order[i]] < got'[order[j]]
    BY <1>1 DEF ServedInOrder
  <2>2. order[i] \in Waiters /\ order[j] \in Waiters /\ order[i] # order[j]
    <3>1. i # j /\ order[i] \in Waiters /\ order[j] \in Waiters
      BY <2>1, OrderType
    <3>2. QED
      BY <3>1 DEF QueueInv, OrderOnce
  <2>3. CASE order[j] = w
    <3>1. wpc[order[i]] = "done"
      BY <1>1, <2>1, <2>3, FrontIsNext
    <3>2. QED
      BY <1>3, <1>4, <2>1, <2>2, <2>3, <3>1
  <2>4. CASE order[j] # w
    <3>1. got[order[j]] # 0
      BY <1>3, <2>1, <2>2, <2>4
    <3>2. wpc[order[i]] = "done" /\ got[order[i]] < got[order[j]]
      BY <2>1, <3>1 DEF ServedInOrder
    <3>3. order[i] # w
      BY <1>1, <3>2
    <3>4. QED
      BY <1>3, <2>2, <2>4, <3>2, <3>3
  <2>5. QED
    BY <2>3, <2>4
<1>7. QED
  BY <1>5, <1>6

\* Every other step leaves returned packets alone.
LEMMA StillServes ==
  ASSUME TypeInv, WakeInv, QueueInv, DataInv, DataInv', ServedInOrder, ServedOnce,
         [Next]_vars,
         ~\E w \in Waiters : PopStep(w) \/ Register(w)
  PROVE  ServedInOrder' /\ ServedOnce'
<1>1. /\ UNCHANGED <<wtype, order, got>>
      /\ \A v \in Waiters : wpc[v] = "done" => wpc'[v] = "done"
  <2>1. ASSUME NEW w \in Waiters, Await(w)
        PROVE  /\ UNCHANGED <<wtype, order, got>>
               /\ \A v \in Waiters : wpc[v] = "done" => wpc'[v] = "done"
    BY <2>1 DEF Await, GotoW, TypeInv, TypeOK
  <2>2. CASE SetEvent
    BY <2>2, EntryIsFront DEF SetEvent, GotoW, TypeInv, TypeOK
  <2>3. CASE Write \/ PreHandler \/ Aside \/ UNCHANGED vars
    BY <2>3, AsideLeaves DEF Write, PreHandler, vars, waiting
  <2>4. QED
    BY <2>1, <2>2, <2>3, StepKinds
<1>2. ServedInOrder'
  BY <1>1, OrderType DEF ServedInOrder
<1>3. ServedOnce'
  <2>1. \A v \in Waiters : got'[v] \notin handled'
    <3>1. \A v \in Waiters : got'[v] # 0 => got'[v] \in taken'
      BY DEF DataInv, GotIsTaken
    <3>2. 0 \notin 1..packets'
      OBVIOUS
    <3>3. taken' \cap handled' = {} /\ handled' \subseteq 1..packets'
      BY DEF DataInv, ClaimedOnce
    <3>4. QED
      BY <3>1, <3>2, <3>3
  <2>2. QED
    BY <1>1, <2>1 DEF ServedOnce, DataInv, ClaimedOnce
<1>4. QED
  BY <1>2, <1>3

LEMMA RegisterServes ==
  ASSUME TypeInv, WakeInv, QueueInv, DataInv, ServedInOrder, ServedOnce,
         NEW w \in Waiters, Register(w)
  PROVE  ServedInOrder' /\ ServedOnce'
<1> DEFINE k == Len(order) + 1
<1>1. /\ Len(order) \in Nat /\ Len(order') = k
      /\ \A n \in 1..Len(order) : order'[n] = order[n]
      /\ order'[k] = w
  BY Registered DEF TypeInv
<1>2. /\ UNCHANGED <<wtype, got, hist>> /\ wpc[w] = "start"
      /\ \A v \in Waiters : wpc[v] = "done" => wpc'[v] = "done"
  BY DEF Register, GotoW, TypeInv, TypeOK
<1>3. got[w] = 0
  BY <1>2 DEF DataInv, GotIsTaken
<1>4. ServedInOrder'
  <2>1. SUFFICES ASSUME NEW i \in 1..Len(order'), NEW j \in 1..Len(order'), i < j,
                        wtype[order'[i]] = wtype[order'[j]], got[order'[j]] # 0
                 PROVE  wpc'[order'[i]] = "done" /\ got[order'[i]] < got[order'[j]]
    BY <1>2 DEF ServedInOrder
  <2>2. j # k
    BY <1>1, <1>3, <2>1
  <2>3. j \in 1..Len(order) /\ i \in 1..Len(order)
    BY <1>1, <2>1, <2>2
  <2>4. order'[i] = order[i] /\ order'[j] = order[j] /\ order[i] \in Waiters
    BY <1>1, <2>3, OrderType
  <2>5. QED
    BY <1>2, <2>1, <2>3, <2>4 DEF ServedInOrder
<1>5. QED
  BY <1>2, <1>4 DEF ServedOnce, hist

ServeInv == TypeInv /\ WakeInv /\ QueueInv /\ DataInv /\ DataWakes /\ ServedInOrder /\ ServedOnce

LEMMA InitServe == Init => ServeInv
<1> SUFFICES ASSUME Init PROVE ServedInOrder /\ ServedOnce
  BY InitWake, InitQueue, InitData DEF ServeInv
<1>1. Len(order) = 0
  BY DEF Init
<1>2. QED
  BY <1>1 DEF Init, ServedInOrder, ServedOnce

LEMMA NextServe == ServeInv /\ [Next]_vars => ServeInv'
<1> SUFFICES ASSUME ServeInv, [Next]_vars PROVE ServeInv'
  OBVIOUS
<1> USE DEF ServeInv
<1>1. TypeInv' /\ WakeInv' /\ QueueInv' /\ DataInv' /\ DataWakes'
  BY NextWake, NextQueue, NextData
<1>2. CASE \E w \in Waiters : PopStep(w)
  BY <1>1, <1>2, PopServes
<1>3. CASE \E w \in Waiters : Register(w)
  BY <1>1, <1>3, RegisterServes
<1>4. CASE ~\E w \in Waiters : PopStep(w) \/ Register(w)
  BY <1>1, <1>4, StillServes
<1>5. QED
  BY <1>2, <1>3, <1>4

\* Packets of one type reach the waiters in the order in which they registered, and the
\* later waiter has the later packet, whatever the pool does with their coroutines.
THEOREM InOrder == Spec => []ServedInOrder
<1>1. ServeInv => ServedInOrder
  BY DEF ServeInv
<1>2. QED
  BY InitServe, NextServe, <1>1, PTL DEF Spec

\* A packet goes to one waiter at most, and to none if it goes to a handler.
THEOREM Once == Spec => []ServedOnce
<1>1. ServeInv => ServedOnce
  BY DEF ServeInv
<1>2. QED
  BY InitServe, NextServe, <1>1, PTL DEF Spec

\* Where a packet is kept, in terms of waiters and entries.
LEMMA KeptIs ==
  ASSUME NEW k
  PROVE  k \in Kept <=> \/ \E w \in Waiters : got[w] = k
                        \/ \E y \in Types : \E n \in 1..Len(m_awaiters[y]) :
                             m_awaiters[y][n].data = k
  BY DEF Kept

LEMMA KeptIsNext ==
  ASSUME NEW k
  PROVE  k \in Kept' <=> \/ \E w \in Waiters : got'[w] = k
                         \/ \E y \in Types : \E n \in 1..Len(m_awaiters'[y]) :
                              m_awaiters'[y][n].data = k
  BY DEF Kept

\* A coroutine that collects its packet loses none.
LEMMA PopKeeps ==
  ASSUME ServeInv, NEW w \in Waiters, PopStep(w), NEW k \in taken, k \in Kept
  PROVE  k \in Kept'
<1> DEFINE y == wtype[w]  d == m_awaiters[y][1].data
<1>1. TypeInv /\ WakeInv /\ DataInv /\ k # 0
  <2>1. TypeInv /\ WakeInv /\ DataInv
    BY DEF ServeInv
  <2>2. taken \subseteq 1..MaxPackets
    BY <2>1 DEF TypeInv, TypeOK, Packets
  <2>3. QED
    BY <2>1, <2>2
<1>2. AtFront(w) /\ PopFront(w) /\ wpc[w] \in {"ready", "resumed"}
  BY <1>1, PopStepIs
<1>3. /\ \A z \in Types : z # y => m_awaiters'[z] = m_awaiters[z]
      /\ Len(m_awaiters[y]) \in Nat \ {0} /\ Len(m_awaiters'[y]) = Len(m_awaiters[y]) - 1
      /\ \A n \in 1..Len(m_awaiters'[y]) : m_awaiters'[y][n] = m_awaiters[y][n + 1]
      /\ got' = [got EXCEPT ![w] = d]
  BY <1>1, <1>2, Popped DEF TypeInv
<1>4. got'[w] = d /\ (\A v \in Waiters \ {w} : got'[v] = got[v])
  BY <1>1, <1>3 DEF TypeInv, TypeOK
<1>5. got[w] = 0
  BY <1>1, <1>2 DEF DataInv, GotIsTaken
<1>6. CASE \E v \in Waiters : got[v] = k
  BY <1>1, <1>4, <1>5, <1>6, KeptIsNext
<1>7. ASSUME NEW z \in Types, NEW n \in 1..Len(m_awaiters[z]), m_awaiters[z][n].data = k
      PROVE  k \in Kept'
  <2>1. CASE z # y
    BY <1>3, <1>7, <2>1, KeptIsNext
  <2>2. CASE z = y
    <3>1. n = 1
      BY <1>1, <1>7 DEF DataInv, DataIsTaken
    <3>2. QED
      BY <1>4, <1>7, <2>2, <3>1, KeptIsNext
  <2>3. QED
    BY <2>1, <2>2
<1>8. QED
  BY <1>6, <1>7, KeptIs

\* The packet in an entry is overwritten only if its waiter was woken before.
LEMMA WriteLoses ==
  ASSUME ServeInv, Write, NEW k \in taken, k \in Kept, k \notin Kept'
  PROVE  event[awaiter] /\ wpc[awaiter] \in {"registered", "ready"}
<1>1. TypeInv /\ WakeInv /\ DataWakes /\ k # 0 /\ net = "write" /\ UNCHANGED got
  <2>1. k # 0
    BY DEF ServeInv, TypeInv, TypeOK, Packets
  <2>2. QED
    BY <2>1 DEF ServeInv, Write
<1>2. \A v \in Waiters : got[v] # k
  BY <1>1, KeptIsNext
<1>3. PICK y \in Types : \E n \in 1..Len(m_awaiters[y]) : m_awaiters[y][n].data = k
  BY <1>2, KeptIs
<1>4. PICK n \in 1..Len(m_awaiters[y]) : m_awaiters[y][n].data = k
  BY <1>3
<1>5. m_awaiters'[y][n].data # k /\ Len(m_awaiters'[y]) = Len(m_awaiters[y])
  BY <1>1, Written, KeptIsNext
<1>6. y = ptype /\ m_awaiters[y][n].w = awaiter
  BY <1>1, <1>4, <1>5, Written
<1>7. event[awaiter]
  BY <1>1, <1>4, <1>6 DEF DataWakes
<1>8. EntryAt # {}
  BY <1>6 DEF EntryAt
<1>9. awaiter \in Waiters /\ wpc[awaiter] \in InQueue
  BY <1>1, <1>8, EntryIsFront
<1>10. QED
  BY <1>1, <1>7, <1>9 DEF WakeInv, WokenHasEvent, InQueue

\* The other steps keep every packet where it is.
LEMMA OthersKeep ==
  ASSUME ServeInv, [Next]_vars, ~Write, ~\E w \in Waiters : PopStep(w),
         NEW k \in taken, k \in Kept
  PROVE  k \in Kept'
<1>1. TypeInv /\ WakeInv
  BY DEF ServeInv
<1>2. ASSUME NEW w \in Waiters, Register(w) PROVE k \in Kept'
  <2>1. \A y \in Types : \A n \in 1..Len(m_awaiters[y]) :
          n \in 1..Len(m_awaiters'[y]) /\ m_awaiters'[y][n] = m_awaiters[y][n]
    <3>1. SUFFICES ASSUME NEW y \in Types, NEW n \in 1..Len(m_awaiters[y])
                   PROVE  n \in 1..Len(m_awaiters'[y]) /\ m_awaiters'[y][n] = m_awaiters[y][n]
      OBVIOUS
    <3>2. CASE y = wtype[w]
      <4>1. /\ Len(m_awaiters[y]) \in Nat /\ Len(m_awaiters'[y]) = Len(m_awaiters[y]) + 1
            /\ \A l \in 1..Len(m_awaiters[y]) : m_awaiters'[y][l] = m_awaiters[y][l]
        BY <1>1, <1>2, <3>2, Registered DEF TypeInv
      <4>2. QED
        BY <4>1
    <3>3. CASE y # wtype[w]
      BY <1>1, <1>2, <3>3, Registered DEF TypeInv
    <3>4. QED
      BY <3>2, <3>3
  <2>2. UNCHANGED got
    BY <1>2 DEF Register
  <2>3. QED
    BY <2>1, <2>2, KeptIs, KeptIsNext
<1>3. ASSUME UNCHANGED <<m_awaiters, got>> PROVE k \in Kept'
  BY <1>3, KeptIs, KeptIsNext
<1>4. ASSUME NEW w \in Waiters, Await(w) PROVE UNCHANGED <<m_awaiters, got>>
  BY <1>4 DEF Await
<1>5. CASE PreHandler \/ SetEvent \/ Aside \/ UNCHANGED vars
  BY <1>3, <1>5, AsideLeaves DEF PreHandler, SetEvent, vars, waiting
<1>6. QED
  BY <1>1, <1>2, <1>3, <1>4, <1>5, StepKinds

\* A claimed packet that no waiter will ever see was overwritten by a later one, in the
\* window between the event of its waiter and get_packet_awaiter(): no other step loses one.
THEOREM LostInWindow == Spec => LostOnlyInWindow
<1> DEFINE Safe == \A k \in taken : k \in Kept /\ k \notin Kept' =>
                     event[awaiter] /\ wpc[awaiter] \in {"registered", "ready"}
<1>1. ServeInv /\ [Next]_vars => Safe
  BY PopKeeps, WriteLoses, OthersKeep
<1>2. ServeInv /\ [Next]_vars => [Safe]_vars
  BY <1>1
<1>3. QED
  BY InitServe, NextServe, <1>2, PTL DEF Spec, LostOnlyInWindow
-----------------------------------------------------------------------------
(* What a waiter finds when set() resumes it on the network thread.         *)

\* A pop leaves the front entry of every other waiter where it is.
LEMMA PopFronts ==
  ASSUME TypeInv, WakeInv, NEW w \in Waiters, PopStep(w), NEW v \in Waiters, v # w,
         AtFront(v)
  PROVE  Queue(v)' = Queue(v)
<1>1. AtFront(w) /\ PopFront(w) /\ UNCHANGED wtype
  BY PopStepIs
<1>2. wtype[v] # wtype[w] /\ wtype[v] \in Types
  BY <1>1 DEF AtFront, Queue, TypeInv, TypeOK
<1>3. QED
  BY <1>1, <1>2, Popped DEF Queue, TypeInv

LEMMA PopOffer ==
  ASSUME TypeInv, WakeInv, OfferInv, NEW w \in Waiters, PopStep(w)
  PROVE  OfferInv'
<1>1. /\ AtFront(w) /\ event[w] /\ PopFront(w) /\ net' \in {net, "idle"}
      /\ net = "resume" /\ net' = "resume" => wpc[w] = "ready"
      /\ UNCHANGED <<wtype, event, packet, awaiter>>
  BY PopStepIs
<1>2. WakeInv' /\ TypeInv'
  BY PopWake
<1>3. wpc'[w] = "done" /\ \A v \in Waiters \ {w} : wpc'[v] = wpc[v]
  BY <1>1 DEF PopFront, GotoW, TypeInv, TypeOK
<1>4. FrontAtSet'
  <2>1. SUFFICES ASSUME net' = "set", AtFront(awaiter)' PROVE FrontAtSet'
    BY <1>1 DEF FrontAtSet
  <2>2. /\ net = "set" /\ awaiter \in Waiters /\ awaiter' = awaiter
        /\ AtFront(awaiter) \/ wpc[awaiter] = "done"
    BY <1>1, <2>1 DEF WakeInv, PickedIsFront
  <2>3. wpc'[awaiter] \in InQueue
    <3>1. wtype'[awaiter] \in Types /\ 1 \in 1..Len(m_awaiters'[wtype'[awaiter]])
      <4>1. wtype'[awaiter] \in Types /\ m_awaiters'[wtype'[awaiter]] \in Seq(Entries)
        BY <1>2, <2>2 DEF TypeInv, TypeOK
      <4>2. m_awaiters'[wtype'[awaiter]] # <<>>
        BY <2>1, <2>2 DEF AtFront, Queue
      <4>3. QED
        BY <4>1, <4>2, LenProperties, EmptySeq
    <3>2. QED
      BY <1>2, <2>1, <2>2, <3>1 DEF WakeInv, EntriesWait, AtFront, Queue
  <2>4. awaiter # w /\ AtFront(awaiter)
    BY <1>3, <2>2, <2>3 DEF InQueue
  <2>5. Queue(awaiter)' = Queue(awaiter)
    BY <2>2, <2>4, PopFronts
  <2>6. QED
    BY <1>1, <2>2, <2>4, <2>5 DEF OfferInv, FrontAtSet, packet
<1>5. ResumeData'
  <2>1. SUFFICES ASSUME net' = "resume" PROVE ResumeData'
    BY DEF ResumeData
  <2>2. /\ net = "resume" /\ awaiter \in Waiters /\ wpc[awaiter] = "resumed"
        /\ awaiter # w /\ awaiter' = awaiter
    BY <1>1, <2>1 DEF WakeInv, PickedIsFront
  <2>3. AtFront(awaiter)
    BY <2>2, WokenAtFront
  <2>4. Queue(awaiter)' = Queue(awaiter)
    BY <2>2, <2>3, PopFronts
  <2>5. QED
    BY <1>1, <2>2, <2>4 DEF OfferInv, ResumeData, packet
<1>6. Held'
  BY <1>1 DEF OfferInv, Held, packet
<1>7. InlinePayloadIsHeld'
  <2>1. CASE Pop(w)
    BY <2>1 DEF Pop, OfferInv, InlinePayloadIsHeld
  <2>2. CASE awaiter = w /\ ResumeInline
    <3>1. got'[awaiter] \in {0, packets} /\ packets \in unreleased
      <4>1. got'[w] = Queue(w)[1].data
        BY <1>1, Popped DEF Queue, TypeInv, TypeOK
      <4>2. QED
        BY <2>2, <4>1 DEF ResumeInline, OfferInv, ResumeData, Held
    <3>2. ~ReadsReleased(awaiter)
      BY <3>1 DEF ReadsReleased
    <3>3. QED
      BY <2>2, <3>2 DEF ResumeInline, OfferInv, InlinePayloadIsHeld
  <2>3. QED
    BY <2>1, <2>2 DEF PopStep
<1>8. QED
  BY <1>4, <1>5, <1>6, <1>7 DEF OfferInv

\* A step that leaves the network thread, and the entry it points to, as they are.
LEMMA StillOffer ==
  ASSUME OfferInv, UNCHANGED <<net, awaiter, packet, event, fault>>,
         net = "set" /\ AtFront(awaiter)' => AtFront(awaiter),
         net \in {"set", "resume"} /\ AtFront(awaiter) => Queue(awaiter)'[1] = Queue(awaiter)[1],
         net = "resume" => AtFront(awaiter)
  PROVE  OfferInv'
<1>1. FrontAtSet'
  BY DEF OfferInv, FrontAtSet, packet
<1>2. ResumeData'
  BY DEF OfferInv, ResumeData, packet
<1>3. Held' /\ InlinePayloadIsHeld'
  BY DEF OfferInv, Held, InlinePayloadIsHeld, packet
<1>4. QED
  BY <1>1, <1>2, <1>3 DEF OfferInv

LEMMA RegisterOffer ==
  ASSUME TypeInv, WakeInv, OfferInv, NEW w \in Waiters, Register(w)
  PROVE  OfferInv'
<1> DEFINE y == wtype[w]  q == m_awaiters[y]  r == m_awaiters'[y]
<1>1. /\ \A z \in Types : z # y => m_awaiters'[z] = m_awaiters[z]
      /\ Len(q) \in Nat /\ Len(r) = Len(q) + 1
      /\ \A n \in 1..Len(q) : r[n] = q[n]
      /\ r[Len(q) + 1].w = w
  <2>1. [w |-> w, data |-> 0].w = w
    OBVIOUS
  <2>2. QED
    BY <2>1, Registered DEF TypeInv
<1>2. /\ UNCHANGED <<net, awaiter, packet, event, fault, wtype>> /\ wpc[w] = "start" /\ y \in Types
      /\ wtype \in [Waiters -> Types]
  BY DEF Register, TypeInv, TypeOK
<1>3. SUFFICES ASSUME net \in {"set", "resume"}
               PROVE  /\ net = "set" /\ AtFront(awaiter)' => AtFront(awaiter)
                      /\ AtFront(awaiter) => Queue(awaiter)'[1] = Queue(awaiter)[1]
                      /\ net = "resume" => AtFront(awaiter)
  BY <1>2, StillOffer
<1>4. awaiter \in Waiters /\ awaiter # w /\ wtype[awaiter] \in Types
  <2>1. /\ awaiter \in Waiters
        /\ wpc[awaiter] \in {"done", "resumed"} \/ AtFront(awaiter)
    BY <1>3 DEF WakeInv, PickedIsFront
  <2>2. AtFront(awaiter) => wpc[awaiter] \in InQueue
    <3>1. SUFFICES ASSUME AtFront(awaiter) PROVE wpc[awaiter] \in InQueue
      OBVIOUS
    <3>2. wtype[awaiter] \in Types /\ 1 \in 1..Len(m_awaiters[wtype[awaiter]])
      BY <1>2, <2>1, <3>1, QueueType DEF TypeInv, AtFront, Queue
    <3>3. QED
      BY <3>1, <3>2 DEF WakeInv, EntriesWait, AtFront, Queue
  <2>3. QED
    BY <1>2, <2>1, <2>2 DEF InQueue
<1>5. net = "resume" => AtFront(awaiter)
  BY <1>4, WokenAtFront DEF WakeInv, PickedIsFront
<1>6. CASE wtype[awaiter] # y
  BY <1>1, <1>2, <1>4, <1>5, <1>6 DEF AtFront, Queue
<1>7. CASE wtype[awaiter] = y /\ Len(q) = 0
  <2>1. ~AtFront(awaiter)
    BY <1>2, <1>7, QueueType DEF TypeInv, AtFront, Queue
  <2>2. r[1].w = w
    BY <1>1, <1>7
  <2>3. ~AtFront(awaiter)'
    BY <1>2, <1>4, <1>7, <2>2 DEF AtFront, Queue
  <2>4. QED
    BY <1>5, <2>1, <2>3
<1>8. CASE wtype[awaiter] = y /\ Len(q) # 0
  <2>1. r[1] = q[1] /\ q # <<>>
    BY <1>1, <1>2, <1>8, QueueType DEF TypeInv
  <2>2. QED
    BY <1>2, <1>5, <1>8, <2>1 DEF AtFront, Queue
<1>9. QED
  BY <1>6, <1>7, <1>8

LEMMA WriteOffer ==
  ASSUME TypeInv, WakeInv, DataWakes, OfferInv, Write
  PROVE  OfferInv'
<1>1. /\ net = "write" /\ net' = "set" /\ UNCHANGED <<wpc, wtype, event, packet, awaiter>>
      /\ fault' \in {fault, "danglingAwaiter"}
  BY DEF Write
<1>2. /\ \A y \in Types : Len(m_awaiters'[y]) = Len(m_awaiters[y])
      /\ \A y \in Types : \A n \in 1..Len(m_awaiters[y]) :
           /\ m_awaiters'[y][n].w = m_awaiters[y][n].w
           /\ m_awaiters'[y][n].data =
                IF kind = "good" /\ y = ptype /\ m_awaiters[y][n].w = awaiter
                THEN packets ELSE m_awaiters[y][n].data
      /\ m_awaiters' \in [Types -> Seq(Entries)]
  BY Written
<1>3. FrontAtSet'
  <2>1. SUFFICES ASSUME AtFront(awaiter)'
                 PROVE  /\ kind = "good" => Queue(awaiter)'[1].data = packets
                        /\ Queue(awaiter)'[1].data # 0 =>
                             Queue(awaiter)'[1].data = packets \/ event[awaiter]
    BY <1>1 DEF FrontAtSet, packet
  <2>2. awaiter \in Waiters /\ wtype[awaiter] = ptype /\ ptype \in Types
    BY <1>1, EntryIsFront
  <2>3. m_awaiters'[ptype] # <<>> /\ m_awaiters'[ptype][1].w = awaiter
    BY <1>1, <2>1, <2>2 DEF AtFront, Queue
  <2>4. 1 \in 1..Len(m_awaiters[ptype])
    <3>1. m_awaiters'[ptype] \in Seq(Entries)
      BY <1>2, <2>2
    <3>2. Len(m_awaiters'[ptype]) \in Nat \ {0}
      BY <2>3, <3>1, LenProperties, EmptySeq
    <3>3. QED
      BY <1>2, <2>2, <3>2
  <2>5. m_awaiters[ptype][1].w = awaiter
    BY <1>2, <2>2, <2>3, <2>4
  <2>6. m_awaiters'[ptype][1].data = IF kind = "good" THEN packets ELSE m_awaiters[ptype][1].data
    BY <1>2, <2>2, <2>4, <2>5
  <2>7. m_awaiters[ptype][1].data # 0 => event[awaiter]
    BY <1>1, <2>2, <2>4, <2>5 DEF DataWakes
  <2>8. QED
    BY <1>1, <2>2, <2>6, <2>7 DEF Queue
<1>4. ResumeData' /\ Held' /\ InlinePayloadIsHeld'
  BY <1>1 DEF OfferInv, ResumeData, Held, InlinePayloadIsHeld, packet
<1>5. QED
  BY <1>3, <1>4 DEF OfferInv

LEMMA SetOffer ==
  ASSUME TypeInv, WakeInv, OfferInv, SetEvent
  PROVE  OfferInv'
<1>1. /\ net = "set" /\ UNCHANGED <<m_awaiters, wtype, packet, awaiter>>
      /\ awaiter \in Waiters /\ wtype[awaiter] = ptype
      /\ EntryAt # {} => AtFront(awaiter)
  BY EntryIsFront DEF SetEvent
<1>2. CASE EntryAt = {}
  <2>1. fault' = "danglingAwaiter" /\ UNCHANGED <<net, event>>
    BY <1>2 DEF SetEvent
  <2>2. QED
    BY <1>1, <2>1 DEF OfferInv, FrontAtSet, ResumeData, Held, InlinePayloadIsHeld, AtFront,
      Queue, packet
<1>3. CASE EntryAt # {}
  <2>1. /\ UNCHANGED fault /\ net' \in {"idle", "resume"}
        /\ net' = "resume" => wpc[awaiter] = "suspended"
    BY <1>3 DEF SetEvent
  <2>2. net' = "resume" => ~event[awaiter]
    BY <1>1, <2>1 DEF WakeInv, WokenHasEvent
  <2>3. ResumeData'
    BY <1>1, <1>3, <2>2 DEF OfferInv, FrontAtSet, ResumeData, Queue, packet
  <2>4. FrontAtSet' /\ Held' /\ InlinePayloadIsHeld'
    BY <1>1, <2>1 DEF OfferInv, FrontAtSet, Held, InlinePayloadIsHeld, packet
  <2>5. QED
    BY <2>3, <2>4 DEF OfferInv
<1>4. QED
  BY <1>2, <1>3

\* Messages are released only while the network thread handles none.
LEMMA AsideOffer ==
  ASSUME TypeInv, WakeInv, OfferInv, Aside
  PROVE  OfferInv'
<1>1. /\ UNCHANGED <<waiting, awaiter>>
      /\ net' \in {net, "idle", "pre", "find", "invoke"}
      /\ net' = net \/ net \in {"idle", "lock", "find", "invoke"}
  BY AsideLeaves
<1>2. net \in {"set", "resume"} => UNCHANGED packet
  BY DEF Aside, Receive, ReleaseMessages, HandlerLock, HandlerFind, HandlerFindRace,
    HandlerInvoke, BindEnd, UnbindEnd, BindBegin, packet
<1>3. Held'
  BY DEF Aside, Receive, ReleaseMessages, HandlerLock, HandlerFind, HandlerFindRace,
    HandlerInvoke, BindEnd, UnbindEnd, BindBegin, packet, OfferInv, Held
<1>4. InlinePayloadIsHeld'
  BY DEF Aside, Receive, ReleaseMessages, HandlerLock, HandlerFind, HandlerFindRace,
    HandlerInvoke, BindEnd, UnbindEnd, BindBegin, OfferInv, InlinePayloadIsHeld
<1>5. FrontAtSet' /\ ResumeData'
  BY <1>1, <1>2 DEF OfferInv, FrontAtSet, ResumeData, AtFront, Queue, waiting, packet
<1>6. QED
  BY <1>3, <1>4, <1>5 DEF OfferInv

LEMMA NextOffer ==
  TypeInv /\ WakeInv /\ DataWakes /\ OfferInv /\ [Next]_vars => OfferInv'
<1> SUFFICES ASSUME TypeInv, WakeInv, DataWakes, OfferInv, [Next]_vars PROVE OfferInv'
  OBVIOUS
<1>1. net = "resume" => AtFront(awaiter)
  BY WokenAtFront DEF WakeInv, PickedIsFront
<1>2. ASSUME NEW w \in Waiters, Await(w) PROVE OfferInv'
  BY <1>1, <1>2, StillOffer DEF Await, AtFront, Queue
<1>3. CASE UNCHANGED vars
  BY <1>1, <1>3, StillOffer DEF vars, waiting, AtFront, Queue
<1>4. CASE PreHandler
  BY <1>4 DEF PreHandler, OfferInv, FrontAtSet, ResumeData, Held, InlinePayloadIsHeld,
    packet
<1>5. QED
  BY <1>2, <1>3, <1>4, StepKinds, RegisterOffer, PopOffer, WriteOffer, SetOffer, AsideOffer

LEMMA InitOffer == Init => OfferInv
  BY DEF Init, OfferInv, FrontAtSet, ResumeData, Held, InlinePayloadIsHeld

\* A waiter that set() resumes on the network thread never reads a payload whose message was
\* released, even with the serializer whose payload is a view of the message: its event was
\* not set before, so its entry has the packet being handled, which poll_messages() holds.
THEOREM InlineReadsHeld == Spec => []InlinePayloadIsHeld
<1>1. ServeInv => TypeInv /\ WakeInv /\ DataWakes
  BY DEF ServeInv
<1>2. OfferInv => InlinePayloadIsHeld
  BY DEF OfferInv
<1>3. QED
  BY InitServe, NextServe, InitOffer, NextOffer, <1>1, <1>2, PTL DEF Spec

-----------------------------------------------------------------------------
(* The client implements PacketDelivery.                                    *)

Names(q) == [n \in 1..Len(q) |-> q[n].w]

LEMMA NamesType ==
  ASSUME NEW q \in Seq(Entries)
  PROVE  /\ Names(q) \in Seq(Waiters) /\ Len(Names(q)) = Len(q) /\ Len(q) \in Nat
         /\ \A n \in 1..Len(q) : Names(q)[n] = q[n].w
         /\ Names(q) = <<>> <=> q = <<>>
         /\ q # <<>> => Head(Names(q)) = q[1].w
<1>1. Len(q) \in Nat /\ \A n \in 1..Len(q) : q[n] \in Entries
  BY LenProperties, ElementOfSeq
<1>2. Names(q) \in [1..Len(q) -> Waiters]
  BY <1>1 DEF Names, Entries
<1>3. Names(q) \in Seq(Waiters) /\ Len(Names(q)) = Len(q)
  BY <1>1, <1>2
<1>4. \A n \in 1..Len(q) : Names(q)[n] = q[n].w
  BY DEF Names
<1>5. Names(q) = <<>> <=> q = <<>>
  BY <1>1, <1>3, EmptySeq
<1>6. q # <<>> => Head(Names(q)) = q[1].w
  <2>1. SUFFICES ASSUME q # <<>> PROVE Head(Names(q)) = q[1].w
    OBVIOUS
  <2>2. 1 \in 1..Len(q) /\ Names(q) # <<>>
    BY <1>1, <1>5, <2>1, EmptySeq
  <2>3. Head(Names(q)) = Names(q)[1]
    BY <1>3, <2>2
  <2>4. QED
    BY <1>4, <2>2, <2>3
<1>7. QED
  BY <1>1, <1>3, <1>4, <1>5, <1>6

LEMMA NamesAppend ==
  ASSUME NEW q \in Seq(Entries), NEW r \in Seq(Entries), NEW w \in Waiters,
         Len(r) = Len(q) + 1, \A n \in 1..Len(q) : r[n] = q[n], r[Len(q) + 1].w = w
  PROVE  Names(r) = Append(Names(q), w)
<1>1. /\ Names(q) \in Seq(Waiters) /\ Len(Names(q)) = Len(q) /\ Len(q) \in Nat
      /\ \A n \in 1..Len(q) : Names(q)[n] = q[n].w
      /\ Names(r) \in Seq(Waiters) /\ Len(Names(r)) = Len(r)
      /\ \A n \in 1..Len(r) : Names(r)[n] = r[n].w
  BY NamesType
<1>2. /\ Append(Names(q), w) \in Seq(Waiters) /\ Len(Append(Names(q), w)) = Len(r)
      /\ \A n \in 1..Len(q) : Append(Names(q), w)[n] = Names(q)[n]
      /\ Append(Names(q), w)[Len(q) + 1] = w
  BY <1>1, AppendProperties
<1>3. ASSUME NEW n \in 1..Len(r) PROVE Names(r)[n] = Append(Names(q), w)[n]
  <2>1. n \in 1..Len(q) \/ n = Len(q) + 1
    BY <1>1
  <2>2. QED
    BY <1>1, <1>2, <2>1
<1>4. QED
  BY <1>1, <1>2, <1>3, SeqEqual

LEMMA NamesTail ==
  ASSUME NEW q \in Seq(Entries), NEW r \in Seq(Entries), q # <<>>,
         Len(r) = Len(q) - 1, \A n \in 1..Len(r) : r[n] = q[n + 1]
  PROVE  Names(r) = Tail(Names(q))
<1>1. /\ Names(q) \in Seq(Waiters) /\ Len(Names(q)) = Len(q) /\ Len(q) \in Nat
      /\ \A n \in 1..Len(q) : Names(q)[n] = q[n].w
      /\ Names(r) \in Seq(Waiters) /\ Len(Names(r)) = Len(r)
      /\ \A n \in 1..Len(r) : Names(r)[n] = r[n].w
      /\ Names(q) # <<>>
  BY NamesType
<1>2. /\ Tail(Names(q)) \in Seq(Waiters) /\ Len(Tail(Names(q))) = Len(r)
      /\ \A n \in 1..Len(r) : Tail(Names(q))[n] = Names(q)[n + 1]
  BY <1>1, HeadTailProperties
<1>3. ASSUME NEW n \in 1..Len(r) PROVE Names(r)[n] = Tail(Names(q))[n]
  <2>1. n + 1 \in 1..Len(q)
    BY <1>1
  <2>2. QED
    BY <1>1, <1>2, <2>1
<1>4. QED
  BY <1>1, <1>2, <1>3, SeqEqual

\* The mapped state, by names of its own.
Lines  == [y \in Types |-> LineOf(y)]
Offers == [y \in Types |-> OfferOf(y)]
States == [w \in Waiters |-> StateOf(w)]
DeliveryStep == [Delivery!Next]_(Delivery!vars)

LEMMA InitDelivery == Init => Delivery!Init
<1> SUFFICES ASSUME Init PROVE Delivery!Init
  OBVIOUS
<1>1. \A y \in Types : m_awaiters[y] = <<>> /\ LineOf(y) = <<>> /\ OfferOf(y) = 0
  BY DEF Init, LineOf, OfferOf
<1>2. \A w \in Waiters : StateOf(w) = "new"
  BY DEF Init, StateOf
<1>3. StageOf(net) = "over"
  BY DEF Init, StageOf
<1>4. QED
  BY <1>1, <1>2, <1>3 DEF Init, Delivery!Init

\* The line and the offer of a type, in terms of its queue.
LEMMA FrontOf ==
  ASSUME TypeInv, NEW y \in Types
  PROVE  /\ LineOf(y) = <<>> <=> m_awaiters[y] = <<>>
         /\ m_awaiters[y] = <<>> => OfferOf(y) = 0
         /\ m_awaiters[y] # <<>> => /\ Head(LineOf(y)) = m_awaiters[y][1].w
                                    /\ OfferOf(y) = m_awaiters[y][1].data
<1>1. m_awaiters[y] \in Seq(Entries)
  BY DEF TypeInv, TypeOK
<1>2. LineOf(y) = Names(m_awaiters[y])
  BY DEF LineOf, Names
<1>3. QED
  BY <1>1, <1>2, NamesType DEF OfferOf

\* What is the same in two states is the same for the application.
LEMMA SameQueues == ASSUME UNCHANGED m_awaiters PROVE UNCHANGED <<Lines, Offers>>
  BY DEF Lines, Offers, LineOf, OfferOf
LEMMA SameStates == ASSUME UNCHANGED <<wpc, event>> PROVE UNCHANGED States
  BY DEF States, StateOf

LEMMA DeliveryStutters ==
  ASSUME UNCHANGED <<Lines, Offers, States, got, packets, ptype, kind, handled>>,
         StageOf(net)' = StageOf(net)
  PROVE  DeliveryStep
  BY DEF Lines, Offers, States, DeliveryStep, Delivery!vars

LEMMA RegisterDelivers ==
  ASSUME TypeInv, WakeInv, NEW w \in Waiters, Register(w)
  PROVE  DeliveryStep
<1>1. PICK y \in Types : y = wtype[w]
  BY DEF TypeInv, TypeOK
<1> DEFINE q == m_awaiters[y]  r == m_awaiters'[y]
<1>2. /\ m_awaiters' \in [Types -> Seq(Entries)]
      /\ \A z \in Types : z # y => m_awaiters'[z] = m_awaiters[z]
      /\ Len(q) \in Nat /\ Len(r) = Len(q) + 1
      /\ \A n \in 1..Len(q) : r[n] = q[n]
      /\ r[Len(q) + 1].w = w /\ r[Len(q) + 1].data = 0
  <2>1. [w |-> w, data |-> 0].w = w /\ [w |-> w, data |-> 0].data = 0
    OBVIOUS
  <2>2. QED
    BY <1>1, <2>1, Registered DEF TypeInv
<1>3. /\ q \in Seq(Entries) /\ r \in Seq(Entries)
      /\ wpc[w] = "start" /\ wpc'[w] = "registered" /\ \A v \in Waiters \ {w} : wpc'[v] = wpc[v]
      /\ UNCHANGED <<event, got, net, packet, hist>>
  BY <1>2 DEF Register, GotoW, TypeInv, TypeOK
<1>4. ~event[w]
  BY <1>3 DEF WakeInv, EventIsFront, InQueue
<1>5. StateOf(w) = "new" /\ StateOf(w)' = "waiting"
  BY <1>3, <1>4 DEF StateOf
<1>6. States' = [States EXCEPT ![w] = "waiting"]
  BY <1>3, <1>5 DEF States, StateOf
<1>7. LineOf(y)' = Append(LineOf(y), w)
  BY <1>2, <1>3, NamesAppend DEF LineOf, Names
<1>8. \A z \in Types \ {y} : LineOf(z)' = LineOf(z) /\ OfferOf(z)' = OfferOf(z)
  BY <1>2 DEF LineOf, OfferOf
<1>9. Lines' = [Lines EXCEPT ![y] = Append(@, w)]
  BY <1>3, <1>7, <1>8 DEF Lines
<1>10. OfferOf(y)' = OfferOf(y)
  <2>1. r # <<>> /\ Head(r) = r[1]
    BY <1>2, <1>3, EmptySeq
  <2>2. CASE Len(q) = 0
    BY <1>2, <1>3, <2>1, <2>2, EmptySeq DEF OfferOf
  <2>3. CASE Len(q) # 0
    <3>1. q # <<>> /\ Head(q) = q[1] /\ r[1] = q[1]
      BY <1>2, <1>3, <2>3, EmptySeq
    <3>2. QED
      BY <2>1, <3>1 DEF OfferOf
  <2>4. QED
    BY <2>2, <2>3
<1>11. UNCHANGED Offers
  BY <1>8, <1>10 DEF Offers
<1>12. Delivery!Wait(w, y)
  BY <1>3, <1>5, <1>6, <1>9, <1>11 DEF Delivery!Wait, Lines, Offers, States, packet, hist
<1>13. QED
  BY <1>3, <1>12 DEF DeliveryStep, Delivery!Next

LEMMA PopDelivers ==
  ASSUME TypeInv, WakeInv, DataInv, NEW w \in Waiters, PopStep(w)
  PROVE  DeliveryStep
<1>1. PICK y \in Types : y = wtype[w]
  BY DEF TypeInv, TypeOK
<1> DEFINE q == m_awaiters[y]  r == m_awaiters'[y]
<1>2. /\ AtFront(w) /\ PopFront(w) /\ event[w] /\ wpc[w] \in {"ready", "resumed"}
      /\ net' \in {net, "idle"} /\ (net' = "idle" /\ net # "idle" => net = "resume")
      /\ UNCHANGED <<event, packet, hist>>
  BY PopStepIs
<1>3. /\ m_awaiters' \in [Types -> Seq(Entries)]
      /\ \A z \in Types : z # y => m_awaiters'[z] = m_awaiters[z]
      /\ Len(q) \in Nat \ {0} /\ Len(r) = Len(q) - 1
      /\ \A n \in 1..Len(r) : r[n] = q[n + 1]
      /\ got' = [got EXCEPT ![w] = q[1].data] /\ wpc' = [wpc EXCEPT ![w] = "done"]
  BY <1>1, <1>2, Popped DEF TypeInv
<1>4. /\ q \in Seq(Entries) /\ r \in Seq(Entries) /\ q # <<>> /\ q[1].w = w
      /\ wpc'[w] = "done" /\ \A v \in Waiters \ {w} : wpc'[v] = wpc[v]
  BY <1>1, <1>2, <1>3 DEF TypeInv, TypeOK, AtFront, Queue
<1>5. LineOf(y) # <<>> /\ Head(LineOf(y)) = w /\ OfferOf(y) = q[1].data
  BY <1>4, FrontOf
<1>6. StateOf(w) = "woken" /\ StateOf(w)' = "returned"
  BY <1>2, <1>4 DEF StateOf
<1>7. States' = [States EXCEPT ![w] = "returned"]
  BY <1>2, <1>4, <1>6 DEF States, StateOf
<1>8. \A z \in Types \ {y} : LineOf(z)' = LineOf(z) /\ OfferOf(z)' = OfferOf(z)
  BY <1>3 DEF LineOf, OfferOf
<1>9. LineOf(y)' = Tail(LineOf(y))
  BY <1>3, <1>4, NamesTail DEF LineOf, Names
<1>10. Lines' = [Lines EXCEPT ![y] = Tail(@)]
  BY <1>4, <1>8, <1>9 DEF Lines
<1>11. OfferOf(y)' = 0
  <2>1. r # <<>> => Head(r) = r[1] /\ 1 \in 1..Len(r)
    BY <1>4, LenProperties, EmptySeq
  <2>2. QED
    BY <1>1, <2>1, PopClears DEF OfferOf
<1>12. Offers' = [Offers EXCEPT ![y] = 0]
  BY <1>4, <1>8, <1>11 DEF Offers
<1>13. StageOf(net)' = StageOf(net)
  BY <1>2 DEF StageOf
<1>14. got' = [got EXCEPT ![w] = Offers[y]]
  BY <1>3, <1>4, <1>5 DEF Offers
<1>15. Delivery!Return(w, y)
  BY <1>2, <1>4, <1>5, <1>6, <1>7, <1>10, <1>12, <1>13, <1>14
    DEF Delivery!Return, Lines, Offers, States, packet, hist
<1>16. QED
  BY <1>4, <1>15 DEF DeliveryStep, Delivery!Next

LEMMA PreHandlerDelivers ==
  ASSUME TypeInv, PreHandler
  PROVE  DeliveryStep
<1>1. /\ net = "pre" /\ ptype \in Types /\ UNCHANGED <<waiting, packet, hist>>
      /\ net' = IF m_awaiters[ptype] = <<>> THEN "lock" ELSE "write"
  BY DEF PreHandler, TypeInv, TypeOK
<1>2. UNCHANGED <<Lines, Offers, States>>
  BY <1>1, SameQueues, SameStates DEF waiting
<1>3. CASE m_awaiters[ptype] = <<>>
  <2>1. LineOf(ptype) = <<>> /\ StageOf(net) = "new" /\ StageOf(net)' = "passed"
    BY <1>1, <1>3, FrontOf DEF StageOf
  <2>2. Delivery!Pass
    BY <1>1, <1>2, <2>1 DEF Delivery!Pass, Lines, Offers, States, waiting, packet, hist
  <2>3. QED
    BY <2>2 DEF DeliveryStep, Delivery!Next
<1>4. CASE m_awaiters[ptype] # <<>>
  <2>1. LineOf(ptype) # <<>> /\ StageOf(net) = "new" /\ StageOf(net)' = "offered"
    BY <1>1, <1>4, FrontOf DEF StageOf
  <2>2. Delivery!Offer
    BY <1>1, <1>2, <2>1 DEF Delivery!Offer, Lines, Offers, States, waiting, packet, hist
  <2>3. QED
    BY <2>2 DEF DeliveryStep, Delivery!Next
<1>5. QED
  BY <1>3, <1>4

\* The entry that the network thread points to, as the application sees it.
LEMMA PickedDelivers ==
  ASSUME TypeInv, WakeInv, net \in {"write", "set"}, EntryAt # {}
  PROVE  /\ awaiter \in Waiters /\ ptype \in Types /\ AtFront(awaiter)
         /\ wpc[awaiter] \in InQueue /\ Queue(awaiter) = m_awaiters[ptype]
         /\ LineOf(ptype) # <<>> /\ Head(LineOf(ptype)) = awaiter
         /\ OfferOf(ptype) = m_awaiters[ptype][1].data
         /\ 1 \in 1..Len(m_awaiters[ptype]) /\ StageOf(net) = "offered"
<1>1. /\ awaiter \in Waiters /\ wtype[awaiter] = ptype /\ ptype \in Types
      /\ AtFront(awaiter) /\ wpc[awaiter] \in InQueue
  BY EntryIsFront
<1>2. m_awaiters[ptype] # <<>> /\ m_awaiters[ptype][1].w = awaiter
  BY <1>1 DEF AtFront, Queue
<1>3. 1 \in 1..Len(m_awaiters[ptype])
  BY <1>1, <1>2, QueueType DEF TypeInv
<1>4. QED
  BY <1>1, <1>2, <1>3, FrontOf DEF Queue, StageOf

LEMMA WriteDelivers ==
  ASSUME TypeInv, WakeInv, DataWakes, Write
  PROVE  DeliveryStep
<1>1. /\ net = "write" /\ net' = "set" /\ UNCHANGED <<wpc, wtype, event, got, packet, handled>>
      /\ ptype \in Types
  BY DEF Write, TypeInv, TypeOK
<1>2. StageOf(net) = "offered" /\ StageOf(net)' = "offered" /\ UNCHANGED States
  BY <1>1, SameStates DEF StageOf
<1>3. /\ m_awaiters' \in [Types -> Seq(Entries)]
      /\ \A y \in Types : Len(m_awaiters'[y]) = Len(m_awaiters[y])
      /\ \A y \in Types : \A n \in 1..Len(m_awaiters[y]) :
           /\ m_awaiters'[y][n].w = m_awaiters[y][n].w
           /\ m_awaiters'[y][n].data =
                IF kind = "good" /\ y = ptype /\ m_awaiters[y][n].w = awaiter
                THEN packets ELSE m_awaiters[y][n].data
  BY Written
<1>4. UNCHANGED Lines
  <2>1. ASSUME NEW y \in Types PROVE LineOf(y)' = LineOf(y)
    BY <1>3 DEF LineOf
  <2>2. QED
    BY <2>1 DEF Lines
\* Whose front entry does not change its packet keeps its offer.
<1>5. ASSUME NEW y \in Types,
             m_awaiters[y] # <<>> => m_awaiters'[y][1].data = m_awaiters[y][1].data
      PROVE  OfferOf(y)' = OfferOf(y)
  <2>1. /\ m_awaiters[y] \in Seq(Entries) /\ m_awaiters'[y] \in Seq(Entries)
        /\ m_awaiters'[y] = <<>> <=> m_awaiters[y] = <<>>
    BY <1>3, EmptySeq DEF TypeInv, TypeOK
  <2>2. /\ m_awaiters[y] # <<>> => Head(m_awaiters[y]) = m_awaiters[y][1]
        /\ m_awaiters'[y] # <<>> => Head(m_awaiters'[y]) = m_awaiters'[y][1]
    BY <2>1
  <2>3. QED
    BY <1>5, <2>1, <2>2 DEF OfferOf
<1>6. \A y \in Types : m_awaiters[y] # <<>> => 1 \in 1..Len(m_awaiters[y])
  BY QueueType DEF TypeInv
<1>7. CASE kind # "good" \/ EntryAt = {}
  <2>1. ASSUME NEW y \in Types, m_awaiters[y] # <<>>
        PROVE  m_awaiters'[y][1].data = m_awaiters[y][1].data
    BY <1>3, <1>6, <1>7, <2>1 DEF EntryAt
  <2>2. UNCHANGED Offers
    BY <1>5, <2>1 DEF Offers
  <2>3. QED
    BY <1>1, <1>2, <1>4, <2>2, DeliveryStutters DEF packet
<1>8. CASE kind = "good" /\ EntryAt # {}
  <2>1. /\ awaiter \in Waiters /\ AtFront(awaiter) /\ wpc[awaiter] \in InQueue
        /\ Queue(awaiter) = m_awaiters[ptype]
        /\ LineOf(ptype) # <<>> /\ Head(LineOf(ptype)) = awaiter
        /\ OfferOf(ptype) = m_awaiters[ptype][1].data /\ 1 \in 1..Len(m_awaiters[ptype])
    BY <1>1, <1>8, PickedDelivers
  <2>2. OfferOf(ptype)' = packets
    <3>1. m_awaiters'[ptype][1].data = packets
      BY <1>1, <1>3, <1>8, <2>1 DEF AtFront
    <3>2. m_awaiters'[ptype] # <<>> /\ m_awaiters'[ptype] \in Seq(Entries)
      BY <1>1, <1>3, <2>1, EmptySeq
    <3>3. Head(m_awaiters'[ptype]) = m_awaiters'[ptype][1] /\ ptype' = ptype
      BY <1>1, <3>2 DEF packet
    <3>4. QED
      BY <3>1, <3>2, <3>3 DEF OfferOf
  <2>3. ASSUME NEW y \in Types, y # ptype PROVE OfferOf(y)' = OfferOf(y)
    BY <1>3, <1>5, <1>6, <2>3
  <2>4. Offers' = [Offers EXCEPT ![ptype] = packets]
    BY <1>1, <2>2, <2>3 DEF Offers, packet
  <2>5. OfferOf(ptype) # 0 => StateOf(awaiter) = "woken"
    BY <1>1, <2>1 DEF DataWakes, AtFront, StateOf, InQueue
  <2>6. Delivery!Fill
    BY <1>1, <1>2, <1>4, <1>8, <2>1, <2>4, <2>5
      DEF Delivery!Fill, Lines, Offers, States, packet
  <2>7. QED
    BY <2>6 DEF DeliveryStep, Delivery!Next
<1>9. QED
  BY <1>7, <1>8

LEMMA SetDelivers ==
  ASSUME TypeInv, WakeInv, OfferInv, SetEvent
  PROVE  DeliveryStep
<1>1. /\ net = "set" /\ UNCHANGED <<m_awaiters, wtype, got, packet, hist>>
      /\ wpc \in [Waiters -> WaiterLabels] /\ event \in [Waiters -> BOOLEAN]
  BY DEF SetEvent, TypeInv, TypeOK
<1>2. UNCHANGED <<Lines, Offers>>
  BY <1>1, SameQueues
<1>3. CASE EntryAt = {}
  <2>1. UNCHANGED <<net, event, wpc>>
    BY <1>3 DEF SetEvent
  <2>2. UNCHANGED States
    BY <2>1, SameStates
  <2>3. QED
    BY <1>1, <1>2, <2>1, <2>2, DeliveryStutters DEF packet, hist
<1>4. CASE EntryAt # {}
  <2>1. PICK w \in Waiters : w = awaiter
    BY <1>1, <1>4, PickedDelivers
  <2>2. /\ ptype \in Types /\ AtFront(awaiter) /\ wpc[w] \in InQueue
        /\ Queue(awaiter) = m_awaiters[ptype]
        /\ LineOf(ptype) # <<>> /\ Head(LineOf(ptype)) = w
        /\ OfferOf(ptype) = m_awaiters[ptype][1].data /\ StageOf(net) = "offered"
    BY <1>1, <1>4, <2>1, PickedDelivers
  <2>3. /\ event' = [event EXCEPT ![w] = TRUE]
        /\ \/ net' = "resume" /\ wpc' = [wpc EXCEPT ![w] = "resumed"]
           \/ net' = "idle" /\ UNCHANGED wpc
    BY <1>4, <2>1 DEF SetEvent, GotoW
  <2>4. /\ event'[w] /\ wpc'[w] \in InQueue
        /\ \A v \in Waiters \ {w} : event'[v] = event[v] /\ wpc'[v] = wpc[v]
    BY <1>1, <2>2, <2>3 DEF InQueue
  <2>5. StateOf(w)' = "woken" /\ StageOf(net)' = "over"
    BY <2>3, <2>4 DEF StateOf, StageOf, InQueue
  <2>6. States' = [States EXCEPT ![w] = "woken"]
    BY <2>4, <2>5 DEF States, StateOf
  <2>7. kind = "good" => OfferOf(ptype) = packets
    BY <1>1, <2>2 DEF OfferInv, FrontAtSet
  <2>8. Delivery!Wake
    BY <1>1, <1>2, <2>2, <2>5, <2>6, <2>7
      DEF Delivery!Wake, Lines, Offers, States, packet, hist
  <2>9. QED
    BY <2>8 DEF DeliveryStep, Delivery!Next
<1>5. QED
  BY <1>3, <1>4

LEMMA AsideDelivers ==
  ASSUME TypeInv, Aside
  PROVE  DeliveryStep
<1>1. UNCHANGED waiting
  BY AsideLeaves
<1>2. UNCHANGED <<Lines, Offers, States>> /\ UNCHANGED got
  BY <1>1, SameQueues, SameStates DEF waiting
<1>3. ASSUME NEW y \in Types, NEW k \in {"good", "badPayload", "badHeader"}, Receive(y, k)
      PROVE  DeliveryStep
  <2>1. /\ StageOf(net) = "over" /\ StageOf(net)' \in {"new", "over"}
        /\ packets' = packets + 1 /\ ptype' = y /\ kind' = k /\ UNCHANGED handled
    BY <1>3 DEF Receive, StageOf, hist
  <2>2. Delivery!Arrive(y, k = "good")
    BY <1>2, <2>1 DEF Delivery!Arrive, Lines, Offers, States
  <2>3. (k = "good") \in BOOLEAN
    OBVIOUS
  <2>4. QED
    BY <2>2, <2>3 DEF DeliveryStep, Delivery!Next
\* The packet has been handled, or there was no handler for it.
<1>4. ASSUME UNCHANGED packet, StageOf(net) = "passed", StageOf(net)' = "over",
             \/ UNCHANGED handled
             \/ kind = "good" /\ handled' = handled \cup {packets}
      PROVE  DeliveryStep
  <2>1. Delivery!Handle
    BY <1>2, <1>4 DEF Delivery!Handle, Lines, Offers, States, packet
  <2>2. QED
    BY <2>1 DEF DeliveryStep, Delivery!Next
<1>5. CASE HandlerFind
  <2>1. UNCHANGED packet /\ UNCHANGED handled /\ net = "find" /\ net' \in {"idle", "invoke"}
    BY <1>5 DEF HandlerFind, hist
  <2>2. CASE net' = "idle"
    BY <1>4, <2>1, <2>2 DEF StageOf
  <2>3. CASE net' = "invoke"
    <3>1. StageOf(net)' = StageOf(net)
      BY <2>1, <2>3 DEF StageOf
    <3>2. QED
      BY <1>2, <2>1, <3>1, DeliveryStutters DEF packet
  <2>4. QED
    BY <2>1, <2>2, <2>3
<1>6. CASE HandlerInvoke
  <2>1. /\ UNCHANGED packet /\ net = "invoke" /\ net' = "idle"
        /\ \/ UNCHANGED handled
           \/ kind = "good" /\ handled' = handled \cup {packets}
    BY <1>6 DEF HandlerInvoke
  <2>2. QED
    BY <1>4, <2>1 DEF StageOf
<1>7. ASSUME UNCHANGED <<packets, ptype, kind, handled>>,
             net' = net \/ (net = "lock" /\ net' = "find")
      PROVE  DeliveryStep
  <2>1. StageOf(net)' = StageOf(net)
    BY <1>7 DEF StageOf
  <2>2. QED
    BY <1>2, <1>7, <2>1, DeliveryStutters
<1>8. CASE ReleaseMessages \/ HandlerLock \/ HandlerFindRace \/ BindEnd \/ UnbindEnd
  BY <1>7, <1>8 DEF ReleaseMessages, HandlerLock, HandlerFindRace, BindEnd, UnbindEnd,
    packet, hist
<1>9. ASSUME NEW op \in {"bind", "unbind"}, NEW y \in Types, BindBegin(op, y)
      PROVE  DeliveryStep
  BY <1>7, <1>9 DEF BindBegin, packet, hist
<1>10. QED
  BY <1>3, <1>5, <1>6, <1>8, <1>9 DEF Aside

LEMMA NextDelivers ==
  ASSUME TypeInv, WakeInv, DataInv, DataWakes, OfferInv, [Next]_vars
  PROVE  DeliveryStep
<1>1. ASSUME NEW w \in Waiters, Await(w) PROVE DeliveryStep
  <2>1. /\ UNCHANGED <<m_awaiters, event, got, net, packet, hist>> /\ wpc[w] = "registered"
        /\ wpc'[w] \in {"ready", "suspended"} /\ \A v \in Waiters \ {w} : wpc'[v] = wpc[v]
    BY <1>1 DEF Await, GotoW, TypeInv, TypeOK
  <2>2. ASSUME NEW v \in Waiters PROVE StateOf(v)' = StateOf(v)
    BY <2>1 DEF StateOf
  <2>3. UNCHANGED States
    BY <2>2 DEF States
  <2>4. QED
    BY <2>1, <2>3, SameQueues, DeliveryStutters DEF packet, hist
<1>2. CASE UNCHANGED vars
  BY <1>2, SameQueues, SameStates, DeliveryStutters DEF vars, waiting, packet, hist
<1>3. QED
  BY <1>1, <1>2, StepKinds, RegisterDelivers, PopDelivers, PreHandlerDelivers,
    WriteDelivers, SetDelivers, AsideDelivers

\* The packet client implements PacketDelivery, for any number of waiters, types, packets and
\* bindings and either serializer: a packet goes to the first in line or, if there is nobody
\* in line, to a handler; a waiter returns only after it was woken, with the latest packet
\* offered to it; and an offer that nobody was told of is never replaced.  A step that ends the
\* process is no exception, and none follows it.
THEOREM ClientImplementsDelivery == Spec => ImplementsDelivery
<1>1. ServeInv => TypeInv /\ WakeInv /\ DataInv /\ DataWakes
  BY DEF ServeInv
<1>2. ServeInv /\ OfferInv /\ [Next]_vars => [Delivery!Next]_(Delivery!vars)
  BY <1>1, NextDelivers DEF DeliveryStep
<1>3. QED
  BY InitServe, NextServe, InitOffer, NextOffer, InitDelivery, <1>1, <1>2, PTL
    DEF Spec, ImplementsDelivery, Delivery!Spec
=============================================================================
