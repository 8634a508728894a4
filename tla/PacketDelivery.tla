--------------------------- MODULE PacketDelivery ---------------------------
(***************************************************************************)
(* What AsyncUdpPacketClient promises its application about the packets it *)
(* receives.  Those who wait for a type stand in line.  A packet is passed *)
(* to a handler if nobody was in line when it came; else it is offered to  *)
(* the first in line, who is woken, and returns with the latest packet     *)
(* that was offered.  Threads, coroutines, events, locks, bindings and     *)
(* messages are not visible here.                                          *)
(***************************************************************************)
EXTENDS Naturals, Sequences

CONSTANTS Waiters, Types

VARIABLES
  line,       \* per type, those who wait for it, in the order in which they asked
  offer,      \* per type, the packet offered to the first in line (0: none)
  state,      \* of each waiter: "new", "waiting", "woken", "returned"
  got,        \* the packet it returned with (0: none)
  arrived,    \* packets so far; the last one is on its way
  type, good, \* its type, and whether its payload can be read
  stage,      \* its stage: "new", "offered", "passed", "over"
  handled     \* packets given to a handler

vars == <<line, offer, state, got, arrived, type, good, stage, handled>>

Init ==
  /\ line = [y \in Types |-> <<>>] /\ offer = [y \in Types |-> 0]
  /\ state = [w \in Waiters |-> "new"] /\ got = [w \in Waiters |-> 0]
  /\ arrived = 0 /\ type \in Types /\ good = TRUE /\ stage = "over" /\ handled = {}

Wait(w, y) ==
  /\ state[w] = "new"
  /\ state' = [state EXCEPT ![w] = "waiting"]
  /\ line' = [line EXCEPT ![y] = Append(@, w)]
  /\ UNCHANGED <<offer, got, arrived, type, good, stage, handled>>

\* One packet at a time; one without a valid header goes no further.
Arrive(y, g) ==
  /\ stage = "over"
  /\ arrived' = arrived + 1
  /\ type' = y /\ good' = g
  /\ stage' \in {"new", "over"}
  /\ UNCHANGED <<line, offer, state, got, handled>>

Pass ==
  /\ stage = "new" /\ line[type] = <<>>
  /\ stage' = "passed"
  /\ UNCHANGED <<line, offer, state, got, arrived, type, good, handled>>

Offer ==
  /\ stage = "new" /\ line[type] # <<>>
  /\ stage' = "offered"
  /\ UNCHANGED <<line, offer, state, got, arrived, type, good, handled>>

\* An earlier offer is replaced only if the first in line already knows of it.
Fill ==
  /\ stage = "offered" /\ good /\ line[type] # <<>>
  /\ offer[type] # 0 => state[Head(line[type])] = "woken"
  /\ offer' = [offer EXCEPT ![type] = arrived]
  /\ UNCHANGED <<line, state, got, arrived, type, good, stage, handled>>

\* The first in line is woken with the packet, or with none that can be read.
Wake ==
  /\ stage = "offered" /\ line[type] # <<>>
  /\ good => offer[type] = arrived
  /\ state' = [state EXCEPT ![Head(line[type])] = "woken"]
  /\ stage' = "over"
  /\ UNCHANGED <<line, offer, got, arrived, type, good, handled>>

Return(w, y) ==
  /\ line[y] # <<>> /\ Head(line[y]) = w /\ state[w] = "woken"
  /\ got' = [got EXCEPT ![w] = offer[y]]
  /\ line' = [line EXCEPT ![y] = Tail(@)]
  /\ offer' = [offer EXCEPT ![y] = 0]
  /\ state' = [state EXCEPT ![w] = "returned"]
  /\ UNCHANGED <<arrived, type, good, stage, handled>>

\* A packet that was passed on may find no handler.
Handle ==
  /\ stage = "passed"
  /\ stage' = "over"
  /\ \/ handled' = handled
     \/ good /\ handled' = handled \cup {arrived}
  /\ UNCHANGED <<line, offer, state, got, arrived, type, good>>

Next ==
  \/ \E w \in Waiters, y \in Types : Wait(w, y) \/ Return(w, y)
  \/ \E y \in Types, g \in BOOLEAN : Arrive(y, g)
  \/ Pass \/ Offer \/ Fill \/ Wake \/ Handle

Spec == Init /\ [][Next]_vars
=============================================================================
