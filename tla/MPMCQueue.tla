------------------------------ MODULE MPMCQueue ------------------------------
(***************************************************************************)
(* The multi-producer multi-consumer queue of                              *)
(* include/concurrency/mpmcqueue.hpp.  Each emplace and each pop draws a   *)
(* ticket with fetch_add and spins until the stamp of its slot (ticket_[]) *)
(* says it is its turn.  Objects are named by the ticket of the emplace    *)
(* that constructs them.  A stamp only grows and a thread waits for one    *)
(* exact value, so reading it late is only a longer wait and needs no      *)
(* variable; the release store of a stamp carries the slot's content.      *)
(***************************************************************************)
EXTENDS Naturals, FiniteSets

CONSTANTS
  Producers, Consumers,
  Capacity,
  MaxTickets,  \* bound: calls of emplace, and of pop, in a run
  Raw,         \* a slot in which no object was ever constructed
  Moved,       \* a slot with an object that was moved from and is never destroyed
  None         \* no object

ASSUME MPMCAssumption ==
  /\ Capacity \in Nat \ {0} /\ MaxTickets \in Nat
  /\ Producers \cap Consumers = {}
  /\ Raw \notin Nat /\ Moved \notin Nat /\ None \notin Nat /\ Raw # Moved

Threads == Producers \cup Consumers
Slots   == 0..(Capacity - 1)
Tickets == 0..(MaxTickets - 1)

VARIABLES
  head, tail,  \* head_ and tail_, the next tickets of pop and emplace
  stamp,       \* ticket_
  slots,       \* data_
  pc,          \* where a thread stands in its call
  ticket,      \* the ticket of the thread's running or last call
  got,         \* the object a consumer moved out last
  alive        \* FALSE once the queue was destroyed

vars == <<head, tail, stamp, slots, pc, ticket, got, alive>>

idx(n)  == n % Capacity
turn(n) == n \div Capacity

\* A mutant: a producer takes any slot that is not full, whatever its turn.
FreeAnyTurn(n) == stamp[idx(n)] % 2 = 0

\* A mutant: a producer does not wait for the object of the turn before to be popped.
FreeTooEarly(n) == stamp[idx(n)] + 1 >= 2 * turn(n)

\* A mutant: a consumer takes any full slot, whatever its turn.
FullAnyTurn(n) == stamp[idx(n)] % 2 = 1

\* The slot of ticket n is free for its emplace, and full for its pop.
Free(n) == stamp[idx(n)] = 2 * turn(n)
Full(n) == stamp[idx(n)] = 2 * turn(n) + 1

\* Thread t goes from one step of its call to the next.
Goes(t, from, to) == pc[t] = from /\ pc' = [pc EXCEPT ![t] = to]

-----------------------------------------------------------------------------
\* emplace

ClaimTail(p) ==
  /\ alive
  /\ tail < MaxTickets
  /\ Goes(p, "idle", "await")
  /\ ticket' = [ticket EXCEPT ![p] = tail]
  /\ tail' = tail + 1
  /\ UNCHANGED <<head, stamp, slots, got, alive>>

SeeFree(p) ==
  /\ Free(ticket[p])
  /\ Goes(p, "await", "access")
  /\ UNCHANGED <<head, tail, stamp, slots, ticket, got, alive>>

Construct(p) ==
  /\ Goes(p, "access", "store")
  /\ slots' = [slots EXCEPT ![idx(ticket[p])] = ticket[p]]
  /\ UNCHANGED <<head, tail, stamp, ticket, got, alive>>

\* The constructor throws: emplace is left with the ticket drawn and the stamp as it was.
ConstructThrows(p) ==
  /\ Goes(p, "access", "idle")
  /\ UNCHANGED <<head, tail, stamp, slots, ticket, got, alive>>

StoreFull(p) ==
  /\ Goes(p, "store", "idle")
  /\ stamp' = [stamp EXCEPT ![idx(ticket[p])] = 2 * turn(ticket[p]) + 1]
  /\ UNCHANGED <<head, tail, slots, ticket, got, alive>>

-----------------------------------------------------------------------------
\* pop

ClaimHead(c) ==
  /\ alive
  /\ head < MaxTickets
  /\ Goes(c, "idle", "await")
  /\ ticket' = [ticket EXCEPT ![c] = head]
  /\ head' = head + 1
  /\ UNCHANGED <<tail, stamp, slots, got, alive>>

SeeFull(c) ==
  /\ Full(ticket[c])
  /\ Goes(c, "await", "access")
  /\ UNCHANGED <<head, tail, stamp, slots, ticket, got, alive>>

MoveOut(c) ==
  /\ Goes(c, "access", "store")
  /\ got' = [got EXCEPT ![c] = slots[idx(ticket[c])]]
  /\ slots' = [slots EXCEPT ![idx(ticket[c])] = Moved]
  /\ UNCHANGED <<head, tail, stamp, ticket, alive>>

\* A mutant: pop returns without storing the stamp.
StoreForgotten(c) ==
  /\ Goes(c, "store", "idle")
  /\ UNCHANGED <<head, tail, stamp, slots, ticket, got, alive>>

StoreFree(c) ==
  /\ Goes(c, "store", "idle")
  /\ stamp' = [stamp EXCEPT ![idx(ticket[c])] = 2 * turn(ticket[c]) + 2]
  /\ UNCHANGED <<head, tail, slots, ticket, got, alive>>

\* The owner destroys the queue after all threads have been joined.  Every slot is destroyed,
\* also one that is raw or whose object was moved from: of T it is assumed that this is harmless.
Destruct ==
  /\ alive
  /\ \A t \in Threads : pc[t] = "idle"
  /\ alive' = FALSE
  /\ slots' = [i \in Slots |-> Raw]
  /\ UNCHANGED <<head, tail, stamp, pc, ticket, got>>

-----------------------------------------------------------------------------
Init ==
  /\ head = 0 /\ tail = 0
  /\ stamp  = [i \in Slots |-> 0]
  /\ slots  = [i \in Slots |-> Raw]
  /\ pc     = [t \in Threads |-> "idle"]
  /\ ticket = [t \in Threads |-> 0]
  /\ got    = [c \in Consumers |-> None]
  /\ alive  = TRUE

\* The steps of a call after its ticket was drawn.
EmplaceStep(p) == SeeFree(p) \/ Construct(p) \/ ConstructThrows(p) \/ StoreFull(p)
PopStep(c)     == SeeFull(c) \/ MoveOut(c) \/ StoreFree(c)

Next ==
  \/ \E p \in Producers : ClaimTail(p) \/ EmplaceStep(p)
  \/ \E c \in Consumers : ClaimHead(c) \/ PopStep(c)
  \/ Destruct

Spec == Init /\ [][Next]_vars

\* Every thread runs; whether it calls emplace or pop again is its own affair.
FairSpec ==
  /\ Spec
  /\ \A p \in Producers : WF_vars(EmplaceStep(p))
  /\ \A c \in Consumers : WF_vars(PopStep(c))

-----------------------------------------------------------------------------
\* Properties.

Accessing(t) == pc[t] \in {"access", "store"}

\* Two threads never use one slot at a time, however many laps their tickets are apart.
SlotExclusive ==
  \A t, u \in Threads : t # u /\ Accessing(t) /\ Accessing(u) => idx(ticket[t]) # idx(ticket[u])

\* A pop gets the object of the emplace with the same ticket: objects leave in the order
\* in which the emplaces drew their tickets, none is popped twice and none is skipped.
TicketsMatch == \A c \in Consumers : pc[c] = "store" => got[c] = ticket[c]

\* emplace never constructs over an object that has not been popped.
NothingOverwritten ==
  \A p \in Producers : pc[p] = "access" => slots[idx(ticket[p])] \in {Raw, Moved}

Waiting(t, n) == pc[t] = "await" /\ ticket[t] = n

\* The constructor of the object with ticket m threw: its emplace has left the slot as it
\* found it.
Abandoned(m) ==
  /\ m < tail /\ Free(m)
  /\ \A p \in Producers : ticket[p] = m => pc[p] = "idle"

\* Slot of ticket n, in this or an earlier lap, was abandoned.
Blocked(n) == \E m \in 0..n : idx(m) = idx(n) /\ Abandoned(m)

\* Nobody waits for ever for a turn that has to come: a pop returns once the emplace with
\* its ticket has begun, and an emplace once the pop one lap behind it has begun, unless a
\* constructor threw on the same slot.
TurnsCome ==
  \A n \in Tickets :
    /\ \A c \in Consumers : (Waiting(c, n) /\ tail > n) ~> (pc[c] = "idle" \/ Blocked(n))
    /\ \A p \in Producers : (Waiting(p, n) /\ head + Capacity > n) ~> (pc[p] = "idle" \/ Blocked(n))
=============================================================================
