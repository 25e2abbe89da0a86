--------------------------- MODULE MPMCQueue_proofs ---------------------------
(***************************************************************************)
(* Safety of MPMCQueue for every number of producers, consumers and slots  *)
(* and however many calls are made: stamps and tickets alone give each     *)
(* thread its slot and each pop its object.                                *)
(***************************************************************************)
EXTENDS MPMCQueue, TLAPS

Phases == {"idle", "await", "access", "store"}

TypeInv ==
  /\ head \in Nat /\ tail \in Nat
  /\ stamp  \in [Slots -> Nat]
  /\ slots  \in [Slots -> Nat \cup {Raw, Moved}]
  /\ pc     \in [Threads -> Phases]
  /\ ticket \in [Threads -> Nat]
  /\ got    \in [Consumers -> Nat \cup {Raw, Moved, None}]
  /\ alive  \in BOOLEAN

Active(t) == pc[t] # "idle"

\* Of the running emplaces, and of the running pops, no two have one ticket.
TicketsUnique ==
  /\ \A p \in Producers : Active(p) => ticket[p] < tail
  /\ \A c \in Consumers : Active(c) => ticket[c] < head
  /\ \A p, q \in Producers : p # q /\ Active(p) /\ Active(q) => ticket[p] # ticket[q]
  /\ \A c, d \in Consumers : c # d /\ Active(c) /\ Active(d) => ticket[c] # ticket[d]

\* While a thread is in its slot the stamp says it is that thread's turn.
TurnHeld ==
  /\ \A p \in Producers : Accessing(p) => Free(ticket[p])
  /\ \A c \in Consumers : Accessing(c) => Full(ticket[c])

\* What the stamp of slot i says of its content, unless the thread whose turn it is has
\* changed the content and not yet the stamp.
SlotsKept ==
  \A n \in Nat :
    /\ Free(n) => \/ slots[idx(n)] \in {Raw, Moved}
                  \/ \E p \in Producers : pc[p] = "store" /\ ticket[p] = n
    /\ Full(n) => \/ slots[idx(n)] = n
                  \/ \E c \in Consumers : pc[c] = "store" /\ ticket[c] = n

\* What a thread has done to its slot before it stores the stamp.
SlotsChanged ==
  /\ \A p \in Producers : pc[p] = "store" => slots[idx(ticket[p])] = ticket[p]
  /\ \A c \in Consumers : pc[c] = "store" => slots[idx(ticket[c])] = Moved

Joined == ~alive => \A t \in Threads : ~Active(t)

\* Claims about the content of slots hold as long as there is a queue.
IInv ==
  /\ TypeInv /\ TicketsUnique /\ TurnHeld /\ Joined /\ TicketsMatch
  /\ alive => SlotsKept /\ SlotsChanged

-----------------------------------------------------------------------------
\* Tickets, turns and slots.

\* A ticket is its turn and its slot.
LEMMA TurnAndSlot ==
  ASSUME NEW n \in Nat
  PROVE  n = Capacity * turn(n) + idx(n) /\ idx(n) \in Slots /\ turn(n) \in Nat
BY MPMCAssumption DEF turn, idx, Slots

\* Two tickets with one turn and one slot are one.
LEMMA SameTicket ==
  ASSUME NEW n \in Nat, NEW m \in Nat, idx(n) = idx(m), turn(n) = turn(m)
  PROVE  n = m
BY TurnAndSlot

\* Two tickets of one kind that have their turn in one slot are one, and tickets of the two
\* kinds never have their turn there together.
LEMMA OneTurn ==
  ASSUME TypeInv, NEW n \in Nat, NEW m \in Nat, idx(n) = idx(m)
  PROVE  /\ Free(n) /\ Free(m) => n = m
         /\ Full(n) /\ Full(m) => n = m
         /\ ~(Free(n) /\ Full(m))
<1>1. turn(n) \in Nat /\ turn(m) \in Nat  BY TurnAndSlot
<1>2. Free(n) /\ Free(m) => turn(n) = turn(m)  BY <1>1 DEF Free
<1>3. Full(n) /\ Full(m) => turn(n) = turn(m)  BY <1>1 DEF Full
<1>4. ~(Free(n) /\ Full(m))  BY <1>1 DEF Free, Full
<1> QED BY <1>2, <1>3, <1>4, SameTicket

\* Threads in their slots are in different slots.
LEMMA Apart ==
  ASSUME TypeInv, TicketsUnique, TurnHeld, NEW t \in Threads, NEW u \in Threads, t # u,
         Accessing(t), Accessing(u)
  PROVE  idx(ticket[t]) # idx(ticket[u])
<1>1. ticket[t] \in Nat /\ ticket[u] \in Nat /\ Active(t) /\ Active(u)
  BY DEF TypeInv, Accessing, Active
<1>2. CASE t \in Producers /\ u \in Producers
  BY <1>1, <1>2, OneTurn DEF TurnHeld, TicketsUnique
<1>3. CASE t \in Consumers /\ u \in Consumers
  BY <1>1, <1>3, OneTurn DEF TurnHeld, TicketsUnique
<1>4. CASE t \in Producers /\ u \in Consumers
  BY <1>1, <1>4, OneTurn DEF TurnHeld
<1>5. CASE t \in Consumers /\ u \in Producers
  BY <1>1, <1>5, OneTurn DEF TurnHeld
<1> QED BY <1>2, <1>3, <1>4, <1>5 DEF Threads

-----------------------------------------------------------------------------
\* The invariant holds at first.

LEMMA InitInv == Init => IInv
<1> SUFFICES ASSUME Init PROVE IInv
  OBVIOUS
<1>1. TypeInv
  BY DEF Init, TypeInv, Phases
<1>2. TicketsUnique /\ TurnHeld /\ Joined /\ TicketsMatch /\ SlotsChanged
  BY MPMCAssumption DEF Init, TicketsUnique, TurnHeld, Joined, TicketsMatch, SlotsChanged, Active, Accessing,
     Threads
<1>3. SlotsKept
  <2> SUFFICES ASSUME NEW n \in Nat
               PROVE  slots[idx(n)] \in {Raw, Moved} /\ ~Full(n)
    BY DEF SlotsKept
  <2>1. idx(n) \in Slots /\ turn(n) \in Nat  BY TurnAndSlot
  <2>2. stamp[idx(n)] = 0 /\ slots[idx(n)] = Raw  BY <2>1 DEF Init
  <2> QED BY <2>1, <2>2 DEF Full
<1> QED BY <1>1, <1>2, <1>3 DEF IInv

-----------------------------------------------------------------------------
\* One lemma per kind of step.

\* Steps that leave stamps and slots alone: a ticket is drawn, a turn is seen, a
\* constructor throws.
LEMMA QuietStep ==
  ASSUME IInv, NEW t \in Threads,
         UNCHANGED <<stamp, slots, got, alive>>,
         pc' = [pc EXCEPT ![t] = pc'[t]], pc'[t] \in Phases,
         pc[t] # "store", pc'[t] # "store",
         TypeInv', TicketsUnique', Joined',
         Accessing(t)' => \/ t \in Producers /\ Free(ticket[t])'
                          \/ t \in Consumers /\ Full(ticket[t])',
         \A u \in Threads \ {t} : ticket'[u] = ticket[u]
  PROVE  IInv'
<1> USE DEF IInv
<1>0. /\ t \in Producers \/ t \in Consumers
      /\ \A u \in Threads \ {t} : pc'[u] = pc[u]
      /\ \A u \in Threads : pc'[u] = "store" <=> pc[u] = "store"
      /\ \A u \in Threads : pc[u] = "store" => ticket'[u] = ticket[u]
      /\ Producers \subseteq Threads /\ Consumers \subseteq Threads
  BY DEF TypeInv, Threads
<1>1. TurnHeld'
  <2>1. \A u \in Threads \ {t} : Accessing(u)' <=> Accessing(u)
    BY <1>0 DEF Accessing
  <2>2. \A n : (Free(n)' <=> Free(n)) /\ (Full(n)' <=> Full(n))
    BY DEF Free, Full
  <2>3. ASSUME NEW p \in Producers, Accessing(p)' PROVE Free(ticket[p])'
    <3>1. CASE p = t  BY <2>3, <3>1, MPMCAssumption
    <3>2. CASE p # t  BY <1>0, <2>1, <2>2, <2>3, <3>2 DEF TurnHeld
    <3> QED BY <3>1, <3>2
  <2>4. ASSUME NEW c \in Consumers, Accessing(c)' PROVE Full(ticket[c])'
    <3>1. CASE c = t  BY <2>4, <3>1, MPMCAssumption
    <3>2. CASE c # t  BY <1>0, <2>1, <2>2, <2>4, <3>2 DEF TurnHeld
    <3> QED BY <3>1, <3>2
  <2> QED BY <2>3, <2>4 DEF TurnHeld
<1>2. TicketsMatch'
  BY <1>0 DEF TicketsMatch
<1>3. alive => SlotsKept'
  <2> SUFFICES ASSUME alive, NEW n \in Nat
               PROVE  /\ Free(n)' => \/ slots'[idx(n)] \in {Raw, Moved}
                                     \/ \E p \in Producers : pc'[p] = "store" /\ ticket'[p] = n
                      /\ Full(n)' => \/ slots'[idx(n)] = n
                                     \/ \E c \in Consumers : pc'[c] = "store" /\ ticket'[c] = n
    BY DEF SlotsKept
  <2>1. (Free(n)' <=> Free(n)) /\ (Full(n)' <=> Full(n))
    BY DEF Free, Full
  <2> QED BY <1>0, <2>1 DEF SlotsKept
<1>4. alive => SlotsChanged'
  BY <1>0 DEF SlotsChanged
<1> QED BY <1>1, <1>2, <1>3, <1>4

\* Tickets stay what they are while a thread goes on with its call.
LEMMA GoesOn ==
  ASSUME TypeInv, TicketsUnique, Joined, NEW t \in Threads, Active(t), NEW phase \in Phases,
         Goes(t, pc[t], phase), UNCHANGED <<head, tail, ticket, alive>>
  PROVE  /\ pc' \in [Threads -> Phases] /\ pc'[t] = phase
         /\ \A u \in Threads \ {t} : pc'[u] = pc[u]
         /\ TicketsUnique' /\ Joined' /\ alive
<1>1. /\ pc' \in [Threads -> Phases] /\ pc'[t] = phase
      /\ \A u \in Threads \ {t} : pc'[u] = pc[u]
  BY DEF TypeInv, Goes
<1>2. \A u \in Threads : Active(u)' => Active(u)
  BY <1>1 DEF Active
<1>3. TicketsUnique'
  BY <1>2 DEF TicketsUnique, Threads
<1>4. Joined' /\ alive
  BY <1>2 DEF Joined
<1> QED BY <1>1, <1>3, <1>4

LEMMA ConstructKeeps ==
  ASSUME IInv, NEW p \in Producers, Construct(p)
  PROVE  IInv'
<1> USE DEF IInv
<1> DEFINE n == ticket[p]
<1>0. /\ p \in Threads /\ Active(p) /\ Accessing(p) /\ pc[p] = "access" /\ "store" \in Phases
      /\ n \in Nat /\ idx(n) \in Slots
      /\ Consumers \subseteq Threads /\ Producers \subseteq Threads
  BY TurnAndSlot DEF Construct, Goes, Active, Accessing, Phases, TypeInv, Threads
<1>1. /\ pc' \in [Threads -> Phases] /\ pc'[p] = "store"
      /\ \A u \in Threads \ {p} : pc'[u] = pc[u]
      /\ TicketsUnique' /\ Joined' /\ alive
  BY <1>0, GoesOn DEF Construct, Goes
<1>2. /\ slots' = [slots EXCEPT ![idx(n)] = n]
      /\ UNCHANGED <<head, tail, stamp, ticket, got, alive>>
  BY DEF Construct
<1>3. TypeInv'
  BY <1>0, <1>1, <1>2 DEF TypeInv
<1>4. /\ \A u \in Threads : Accessing(u)' <=> Accessing(u)
      /\ \A m : (Free(m)' <=> Free(m)) /\ (Full(m)' <=> Full(m))
  BY <1>0, <1>1, <1>2 DEF Accessing, Free, Full
<1>5. TurnHeld'
  BY <1>0, <1>2, <1>4 DEF TurnHeld
<1>6. TicketsMatch'
  BY <1>0, <1>1, <1>2, MPMCAssumption DEF TicketsMatch
<1>7. SlotsKept'
  <2> SUFFICES ASSUME NEW m \in Nat
               PROVE  /\ Free(m) => \/ slots'[idx(m)] \in {Raw, Moved}
                                    \/ \E q \in Producers : pc'[q] = "store" /\ ticket[q] = m
                      /\ Full(m) => \/ slots'[idx(m)] = m
                                    \/ \E c \in Consumers : pc'[c] = "store" /\ ticket[c] = m
    BY <1>2, <1>4 DEF SlotsKept
  <2>1. CASE idx(m) = idx(n)
    <3>1. ~Full(m) /\ (Free(m) => m = n)
      BY <1>0, <2>1, OneTurn DEF TurnHeld
    <3> QED BY <1>0, <1>1, <3>1
  <2>2. CASE idx(m) # idx(n)
    <3>1. slots'[idx(m)] = slots[idx(m)]
      BY <1>2, <2>2, TurnAndSlot DEF TypeInv
    <3>2. \A u \in Threads : pc[u] = "store" => pc'[u] = "store"
      BY <1>0, <1>1
    <3> QED BY <1>0, <1>1, <3>1, <3>2 DEF SlotsKept
  <2> QED BY <2>1, <2>2
<1>8. SlotsChanged'
  <2>1. ASSUME NEW u \in Threads, u # p, pc[u] = "store"
        PROVE  slots'[idx(ticket[u])] = slots[idx(ticket[u])]
    <3>1. ticket[u] \in Nat /\ idx(ticket[u]) # idx(n)
      BY <1>0, <2>1, Apart DEF Accessing, TypeInv
    <3> QED BY <1>2, <3>1, TurnAndSlot DEF TypeInv
  <2>2. slots'[idx(n)] = n
    BY <1>0, <1>2 DEF TypeInv
  <2>3. ASSUME NEW q \in Producers, pc'[q] = "store"
        PROVE  slots'[idx(ticket[q])] = ticket[q]
    BY <1>0, <1>1, <2>1, <2>2, <2>3 DEF SlotsChanged
  <2>4. ASSUME NEW c \in Consumers, pc'[c] = "store"
        PROVE  slots'[idx(ticket[c])] = Moved
    BY <1>0, <1>1, <2>1, <2>4, MPMCAssumption DEF SlotsChanged
  <2> QED BY <1>2, <2>3, <2>4 DEF SlotsChanged
<1> QED BY <1>1, <1>3, <1>5, <1>6, <1>7, <1>8

LEMMA MoveOutKeeps ==
  ASSUME IInv, NEW c \in Consumers, MoveOut(c)
  PROVE  IInv'
<1> USE DEF IInv
<1> DEFINE n == ticket[c]
<1>0. /\ c \in Threads /\ Active(c) /\ Accessing(c) /\ pc[c] = "access" /\ "store" \in Phases
      /\ n \in Nat /\ idx(n) \in Slots
      /\ Consumers \subseteq Threads /\ Producers \subseteq Threads
  BY TurnAndSlot DEF MoveOut, Goes, Active, Accessing, Phases, TypeInv, Threads
<1>1. /\ pc' \in [Threads -> Phases] /\ pc'[c] = "store"
      /\ \A u \in Threads \ {c} : pc'[u] = pc[u]
      /\ TicketsUnique' /\ Joined' /\ alive
  BY <1>0, GoesOn DEF MoveOut, Goes
<1>2. /\ slots' = [slots EXCEPT ![idx(n)] = Moved]
      /\ got' = [got EXCEPT ![c] = slots[idx(n)]]
      /\ UNCHANGED <<head, tail, stamp, ticket, alive>>
  BY DEF MoveOut
<1>3. TypeInv'
  BY <1>0, <1>1, <1>2 DEF TypeInv
<1>4. /\ \A u \in Threads : Accessing(u)' <=> Accessing(u)
      /\ \A m : (Free(m)' <=> Free(m)) /\ (Full(m)' <=> Full(m))
  BY <1>0, <1>1, <1>2 DEF Accessing, Free, Full
<1>5. TurnHeld'
  BY <1>0, <1>2, <1>4 DEF TurnHeld
<1>6. TicketsMatch'
  <2>1. Full(n)
    BY <1>0 DEF TurnHeld
  <2>2. slots[idx(n)] = n
    <3>1. ASSUME NEW d \in Consumers, pc[d] = "store", ticket[d] = n PROVE FALSE
      BY <1>0, <3>1 DEF TicketsUnique, Active
    <3> QED BY <1>0, <1>1, <2>1, <3>1 DEF SlotsKept
  <2> QED BY <1>0, <1>1, <1>2, <2>2 DEF TicketsMatch, TypeInv
<1>7. SlotsKept'
  <2> SUFFICES ASSUME NEW m \in Nat
               PROVE  /\ Free(m) => \/ slots'[idx(m)] \in {Raw, Moved}
                                    \/ \E q \in Producers : pc'[q] = "store" /\ ticket[q] = m
                      /\ Full(m) => \/ slots'[idx(m)] = m
                                    \/ \E d \in Consumers : pc'[d] = "store" /\ ticket[d] = m
    BY <1>2, <1>4 DEF SlotsKept
  <2>1. CASE idx(m) = idx(n)
    <3>1. ~Free(m) /\ (Full(m) => m = n)
      BY <1>0, <2>1, OneTurn DEF TurnHeld
    <3> QED BY <1>0, <1>1, <3>1
  <2>2. CASE idx(m) # idx(n)
    <3>1. slots'[idx(m)] = slots[idx(m)]
      BY <1>2, <2>2, TurnAndSlot DEF TypeInv
    <3>2. \A u \in Threads : pc[u] = "store" => pc'[u] = "store"
      BY <1>0, <1>1
    <3> QED BY <1>0, <1>1, <3>1, <3>2 DEF SlotsKept
  <2> QED BY <2>1, <2>2
<1>8. SlotsChanged'
  <2>1. ASSUME NEW u \in Threads, u # c, pc[u] = "store"
        PROVE  slots'[idx(ticket[u])] = slots[idx(ticket[u])]
    <3>1. ticket[u] \in Nat /\ idx(ticket[u]) # idx(n)
      BY <1>0, <2>1, Apart DEF Accessing, TypeInv
    <3> QED BY <1>2, <3>1, TurnAndSlot DEF TypeInv
  <2>2. slots'[idx(n)] = Moved
    BY <1>0, <1>2 DEF TypeInv
  <2>3. ASSUME NEW q \in Producers, pc'[q] = "store"
        PROVE  slots'[idx(ticket[q])] = ticket[q]
    BY <1>0, <1>1, <2>1, <2>3, MPMCAssumption DEF SlotsChanged
  <2>4. ASSUME NEW d \in Consumers, pc'[d] = "store"
        PROVE  slots'[idx(ticket[d])] = Moved
    BY <1>0, <1>1, <2>1, <2>2, <2>4 DEF SlotsChanged
  <2> QED BY <1>2, <2>3, <2>4 DEF SlotsChanged
<1> QED BY <1>1, <1>3, <1>5, <1>6, <1>7, <1>8

\* The thread whose turn it was stores the next stamp: nobody else was in its slot, and the
\* content is what the new stamp says.
LEMMA StampKeeps ==
  ASSUME IInv, NEW t \in Threads, pc[t] = "store", NEW v \in Nat,
         stamp' = [stamp EXCEPT ![idx(ticket[t])] = v],
         Goes(t, "store", "idle"),
         UNCHANGED <<head, tail, slots, ticket, got, alive>>,
         \/ t \in Producers /\ v = 2 * turn(ticket[t]) + 1
         \/ t \in Consumers /\ v = 2 * turn(ticket[t]) + 2
  PROVE  IInv'
<1> USE DEF IInv
<1> DEFINE n == ticket[t]
<1>0. /\ Active(t) /\ Accessing(t) /\ "idle" \in Phases
      /\ n \in Nat /\ idx(n) \in Slots /\ turn(n) \in Nat
      /\ Consumers \subseteq Threads /\ Producers \subseteq Threads
  BY TurnAndSlot DEF Active, Accessing, Phases, TypeInv, Threads
<1>1. /\ pc' \in [Threads -> Phases] /\ pc'[t] = "idle"
      /\ \A u \in Threads \ {t} : pc'[u] = pc[u]
      /\ TicketsUnique' /\ Joined' /\ alive
  BY <1>0, GoesOn
<1>2. TypeInv'
  BY <1>0, <1>1 DEF TypeInv
<1>3. ASSUME NEW m \in Nat, idx(m) # idx(n)
      PROVE  (Free(m)' <=> Free(m)) /\ (Full(m)' <=> Full(m))
  BY <1>3, TurnAndSlot DEF TypeInv, Free, Full
<1>4. stamp'[idx(n)] = v
  BY <1>0 DEF TypeInv
<1>5. TurnHeld'
  <2>1. ASSUME NEW u \in Threads, Accessing(u)'
        PROVE  Accessing(u) /\ u # t /\ ticket[u] \in Nat /\ idx(ticket[u]) # idx(n)
    <3>1. u # t /\ Accessing(u)  BY <1>1, <2>1 DEF Accessing
    <3> QED BY <1>0, <3>1, Apart DEF TypeInv
  <2> QED BY <1>0, <1>3, <2>1 DEF TurnHeld
<1>6. TicketsMatch' /\ SlotsChanged'
  BY <1>0, <1>1 DEF TicketsMatch, SlotsChanged
<1>7. SlotsKept'
  <2> SUFFICES ASSUME NEW m \in Nat
               PROVE  /\ Free(m)' => \/ slots[idx(m)] \in {Raw, Moved}
                                     \/ \E q \in Producers : pc'[q] = "store" /\ ticket[q] = m
                      /\ Full(m)' => \/ slots[idx(m)] = m
                                     \/ \E c \in Consumers : pc'[c] = "store" /\ ticket[c] = m
    BY DEF SlotsKept
  <2>1. turn(m) \in Nat  BY TurnAndSlot
  <2>2. CASE idx(m) = idx(n) /\ t \in Producers
    <3>1. ~Free(m)'  BY <1>0, <1>4, <2>1, <2>2, MPMCAssumption DEF Free
    <3>2. Full(m)' => m = n
      BY <1>0, <1>4, <2>1, <2>2, SameTicket, MPMCAssumption DEF Full
    <3>3. slots[idx(n)] = n  BY <1>1, <2>2 DEF SlotsChanged
    <3> QED BY <3>1, <3>2, <3>3
  <2>3. CASE idx(m) = idx(n) /\ t \in Consumers
    <3>1. ~Full(m)'  BY <1>0, <1>4, <2>1, <2>3, MPMCAssumption DEF Full
    <3>2. slots[idx(m)] = Moved  BY <1>1, <2>3 DEF SlotsChanged
    <3> QED BY <3>1, <3>2
  <2>4. CASE idx(m) # idx(n)
    <3>1. \A u \in Threads : pc[u] = "store" /\ ticket[u] = m => pc'[u] = "store"
      BY <1>1, <2>4
    <3> QED BY <1>0, <1>1, <1>3, <2>4, <3>1 DEF SlotsKept
  <2> QED BY <2>2, <2>3, <2>4 DEF Threads
<1> QED BY <1>1, <1>2, <1>5, <1>6, <1>7

LEMMA ClaimTailKeeps ==
  ASSUME IInv, NEW p \in Producers, ClaimTail(p)
  PROVE  IInv'
<1> USE DEF IInv
<1>0. p \in Threads /\ {"idle", "await"} \subseteq Phases
      /\ Producers \subseteq Threads /\ Consumers \subseteq Threads
  BY DEF Threads, Phases
<1>1. /\ pc[p] = "idle" /\ pc' = [pc EXCEPT ![p] = "await"] /\ pc'[p] = "await"
      /\ ticket' = [ticket EXCEPT ![p] = tail] /\ tail' = tail + 1 /\ ticket'[p] = tail
      /\ alive /\ UNCHANGED <<head, stamp, slots, got, alive>>
  BY <1>0 DEF ClaimTail, Goes, TypeInv
<1>2. \A u \in Threads \ {p} : pc'[u] = pc[u] /\ ticket'[u] = ticket[u]
  BY <1>1 DEF TypeInv
<1>3. TypeInv'
  BY <1>0, <1>1 DEF TypeInv
<1>4. TicketsUnique'
  <2>1. \A q \in Producers : Active(q) => ticket[q] < tail /\ ticket[q] \in Nat
    BY <1>0 DEF TicketsUnique, TypeInv
  <2>2. \A q \in Producers \ {p} : Active(q)' => Active(q) /\ ticket'[q] = ticket[q]
    BY <1>0, <1>2 DEF Active
  <2>3. \A q \in Producers : Active(q)' => ticket'[q] < tail'
    BY <1>1, <2>1, <2>2 DEF TypeInv
  <2>4. \A c \in Consumers : c # p /\ pc'[c] = pc[c] /\ ticket'[c] = ticket[c]
    BY <1>0, <1>2, MPMCAssumption
  <2>5. \A q, r \in Producers : q # r /\ Active(q)' /\ Active(r)' => ticket'[q] # ticket'[r]
    BY <1>1, <2>1, <2>2 DEF TypeInv, TicketsUnique
  <2> QED BY <1>1, <2>3, <2>4, <2>5 DEF TicketsUnique, Active
<1>5. Joined'
  BY <1>1 DEF Joined
<1>6. ~Accessing(p)'
  BY <1>1 DEF Accessing
<1> QED BY <1>0, <1>1, <1>2, <1>3, <1>4, <1>5, <1>6, QuietStep

LEMMA ClaimHeadKeeps ==
  ASSUME IInv, NEW c \in Consumers, ClaimHead(c)
  PROVE  IInv'
<1> USE DEF IInv
<1>0. c \in Threads /\ {"idle", "await"} \subseteq Phases
      /\ Producers \subseteq Threads /\ Consumers \subseteq Threads
  BY DEF Threads, Phases
<1>1. /\ pc[c] = "idle" /\ pc' = [pc EXCEPT ![c] = "await"] /\ pc'[c] = "await"
      /\ ticket' = [ticket EXCEPT ![c] = head] /\ head' = head + 1 /\ ticket'[c] = head
      /\ alive /\ UNCHANGED <<tail, stamp, slots, got, alive>>
  BY <1>0 DEF ClaimHead, Goes, TypeInv
<1>2. \A u \in Threads \ {c} : pc'[u] = pc[u] /\ ticket'[u] = ticket[u]
  BY <1>1 DEF TypeInv
<1>3. TypeInv'
  BY <1>0, <1>1 DEF TypeInv
<1>4. TicketsUnique'
  <2>1. \A d \in Consumers : Active(d) => ticket[d] < head /\ ticket[d] \in Nat
    BY <1>0 DEF TicketsUnique, TypeInv
  <2>2. \A d \in Consumers \ {c} : Active(d)' => Active(d) /\ ticket'[d] = ticket[d]
    BY <1>0, <1>2 DEF Active
  <2>3. \A d \in Consumers : Active(d)' => ticket'[d] < head'
    BY <1>1, <2>1, <2>2 DEF TypeInv
  <2>4. \A p \in Producers : p # c /\ pc'[p] = pc[p] /\ ticket'[p] = ticket[p]
    BY <1>0, <1>2, MPMCAssumption
  <2>5. \A d, e \in Consumers : d # e /\ Active(d)' /\ Active(e)' => ticket'[d] # ticket'[e]
    BY <1>1, <2>1, <2>2 DEF TypeInv, TicketsUnique
  <2> QED BY <1>1, <2>3, <2>4, <2>5 DEF TicketsUnique, Active
<1>5. Joined'
  BY <1>1 DEF Joined
<1>6. ~Accessing(c)'
  BY <1>1 DEF Accessing
<1> QED BY <1>0, <1>1, <1>2, <1>3, <1>4, <1>5, <1>6, QuietStep

-----------------------------------------------------------------------------
\* Every step keeps the invariant.

LEMMA StepInv == IInv /\ [Next]_vars => IInv'
<1> SUFFICES ASSUME IInv, [Next]_vars PROVE IInv'
  OBVIOUS
<1>0. /\ Producers \subseteq Threads /\ Consumers \subseteq Threads
      /\ {"idle", "await", "access", "store"} \subseteq Phases
      /\ \A t \in Threads : ticket[t] \in Nat
  BY DEF Threads, Phases, IInv, TypeInv
<1>1. CASE UNCHANGED vars
  BY <1>1 DEF vars, IInv, TypeInv, TicketsUnique, TurnHeld, Joined, TicketsMatch, SlotsKept,
     SlotsChanged, Active, Accessing, Free, Full
<1>2. ASSUME NEW p \in Producers, SeeFree(p) PROVE IInv'
  <2>1. /\ pc[p] = "await" /\ Active(p) /\ pc' = [pc EXCEPT ![p] = "access"] /\ Free(ticket[p])
        /\ UNCHANGED <<head, tail, stamp, slots, ticket, got, alive>>
    BY <1>2 DEF SeeFree, Goes, Active
  <2>2. pc' \in [Threads -> Phases] /\ pc'[p] = "access" /\ TicketsUnique' /\ Joined'
    BY <1>0, <1>2, <2>1, GoesOn DEF Goes, IInv
  <2>3. TypeInv' /\ Free(ticket[p])'
    BY <2>1, <2>2 DEF IInv, TypeInv, Free
  <2> QED BY <1>0, <2>1, <2>2, <2>3, QuietStep
<1>3. ASSUME NEW c \in Consumers, SeeFull(c) PROVE IInv'
  <2>1. /\ pc[c] = "await" /\ Active(c) /\ pc' = [pc EXCEPT ![c] = "access"] /\ Full(ticket[c])
        /\ UNCHANGED <<head, tail, stamp, slots, ticket, got, alive>>
    BY <1>3 DEF SeeFull, Goes, Active
  <2>2. pc' \in [Threads -> Phases] /\ pc'[c] = "access" /\ TicketsUnique' /\ Joined'
    BY <1>0, <1>3, <2>1, GoesOn DEF Goes, IInv
  <2>3. TypeInv' /\ Full(ticket[c])'
    BY <2>1, <2>2 DEF IInv, TypeInv, Full
  <2> QED BY <1>0, <2>1, <2>2, <2>3, QuietStep
<1>4. ASSUME NEW p \in Producers, ConstructThrows(p) PROVE IInv'
  <2>1. /\ pc[p] = "access" /\ Active(p) /\ pc' = [pc EXCEPT ![p] = "idle"]
        /\ UNCHANGED <<head, tail, stamp, slots, ticket, got, alive>>
    BY <1>4 DEF ConstructThrows, Goes, Active
  <2>2. pc' \in [Threads -> Phases] /\ pc'[p] = "idle" /\ TicketsUnique' /\ Joined'
    BY <1>0, <1>4, <2>1, GoesOn DEF Goes, IInv
  <2>3. TypeInv' /\ ~Accessing(p)'
    BY <2>1, <2>2 DEF IInv, TypeInv, Accessing
  <2> QED BY <1>0, <2>1, <2>2, <2>3, QuietStep
<1>5. ASSUME NEW p \in Producers, StoreFull(p) PROVE IInv'
  <2>1. 2 * turn(ticket[p]) + 1 \in Nat  BY <1>0, TurnAndSlot
  <2> QED BY <1>0, <1>5, <2>1, StampKeeps DEF StoreFull, Goes
<1>6. ASSUME NEW c \in Consumers, StoreFree(c) PROVE IInv'
  <2>1. 2 * turn(ticket[c]) + 2 \in Nat  BY <1>0, TurnAndSlot
  <2> QED BY <1>0, <1>6, <2>1, StampKeeps DEF StoreFree, Goes
<1>7. CASE Destruct
  BY <1>7 DEF Destruct, IInv, TypeInv, TicketsUnique, TurnHeld, Joined, TicketsMatch, Active,
     Accessing, Threads
<1> QED BY <1>1, <1>2, <1>3, <1>4, <1>5, <1>6, <1>7, ClaimTailKeeps, ClaimHeadKeeps,
           ConstructKeeps, MoveOutKeeps DEF Next, EmplaceStep, PopStep

LEMMA Invariant == Spec => []IInv
<1> QED BY InitInv, StepInv, PTL DEF Spec

-----------------------------------------------------------------------------
\* Two threads are never in one slot, whether both emplace, both pop or one does each, and
\* however many laps apart their tickets are.
THEOREM SlotsAreExclusive == Spec => []SlotExclusive
<1>1. IInv => SlotExclusive
  BY Apart DEF IInv, SlotExclusive
<1> QED BY <1>1, Invariant, PTL

\* Every pop gets the object whose emplace drew the same ticket.
THEOREM PopsMatchEmplaces == Spec => []TicketsMatch
<1>1. IInv => TicketsMatch
  BY DEF IInv
<1> QED BY <1>1, Invariant, PTL

\* emplace constructs into a raw slot or one whose object was popped, never over an object.
THEOREM ObjectsSurvive == Spec => []NothingOverwritten
<1>1. ASSUME IInv PROVE NothingOverwritten
  <2> SUFFICES ASSUME NEW p \in Producers, pc[p] = "access"
               PROVE  slots[idx(ticket[p])] \in {Raw, Moved}
    BY DEF NothingOverwritten
  <2>1. p \in Threads /\ ticket[p] \in Nat /\ Accessing(p) /\ Active(p) /\ alive
    BY <1>1 DEF Threads, IInv, TypeInv, Accessing, Active, Joined
  <2>2. Free(ticket[p])
    BY <1>1, <2>1 DEF IInv, TurnHeld
  <2>3. \A q \in Producers : pc[q] = "store" => ticket[q] # ticket[p]
    BY <1>1, <2>1 DEF IInv, TicketsUnique, Active
  <2> QED BY <1>1, <2>1, <2>2, <2>3 DEF IInv, SlotsKept
<1> QED BY <1>1, Invariant, PTL
=============================================================================
