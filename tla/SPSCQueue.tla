------------------------------ MODULE SPSCQueue ------------------------------
(***************************************************************************)
(* The single-producer single-consumer ring buffer of                      *)
(* include/concurrency/spscqueue.hpp, with the C++ memory model as far as  *)
(* the code uses it.  Each index is written by one thread with release and *)
(* read by the other with acquire: the reader sees the stores in order and *)
(* after some delay, and with a store it sees everything written before    *)
(* it.  headSeen and tailSeen are what a load by the other thread returns  *)
(* now; a thread's own index needs no such copy.                           *)
(***************************************************************************)
EXTENDS Naturals, Sequences

CONSTANTS
  Capacity,  \* slots of the ring; one of them always stays free
  Values,    \* objects the producer constructs
  Raw,       \* a slot without a living object
  SizeRange  \* size_t counts modulo this (2^64)

ASSUME CapacityAssumption == Capacity \in Nat \ {0} /\ SizeRange \in Nat /\ SizeRange > Capacity
ASSUME RawAssumption == Raw \notin Values

Slots == 0..(Capacity - 1)

VARIABLES
  slots,     \* data_
  head,      \* head_, stored by the consumer
  tail,      \* tail_, stored by the producer
  headSeen,  \* what head_.load(acquire) gives the producer
  tailSeen,  \* what tail_.load(acquire) gives the consumer
  prod,      \* where the producer stands in emplace
  arg,       \* the arguments of the running emplace
  cons,      \* where the consumer stands in pop
  result,    \* the consumer's result argument
  alive      \* the queue has not been destroyed

indexes  == <<head, tail, headSeen, tailSeen>>
vars == <<slots, indexes, prod, arg, cons, result, alive>>

\* A mutant: the index runs past the end of the buffer.
SuccUnwrapped(i) == i + 1

Succ(i) == (i + 1) % Capacity

\* How far j is ahead of i in the ring, and the slots in between.
Dist(i, j)    == IF i <= j THEN j - i ELSE j + Capacity - i
Between(i, j) == IF i <= j THEN i..(j - 1) ELSE Slots \ (j..(i - 1))

-----------------------------------------------------------------------------
\* emplace

\* A mutant: no test for a full queue.
NeverFull == FALSE

Full == Succ(tail) = headSeen

EmplaceFull ==
  /\ alive /\ prod = "idle"
  /\ Full
  /\ UNCHANGED vars

EmplaceCheck(v) ==
  /\ alive /\ prod = "idle"
  /\ ~Full
  /\ prod' = "construct"
  /\ arg' = v
  /\ UNCHANGED <<slots, indexes, cons, result, alive>>

Construct ==
  /\ prod = "construct"
  /\ slots' = [slots EXCEPT ![tail] = arg]
  /\ prod' = "publish"
  /\ UNCHANGED <<indexes, arg, cons, result, alive>>

\* A mutant: the tail moves although the constructor threw.
ConstructFailsLate ==
  /\ prod = "construct"
  /\ prod' = "publish"
  /\ UNCHANGED <<slots, indexes, arg, cons, result, alive>>

\* The constructor of T throws out of emplace; nothing was stored.
ConstructThrows ==
  /\ prod = "construct"
  /\ prod' = "idle"
  /\ arg' = Raw
  /\ UNCHANGED <<slots, indexes, cons, result, alive>>

\* A mutant: emplace returns without storing the tail.
PublishForgotten ==
  /\ prod = "publish"
  /\ prod' = "idle"
  /\ arg' = Raw
  /\ UNCHANGED <<slots, indexes, cons, result, alive>>

Publish ==
  /\ prod = "publish"
  /\ tail' = Succ(tail)
  /\ prod' = "idle"
  /\ arg' = Raw
  /\ UNCHANGED <<slots, head, headSeen, tailSeen, cons, result, alive>>

-----------------------------------------------------------------------------
\* pop

PopEmpty ==
  /\ alive /\ cons = "idle"
  /\ head = tailSeen
  /\ UNCHANGED vars

PopCheck ==
  /\ alive /\ cons = "idle"
  /\ head # tailSeen
  /\ cons' = "take"
  /\ UNCHANGED <<slots, indexes, prod, arg, result, alive>>

\* The object is moved out and destroyed.
Take ==
  /\ cons = "take"
  /\ result' = slots[head]
  /\ slots' = [slots EXCEPT ![head] = Raw]
  /\ cons' = "release"
  /\ UNCHANGED <<indexes, prod, arg, alive>>

Release ==
  /\ cons = "release"
  /\ head' = Succ(head)
  /\ cons' = "idle"
  /\ UNCHANGED <<slots, tail, headSeen, tailSeen, prod, arg, result, alive>>

-----------------------------------------------------------------------------
\* Memory: the next store of an index reaches the other thread.

HeadVisible ==
  /\ headSeen # head
  /\ headSeen' = Succ(headSeen)
  /\ UNCHANGED <<slots, head, tail, tailSeen, prod, arg, cons, result, alive>>

TailVisible ==
  /\ tailSeen # tail
  /\ tailSeen' = Succ(tailSeen)
  /\ UNCHANGED <<slots, head, tail, headSeen, prod, arg, cons, result, alive>>

\* A mutant: the destructor's walk takes the two indexes the wrong way round.
DestroyedBackwards == Between(tail, head)

\* The objects the destructor destroys.
Destroyed == Between(head, tail)

\* The owner destroys the queue after both threads have been joined.
Destruct ==
  /\ alive /\ prod = "idle" /\ cons = "idle"
  /\ alive' = FALSE
  /\ slots' = [i \in Slots |-> IF i \in Destroyed THEN Raw ELSE slots[i]]
  /\ headSeen' = head /\ tailSeen' = tail
  /\ UNCHANGED <<head, tail, prod, arg, cons, result>>

-----------------------------------------------------------------------------
Init ==
  /\ slots = [i \in Slots |-> Raw]
  /\ head = 0 /\ tail = 0 /\ headSeen = 0 /\ tailSeen = 0
  /\ prod = "idle" /\ arg = Raw
  /\ cons = "idle" /\ result = Raw
  /\ alive = TRUE

Producer == EmplaceFull \/ (\E v \in Values : EmplaceCheck(v)) \/ Construct \/ ConstructThrows \/ Publish
Consumer == PopEmpty \/ PopCheck \/ Take \/ Release
Memory   == HeadVisible \/ TailVisible

Next == Producer \/ Consumer \/ Memory \/ Destruct

Spec == Init /\ [][Next]_vars

\* Both threads run, a store becomes visible in finite time, and the consumer calls pop
\* again and again.  Nothing is assumed of the producer's calling emplace.
FairSpec ==
  /\ Spec
  /\ WF_vars(Construct \/ ConstructThrows \/ Publish)
  /\ WF_vars(PopCheck \/ Take \/ Release)
  /\ WF_vars(HeadVisible) /\ WF_vars(TailVisible)

-----------------------------------------------------------------------------
\* Properties.

TypeOK ==
  /\ slots \in [Slots -> Values \cup {Raw}]
  /\ head \in Slots /\ tail \in Slots /\ headSeen \in Slots /\ tailSeen \in Slots
  /\ prod \in {"idle", "construct", "publish"} /\ arg \in Values \cup {Raw}
  /\ cons \in {"idle", "take", "release"} /\ result \in Values \cup {Raw}
  /\ alive \in BOOLEAN

\* Going round the ring from the producer's view of the head one meets the head, the
\* consumer's view of the tail and the tail, and not yet the place one came from: however
\* old the views are, neither thread overtakes the other.
ViewsInOrder ==
  Dist(headSeen, head) + Dist(head, tailSeen) + Dist(tailSeen, tail) < Capacity

LiveSlotsExact ==
  alive => {i \in Slots : slots[i] # Raw} =
             (Between(head, tail) \ (IF cons = "release" THEN {head} ELSE {}))
               \cup (IF prod = "publish" THEN {tail} ELSE {})

NothingLeaks == ~alive => \A i \in Slots : slots[i] = Raw

\* The living objects are exactly those between head and tail, less the one the consumer
\* has taken out and plus the one the producer has constructed, so emplace never constructs
\* over a living object and pop never moves from a raw slot; and the destructor leaves no
\* object alive, its walk from head to tail finds them all.
ObjectsExact == LiveSlotsExact /\ NothingLeaks

\* The values that wait, oldest first; a pop takes its value in Take.
FirstWaiting == IF cons = "release" THEN Succ(head) ELSE head

Fifo == INSTANCE BoundedFifo WITH
  items <- [k \in 1..(IF alive THEN Dist(FirstWaiting, tail) ELSE 0) |->
              slots[(FirstWaiting + k - 1) % Capacity]],
  out <- result, Bound <- Capacity - 1, Nothing <- Raw

\* Values come out once, in the order of the emplace calls that returned true, and at
\* most Capacity - 1 wait, whatever the two threads' views of each other's index.
ImplementsFifo == Fifo!Spec

\* A constructed object is taken (or destroyed with the queue).
EveryObjectTaken == \A i \in Slots : (slots[i] # Raw) ~> (slots[i] = Raw)

\* size() of a queue nobody is using; the difference is taken in size_t, so the branch of
\* spscqueue.hpp:62-64 that adds Capacity to a negative difference is never taken.
Size == (tail + SizeRange - head) % SizeRange

\* What that branch is there for (spscqueue.hpp:62): the size is the number of objects that
\* wait, also after the tail has wrapped around and the head has not.
SizeCountsWaiting ==
  alive /\ prod = "idle" /\ cons = "idle" => Size = Dist(head, tail)
=============================================================================
