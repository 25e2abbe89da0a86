--------------------------- MODULE SPSCQueue_proofs ---------------------------
(***************************************************************************)
(* Safety of SPSCQueue for every capacity: the indexes and the two stale   *)
(* views keep their order round the ring, and the living objects are those *)
(* between head and tail.  Read from the consumer's place on, the slots    *)
(* between them are the sequence BoundedFifo speaks of, and every step     *)
(* does to it what BoundedFifo allows.                                     *)
(***************************************************************************)
EXTENDS SPSCQueue, Integers, SequenceTheorems, TLAPS

\* Round the ring: the successor without the modulo.
LEMMA SuccIs ==
  ASSUME NEW i \in Slots
  PROVE  Succ(i) = (IF i + 1 = Capacity THEN 0 ELSE i + 1) /\ Succ(i) \in Slots
<1>1. i \in Nat /\ i < Capacity /\ Capacity \in Nat /\ Capacity > 0
  BY CapacityAssumption DEF Slots
<1>2. CASE i + 1 = Capacity
  <2>1. Capacity % Capacity = 0  BY <1>1
  <2> QED BY <1>1, <1>2, <2>1 DEF Succ, Slots
<1>3. CASE i + 1 # Capacity
  <2>1. i + 1 \in 0..(Capacity - 1)  BY <1>1, <1>3
  <2>2. (i + 1) % Capacity = i + 1  BY <1>1, <2>1
  <2> QED BY <1>1, <1>3, <2>1, <2>2 DEF Succ, Slots
<1> QED BY <1>2, <1>3

\* What emplace and pop know while they run, and that nothing runs on a dead queue.
CallsInv ==
  /\ prod # "idle" => alive /\ Succ(tail) # headSeen
  /\ cons # "idle" => alive /\ head # tailSeen
  /\ prod = "construct" => arg \in Values
  /\ prod = "publish" => arg \in Values
  /\ ~alive => headSeen = head /\ tailSeen = tail

IInv == TypeOK /\ CallsInv /\ ViewsInOrder /\ LiveSlotsExact /\ NothingLeaks

LEMMA InitInv == Init => IInv
<1> SUFFICES ASSUME Init PROVE IInv
  OBVIOUS
<1>1. Capacity \in Nat /\ Capacity > 0 /\ 0 \in Slots
  BY CapacityAssumption DEF Slots
<1>2. TypeOK /\ CallsInv /\ NothingLeaks
  BY <1>1 DEF Init, TypeOK, CallsInv, NothingLeaks
<1>3. ViewsInOrder
  BY <1>1 DEF Init, ViewsInOrder, Dist
<1>4. LiveSlotsExact
  BY <1>1, RawAssumption DEF Init, LiveSlotsExact, Between, Slots
<1> QED BY <1>2, <1>3, <1>4 DEF IInv

\* The slots from head to tail when one end moves by one.
LEMMA BetweenMoves ==
  ASSUME NEW i \in Slots, NEW j \in Slots
  PROVE  /\ i # j => Between(Succ(i), j) = Between(i, j) \ {i} /\ i \in Between(i, j)
         /\ Succ(j) # i => Between(i, Succ(j)) = Between(i, j) \cup {j}
         /\ j \notin Between(i, j)
         /\ Between(i, j) \subseteq Slots
<1> Capacity \in Nat /\ Capacity > 0 /\ i \in Nat /\ j \in Nat
  BY CapacityAssumption DEF Slots
<1>1. i # j => Between(Succ(i), j) = Between(i, j) \ {i} /\ i \in Between(i, j)
  BY SuccIs DEF Between, Slots
<1>2. Succ(j) # i => Between(i, Succ(j)) = Between(i, j) \cup {j}
  BY SuccIs DEF Between, Slots
<1>3. j \notin Between(i, j) /\ Between(i, j) \subseteq Slots
  BY DEF Between, Slots
<1> QED BY <1>1, <1>2, <1>3

\* The order of the views when one of the four indexes moves by one.
LEMMA ViewsMove ==
  ASSUME TypeOK, ViewsInOrder
  PROVE  /\ headSeen # head => Dist(Succ(headSeen), head) = Dist(headSeen, head) - 1
         /\ head # tailSeen => /\ Dist(headSeen, Succ(head)) = Dist(headSeen, head) + 1
                               /\ Dist(Succ(head), tailSeen) = Dist(head, tailSeen) - 1
         /\ tailSeen # tail => /\ Dist(head, Succ(tailSeen)) = Dist(head, tailSeen) + 1
                               /\ Dist(Succ(tailSeen), tail) = Dist(tailSeen, tail) - 1
         /\ Succ(tail) # headSeen =>
              /\ Dist(tailSeen, Succ(tail)) = Dist(tailSeen, tail) + 1
              /\ Dist(headSeen, head) + Dist(head, tailSeen) + Dist(tailSeen, tail) + 1 < Capacity
         /\ Dist(headSeen, head) \in Nat /\ Dist(head, tailSeen) \in Nat
         /\ Dist(tailSeen, tail) \in Nat
         /\ Dist(head, tail) = Dist(head, tailSeen) + Dist(tailSeen, tail)
         /\ Dist(headSeen, tail) = Dist(headSeen, head) + Dist(head, tail)
<1> Capacity \in Nat /\ Capacity > 0
  BY CapacityAssumption
<1>1. /\ head \in Slots /\ tail \in Slots /\ headSeen \in Slots /\ tailSeen \in Slots
      /\ head \in 0..(Capacity - 1) /\ tail \in 0..(Capacity - 1)
      /\ headSeen \in 0..(Capacity - 1) /\ tailSeen \in 0..(Capacity - 1)
  BY DEF TypeOK, Slots
<1>2. /\ Succ(head)     = IF head + 1     = Capacity THEN 0 ELSE head + 1
      /\ Succ(tail)     = IF tail + 1     = Capacity THEN 0 ELSE tail + 1
      /\ Succ(headSeen) = IF headSeen + 1 = Capacity THEN 0 ELSE headSeen + 1
      /\ Succ(tailSeen) = IF tailSeen + 1 = Capacity THEN 0 ELSE tailSeen + 1
  BY <1>1, SuccIs
<1> QED BY <1>1, <1>2 DEF ViewsInOrder, Dist

\* Every step keeps the invariant.
LEMMA StepInv == IInv /\ [Next]_vars => IInv'
<1> SUFFICES ASSUME TypeOK, CallsInv, ViewsInOrder, LiveSlotsExact, NothingLeaks, [Next]_vars
             PROVE  IInv'
  BY DEF IInv
<1> USE DEF indexes
<1>0. /\ head \in Slots /\ tail \in Slots /\ headSeen \in Slots /\ tailSeen \in Slots
      /\ Succ(head) \in Slots /\ Succ(tail) \in Slots
      /\ Succ(headSeen) \in Slots /\ Succ(tailSeen) \in Slots
  BY SuccIs DEF TypeOK
<1>1. ASSUME UNCHANGED vars PROVE IInv'
  BY <1>1 DEF vars, IInv, TypeOK, CallsInv, ViewsInOrder, LiveSlotsExact, NothingLeaks
<1>2. ASSUME NEW v \in Values, EmplaceCheck(v) PROVE IInv'
  <2>1. TypeOK' /\ CallsInv' /\ NothingLeaks'
    BY <1>2 DEF EmplaceCheck, Full, TypeOK, CallsInv, NothingLeaks
  <2>2. ViewsInOrder'
    BY <1>2 DEF EmplaceCheck, ViewsInOrder
  <2>3. LiveSlotsExact'
    BY <1>2 DEF EmplaceCheck, LiveSlotsExact
  <2> QED BY <2>1, <2>2, <2>3 DEF IInv
<1>3. CASE Construct
  <2>1. TypeOK' /\ CallsInv' /\ NothingLeaks'
    BY <1>3 DEF Construct, TypeOK, CallsInv, NothingLeaks
  <2>2. ViewsInOrder'
    BY <1>3 DEF Construct, ViewsInOrder
  <2>3. LiveSlotsExact'
    <3>1. slots' = [slots EXCEPT ![tail] = arg] /\ arg # Raw /\ tail' = tail /\ head' = head /\ cons' = cons
          /\ prod = "construct" /\ prod' = "publish" /\ alive
      BY <1>3, RawAssumption DEF Construct, CallsInv
    <3>2. {i \in Slots : slots'[i] # Raw} = {i \in Slots : slots[i] # Raw} \cup {tail}
      BY <1>0, <3>1 DEF TypeOK
    <3> QED BY <3>1, <3>2 DEF LiveSlotsExact
  <2> QED BY <2>1, <2>2, <2>3 DEF IInv
<1>4. CASE ConstructThrows
  <2>1. TypeOK' /\ CallsInv' /\ NothingLeaks'
    BY <1>4 DEF ConstructThrows, TypeOK, CallsInv, NothingLeaks
  <2>2. ViewsInOrder'
    BY <1>4 DEF ConstructThrows, ViewsInOrder
  <2>3. LiveSlotsExact'
    BY <1>4 DEF ConstructThrows, LiveSlotsExact
  <2> QED BY <2>1, <2>2, <2>3 DEF IInv
<1>5. CASE Publish
  <2>1. TypeOK' /\ NothingLeaks'
    BY <1>0, <1>5 DEF Publish, TypeOK, NothingLeaks
  <2>2. CallsInv'
    BY <1>5 DEF Publish, CallsInv
  <2>3. ViewsInOrder'
    <3>1. /\ tail' = Succ(tail) /\ UNCHANGED <<head, headSeen, tailSeen>>
          /\ Dist(tailSeen, Succ(tail)) = Dist(tailSeen, tail) + 1
          /\ Dist(headSeen, head) + Dist(head, tailSeen) + Dist(tailSeen, tail) + 1 < Capacity
          /\ Dist(headSeen, head) \in Nat /\ Dist(head, tailSeen) \in Nat
          /\ Dist(tailSeen, tail) \in Nat
      BY <1>5, ViewsMove DEF Publish, CallsInv
    <3>2. Dist(headSeen, head)' = Dist(headSeen, head) /\ Dist(head, tailSeen)' = Dist(head, tailSeen)
          /\ Dist(tailSeen, tail)' = Dist(tailSeen, Succ(tail))
      BY <3>1 DEF Dist
    <3> QED BY <3>1, <3>2, CapacityAssumption DEF ViewsInOrder
  <2>4. LiveSlotsExact'
    <3>1. head # Succ(tail)
      BY <1>5, ViewsMove, <1>0, SuccIs, CapacityAssumption DEF Publish, CallsInv, Dist, Slots
    <3>2. Between(head, Succ(tail)) = Between(head, tail) \cup {tail}
      BY <1>0, <3>1, BetweenMoves
    <3>3. cons = "release" => head # tail
      BY <1>0, <1>5, ViewsMove, CapacityAssumption DEF CallsInv, Dist, Slots
    <3>4. /\ prod = "publish" /\ prod' = "idle" /\ tail' = Succ(tail) /\ alive
          /\ UNCHANGED <<slots, head, cons, alive>>
      BY <1>5 DEF Publish, CallsInv
    <3>5. Between(head, tail)' = Between(head, Succ(tail))
      BY <3>4 DEF Between
    <3> QED BY <3>2, <3>3, <3>4, <3>5 DEF LiveSlotsExact
  <2> QED BY <2>1, <2>2, <2>3, <2>4 DEF IInv
<1>6. CASE PopCheck
  <2>1. TypeOK' /\ CallsInv' /\ NothingLeaks'
    BY <1>6 DEF PopCheck, TypeOK, CallsInv, NothingLeaks
  <2>2. ViewsInOrder'
    BY <1>6 DEF PopCheck, ViewsInOrder
  <2>3. LiveSlotsExact'
    BY <1>6 DEF PopCheck, LiveSlotsExact
  <2> QED BY <2>1, <2>2, <2>3 DEF IInv
<1>7. CASE Take
  <2>1. TypeOK' /\ CallsInv' /\ NothingLeaks'
    BY <1>0, <1>7 DEF Take, TypeOK, CallsInv, NothingLeaks
  <2>2. ViewsInOrder'
    BY <1>7 DEF Take, ViewsInOrder
  <2>3. LiveSlotsExact'
    <3>1. /\ slots' = [slots EXCEPT ![head] = Raw] /\ UNCHANGED <<head, tail, prod, alive>> /\ alive
          /\ cons = "take" /\ cons' = "release"
      BY <1>7 DEF Take, CallsInv
    <3>2. {i \in Slots : slots'[i] # Raw} = {i \in Slots : slots[i] # Raw} \ {head}
      BY <1>0, <3>1 DEF TypeOK
    <3>3. head # tail
      BY <1>0, <1>7, ViewsMove, CapacityAssumption DEF Take, CallsInv, Dist, Slots
    <3> QED BY <3>1, <3>2, <3>3 DEF LiveSlotsExact
  <2> QED BY <2>1, <2>2, <2>3 DEF IInv
<1>8. CASE Release
  <2>1. TypeOK' /\ NothingLeaks'
    BY <1>0, <1>8 DEF Release, TypeOK, NothingLeaks
  <2>2. CallsInv'
    BY <1>8 DEF Release, CallsInv
  <2>3. ViewsInOrder'
    <3>1. /\ head' = Succ(head) /\ UNCHANGED <<tail, headSeen, tailSeen>>
          /\ Dist(headSeen, Succ(head)) = Dist(headSeen, head) + 1
          /\ Dist(Succ(head), tailSeen) = Dist(head, tailSeen) - 1
          /\ Dist(headSeen, head) \in Nat /\ Dist(head, tailSeen) \in Nat
          /\ Dist(tailSeen, tail) \in Nat
      BY <1>8, ViewsMove DEF Release, CallsInv
    <3>2. Dist(headSeen, head)' = Dist(headSeen, Succ(head))
          /\ Dist(head, tailSeen)' = Dist(Succ(head), tailSeen)
          /\ Dist(tailSeen, tail)' = Dist(tailSeen, tail)
      BY <3>1 DEF Dist
    <3> QED BY <3>1, <3>2, CapacityAssumption DEF ViewsInOrder
  <2>4. LiveSlotsExact'
    <3>1. head # tail
      BY <1>0, <1>8, ViewsMove, CapacityAssumption DEF Release, CallsInv, Dist, Slots
    <3>2. Between(Succ(head), tail) = Between(head, tail) \ {head}
      BY <1>0, <3>1, BetweenMoves
    <3>3. /\ cons = "release" /\ cons' = "idle" /\ head' = Succ(head) /\ alive
          /\ UNCHANGED <<slots, tail, prod, alive>>
      BY <1>8 DEF Release, CallsInv
    <3>4. Between(head, tail)' = Between(Succ(head), tail)
      BY <3>3 DEF Between
    <3> QED BY <3>2, <3>3, <3>4 DEF LiveSlotsExact
  <2> QED BY <2>1, <2>2, <2>3, <2>4 DEF IInv
<1>9. CASE HeadVisible
  <2>1. TypeOK' /\ NothingLeaks' /\ LiveSlotsExact'
    BY <1>0, <1>9 DEF HeadVisible, TypeOK, NothingLeaks, LiveSlotsExact, Between
  <2>2. CallsInv'
    <3>1. prod # "idle" => Succ(tail) # Succ(headSeen)
      BY <1>0, <1>9, ViewsMove, SuccIs, CapacityAssumption DEF HeadVisible, CallsInv, Dist, Slots
    <3> QED BY <1>9, <3>1 DEF HeadVisible, CallsInv, Succ
  <2>3. ViewsInOrder'
    <3>1. /\ headSeen' = Succ(headSeen) /\ UNCHANGED <<head, tail, tailSeen>>
          /\ Dist(Succ(headSeen), head) = Dist(headSeen, head) - 1
          /\ Dist(headSeen, head) \in Nat /\ Dist(head, tailSeen) \in Nat
          /\ Dist(tailSeen, tail) \in Nat
      BY <1>9, ViewsMove DEF HeadVisible
    <3>2. Dist(headSeen, head)' = Dist(Succ(headSeen), head)
          /\ Dist(head, tailSeen)' = Dist(head, tailSeen)
          /\ Dist(tailSeen, tail)' = Dist(tailSeen, tail)
      BY <3>1 DEF Dist
    <3> QED BY <3>1, <3>2, CapacityAssumption DEF ViewsInOrder
  <2> QED BY <2>1, <2>2, <2>3 DEF IInv
<1>10. CASE TailVisible
  <2>1. TypeOK' /\ NothingLeaks' /\ LiveSlotsExact'
    BY <1>0, <1>10 DEF TailVisible, TypeOK, NothingLeaks, LiveSlotsExact, Between
  <2>2. CallsInv'
    <3>1. cons # "idle" => head # Succ(tailSeen)
      BY <1>0, <1>10, ViewsMove, SuccIs, CapacityAssumption DEF TailVisible, CallsInv, Dist, Slots
    <3> QED BY <1>10, <3>1 DEF TailVisible, CallsInv, Succ
  <2>3. ViewsInOrder'
    <3>1. /\ tailSeen' = Succ(tailSeen) /\ UNCHANGED <<head, tail, headSeen>>
          /\ Dist(head, Succ(tailSeen)) = Dist(head, tailSeen) + 1
          /\ Dist(Succ(tailSeen), tail) = Dist(tailSeen, tail) - 1
          /\ Dist(headSeen, head) \in Nat /\ Dist(head, tailSeen) \in Nat
          /\ Dist(tailSeen, tail) \in Nat
      BY <1>10, ViewsMove DEF TailVisible
    <3>2. Dist(headSeen, head)' = Dist(headSeen, head)
          /\ Dist(head, tailSeen)' = Dist(head, Succ(tailSeen))
          /\ Dist(tailSeen, tail)' = Dist(Succ(tailSeen), tail)
      BY <3>1 DEF Dist
    <3> QED BY <3>1, <3>2, CapacityAssumption DEF ViewsInOrder
  <2> QED BY <2>1, <2>2, <2>3 DEF IInv
<1>11. CASE Destruct
  <2>1. alive' = FALSE /\ headSeen' = head /\ tailSeen' = tail
        /\ UNCHANGED <<head, tail, prod, arg, cons, result>> /\ alive
        /\ prod = "idle" /\ cons = "idle"
        /\ slots' = [i \in Slots |-> IF i \in Between(head, tail) THEN Raw ELSE slots[i]]
    BY <1>11 DEF Destruct, Destroyed
  <2>2. TypeOK' /\ CallsInv' /\ LiveSlotsExact'
    BY <1>0, <2>1 DEF TypeOK, CallsInv, LiveSlotsExact
  <2>3. NothingLeaks'
    BY <2>1 DEF NothingLeaks, LiveSlotsExact
  <2>4. ViewsInOrder'
    <3>1. Dist(head, head) = 0 /\ Dist(tail, tail) = 0 /\ Dist(head, tail) \in Nat /\ Dist(head, tail) < Capacity
      BY <1>0, CapacityAssumption DEF Dist, Slots
    <3>2. ViewsInOrder' <=> Dist(head, head) + Dist(head, tail) + Dist(tail, tail) < Capacity
      BY <2>1 DEF ViewsInOrder, Dist
    <3> QED BY <3>1, <3>2, CapacityAssumption
  <2> QED BY <2>2, <2>3, <2>4 DEF IInv
<1> QED
  BY <1>1, <1>2, <1>3, <1>4, <1>5, <1>6, <1>7, <1>8, <1>9, <1>10, <1>11
  DEF Next, Producer, Consumer, Memory, EmplaceFull, PopEmpty

LEMMA Invariant == Spec => []IInv
<1> QED BY InitInv, StepInv, PTL DEF Spec

\* Every index stays inside the ring and no slot holds anything but an object or nothing.
THEOREM QueueTypes == Spec => []TypeOK
<1>1. IInv => TypeOK  BY DEF IInv
<1> QED BY <1>1, Invariant, PTL

\* For every capacity and however late a store becomes visible, neither thread overtakes
\* the other (spscqueue.hpp:34-35 and 50-51).
THEOREM ViewsStayInOrder == Spec => []ViewsInOrder
<1>1. IInv => ViewsInOrder  BY DEF IInv
<1> QED BY <1>1, Invariant, PTL

\* For every capacity emplace constructs into raw slots only, pop takes living objects only,
\* and the destructor's walk (spscqueue.hpp:19-25) destroys exactly what is left.
THEOREM ObjectsAccounted == Spec => []ObjectsExact
<1>1. IInv => ObjectsExact  BY DEF IInv, ObjectsExact
<1> QED BY <1>1, Invariant, PTL
-----------------------------------------------------------------------------
\* The values that wait, as a sequence.

\* n slots of f round the ring, from i on.
Ring(f, i, n) == [k \in 1..n |-> f[(i + k - 1) % Capacity]]

\* The k-th slot from i on.
LEMMA PlaceIs ==
  ASSUME NEW x \in Nat, x < 2 * Capacity
  PROVE  x % Capacity = IF x < Capacity THEN x ELSE x - Capacity
<1>1. Capacity \in Nat /\ Capacity > 0
  BY CapacityAssumption
<1>2. CASE x < Capacity
  BY <1>1, <1>2
<1>3. CASE x >= Capacity
  <2>1. PICK d, r : d = x \div Capacity /\ r = x % Capacity
    OBVIOUS
  <2>0. d \in Nat /\ r \in Nat /\ r < Capacity /\ x = Capacity * d + r
    BY <1>1, <2>1
  <2>2. d # 0
    BY <1>1, <1>3, <2>0
  <2>3. ~(d >= 2)
    <3> SUFFICES ASSUME d >= 2 PROVE FALSE
      OBVIOUS
    <3>1. PICK e \in Nat : d = e + 2
      <4>1. d - 2 \in Nat /\ d = (d - 2) + 2
        BY <2>0
      <4> QED BY <4>1
    <3>2. Capacity * d = Capacity * e + 2 * Capacity /\ Capacity * e >= 0
      BY <1>1, <3>1
    <3> QED BY <1>1, <2>0, <3>2
  <2>4. d = 1
    BY <2>0, <2>2, <2>3
  <2> QED BY <1>1, <1>3, <2>0, <2>1, <2>4
<1> QED BY <1>1, <1>2, <1>3

LEMMA PlaceBetween ==
  ASSUME NEW i \in Slots, NEW j \in Slots, NEW k \in 1..Dist(i, j)
  PROVE  (i + k - 1) % Capacity \in Between(i, j)
<1>1. Capacity \in Nat /\ Capacity > 0 /\ i \in 0..(Capacity - 1) /\ j \in 0..(Capacity - 1)
  BY CapacityAssumption DEF Slots
<1>2. Dist(i, j) \in 0..(Capacity - 1)
  BY <1>1 DEF Dist
<1>3. PICK x : x = i + k - 1
  OBVIOUS
<1>4. x \in Nat /\ x < 2 * Capacity /\ x >= i /\ x < i + Dist(i, j)
  BY <1>1, <1>2, <1>3
<1>5. x % Capacity = IF x < Capacity THEN x ELSE x - Capacity
  BY <1>4, PlaceIs
<1> QED BY <1>1, <1>3, <1>4, <1>5 DEF Dist, Between, Slots

\* A ring of values is a sequence of them.
LEMMA RingIsSeq ==
  ASSUME NEW i \in Slots, NEW j \in Slots, NEW f, \A x \in Between(i, j) : f[x] \in Values
  PROVE  /\ Ring(f, i, Dist(i, j)) \in Seq(Values) /\ Len(Ring(f, i, Dist(i, j))) = Dist(i, j)
         /\ Dist(i, j) \in Nat /\ DOMAIN Ring(f, i, Dist(i, j)) = 1..Dist(i, j)
<1>1. PICK n : n = Dist(i, j)
  OBVIOUS
<1>2. n \in Nat
  BY <1>1, CapacityAssumption DEF Dist, Slots
<1>3. \A k \in 1..n : f[(i + k - 1) % Capacity] \in Values
  BY <1>1, PlaceBetween
<1>4. Ring(f, i, n) \in Seq(Values)
  BY <1>2, <1>3, IsASeq DEF Ring
<1>5. DOMAIN Ring(f, i, n) = 1..n
  BY DEF Ring
<1>6. Len(Ring(f, i, n)) = n
  BY <1>2, <1>4, <1>5, LenProperties
<1> QED BY <1>1, <1>2, <1>4, <1>5, <1>6

\* Slots outside do not matter.
LEMMA RingSame ==
  ASSUME NEW i \in Slots, NEW j \in Slots, NEW f, NEW g, \A x \in Between(i, j) : f[x] = g[x]
  PROVE  Ring(f, i, Dist(i, j)) = Ring(g, i, Dist(i, j))
BY PlaceBetween DEF Ring

LEMMA DistMoves ==
  ASSUME NEW i \in Slots, NEW j \in Slots
  PROVE  /\ Succ(j) # i => Dist(i, Succ(j)) = Dist(i, j) + 1 /\ (i + Dist(i, j)) % Capacity = j
         /\ i # j => Dist(i, j) = Dist(Succ(i), j) + 1 /\ Dist(i, j) > 0
         /\ Dist(i, j) \in Nat /\ Dist(Succ(i), j) \in Nat /\ Succ(i) \in Slots /\ Succ(j) \in Slots
<1>1. Capacity \in Nat /\ Capacity > 0 /\ i \in 0..(Capacity - 1) /\ j \in 0..(Capacity - 1)
  BY CapacityAssumption DEF Slots
<1>2. /\ Succ(i) = (IF i + 1 = Capacity THEN 0 ELSE i + 1) /\ Succ(i) \in Slots
      /\ Succ(j) = (IF j + 1 = Capacity THEN 0 ELSE j + 1) /\ Succ(j) \in Slots
  BY SuccIs
<1>3. PICK x : x = i + Dist(i, j)
  OBVIOUS
<1>4. x \in Nat /\ x < 2 * Capacity /\ j = IF x < Capacity THEN x ELSE x - Capacity
  BY <1>1, <1>3 DEF Dist
<1>5. x % Capacity = j
  BY <1>4, PlaceIs
<1>6. Dist(i, j) \in Nat /\ Dist(Succ(i), j) \in Nat
  BY <1>1, <1>2 DEF Dist
<1>7. Succ(j) # i => Dist(i, Succ(j)) = Dist(i, j) + 1
  BY <1>1, <1>2 DEF Dist
<1>8. i # j => Dist(i, j) = Dist(Succ(i), j) + 1 /\ Dist(i, j) > 0
  BY <1>1, <1>2 DEF Dist
<1> QED BY <1>2, <1>3, <1>5, <1>6, <1>7, <1>8

\* A value put behind the last.
LEMMA RingPut ==
  ASSUME NEW i \in Slots, NEW j \in Slots, Succ(j) # i,
         NEW f, f[j] \in Values, \A x \in Between(i, j) : f[x] \in Values
  PROVE  Ring(f, i, Dist(i, Succ(j))) = Append(Ring(f, i, Dist(i, j)), f[j])
<1>1. PICK n : n = Dist(i, j)
  OBVIOUS
<1>2. n \in Nat /\ Dist(i, Succ(j)) = n + 1 /\ (i + n) % Capacity = j
  BY <1>1, DistMoves
<1>3. PICK q : q = Ring(f, i, n)
  OBVIOUS
<1>4. PICK r : r = Ring(f, i, n + 1)
  OBVIOUS
<1>5. q \in Seq(Values) /\ Len(q) = n /\ DOMAIN q = 1..n
  BY <1>1, <1>3, RingIsSeq
<1>6. PICK a : a = Append(q, f[j])
  OBVIOUS
<1>7. a \in Seq(Values) /\ Len(a) = n + 1 /\ a[n + 1] = f[j] /\ \A k \in 1..n : a[k] = q[k]
  BY <1>5, <1>6, AppendProperties
<1>8. \A k \in 1..n : q[k] = f[(i + k - 1) % Capacity]
  BY <1>3 DEF Ring
<1>9. DOMAIN r = 1..(n + 1) /\ \A k \in 1..(n + 1) : r[k] = f[(i + k - 1) % Capacity]
  BY <1>4 DEF Ring
<1>10. i + (n + 1) - 1 = i + n
  BY <1>2 DEF Slots
<1>11. r[n + 1] = f[j]
  <2>1. n + 1 \in 1..(n + 1)
    BY <1>2
  <2> QED BY <1>2, <1>9, <1>10, <2>1
<1>12. \A k \in 1..(n + 1) : r[k] = a[k]
  <2> SUFFICES ASSUME NEW k \in 1..(n + 1) PROVE r[k] = a[k]
    OBVIOUS
  <2>1. CASE k = n + 1
    BY <2>1, <1>7, <1>11
  <2>2. CASE k \in 1..n
    BY <2>2, <1>7, <1>8, <1>9
  <2> QED BY <1>2, <2>1, <2>2
<1>13. DOMAIN a = 1..(n + 1)
  BY <1>7, LenProperties
<1>14. r = [k \in 1..(n + 1) |-> r[k]] /\ a = [k \in 1..(n + 1) |-> a[k]]
  <2>1. r = [k \in 1..(n + 1) |-> r[k]]
    BY <1>4 DEF Ring
  <2>2. a = [k \in 1..(n + 1) |-> a[k]]
    BY <1>7, LenProperties, SeqDef
  <2> QED BY <2>1, <2>2
<1>15. r = a
  BY <1>12, <1>14
<1> QED BY <1>1, <1>2, <1>3, <1>4, <1>6, <1>15

\* The first value taken.
LEMMA RingTake ==
  ASSUME NEW i \in Slots, NEW j \in Slots, i # j,
         NEW f, \A x \in Between(i, j) : f[x] \in Values
  PROVE  /\ Ring(f, i, Dist(i, j)) # <<>>
         /\ Head(Ring(f, i, Dist(i, j))) = f[i]
         /\ Ring(f, Succ(i), Dist(Succ(i), j)) = Tail(Ring(f, i, Dist(i, j)))
<1>1. PICK n : n = Dist(Succ(i), j)
  OBVIOUS
<1>2. n \in Nat /\ Dist(i, j) = n + 1 /\ Succ(i) \in Slots
  BY <1>1, DistMoves
<1>3. PICK q : q = Ring(f, i, n + 1)
  OBVIOUS
<1>4. PICK r : r = Ring(f, Succ(i), n)
  OBVIOUS
<1>5. q \in Seq(Values) /\ Len(q) = n + 1
  BY <1>2, <1>3, RingIsSeq
<1>6. q # <<>>
  BY <1>2, <1>5, EmptySeq
<1>7. PICK t : t = Tail(q)
  OBVIOUS
<1>8. t \in Seq(Values) /\ Len(t) = n /\ \A k \in 1..n : t[k] = q[k + 1]
  <2>1. t \in Seq(Values) /\ Len(t) = Len(q) - 1 /\ \A k \in 1..Len(t) : t[k] = q[k + 1]
    BY <1>5, <1>6, <1>7, HeadTailProperties
  <2>2. Len(t) = n
    BY <1>2, <1>5, <2>1
  <2> QED BY <2>1, <2>2
<1>9. Capacity \in Nat /\ Capacity > 0 /\ i \in Nat /\ i < Capacity
  BY CapacityAssumption DEF Slots
<1>10. \A k \in 1..(n + 1) : q[k] = f[(i + k - 1) % Capacity]
  BY <1>3 DEF Ring
<1>11. \A k \in 1..n : r[k] = f[(Succ(i) + k - 1) % Capacity]
  BY <1>4 DEF Ring
<1>12. n + 1 < Capacity
  BY <1>2, CapacityAssumption DEF Dist, Slots
<1>13. \A k \in 1..n : (Succ(i) + k - 1) % Capacity = (i + (k + 1) - 1) % Capacity
  <2> SUFFICES ASSUME NEW k \in 1..n
               PROVE  (Succ(i) + k - 1) % Capacity = (i + (k + 1) - 1) % Capacity
    OBVIOUS
  <2>1. PICK x : x = Succ(i) + k - 1
    OBVIOUS
  <2>2. PICK y : y = i + (k + 1) - 1
    OBVIOUS
  <2>3. Succ(i) = IF i + 1 = Capacity THEN 0 ELSE i + 1
    BY SuccIs
  <2>4. x \in Nat /\ y \in Nat /\ x < 2 * Capacity /\ y < 2 * Capacity /\ x < Capacity + n
        /\ (x = y \/ (x = y - Capacity /\ x < Capacity))
    BY <1>2, <1>9, <1>12, <2>1, <2>2, <2>3
  <2>5. /\ x % Capacity = IF x < Capacity THEN x ELSE x - Capacity
        /\ y % Capacity = IF y < Capacity THEN y ELSE y - Capacity
    BY <2>4, PlaceIs
  <2> QED BY <1>9, <2>1, <2>2, <2>4, <2>5
<1>14. \A k \in 1..n : r[k] = t[k]
  <2> SUFFICES ASSUME NEW k \in 1..n PROVE r[k] = t[k]
    OBVIOUS
  <2>1. k + 1 \in 1..(n + 1)
    BY <1>2
  <2> QED BY <2>1, <1>8, <1>10, <1>11, <1>13
<1>15. r = t
  <2>1. r = [k \in 1..n |-> r[k]]
    BY <1>4 DEF Ring
  <2>2. t = [k \in 1..n |-> t[k]]
    BY <1>8, LenProperties, SeqDef
  <2> QED BY <1>14, <2>1, <2>2
<1>16. Head(q) = f[i]
  <2>1. Head(q) = q[1]
    BY <1>5, <1>6
  <2>2. 1 \in 1..(n + 1) /\ i + 1 - 1 = i /\ i % Capacity = i
    BY <1>2, <1>9
  <2> QED BY <1>10, <2>1, <2>2
<1> QED BY <1>1, <1>2, <1>3, <1>4, <1>6, <1>7, <1>15, <1>16

-----------------------------------------------------------------------------
\* The queue implements BoundedFifo.

Items == [k \in 1..(IF alive THEN Dist(FirstWaiting, tail) ELSE 0) |->
            slots[(FirstWaiting + k - 1) % Capacity]]

ItemsOK ==
  /\ alive => Items = Ring(slots, FirstWaiting, Dist(FirstWaiting, tail))
  /\ ~alive => Items = <<>>

LEMMA ItemsAre == ItemsOK
<1>1. ASSUME ~alive PROVE Items = <<>>
  <2>1. 1..0 = {}
    OBVIOUS
  <2>2. Items = [k \in 1..0 |-> slots[(FirstWaiting + k - 1) % Capacity]]
    BY <1>1 DEF Items
  <2>3. \A k \in 1..0 : slots[(FirstWaiting + k - 1) % Capacity] \in {}
    BY <2>1
  <2>4. Items \in Seq({})
    BY <2>2, <2>3, IsASeq
  <2>5. Len(Items) \in Nat /\ DOMAIN Items = 1..Len(Items) /\ DOMAIN Items = 1..0
    BY <2>2, <2>4, LenProperties
  <2>6. Len(Items) = 0
    BY <2>5
  <2> QED BY <2>4, <2>6, EmptySeq
<1>2. alive => Items = Ring(slots, FirstWaiting, Dist(FirstWaiting, tail))
  BY DEF Items, Ring
<1> QED BY <1>1, <1>2 DEF ItemsOK

LEMMA ItemsAreNext == ItemsOK'
BY ItemsAre, PTL

\* The slots from the first waiting value to the tail hold values.
LEMMA ValuesWait ==
  ASSUME IInv, alive
  PROVE  /\ FirstWaiting \in Slots /\ tail \in Slots /\ head \in Slots
         /\ \A x \in Between(FirstWaiting, tail) : slots[x] \in Values
         /\ tail \notin Between(FirstWaiting, tail)
         /\ cons # "idle" => head # tail
         /\ Dist(FirstWaiting, tail) \in Nat /\ Dist(FirstWaiting, tail) <= Dist(head, tail)
<1>1. head \in Slots /\ tail \in Slots /\ slots \in [Slots -> Values \cup {Raw}]
  BY DEF IInv, TypeOK
<1>2. cons # "idle" => head # tail
  <2>1. TypeOK /\ ViewsInOrder /\ CallsInv
    BY DEF IInv
  <2>2. /\ Dist(head, tailSeen) \in Nat /\ Dist(tailSeen, tail) \in Nat
        /\ Dist(head, tail) = Dist(head, tailSeen) + Dist(tailSeen, tail)
    BY <2>1, ViewsMove
  <2>3. head # tailSeen => Dist(head, tailSeen) # 0
    BY <1>1, <2>1, CapacityAssumption DEF TypeOK, Dist, Slots
  <2>4. head = tail => Dist(head, tail) = 0
    BY <1>1 DEF Dist, Slots
  <2> QED BY <2>1, <2>2, <2>3, <2>4 DEF CallsInv
<1>3. {i \in Slots : slots[i] # Raw} =
        (Between(head, tail) \ (IF cons = "release" THEN {head} ELSE {}))
          \cup (IF prod = "publish" THEN {tail} ELSE {})
  BY DEF IInv, LiveSlotsExact
<1>4. /\ FirstWaiting \in Slots /\ Dist(FirstWaiting, tail) \in Nat
      /\ Dist(FirstWaiting, tail) <= Dist(head, tail)
  BY <1>1, <1>2, DistMoves DEF FirstWaiting
<1>5. Between(FirstWaiting, tail) = Between(head, tail) \ (IF cons = "release" THEN {head} ELSE {})
  <2>1. CASE cons = "release"
    BY <1>1, <1>2, <2>1, BetweenMoves DEF FirstWaiting
  <2>2. CASE cons # "release"
    BY <2>2 DEF FirstWaiting
  <2> QED BY <2>1, <2>2
<1>6. \A x \in Between(FirstWaiting, tail) : slots[x] \in Values
  <2> SUFFICES ASSUME NEW x \in Between(FirstWaiting, tail) PROVE slots[x] \in Values
    OBVIOUS
  <2>1. x \in Slots /\ slots[x] # Raw
    BY <1>3, <1>5
  <2> QED BY <1>1, <2>1
<1>7. tail \notin Between(FirstWaiting, tail)
  BY <1>1, <1>4, BetweenMoves
<1> QED BY <1>1, <1>2, <1>4, <1>6, <1>7

\* Slots outside the waiting values may change.
LEMMA ItemsSame ==
  ASSUME IInv, alive, alive', FirstWaiting' = FirstWaiting, tail' = tail,
         \A x \in Between(FirstWaiting, tail) : slots'[x] = slots[x]
  PROVE  Items' = Items
<1>1. PICK i \in Slots : i = FirstWaiting
  BY ValuesWait
<1>2. PICK f : f = slots'
  OBVIOUS
<1>3. Items = Ring(slots, i, Dist(i, tail)) /\ Items' = Ring(f, i, Dist(i, tail))
  BY <1>1, <1>2, ItemsAre, ItemsAreNext DEF ItemsOK
<1>4. Ring(f, i, Dist(i, tail)) = Ring(slots, i, Dist(i, tail))
  BY <1>1, <1>2, ValuesWait, RingSame
<1> QED BY <1>3, <1>4

LEMMA ItemsUnchanged ==
  ASSUME UNCHANGED <<slots, head, tail, alive>>, (cons = "release") <=> (cons' = "release")
  PROVE  Items' = Items
<1>1. FirstWaiting' = FirstWaiting
  BY DEF FirstWaiting, Succ
<1>2. Dist(FirstWaiting, tail)' = Dist(FirstWaiting, tail)
  BY <1>1 DEF Dist
<1> QED BY <1>1, <1>2 DEF Items

\* emplace: the value constructed at the tail waits from the store of the tail on.
LEMMA PublishPuts ==
  ASSUME IInv, Publish
  PROVE  \E v \in Values : /\ Len(Items) < Capacity - 1
                           /\ Items' = Append(Items, v)
                           /\ result' = result
<1>1. /\ prod = "publish" /\ alive /\ alive' = alive /\ tail' = Succ(tail) /\ Succ(tail) # headSeen
      /\ UNCHANGED <<slots, head, cons, result>>
  BY DEF Publish, IInv, CallsInv
<1>2. PICK i \in Slots : i = FirstWaiting
  BY <1>1, ValuesWait
<1>3. PICK j \in Slots : j = tail
  BY DEF IInv, TypeOK
<1>4. PICK v : v = slots[j]
  OBVIOUS
<1>5. v \in Values
  BY <1>1, <1>3, <1>4 DEF IInv, LiveSlotsExact, TypeOK
<1>6. \A x \in Between(i, j) : slots[x] \in Values
  BY <1>1, <1>2, <1>3, ValuesWait
<1>7. Dist(i, j) \in Nat /\ Dist(i, j) < Capacity - 1
  <2>1. Dist(i, j) \in Nat /\ Dist(i, j) <= Dist(head, tail)
    BY <1>1, <1>2, <1>3, ValuesWait
  <2>2. /\ Dist(headSeen, head) + Dist(head, tailSeen) + Dist(tailSeen, tail) + 1 < Capacity
        /\ Dist(headSeen, head) \in Nat /\ Dist(head, tailSeen) \in Nat
        /\ Dist(tailSeen, tail) \in Nat
        /\ Dist(head, tail) = Dist(head, tailSeen) + Dist(tailSeen, tail)
    BY <1>1, ViewsMove DEF IInv
  <2> QED BY <2>1, <2>2, CapacityAssumption
<1>8. Succ(j) # i
  BY <1>7, SuccIs, CapacityAssumption DEF Dist, Slots
<1>9. Ring(slots, i, Dist(i, Succ(j))) = Append(Ring(slots, i, Dist(i, j)), slots[j])
  BY <1>4, <1>5, <1>6, <1>8, RingPut
<1>10. Items = Ring(slots, i, Dist(i, j))
  BY <1>1, <1>2, <1>3, ItemsAre DEF ItemsOK
<1>11. Items' = Ring(slots, i, Dist(i, Succ(j)))
  <2>1. FirstWaiting' = i
    BY <1>1, <1>2 DEF FirstWaiting, Succ
  <2>2. tail' = Succ(j)
    BY <1>1, <1>3
  <2>3. Items' = Ring(slots', FirstWaiting', Dist(FirstWaiting', tail'))
    BY <1>1, ItemsAreNext DEF ItemsOK
  <2> QED BY <1>1, <2>1, <2>2, <2>3
<1>12. Len(Items) = Dist(i, j)
  BY <1>6, <1>10, RingIsSeq
<1> QED BY <1>1, <1>4, <1>5, <1>7, <1>9, <1>10, <1>11, <1>12

\* pop: the value at the head is the one that waits longest.
LEMMA TakeTakes ==
  ASSUME IInv, Take
  PROVE  Items # <<>> /\ result' = Head(Items) /\ Items' = Tail(Items)
<1>1. /\ cons = "take" /\ cons' = "release" /\ alive /\ alive' = alive
      /\ UNCHANGED <<head, tail>> /\ result' = slots[head] /\ slots' = [slots EXCEPT ![head] = Raw]
  BY DEF Take, IInv, CallsInv, indexes
<1>2. /\ FirstWaiting = head /\ FirstWaiting' = Succ(head) /\ head \in Slots /\ tail \in Slots
      /\ head # tail /\ \A x \in Between(head, tail) : slots[x] \in Values
  <2>1. FirstWaiting = head /\ FirstWaiting' = Succ(head)
    BY <1>1 DEF FirstWaiting, Succ
  <2> QED BY <1>1, <2>1, ValuesWait
<1>3. PICK i \in Slots : i = head
  BY <1>2
<1>4. PICK j \in Slots : j = tail
  BY <1>2
<1>5. PICK f : f = slots'
  OBVIOUS
<1>6. /\ Ring(slots, i, Dist(i, j)) # <<>>
      /\ Head(Ring(slots, i, Dist(i, j))) = slots[i]
      /\ Ring(slots, Succ(i), Dist(Succ(i), j)) = Tail(Ring(slots, i, Dist(i, j)))
  BY <1>2, <1>3, <1>4, RingTake
<1>7. Ring(f, Succ(i), Dist(Succ(i), j)) = Ring(slots, Succ(i), Dist(Succ(i), j))
  <2>1. Succ(i) \in Slots
    BY DistMoves
  <2>2. i \notin Between(Succ(i), j)
    BY <1>2, <1>3, <1>4, BetweenMoves
  <2>3. \A x \in Between(Succ(i), j) : f[x] = slots[x]
    <3>1. Between(Succ(i), j) \subseteq Slots
      BY <2>1, BetweenMoves
    <3>2. DOMAIN slots = Slots
      BY DEF IInv, TypeOK
    <3> QED BY <1>1, <1>3, <1>5, <2>2, <3>1, <3>2
  <2> QED BY <2>1, <2>3, RingSame
<1>8. Items = Ring(slots, i, Dist(i, j))
  BY <1>1, <1>2, <1>3, <1>4, ItemsAre DEF ItemsOK
<1>9. Items' = Ring(f, Succ(i), Dist(Succ(i), j))
  BY <1>1, <1>2, <1>3, <1>4, <1>5, ItemsAreNext DEF ItemsOK
<1> QED BY <1>1, <1>3, <1>6, <1>7, <1>8, <1>9

LEMMA FifoInit == Init => Fifo!Init
<1> SUFFICES ASSUME Init PROVE Fifo!Init
  OBVIOUS
<1>1. alive /\ result = Raw /\ FirstWaiting = 0 /\ tail = 0
  BY DEF Init, FirstWaiting
<1>2. 0 \in Slots
  BY CapacityAssumption DEF Slots
<1>3. Dist(0, 0) = 0 /\ Between(0, 0) = {}
  BY DEF Dist, Between
<1>4. Items = <<>>
  <2>1. Items = Ring(slots, 0, Dist(0, 0))
    BY <1>1, ItemsAre DEF ItemsOK
  <2>2. Ring(slots, 0, Dist(0, 0)) \in Seq(Values) /\ Len(Ring(slots, 0, Dist(0, 0))) = Dist(0, 0)
    BY <1>2, <1>3, RingIsSeq
  <2> QED BY <1>3, <2>1, <2>2, EmptySeq
<1> QED BY <1>1, <1>4 DEF Fifo!Init, Items

LEMMA FifoStep == IInv /\ [Next]_vars => [Fifo!Next]_<<Items, result>>
<1> SUFFICES ASSUME IInv, [Next]_vars
             PROVE  Fifo!Next \/ (Items' = Items /\ result' = result)
  OBVIOUS
<1> USE DEF indexes
<1>1. CASE \/ EmplaceFull \/ PopEmpty \/ UNCHANGED vars \/ ConstructThrows \/ PopCheck
           \/ HeadVisible \/ TailVisible \/ (\E v \in Values : EmplaceCheck(v))
  <2>1. UNCHANGED <<slots, head, tail, alive, result>> /\ ((cons = "release") <=> (cons' = "release"))
    BY <1>1 DEF EmplaceFull, PopEmpty, ConstructThrows, PopCheck, HeadVisible, TailVisible,
                EmplaceCheck, vars
  <2>2. Items' = Items
    BY <2>1, ItemsUnchanged
  <2> QED BY <2>1, <2>2
<1>2. CASE Construct
  <2>1. /\ slots' = [slots EXCEPT ![tail] = arg] /\ UNCHANGED <<head, tail, cons, result, alive>>
        /\ alive
    BY <1>2 DEF Construct, IInv, CallsInv
  <2>2. FirstWaiting' = FirstWaiting
    BY <2>1 DEF FirstWaiting, Succ
  <2>3. \A x \in Between(FirstWaiting, tail) : slots'[x] = slots[x]
    <3>1. Between(FirstWaiting, tail) \subseteq Slots /\ tail \notin Between(FirstWaiting, tail)
      BY <2>1, ValuesWait, BetweenMoves
    <3>2. DOMAIN slots = Slots
      BY DEF IInv, TypeOK
    <3> QED BY <2>1, <3>1, <3>2
  <2>4. Items' = Items
    BY <2>1, <2>2, <2>3, ItemsSame
  <2> QED BY <2>1, <2>4
<1>3. CASE Publish
  <2>1. \E v \in Values : Len(Items) < Capacity - 1 /\ Items' = Append(Items, v) /\ result' = result
    BY <1>3, PublishPuts
  <2>2. \E v \in Values : Fifo!Put(v)
    BY <2>1 DEF Fifo!Put, Items
  <2> QED BY <2>2 DEF Fifo!Next
<1>4. CASE Take
  <2>1. Items # <<>> /\ result' = Head(Items) /\ Items' = Tail(Items)
    BY <1>4, TakeTakes
  <2>2. Fifo!Take
    BY <2>1 DEF Fifo!Take, Items
  <2> QED BY <2>2 DEF Fifo!Next
<1>5. CASE Release
  <2>1. /\ cons = "release" /\ cons' = "idle" /\ head' = Succ(head) /\ alive /\ alive' = alive
        /\ UNCHANGED <<slots, tail, result>>
    BY <1>5 DEF Release, IInv, CallsInv
  <2>2. FirstWaiting' = FirstWaiting
    BY <2>1 DEF FirstWaiting
  <2>3. Items' = Items
    BY <2>1, <2>2, ItemsSame
  <2> QED BY <2>1, <2>3
<1>6. CASE Destruct
  <2>1. ~alive' /\ result' = result
    BY <1>6 DEF Destruct
  <2>2. Items' = <<>>
    BY <2>1, ItemsAreNext DEF ItemsOK
  <2>3. Fifo!Close
    BY <2>1, <2>2 DEF Fifo!Close, Items
  <2> QED BY <2>3 DEF Fifo!Next
<1> QED BY <1>1, <1>2, <1>3, <1>4, <1>5, <1>6 DEF Next, Producer, Consumer, Memory

\* First in, first out, for every capacity: whatever the two threads' views of each other's
\* index and whichever constructors throw, pop gives each value that emplace put in once and
\* in the order of the calls, and never more than Capacity - 1 wait (spscqueue.hpp:33-58).
THEOREM QueueIsFifo == Spec => ImplementsFifo
<1>1. Spec => Fifo!Init
  BY FifoInit, PTL DEF Spec
<1>2. IInv /\ [Next]_vars => [Fifo!Next]_<<Items, result>>
  BY FifoStep
<1> QED BY <1>1, <1>2, Invariant, PTL DEF Spec, ImplementsFifo, Fifo!Spec, Items
=============================================================================
