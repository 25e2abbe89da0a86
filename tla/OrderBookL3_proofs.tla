-------------------------- MODULE OrderBookL3_proofs --------------------------
(***************************************************************************)
(* Theorems of OrderBookL3, for every set of orders and ids and every      *)
(* bound on prices and quantities.                                         *)
(***************************************************************************)
EXTENDS OrderBookL3Refines, SequenceTheorems, WellFoundedInduction, TLAPS

-----------------------------------------------------------------------------
\* Level containers.

\* The orders of a container with one order put at its back.
LEMMA AppendLine ==
  ASSUME NEW S, NEW q \in Seq(S), NEW o \in S
  PROVE  /\ Append(q, o) \in Seq(S)
         /\ ToSet(Append(q, o)) = ToSet(q) \cup {o}
         /\ o \notin ToSet(q) /\ IsInjective(q) => IsInjective(Append(q, o))
         /\ Append(q, o) # <<>>
<1> DEFINE r == Append(q, o)
<1>1. /\ r \in Seq(S) /\ Len(r) = Len(q) + 1 /\ r[Len(r)] = o
      /\ \A k \in 1..Len(q) : r[k] = q[k]
  BY AppendProperties
<1>2. Len(q) \in Nat /\ DOMAIN q = 1..Len(q) /\ DOMAIN r = 1..Len(q) + 1
  BY <1>1, LenProperties
<1>3. ToSet(r) = ToSet(q) \cup {o}
  BY <1>1, <1>2, SMT DEF ToSet
<1>4. ASSUME o \notin ToSet(q), IsInjective(q) PROVE IsInjective(r)
  BY <1>1, <1>2, <1>4, SMT DEF ToSet, IsInjective
<1>5. r # <<>>
  BY <1>1, <1>2, EmptySeq
<1> QED BY <1>1, <1>3, <1>4, <1>5

\* A sequence is empty exactly when no element is in it.
LEMMA EmptyLine ==
  ASSUME NEW S, NEW q \in Seq(S)
  PROVE  /\ q = <<>> <=> ToSet(q) = {}
         /\ ToSet(q) \subseteq S
<1>1. Len(q) \in Nat /\ DOMAIN q = 1..Len(q) /\ q \in [1..Len(q) -> S]
  BY LenProperties
<1>2. q = <<>> => ToSet(q) = {}
  BY DEF ToSet
<1>3. q # <<>> => 1 \in DOMAIN q
  BY <1>1, EmptySeq
<1> QED BY <1>1, <1>2, <1>3 DEF ToSet

\* What a container r keeps of q when the element at k is erased.
Erased(q, k, r) ==
  /\ Len(r) = Len(q) - 1
  /\ \A j \in 1..Len(r) : r[j] = IF j < k THEN q[j] ELSE q[j + 1]

\* Erasing one order of a container without duplicates takes exactly that order out.
LEMMA ErasedLine ==
  ASSUME NEW S, NEW q \in Seq(S), NEW k \in DOMAIN q, NEW r \in Seq(S),
         Erased(q, k, r), IsInjective(q)
  PROVE  ToSet(r) = ToSet(q) \ {q[k]} /\ IsInjective(r)
<1>1. /\ Len(q) \in Nat /\ DOMAIN q = 1..Len(q)
      /\ Len(r) \in Nat /\ DOMAIN r = 1..Len(r)
  BY LenProperties
<1>2. Len(r) = Len(q) - 1 /\ k \in 1..Len(q)
  BY <1>1 DEF Erased
<1>3. \A j \in 1..Len(r) : r[j] = IF j < k THEN q[j] ELSE q[j + 1]
  BY DEF Erased
<1>4. ASSUME NEW j \in 1..Len(r) PROVE r[j] \in ToSet(q) \ {q[k]}
  <2>1. CASE j < k
    <3>1. j \in 1..Len(q) /\ j # k  BY <1>1, <1>2, <2>1, <1>4
    <3> QED BY <3>1, <1>1, <1>2, <1>3, <2>1 DEF ToSet, IsInjective
  <2>2. CASE ~(j < k)
    <3>1. j + 1 \in 1..Len(q) /\ j + 1 # k  BY <1>1, <1>2, <2>2, <1>4
    <3> QED BY <3>1, <1>1, <1>2, <1>3, <2>2 DEF ToSet, IsInjective
  <2> QED BY <2>1, <2>2
<1>5. ASSUME NEW n \in 1..Len(q), n # k PROVE q[n] \in ToSet(r)
  <2>1. CASE n < k
    <3>1. n \in 1..Len(r)  BY <1>1, <1>2, <2>1
    <3> QED BY <3>1, <1>1, <1>3, <2>1 DEF ToSet
  <2>2. CASE n > k
    <3>1. n - 1 \in 1..Len(r) /\ ~(n - 1 < k) /\ (n - 1) + 1 = n  BY <1>1, <1>2, <2>2
    <3> QED BY <3>1, <1>1, <1>3 DEF ToSet
  <2> QED BY <1>1, <1>2, <1>5, <2>1, <2>2
<1>6. ToSet(r) = ToSet(q) \ {q[k]}
  BY <1>1, <1>4, <1>5 DEF ToSet
<1>7. ASSUME NEW i \in 1..Len(r), NEW j \in 1..Len(r), r[i] = r[j] PROVE i = j
  <2> DEFINE Old(n) == IF n < k THEN n ELSE n + 1
  <2>1. Old(i) \in 1..Len(q) /\ Old(j) \in 1..Len(q)  BY <1>1, <1>2
  <2>2. q[Old(i)] = q[Old(j)]  BY <1>3, <1>7
  <2>3. Old(i) = Old(j)  BY <2>1, <2>2, <1>1 DEF IsInjective
  <2> QED BY <2>3, <1>1, <1>2
<1>8. IsInjective(r)
  BY <1>1, <1>7 DEF IsInjective
<1> QED BY <1>6, <1>8

\* Tail erases the first element.
LEMMA TailErases ==
  ASSUME NEW S, NEW q \in Seq(S), q # <<>>
  PROVE  /\ Tail(q) \in Seq(S) /\ Erased(q, 1, Tail(q))
         /\ 1 \in DOMAIN q /\ Head(q) = q[1] /\ Head(q) \in ToSet(q)
<1>1. /\ Tail(q) \in Seq(S) /\ Len(Tail(q)) = Len(q) - 1
      /\ \A j \in 1..Len(Tail(q)) : Tail(q)[j] = q[j + 1]
  BY HeadTailProperties
<1>2. Len(q) \in Nat \ {0} /\ DOMAIN q = 1..Len(q)
  BY LenProperties, EmptySeq
<1>3. Head(q) = q[1]
  OBVIOUS
<1>4. \A j \in 1..Len(Tail(q)) : ~(j < 1)
  BY <1>1, <1>2
<1> QED BY <1>1, <1>2, <1>3, <1>4 DEF Erased, ToSet

\* RemoveAt erases the element at its index.
LEMMA RemoveAtErases ==
  ASSUME NEW S, NEW q \in Seq(S), NEW k \in DOMAIN q
  PROVE  RemoveAt(q, k) \in Seq(S) /\ Erased(q, k, RemoveAt(q, k))
<1> DEFINE u == SubSeq(q, 1, k - 1)
           v == SubSeq(q, k + 1, Len(q))
<1>1. Len(q) \in Nat /\ DOMAIN q = 1..Len(q) /\ q \in [1..Len(q) -> S]
  BY LenProperties
<1>2. k \in 1..Len(q)  BY <1>1
<1>3. /\ u \in Seq(S) /\ Len(u) = k - 1
      /\ \A i \in 1..k - 1 : u[i] = q[i]
  <2>1. \A i \in 1..(k - 1) : q[i] \in S  BY <1>1, <1>2
  <2>2. /\ u \in Seq(S) /\ Len(u) = IF 1 <= k - 1 THEN k - 1 - 1 + 1 ELSE 0
        /\ \A i \in 1..(k - 1 - 1 + 1) : u[i] = q[1 + i - 1]
    BY <2>1, <1>2, SubSeqProperties
  <2>3. (IF 1 <= k - 1 THEN k - 1 - 1 + 1 ELSE 0) = k - 1  BY <1>1, <1>2
  <2>4. \A i \in 1..k - 1 : i \in 1..(k - 1 - 1 + 1) /\ 1 + i - 1 = i  BY <1>1, <1>2
  <2> QED BY <2>2, <2>3, <2>4
<1>4. /\ v \in Seq(S) /\ Len(v) = Len(q) - k
      /\ \A i \in 1..Len(q) - k : v[i] = q[k + i]
  <2>1. \A i \in (k + 1)..Len(q) : q[i] \in S  BY <1>1, <1>2
  <2>2. /\ v \in Seq(S) /\ Len(v) = IF k + 1 <= Len(q) THEN Len(q) - (k + 1) + 1 ELSE 0
        /\ \A i \in 1..(Len(q) - (k + 1) + 1) : v[i] = q[k + 1 + i - 1]
    BY <2>1, <1>1, <1>2, SubSeqProperties
  <2>3. (IF k + 1 <= Len(q) THEN Len(q) - (k + 1) + 1 ELSE 0) = Len(q) - k  BY <1>1, <1>2
  <2>4. \A i \in 1..Len(q) - k : i \in 1..(Len(q) - (k + 1) + 1) /\ k + 1 + i - 1 = k + i
    BY <1>1, <1>2
  <2> QED BY <2>2, <2>3, <2>4
<1>5. /\ u \o v \in Seq(S) /\ Len(u \o v) = Len(u) + Len(v)
      /\ \A i \in 1..Len(u) + Len(v) : (u \o v)[i] = IF i <= Len(u) THEN u[i] ELSE v[i - Len(u)]
  BY <1>3, <1>4, ConcatProperties
<1>6. RemoveAt(q, k) = u \o v  BY DEF RemoveAt
<1>7. Len(u) + Len(v) = Len(q) - 1  BY <1>1, <1>2, <1>3, <1>4
<1>8. ASSUME NEW j \in 1..Len(q) - 1
      PROVE  (u \o v)[j] = IF j < k THEN q[j] ELSE q[j + 1]
  <2>1. CASE j < k
    <3>1. j \in 1..k - 1 /\ j <= Len(u)  BY <1>1, <1>2, <1>3, <2>1
    <3> QED BY <3>1, <1>3, <1>5, <1>7, <2>1
  <2>2. CASE ~(j < k)
    <3>1. ~(j <= Len(u)) /\ j - Len(u) \in 1..Len(q) - k /\ k + (j - Len(u)) = j + 1
      BY <1>1, <1>2, <1>3, <2>2
    <3> QED BY <3>1, <1>4, <1>5, <1>7, <2>2
  <2> QED BY <2>1, <2>2
<1> QED BY <1>5, <1>6, <1>7, <1>8 DEF Erased

\* Replacing one entry of a two-level function.
LEMMA UpdateAt ==
  ASSUME NEW D, NEW E, NEW S, NEW f \in [D -> [E -> S]], NEW d \in D, NEW e \in E, NEW c \in S,
         NEW g, g = [f EXCEPT ![d][e] = c]
  PROVE  /\ g \in [D -> [E -> S]]
         /\ \A x \in D, y \in E : g[x][y] = IF x = d /\ y = e THEN c ELSE f[x][y]
  OBVIOUS

\* Dropping the key of a container that became empty keeps the keys exact.
LEMMA KeysExact ==
  ASSUME NEW f, NEW g, NEW p \in Prices, NEW c, f[p] # <<>>,
         \A e \in Prices : g[e] = IF e = p THEN c ELSE f[e]
  PROVE  {e \in Prices : g[e] # <<>>} =
           IF c = <<>> THEN {e \in Prices : f[e] # <<>>} \ {p} ELSE {e \in Prices : f[e] # <<>>}
<1>1. CASE c = <<>>
  <2>1. \A e \in Prices : g[e] # <<>> <=> f[e] # <<>> /\ e # p  BY <1>1
  <2> QED BY <1>1, <2>1
<1>2. CASE c # <<>>
  <2>1. \A e \in Prices : g[e] # <<>> <=> f[e] # <<>>  BY <1>2
  <2> QED BY <1>2, <2>1
<1> QED BY <1>1, <1>2

-----------------------------------------------------------------------------
\* The inductive invariant of the book's structure.

\* A running call has an order.
CallInv == pc \in {"add", "match", "killBuy", "killSell"} => incoming \in Orders

\* Only an order of type Market carries the invalid price.
NaNOnlyMarket == \A o \in Orders : price[o] = InvalidPrice => type[o] = "Market"

StructureInv == TypeOK /\ CallInv /\ NaNOnlyMarket /\ BookConsistent

\* What the structure says of a waiting order, and of two orders with one id.
LEMMA WaitingOrder ==
  ASSUME StructureInv, NEW o \in Orders, Resting(o)
  PROVE  /\ side[o] \in Sides /\ price[o] \in Prices /\ oid[o] \in OrderIds
         /\ o \in ToSet(queue[side[o]][price[o]])
         /\ price[o] \in levels[side[o]]
         /\ remaining[o] \in 1..MaxQty
<1>1. oid[o] \in OrderIds /\ side[o] \in Sides /\ o # NoOrder /\ remaining[o] \in 0..MaxQty
  BY MarkersAssumption DEF StructureInv, TypeOK
<1>2. price[o] \in Prices /\ o \in ToSet(queue[side[o]][price[o]])
  BY <1>1 DEF StructureInv, BookConsistent, IndexedOrdersQueued, Resting
<1>3. queue[side[o]][price[o]] \in Seq(Orders)
  BY <1>1, <1>2 DEF StructureInv, TypeOK
<1>4. queue[side[o]][price[o]] # <<>>
  BY <1>2, <1>3, EmptyLine
<1>5. price[o] \in levels[side[o]]
  BY <1>1, <1>2, <1>4 DEF StructureInv, BookConsistent, LevelsExact
<1>6. remaining[o] > 0
  BY <1>1, <1>2 DEF StructureInv, BookConsistent, QueuedOrdersIndexed
<1> QED BY <1>1, <1>2, <1>5, <1>6, BoundsAssumption

\* The orders of a set leave the book: their ids leave the index, they leave their
\* containers, empty levels go, and nothing else about the waiting orders changes but
\* that some quantity may be traded away.  The structure stays consistent.
LEMMA Departure ==
  ASSUME StructureInv, NEW G \in SUBSET Orders, \A x \in G : Resting(x),
         UNCHANGED <<oid, side, price>>,
         \A t \in Sides, r \in Prices :
            /\ ToSet(queue'[t][r]) = ToSet(queue[t][r]) \ G
            /\ IsInjective(queue'[t][r]),
         \A i \in OrderIds : index'[i] = IF \E x \in G : oid[x] = i THEN NoOrder ELSE index[i],
         \A t \in Sides : levels'[t] = {r \in Prices : queue'[t][r] # <<>>},
         \A x \in Orders \ G : Resting(x) => remaining'[x] > 0
  PROVE  /\ BookConsistent'
         /\ \A x \in Orders : Resting(x)' <=> Resting(x) /\ x \notin G
<1>1. \A x \in Orders : oid[x] \in OrderIds /\ side[x] \in Sides /\ x # NoOrder
  BY MarkersAssumption DEF StructureInv, TypeOK
<1>2. \A x \in Orders : Resting(x)' <=> Resting(x) /\ x \notin G
  BY <1>1 DEF Resting
<1>3. LevelsExact'
  BY DEF LevelsExact
<1>4. NoDuplicates'
  BY DEF NoDuplicates
<1>5. QueuedOrdersIndexed'
  <2> SUFFICES ASSUME NEW t \in Sides, NEW r \in Prices, NEW x \in ToSet(queue'[t][r])
               PROVE  side'[x] = t /\ price'[x] = r /\ remaining'[x] > 0 /\ Resting(x)'
    BY DEF QueuedOrdersIndexed
  <2>1. x \in ToSet(queue[t][r]) /\ x \notin G
    OBVIOUS
  <2>2. x \in Orders
    BY <2>1, EmptyLine DEF StructureInv, TypeOK
  <2>3. side[x] = t /\ price[x] = r /\ Resting(x)
    BY <2>1 DEF StructureInv, BookConsistent, QueuedOrdersIndexed
  <2> QED BY <1>2, <2>1, <2>2, <2>3
<1>6. IndexedOrdersQueued'
  <2> SUFFICES ASSUME NEW i \in OrderIds, index'[i] # NoOrder
               PROVE  /\ oid'[index'[i]] = i /\ price'[index'[i]] \in Prices
                      /\ index'[i] \in ToSet(queue'[side'[index'[i]]][price'[index'[i]]])
    BY DEF IndexedOrdersQueued
  <2> DEFINE x == index[i]
  <2>1. index'[i] = x /\ x # NoOrder /\ ~\E y \in G : oid[y] = i
    OBVIOUS
  <2>2. x \in Orders
    BY <2>1 DEF StructureInv, TypeOK
  <2>3. oid[x] = i /\ price[x] \in Prices /\ x \in ToSet(queue[side[x]][price[x]])
    BY <2>1 DEF StructureInv, BookConsistent, IndexedOrdersQueued
  <2>4. x \notin G /\ side[x] \in Sides
    BY <1>1, <2>1, <2>2, <2>3
  <2> QED BY <2>1, <2>3, <2>4
<1> QED BY <1>2, <1>3, <1>4, <1>5, <1>6 DEF BookConsistent

\* What the book's four structures are typed to be.
BookTypeOK ==
  /\ levels \in [Sides -> SUBSET Prices]
  /\ queue  \in [Sides -> [Prices -> Seq(Orders)]]
  /\ index  \in [OrderIds -> Orders \cup {NoOrder}]
  /\ l2     \in [Sides -> [Prices -> Nat]]

LEMMA ReducedType ==
  \A x \in Nat, q \in Nat : Reduced(x, q) \in Nat
BY DEF Reduced

\* cancelOrderImpl takes one order out of the book and nothing else.
LEMMA WithdrawStep ==
  ASSUME StructureInv, NEW id \in OrderIds, index[id] # NoOrder, Withdraw(id), UNCHANGED fields
  PROVE  /\ BookTypeOK' /\ BookConsistent'
         /\ \A x \in Orders : Resting(x)' <=> Resting(x) /\ x # index[id]
<1> DEFINE o == index[id]
           s == side[o]
           p == price[o]
           q == queue[s][p]
<1>1. o \in Orders /\ oid[o] = id /\ Resting(o)
  BY DEF StructureInv, TypeOK, BookConsistent, IndexedOrdersQueued, Resting
<1>2. s \in Sides /\ p \in Prices /\ q \in Seq(Orders) /\ p \in levels[s] /\ remaining[o] \in Nat
  <2>1. s \in Sides /\ p \in Prices /\ p \in levels[s] /\ remaining[o] \in 1..MaxQty
    BY <1>1, WaitingOrder
  <2> QED BY <2>1, BoundsAssumption DEF StructureInv, TypeOK
<1>3. PICK k \in DOMAIN q :
         /\ q[k] = o
         /\ queue'  = [queue EXCEPT ![s][p] = RemoveAt(q, k)]
         /\ levels' = [levels EXCEPT ![s] = LevelsAfter(s, p, RemoveAt(q, k))]
         /\ index'  = [index EXCEPT ![id] = NoOrder]
         /\ l2'     = L2Cancel(s, p, remaining[o])
  BY DEF Withdraw
<1> DEFINE r == RemoveAt(q, k)
<1>4. IsInjective(q)
  BY <1>2 DEF StructureInv, BookConsistent, NoDuplicates
<1>5. r \in Seq(Orders) /\ ToSet(r) = ToSet(q) \ {o} /\ IsInjective(r)
  BY <1>2, <1>3, <1>4, RemoveAtErases, ErasedLine
<1> HIDE DEF r
<1>6. /\ queue' \in [Sides -> [Prices -> Seq(Orders)]]
      /\ \A t \in Sides, e \in Prices : queue'[t][e] = IF t = s /\ e = p THEN r ELSE queue[t][e]
  <2>1. queue \in [Sides -> [Prices -> Seq(Orders)]] /\ queue' = [queue EXCEPT ![s][p] = r]
    BY <1>3 DEF StructureInv, TypeOK, r
  <2> HIDE DEF s, p
  <2> QED BY <1>2, <1>5, <2>1, UpdateAt
<1>7. \A t \in Sides, e \in Prices :
         ToSet(queue'[t][e]) = ToSet(queue[t][e]) \ {o} /\ IsInjective(queue'[t][e])
  <2> SUFFICES ASSUME NEW t \in Sides, NEW e \in Prices
               PROVE  ToSet(queue'[t][e]) = ToSet(queue[t][e]) \ {o} /\ IsInjective(queue'[t][e])
    OBVIOUS
  <2>1. CASE t = s /\ e = p
    BY <2>1, <1>5, <1>6
  <2>2. CASE ~(t = s /\ e = p)
    <3>1. o \notin ToSet(queue[t][e])
      BY <2>2 DEF StructureInv, BookConsistent, QueuedOrdersIndexed
    <3> QED BY <3>1, <2>2, <1>6 DEF StructureInv, BookConsistent, NoDuplicates
  <2> QED BY <2>1, <2>2
<1>8. \A i \in OrderIds : index'[i] = IF \E x \in {o} : oid[x] = i THEN NoOrder ELSE index[i]
  BY <1>1, <1>3 DEF StructureInv, TypeOK
<1>9. \A t \in Sides : levels'[t] = {e \in Prices : queue'[t][e] # <<>>}
  <2> SUFFICES ASSUME NEW t \in Sides PROVE levels'[t] = {e \in Prices : queue'[t][e] # <<>>}
    OBVIOUS
  <2>1. levels[t] = {e \in Prices : queue[t][e] # <<>>}
    BY DEF StructureInv, BookConsistent, LevelsExact
  <2>2. levels'[t] = IF t = s THEN LevelsAfter(s, p, r) ELSE levels[t]
    BY <1>2, <1>3 DEF StructureInv, TypeOK, r
  <2>3. CASE t = s
    <3>1. \A e \in Prices : queue'[t][e] = IF e = p THEN r ELSE queue[t][e]
      BY <2>3, <1>6
    <3>2. levels'[t] = IF r = <<>> THEN levels[t] \ {p} ELSE levels[t]
      BY <2>2, <2>3 DEF LevelsAfter
    <3>3. p \in levels[t] /\ p \in Prices
      BY <2>3, <1>2
    <3> HIDE DEF p
    <3> QED BY <2>1, <3>1, <3>2, <3>3
  <2>4. CASE t # s
    BY <2>1, <2>2, <2>4, <1>6
  <2> QED BY <2>3, <2>4
<1>10. \A x \in Orders \ {o} : Resting(x) => remaining'[x] > 0
  <2> SUFFICES ASSUME NEW x \in Orders, Resting(x) PROVE remaining'[x] > 0
    OBVIOUS
  <2>1. remaining[x] \in 1..MaxQty  BY WaitingOrder
  <2> QED BY <2>1, BoundsAssumption DEF fields
<1>11. BookConsistent' /\ \A x \in Orders : Resting(x)' <=> Resting(x) /\ x \notin {o}
  <2>1. UNCHANGED <<oid, side, price>>  BY DEF fields
  <2>2. {o} \in SUBSET Orders /\ \A x \in {o} : Resting(x)  BY <1>1
  <2> HIDE DEF o
  <2> QED BY <2>1, <2>2, <1>7, <1>8, <1>9, <1>10, Departure
<1>12. BookTypeOK'
  <2>1. levels' \in [Sides -> SUBSET Prices]
    BY <1>2, <1>3 DEF StructureInv, TypeOK, LevelsAfter
  <2>2. index' \in [OrderIds -> Orders \cup {NoOrder}]
    BY <1>3 DEF StructureInv, TypeOK
  <2>3. l2' \in [Sides -> [Prices -> Nat]]
    <3>1. l2[s][p] \in Nat /\ l2 \in [Sides -> [Prices -> Nat]]
      BY <1>2 DEF StructureInv, TypeOK
    <3>2. Reduced(l2[s][p], remaining[o]) \in Nat
      BY <3>1, <1>2, ReducedType
    <3>3. l2' = [l2 EXCEPT ![s][p] = Reduced(l2[s][p], remaining[o])]
      BY <1>3, <1>2, <3>1 DEF L2Cancel
    <3> HIDE DEF s, p, o
    <3> QED BY <1>2, <3>1, <3>2, <3>3, UpdateAt
  <2> QED BY <1>6, <2>1, <2>2, <2>3 DEF BookTypeOK
<1> QED BY <1>11, <1>12

\* What matching leaves of a container whose first order was filled, or was not.
LEMMA AfterFillLine ==
  ASSUME NEW S, NEW q \in Seq(S), q # <<>>, IsInjective(q), NEW left
  PROVE  LET r == AfterFill(q, left)
         IN /\ r \in Seq(S) /\ IsInjective(r)
            /\ ToSet(r) = IF left = 0 THEN ToSet(q) \ {Head(q)} ELSE ToSet(q)
<1>1. Tail(q) \in Seq(S) /\ Erased(q, 1, Tail(q)) /\ 1 \in DOMAIN q /\ Head(q) = q[1]
  BY TailErases
<1>2. ToSet(Tail(q)) = ToSet(q) \ {q[1]} /\ IsInjective(Tail(q))
  BY <1>1, ErasedLine
<1> QED BY <1>1, <1>2 DEF AfterFill

\* The order at the front of a level that exists is a waiting order of that level.
LEMMA FrontOrder ==
  ASSUME StructureInv, NEW s \in Sides, NEW p \in levels[s]
  PROVE  LET o == Head(queue[s][p])
         IN /\ p \in Prices /\ queue[s][p] \in Seq(Orders) /\ queue[s][p] # <<>>
            /\ o \in ToSet(queue[s][p]) /\ o \in Orders
            /\ side[o] = s /\ price[o] = p /\ Resting(o)
<1>1. p \in Prices /\ queue[s][p] # <<>> /\ queue[s][p] \in Seq(Orders)
  BY DEF StructureInv, TypeOK, BookConsistent, LevelsExact
<1>2. Head(queue[s][p]) \in ToSet(queue[s][p]) /\ Head(queue[s][p]) \in Orders
  BY <1>1, TailErases, HeadTailProperties
<1> QED BY <1>1, <1>2 DEF StructureInv, BookConsistent, QueuedOrdersIndexed

\* One iteration of the matching loop trades the two front orders, takes the filled ones
\* out of the book and leaves every other waiting order as it was.
LEMMA FillStep ==
  ASSUME StructureInv, NEW bp \in levels["Buy"], NEW ap \in levels["Sell"], Fill(bp, ap),
         UNCHANGED <<oid, side, type, price, initial>>
  PROVE  LET b == Head(queue["Buy"][bp])
             a == Head(queue["Sell"][ap])
         IN /\ BookTypeOK' /\ BookConsistent' /\ remaining' \in [Orders -> 0..MaxQty]
            /\ \A x \in Orders : Resting(x)' => Resting(x)
            /\ \A x \in Orders \ {b, a} : remaining'[x] = remaining[x]
            /\ remaining'[b] < remaining[b] /\ remaining'[a] < remaining[a]
            /\ \A x \in Orders : Resting(x) /\ ~Resting(x)' => remaining'[x] = 0
            /\ \A x \in Orders : Resting(x)' <=>
                 Resting(x) /\ x \notin {y \in {b, a} : remaining[y] = Lesser(remaining[b], remaining[a])}
<1> DEFINE b == Head(queue["Buy"][bp])
           a == Head(queue["Sell"][ap])
           q == Lesser(remaining[b], remaining[a])
           bids == AfterFill(queue["Buy"][bp], remaining[b] - q)
           asks == AfterFill(queue["Sell"][ap], remaining[a] - q)
           G == {x \in {b, a} : remaining[x] = q}
<1>1. /\ remaining' = [remaining EXCEPT ![b] = @ - q, ![a] = @ - q]
      /\ queue'  = [queue EXCEPT !["Buy"][bp] = bids, !["Sell"][ap] = asks]
      /\ levels' = [levels EXCEPT !["Buy"]  = LevelsAfter("Buy", bp, bids),
                                  !["Sell"] = LevelsAfter("Sell", ap, asks)]
      /\ index'  = IndexAfterFill(b, a, q)
      /\ l2'     = L2Matched(b, a, q)
  BY DEF Fill
<1>2. Sides = {"Buy", "Sell"} /\ "Buy" \in Sides /\ "Sell" \in Sides /\ "Buy" # "Sell"
  BY DEF Sides
<1>3. /\ b \in Orders /\ side[b] = "Buy" /\ price[b] = bp /\ Resting(b)
      /\ b \in ToSet(queue["Buy"][bp]) /\ bp \in Prices
      /\ queue["Buy"][bp] \in Seq(Orders) /\ queue["Buy"][bp] # <<>>
  BY <1>2, FrontOrder
<1>4. /\ a \in Orders /\ side[a] = "Sell" /\ price[a] = ap /\ Resting(a)
      /\ a \in ToSet(queue["Sell"][ap]) /\ ap \in Prices
      /\ queue["Sell"][ap] \in Seq(Orders) /\ queue["Sell"][ap] # <<>>
  BY <1>2, FrontOrder
<1>5. a # b
  BY <1>2, <1>3, <1>4
<1>6. remaining[b] \in 1..MaxQty /\ remaining[a] \in 1..MaxQty
  BY <1>3, <1>4, WaitingOrder
<1>7. /\ q \in 1..MaxQty /\ q <= remaining[b] /\ q <= remaining[a]
      /\ remaining[b] - q = 0 <=> remaining[b] = q
      /\ remaining[a] - q = 0 <=> remaining[a] = q
  BY <1>6, BoundsAssumption DEF Lesser
<1>8. /\ remaining' \in [Orders -> 0..MaxQty]
      /\ remaining'[b] = remaining[b] - q /\ remaining'[a] = remaining[a] - q
      /\ \A x \in Orders \ {b, a} : remaining'[x] = remaining[x]
  <2>1. remaining \in [Orders -> 0..MaxQty]  BY DEF StructureInv, TypeOK
  <2>2. remaining[b] - q \in 0..MaxQty /\ remaining[a] - q \in 0..MaxQty
    BY <1>6, <1>7, BoundsAssumption
  <2> HIDE DEF a, b, q
  <2> QED BY <1>1, <1>3, <1>4, <1>5, <2>1, <2>2
<1>9. /\ bids \in Seq(Orders) /\ IsInjective(bids) /\ ToSet(bids) = ToSet(queue["Buy"][bp]) \ G
      /\ asks \in Seq(Orders) /\ IsInjective(asks) /\ ToSet(asks) = ToSet(queue["Sell"][ap]) \ G
  <2>1. IsInjective(queue["Buy"][bp]) /\ IsInjective(queue["Sell"][ap])
    BY <1>2, <1>3, <1>4 DEF StructureInv, BookConsistent, NoDuplicates
  <2>2. /\ bids \in Seq(Orders) /\ IsInjective(bids)
        /\ ToSet(bids) = IF remaining[b] - q = 0 THEN ToSet(queue["Buy"][bp]) \ {b}
                                                 ELSE ToSet(queue["Buy"][bp])
    BY <1>3, <2>1, AfterFillLine
  <2>3. /\ asks \in Seq(Orders) /\ IsInjective(asks)
        /\ ToSet(asks) = IF remaining[a] - q = 0 THEN ToSet(queue["Sell"][ap]) \ {a}
                                                 ELSE ToSet(queue["Sell"][ap])
    BY <1>4, <2>1, AfterFillLine
  <2>4. a \notin ToSet(queue["Buy"][bp]) /\ b \notin ToSet(queue["Sell"][ap])
    BY <1>2, <1>3, <1>4 DEF StructureInv, BookConsistent, QueuedOrdersIndexed
  <2> HIDE DEF a, b, q, bids, asks
  <2> QED BY <1>7, <2>2, <2>3, <2>4
<1> HIDE DEF bids, asks
<1>10. /\ queue' \in [Sides -> [Prices -> Seq(Orders)]]
       /\ \A t \in Sides, e \in Prices :
            queue'[t][e] = IF t = "Buy" /\ e = bp THEN bids
                           ELSE IF t = "Sell" /\ e = ap THEN asks ELSE queue[t][e]
  <2> DEFINE m == [queue EXCEPT !["Buy"][bp] = bids]
  <2>1. queue \in [Sides -> [Prices -> Seq(Orders)]]  BY DEF StructureInv, TypeOK
  <2>2. /\ m \in [Sides -> [Prices -> Seq(Orders)]]
        /\ \A t \in Sides, e \in Prices :
             m[t][e] = IF t = "Buy" /\ e = bp THEN bids ELSE queue[t][e]
    <3> HIDE DEF m
    <3>1. m = [queue EXCEPT !["Buy"][bp] = bids]  BY DEF m
    <3> QED BY <1>2, <1>3, <1>9, <2>1, <3>1, UpdateAt
  <2>3. queue' = [m EXCEPT !["Sell"][ap] = asks]  BY <1>1
  <2> HIDE DEF m
  <2>4. /\ queue' \in [Sides -> [Prices -> Seq(Orders)]]
        /\ \A t \in Sides, e \in Prices :
             queue'[t][e] = IF t = "Sell" /\ e = ap THEN asks ELSE m[t][e]
    BY <1>2, <1>4, <1>9, <2>2, <2>3, UpdateAt
  <2> QED BY <1>2, <2>2, <2>4
<1>11. \A t \in Sides, e \in Prices :
          ToSet(queue'[t][e]) = ToSet(queue[t][e]) \ G /\ IsInjective(queue'[t][e])
  <2> SUFFICES ASSUME NEW t \in Sides, NEW e \in Prices
               PROVE  ToSet(queue'[t][e]) = ToSet(queue[t][e]) \ G /\ IsInjective(queue'[t][e])
    OBVIOUS
  <2>1. CASE t = "Buy" /\ e = bp  BY <2>1, <1>9, <1>10
  <2>2. CASE t = "Sell" /\ e = ap  BY <2>2, <1>2, <1>9, <1>10
  <2>3. CASE ~(t = "Buy" /\ e = bp) /\ ~(t = "Sell" /\ e = ap)
    <3>1. b \notin ToSet(queue[t][e]) /\ a \notin ToSet(queue[t][e])
      BY <2>3, <1>3, <1>4 DEF StructureInv, BookConsistent, QueuedOrdersIndexed
    <3>2. queue'[t][e] = queue[t][e] /\ IsInjective(queue[t][e])
      BY <2>3, <1>10 DEF StructureInv, BookConsistent, NoDuplicates
    <3> HIDE DEF a, b
    <3> QED BY <3>1, <3>2
  <2> QED BY <2>1, <2>2, <2>3
<1>12. \A i \in OrderIds : index'[i] = IF \E x \in G : oid[x] = i THEN NoOrder ELSE index[i]
  <2> HIDE DEF a, b, q
  <2> QED BY <1>1 DEF IndexAfterFill
<1>13. \A t \in Sides : levels'[t] = {e \in Prices : queue'[t][e] # <<>>}
  <2>1. \A t \in Sides : levels[t] = {e \in Prices : queue[t][e] # <<>>}
    BY DEF StructureInv, BookConsistent, LevelsExact
  <2>2. /\ levels'["Buy"]  = IF bids = <<>> THEN levels["Buy"] \ {bp} ELSE levels["Buy"]
        /\ levels'["Sell"] = IF asks = <<>> THEN levels["Sell"] \ {ap} ELSE levels["Sell"]
    BY <1>1, <1>2 DEF StructureInv, TypeOK, LevelsAfter
  <2>3. levels'["Buy"] = {e \in Prices : queue'["Buy"][e] # <<>>}
    <3>1. \A e \in Prices : queue'["Buy"][e] = IF e = bp THEN bids ELSE queue["Buy"][e]
      BY <1>2, <1>10
    <3> QED BY <1>2, <1>3, <2>1, <2>2, <3>1, KeysExact
  <2>4. levels'["Sell"] = {e \in Prices : queue'["Sell"][e] # <<>>}
    <3>1. \A e \in Prices : queue'["Sell"][e] = IF e = ap THEN asks ELSE queue["Sell"][e]
      BY <1>2, <1>10
    <3> QED BY <1>2, <1>4, <2>1, <2>2, <3>1, KeysExact
  <2> QED BY <1>2, <2>3, <2>4
<1>14. \A x \in Orders \ G : Resting(x) => remaining'[x] > 0
  <2> SUFFICES ASSUME NEW x \in Orders \ G, Resting(x) PROVE remaining'[x] > 0
    OBVIOUS
  <2>1. remaining[x] \in 1..MaxQty  BY WaitingOrder
  <2> HIDE DEF a, b, q
  <2>2. CASE x \in {a, b}  BY <2>2, <1>6, <1>7, <1>8
  <2>3. CASE x \notin {a, b}  BY <2>1, <2>3, <1>8
  <2> QED BY <2>2, <2>3
<1>15. BookConsistent' /\ \A x \in Orders : Resting(x)' <=> Resting(x) /\ x \notin G
  <2>1. G \in SUBSET Orders /\ \A x \in G : Resting(x)  BY <1>3, <1>4
  <2> HIDE DEF G
  <2> QED BY <2>1, <1>11, <1>12, <1>13, <1>14, Departure
<1>16. BookTypeOK'
  <2>1. levels' \in [Sides -> SUBSET Prices]
    BY <1>1, <1>2 DEF StructureInv, TypeOK, LevelsAfter
  <2>2. index' \in [OrderIds -> Orders \cup {NoOrder}]
    <3> HIDE DEF a, b, q
    <3> QED BY <1>1 DEF IndexAfterFill, StructureInv, TypeOK
  <2>3. l2' \in [Sides -> [Prices -> Nat]]
    <3> DEFINE m == [l2 EXCEPT !["Buy"][price[b]] = Reduced(@, q)]
    <3>1. l2 \in [Sides -> [Prices -> Nat]] /\ q \in Nat
      BY <1>7, BoundsAssumption DEF StructureInv, TypeOK
    <3>2. m \in [Sides -> [Prices -> Nat]]
      <4>1. Reduced(l2["Buy"][bp], q) \in Nat  BY <1>2, <1>3, <3>1, ReducedType
      <4>2. m = [l2 EXCEPT !["Buy"][bp] = Reduced(l2["Buy"][bp], q)]
        BY <1>2, <1>3, <3>1
      <4> HIDE DEF m, q
      <4> QED BY <1>2, <1>3, <3>1, <4>1, <4>2, UpdateAt
    <3>3. l2' = [m EXCEPT !["Sell"][price[a]] = Reduced(@, q)]
      BY <1>1 DEF L2Matched
    <3> HIDE DEF m
    <3>4. Reduced(m["Sell"][ap], q) \in Nat  BY <1>2, <1>4, <3>1, <3>2, ReducedType
    <3>5. l2' = [m EXCEPT !["Sell"][ap] = Reduced(m["Sell"][ap], q)]
      BY <1>2, <1>4, <3>2, <3>3
    <3> HIDE DEF q
    <3> QED BY <1>2, <1>4, <3>2, <3>4, <3>5, UpdateAt
  <2> QED BY <1>10, <2>1, <2>2, <2>3 DEF BookTypeOK
<1>17. remaining'[b] < remaining[b] /\ remaining'[a] < remaining[a]
  BY <1>6, <1>7, <1>8
<1>18. \A x \in Orders : Resting(x) /\ ~Resting(x)' => remaining'[x] = 0
  <2> SUFFICES ASSUME NEW x \in Orders, Resting(x), ~Resting(x)' PROVE remaining'[x] = 0
    OBVIOUS
  <2>1. x \in G  BY <1>15
  <2> HIDE DEF a, b, q
  <2> QED BY <1>6, <1>7, <1>8, <2>1
<1> QED BY <1>8, <1>15, <1>16, <1>17, <1>18

\* addOrderImpl puts one new order into the book and leaves the others where they are.
LEMMA InsertStep ==
  ASSUME StructureInv, NEW o \in Orders, NEW p \in Prices, index[oid[o]] = NoOrder,
         remaining[o] > 0, price' = [price EXCEPT ![o] = p], Insert(o, p),
         UNCHANGED <<oid, side, remaining>>
  PROVE  /\ BookTypeOK' /\ BookConsistent' /\ ~Resting(o)
         /\ \A x \in Orders : Resting(x)' <=> Resting(x) \/ x = o
<1> DEFINE s == side[o]
           q == queue[s][p]
           r == Append(q, o)
<1>1. /\ s \in Sides /\ oid[o] \in OrderIds /\ remaining[o] \in Nat /\ o # NoOrder
      /\ q \in Seq(Orders)
  BY BoundsAssumption, MarkersAssumption DEF StructureInv, TypeOK
<1>2. ~Resting(o)
  BY <1>1 DEF Resting
<1>3. \A t \in Sides, e \in Prices : o \notin ToSet(queue[t][e])
  BY <1>2 DEF StructureInv, BookConsistent, QueuedOrdersIndexed
<1>4. r \in Seq(Orders) /\ ToSet(r) = ToSet(q) \cup {o} /\ IsInjective(r) /\ r # <<>>
  <2>1. IsInjective(q) /\ o \notin ToSet(q)
    BY <1>1, <1>3 DEF StructureInv, BookConsistent, NoDuplicates
  <2> HIDE DEF q
  <2> QED BY <1>1, <2>1, AppendLine
<1> HIDE DEF r
<1>5. /\ queue' \in [Sides -> [Prices -> Seq(Orders)]]
      /\ \A t \in Sides, e \in Prices : queue'[t][e] = IF t = s /\ e = p THEN r ELSE queue[t][e]
  <2>1. queue \in [Sides -> [Prices -> Seq(Orders)]]  BY DEF StructureInv, TypeOK
  <2>2. queue' = [queue EXCEPT ![s][p] = r]  BY <1>1, <2>1 DEF Insert, r
  <2> HIDE DEF s
  <2> QED BY <1>1, <1>4, <2>1, <2>2, UpdateAt
<1>6. \A i \in OrderIds : index'[i] = IF i = oid[o] THEN o ELSE index[i]
  BY DEF Insert, StructureInv, TypeOK
<1>7. \A x \in Orders : price'[x] = IF x = o THEN p ELSE price[x]
  BY DEF StructureInv, TypeOK
<1>8. \A x \in Orders : Resting(x)' <=> Resting(x) \/ x = o
  <2> SUFFICES ASSUME NEW x \in Orders PROVE Resting(x)' <=> Resting(x) \/ x = o
    OBVIOUS
  <2>1. oid[x] \in OrderIds /\ x # NoOrder
    BY MarkersAssumption DEF StructureInv, TypeOK
  <2> QED BY <1>6, <2>1 DEF Resting
<1>9. LevelsExact'
  <2> SUFFICES ASSUME NEW t \in Sides PROVE levels'[t] = {e \in Prices : queue'[t][e] # <<>>}
    BY DEF LevelsExact
  <2>1. levels[t] = {e \in Prices : queue[t][e] # <<>>}
    BY DEF StructureInv, BookConsistent, LevelsExact
  <2>2. levels'[t] = IF t = s THEN levels[t] \cup {p} ELSE levels[t]
    BY <1>1 DEF Insert, StructureInv, TypeOK
  <2>3. \A e \in Prices : queue'[t][e] # <<>> <=> queue[t][e] # <<>> \/ (t = s /\ e = p)
    BY <1>4, <1>5
  <2> HIDE DEF s
  <2> QED BY <2>1, <2>2, <2>3
<1>10. NoDuplicates'
  BY <1>4, <1>5 DEF NoDuplicates, StructureInv, BookConsistent
<1>11. QueuedOrdersIndexed'
  <2> SUFFICES ASSUME NEW t \in Sides, NEW e \in Prices, NEW x \in ToSet(queue'[t][e])
               PROVE  side'[x] = t /\ price'[x] = e /\ remaining'[x] > 0 /\ Resting(x)'
    BY DEF QueuedOrdersIndexed
  <2>1. CASE x = o
    <3>1. t = s /\ e = p  BY <2>1, <1>3, <1>5
    <3> QED BY <2>1, <3>1, <1>7, <1>8
  <2>2. CASE x # o
    <3>1. x \in ToSet(queue[t][e])  BY <2>2, <1>4, <1>5
    <3>2. x \in Orders  BY <3>1, EmptyLine DEF StructureInv, TypeOK
    <3>3. side[x] = t /\ price[x] = e /\ remaining[x] > 0 /\ Resting(x)
      BY <3>1 DEF StructureInv, BookConsistent, QueuedOrdersIndexed
    <3> QED BY <2>2, <3>2, <3>3, <1>7, <1>8
  <2> QED BY <2>1, <2>2
<1>12. IndexedOrdersQueued'
  <2> SUFFICES ASSUME NEW i \in OrderIds, index'[i] # NoOrder
               PROVE  /\ oid'[index'[i]] = i /\ price'[index'[i]] \in Prices
                      /\ index'[i] \in ToSet(queue'[side'[index'[i]]][price'[index'[i]]])
    BY DEF IndexedOrdersQueued
  <2>1. CASE i = oid[o]
    <3>1. index'[i] = o  BY <2>1, <1>6
    <3> QED BY <2>1, <3>1, <1>1, <1>4, <1>5, <1>7
  <2>2. CASE i # oid[o]
    <3> DEFINE x == index[i]
    <3>1. index'[i] = x /\ x # NoOrder  BY <2>2, <1>6
    <3>2. x \in Orders /\ side[x] \in Sides  BY <3>1 DEF StructureInv, TypeOK
    <3>3. oid[x] = i /\ price[x] \in Prices /\ x \in ToSet(queue[side[x]][price[x]])
      BY <3>1 DEF StructureInv, BookConsistent, IndexedOrdersQueued
    <3>4. x # o /\ price'[x] = price[x]  BY <2>2, <3>2, <3>3, <1>7
    <3>5. x \in ToSet(queue'[side[x]][price[x]])
      <4> HIDE DEF x, s
      <4> QED BY <3>2, <3>3, <1>4, <1>5
    <3> QED BY <3>1, <3>3, <3>4, <3>5
  <2> QED BY <2>1, <2>2
<1>13. BookTypeOK'
  <2>1. levels' \in [Sides -> SUBSET Prices]
    BY <1>1 DEF Insert, StructureInv, TypeOK
  <2>2. index' \in [OrderIds -> Orders \cup {NoOrder}]
    BY DEF Insert, StructureInv, TypeOK
  <2>3. l2' \in [Sides -> [Prices -> Nat]]
    <3>1. l2 \in [Sides -> [Prices -> Nat]] /\ l2[s][p] + remaining[o] \in Nat
      BY <1>1 DEF StructureInv, TypeOK
    <3>2. l2' = [l2 EXCEPT ![s][p] = l2[s][p] + remaining[o]]
      BY <1>1, <3>1 DEF Insert, L2Add
    <3> HIDE DEF s
    <3> QED BY <1>1, <3>1, <3>2, UpdateAt
  <2> QED BY <1>5, <2>1, <2>2, <2>3 DEF BookTypeOK
<1> QED BY <1>2, <1>8, <1>9, <1>10, <1>11, <1>12, <1>13 DEF BookConsistent

\* An accepted order gets a price the level maps can hold.
LEMMA LimitIsPrice ==
  ASSUME StructureInv, NEW o \in Orders, Accepts(o), NEW p \in LimitPrices(o)
  PROVE  p \in Prices
<1>1. CASE type[o] = "Market"
  <2>1. Opposite(side[o]) \in Sides  BY DEF Opposite, Sides
  <2>2. levels[Opposite(side[o])] \subseteq Prices  BY <2>1 DEF StructureInv, TypeOK
  <2> QED BY <1>1, <2>2 DEF LimitPrices, Worst
<1>2. CASE type[o] # "Market"
  <2>1. p = price[o] /\ price[o] # 0  BY <1>2 DEF LimitPrices, Accepts, Valid
  <2>2. price[o] # InvalidPrice  BY <1>2 DEF StructureInv, NaNOnlyMarket
  <2> QED BY <2>1, <2>2 DEF StructureInv, TypeOK
<1> QED BY <1>1, <1>2

\* The user may do what he likes to an order object outside the book.
LEMMA OutsideStep ==
  ASSUME StructureInv, NEW o \in Orders, ~Resting(o), UNCHANGED book, oid'[o] \in OrderIds,
         \A x \in Orders \ {o} : /\ oid'[x] = oid[x] /\ side'[x] = side[x]
                                 /\ price'[x] = price[x] /\ remaining'[x] = remaining[x]
  PROVE  BookConsistent' /\ \A x \in Orders : Resting(x)' <=> Resting(x)
<1>1. UNCHANGED <<levels, queue, index>>
  BY DEF book
<1>2. \A i \in OrderIds : index[i] # o
  BY MarkersAssumption DEF StructureInv, BookConsistent, IndexedOrdersQueued, Resting
<1>3. \A x \in Orders : Resting(x)' <=> Resting(x)
  BY <1>1, <1>2 DEF Resting
<1>4. QueuedOrdersIndexed'
  <2> SUFFICES ASSUME NEW t \in Sides, NEW e \in Prices, NEW x \in ToSet(queue[t][e])
               PROVE  side'[x] = t /\ price'[x] = e /\ remaining'[x] > 0 /\ Resting(x)'
    BY <1>1 DEF QueuedOrdersIndexed
  <2>1. x \in Orders  BY EmptyLine DEF StructureInv, TypeOK
  <2>2. side[x] = t /\ price[x] = e /\ remaining[x] > 0 /\ Resting(x)
    BY DEF StructureInv, BookConsistent, QueuedOrdersIndexed
  <2> QED BY <1>3, <2>1, <2>2
<1>5. IndexedOrdersQueued'
  <2> SUFFICES ASSUME NEW i \in OrderIds, index[i] # NoOrder
               PROVE  /\ oid'[index[i]] = i /\ price'[index[i]] \in Prices
                      /\ index[i] \in ToSet(queue[side'[index[i]]][price'[index[i]]])
    BY <1>1 DEF IndexedOrdersQueued
  <2>1. index[i] \in Orders \ {o}  BY <1>2 DEF StructureInv, TypeOK
  <2> QED BY <2>1 DEF StructureInv, BookConsistent, IndexedOrdersQueued
<1>6. LevelsExact' /\ NoDuplicates'
  BY <1>1 DEF StructureInv, BookConsistent, LevelsExact, NoDuplicates
<1> QED BY <1>3, <1>4, <1>5, <1>6 DEF BookConsistent

\* A step that leaves the orders and the book alone and only moves the call along.
LEMMA CallStep ==
  ASSUME StructureInv, UNCHANGED <<fields, book>>, CallInv', pc' \in Phases,
         incoming' \in Orders \cup {NoOrder}, submitted' \in AllTypes \cup {NoOrder}
  PROVE  StructureInv' /\ \A x \in Orders : Resting(x)' <=> Resting(x)
<1>1. UNCHANGED <<oid, side, type, price, remaining, initial, levels, queue, index, l2>>
  BY DEF fields, book
<1>2. TypeOK'  BY <1>1 DEF StructureInv, TypeOK
<1>3. NaNOnlyMarket'  BY <1>1 DEF StructureInv, NaNOnlyMarket
<1>4. BookConsistent'
  BY <1>1 DEF StructureInv, BookConsistent, LevelsExact, QueuedOrdersIndexed, IndexedOrdersQueued,
              NoDuplicates, Resting
<1> QED BY <1>1, <1>2, <1>3, <1>4 DEF StructureInv, Resting

LEMMA StructureInit == Init => StructureInv
<1> SUFFICES ASSUME Init PROVE StructureInv
  OBVIOUS
<1>1. "Buy" \in Sides /\ "GoodTillCancel" \in AllTypes /\ "idle" \in Phases /\ EmptyId \in OrderIds
  BY DEF Sides, AllTypes, Phases, OrderIds
<1>2. TypeOK
  <2>1. 0 \in 0..MaxQty  BY BoundsAssumption
  <2>2. <<>> \in Seq(Orders)  BY EmptySeq
  <2> QED BY <1>1, <2>1, <2>2 DEF Init, TypeOK
<1>3. CallInv /\ NaNOnlyMarket
  BY MarkersAssumption DEF Init, CallInv, NaNOnlyMarket
<1>4. BookConsistent
  BY DEF Init, BookConsistent, LevelsExact, QueuedOrdersIndexed, IndexedOrdersQueued, NoDuplicates,
         ToSet, IsInjective
<1> QED BY <1>2, <1>3, <1>4 DEF StructureInv

\* Every step keeps the structure.
LEMMA StructureStep == StructureInv /\ [Next]_vars => StructureInv'
<1> SUFFICES ASSUME StructureInv, [Next]_vars PROVE StructureInv'
  OBVIOUS
<1> USE DEF StructureInv
<1>1. ASSUME NEW o \in Orders, NEW i \in Ids, NEW s \in Sides, NEW t \in OrderTypes,
             NEW p \in {0, InvalidPrice} \cup Prices, NEW q \in 1..MaxQty,
             SubmitNew(o, i, s, t, p, q)
      PROVE  StructureInv'
  <2>1. t \in AllTypes /\ i \in OrderIds /\ q \in 0..MaxQty /\ UNCHANGED <<levels, queue, index, l2>>
    BY <1>1, TypesAssumption, BoundsAssumption DEF OrderIds, SubmitNew, book
  <2>2. TypeOK'
    BY <1>1, <2>1 DEF SubmitNew, TypeOK, Phases
  <2>3. CallInv' /\ NaNOnlyMarket'
    BY <1>1 DEF SubmitNew, CallInv, NaNOnlyMarket, TypeOK
  <2>4. BookConsistent'
    <3>1. /\ ~Resting(o) /\ UNCHANGED book /\ oid'[o] \in OrderIds
          /\ \A x \in Orders \ {o} : /\ oid'[x] = oid[x] /\ side'[x] = side[x]
                                      /\ price'[x] = price[x] /\ remaining'[x] = remaining[x]
      BY <1>1, <2>1 DEF SubmitNew, TypeOK
    <3> QED BY <3>1, OutsideStep
  <2> QED BY <2>2, <2>3, <2>4
<1>2. ASSUME NEW o \in Orders, SubmitAgain(o) PROVE StructureInv'
  <2>1. CallInv' /\ pc' \in Phases /\ incoming' \in Orders /\ submitted' \in AllTypes
    BY <1>2 DEF SubmitAgain, CallInv, Phases, TypeOK
  <2> QED BY <1>2, <2>1, CallStep DEF SubmitAgain
<1>3. ASSUME NEW o \in Orders, Discard(o) PROVE StructureInv'
  <2>1. /\ "Buy" \in Sides /\ "GoodTillCancel" \in AllTypes /\ EmptyId \in OrderIds /\ 0 \in 0..MaxQty
        /\ UNCHANGED <<levels, queue, index, l2, pc, incoming, submitted>>
    BY <1>3, BoundsAssumption DEF Discard, book, Sides, AllTypes, OrderIds
  <2>2. TypeOK'
    BY <1>3, <2>1 DEF Discard, TypeOK
  <2>3. CallInv' /\ NaNOnlyMarket'
    BY <1>3, <2>1, MarkersAssumption DEF Discard, CallInv, NaNOnlyMarket, TypeOK
  <2>4. BookConsistent'
    <3>1. /\ ~Resting(o) /\ UNCHANGED book /\ oid'[o] \in OrderIds
          /\ \A x \in Orders \ {o} : /\ oid'[x] = oid[x] /\ side'[x] = side[x]
                                      /\ price'[x] = price[x] /\ remaining'[x] = remaining[x]
      BY <1>3, <2>1 DEF Discard, TypeOK, Spares
    <3> QED BY <3>1, OutsideStep
  <2> QED BY <2>2, <2>3, <2>4
<1>4. ASSUME NEW i \in Ids, CancelOrder(i) PROVE StructureInv'
  <2>1. i \in OrderIds /\ index[i] # NoOrder /\ Withdraw(i) /\ UNCHANGED fields
    BY <1>4 DEF CancelOrder, OrderIds
  <2>2. BookTypeOK' /\ BookConsistent'
    BY <2>1, WithdrawStep
  <2>3. UNCHANGED <<oid, side, type, price, remaining, initial, pc, incoming, submitted>>
    BY <1>4 DEF CancelOrder, fields
  <2> QED BY <2>2, <2>3 DEF TypeOK, BookTypeOK, CallInv, NaNOnlyMarket
<1>5. CASE Reject
  BY <1>5, CallStep DEF Reject, Return, CallInv, Phases
<1>6. CASE Accept
  <2>1. incoming \in Orders  BY <1>6 DEF Accept, CallInv
  <2>2. PICK p \in LimitPrices(incoming) :
           price' = [price EXCEPT ![incoming] = p] /\ Insert(incoming, p)
    BY <1>6 DEF Accept
  <2>3. p \in Prices  BY <1>6, <2>1, LimitIsPrice DEF Accept
  <2>4. /\ UNCHANGED <<oid, side, remaining, initial, incoming, submitted>> /\ pc' = "match"
        /\ type' = [type EXCEPT ![incoming] = BookedType(@)]
        /\ index[oid[incoming]] = NoOrder /\ remaining[incoming] > 0
    BY <1>6 DEF Accept, Accepts, Valid
  <2>5. BookTypeOK' /\ BookConsistent'
    BY <2>1, <2>2, <2>3, <2>4, InsertStep
  <2>6. TypeOK'
    BY <2>1, <2>2, <2>3, <2>4, <2>5 DEF TypeOK, BookTypeOK, AllTypes, Phases, BookedType
  <2>7. CallInv'  BY <2>1, <2>4 DEF CallInv
  <2>8. NaNOnlyMarket'
    <3>1. p # InvalidPrice  BY <2>3, MarkersAssumption DEF Prices
    <3> QED BY <2>1, <2>2, <2>4, <3>1 DEF NaNOnlyMarket, TypeOK
  <2> QED BY <2>5, <2>6, <2>7, <2>8
<1>7. CASE Match
  <2>1. PICK bs \in CrossedLevels : Fill(bs[1], bs[2])
    BY <1>7 DEF Match
  <2>2. bs[1] \in levels["Buy"] /\ bs[2] \in levels["Sell"]
    BY DEF CrossedLevels, Best
  <2>3. UNCHANGED <<oid, side, type, price, initial, pc, incoming, submitted>>
    BY <1>7 DEF Match
  <2>4. BookTypeOK' /\ BookConsistent' /\ remaining' \in [Orders -> 0..MaxQty]
    BY <2>1, <2>2, <2>3, FillStep
  <2> QED BY <2>3, <2>4 DEF TypeOK, BookTypeOK, CallInv, NaNOnlyMarket
<1>8. CASE MatchDone
  BY <1>8, CallStep DEF MatchDone, CallInv, Phases, TypeOK
<1>9. CASE Fault
  BY <1>9, CallStep DEF Fault, CallInv, Phases, TypeOK
<1>10. ASSUME NEW s \in Sides, Keep(s) PROVE StructureInv'
  <2>1. CallInv' /\ pc' \in Phases /\ incoming' \in Orders \cup {NoOrder}
        /\ submitted' \in AllTypes \cup {NoOrder}
    BY <1>10 DEF Keep, KillPhase, AfterKill, Return, CallInv, Phases, TypeOK
  <2> QED BY <1>10, <2>1, CallStep DEF Keep
<1>11. ASSUME NEW s \in Sides, Kill(s) PROVE StructureInv'
  <2>1. PICK o \in Killable(s) : Withdraw(oid[o])
    BY <1>11 DEF Kill
  <2>2. PICK p \in Best(s) : o = Head(queue[s][p])
    BY <2>1 DEF Killable
  <2>3. o \in Orders /\ Resting(o) /\ oid[o] \in OrderIds /\ index[oid[o]] # NoOrder
    <3>1. p \in levels[s]  BY DEF Best
    <3>2. o \in Orders /\ Resting(o)  BY <2>2, <3>1, FrontOrder
    <3> QED BY <3>2, MarkersAssumption DEF TypeOK, Resting
  <2>4. BookTypeOK' /\ BookConsistent'
    BY <1>11, <2>1, <2>3, WithdrawStep DEF Kill
  <2>5. UNCHANGED <<oid, side, type, price, remaining, initial>>
    BY <1>11 DEF Kill, fields
  <2>6. CallInv' /\ pc' \in Phases /\ incoming' \in Orders \cup {NoOrder}
        /\ submitted' \in AllTypes \cup {NoOrder}
    BY <1>11 DEF Kill, KillPhase, AfterKill, Return, CallInv, Phases, TypeOK
  <2> QED BY <2>4, <2>5, <2>6 DEF TypeOK, BookTypeOK, NaNOnlyMarket
<1>12. CASE UNCHANGED vars
  BY <1>12, CallStep DEF vars, CallInv, TypeOK
<1> QED
  BY <1>1, <1>2, <1>3, <1>4, <1>5, <1>6, <1>7, <1>8, <1>9, <1>10, <1>11, <1>12 DEF Next, User, Engine

\* The types of the code's state hold of every behaviour: no level has an invalid price, no
\* quantity drops below zero, the index never leads to a freed order.
THEOREM TypeCorrect == Spec => []TypeOK
<1>1. Spec => []StructureInv
  BY StructureInit, StructureStep, PTL DEF Spec
<1>2. StructureInv => TypeOK
  BY DEF StructureInv
<1> QED BY <1>1, <1>2, PTL

\* Level maps, level containers and id index (book_l3_map.hpp:121-129) describe the same
\* orders after every step of every call, for every number of orders, ids and prices.
THEOREM BookStaysConsistent == Spec => []BookConsistent
<1>1. Spec => []StructureInv
  BY StructureInit, StructureStep, PTL DEF Spec
<1>2. StructureInv => BookConsistent
  BY DEF StructureInv
<1> QED BY <1>1, <1>2, PTL

-----------------------------------------------------------------------------
\* The invariant of a running call: who crosses whom.

\* Two waiting orders whose limits cross are an order and the one being matched.
OnlyIncomingCrosses ==
  \A x, y \in Orders :
    Resting(x) /\ Resting(y) /\ side[x] = "Buy" /\ side[y] = "Sell" /\ price[x] >= price[y]
      => pc \in {"match", "crashed"} /\ incoming \in {x, y}

\* A FillAndKill in the book is the running call's order and stands before every other
\* order of its side, until the kill of its side has been passed.
FillAndKillLeads ==
  \A x \in Orders : Resting(x) /\ type[x] = "FillAndKill" =>
    /\ x = incoming /\ pc \in {"match", "killBuy", "killSell", "crashed"}
    /\ pc = "killSell" => side[x] = "Sell"
    /\ \A y \in Orders \ {x} :
         Resting(y) /\ side[y] = side[x] => ~AtLeastAsGood(side[x], price[y], price[x])

NoMarketRests == \A x \in Orders : Resting(x) => type[x] # "Market"

MatchingInv == OnlyIncomingCrosses /\ FillAndKillLeads /\ NoMarketRests

BookInv == StructureInv /\ MatchingInv

\* Orders may leave the book and quantities shrink without disturbing who crosses whom.
LEMMA FewerOrders ==
  ASSUME MatchingInv, UNCHANGED <<side, type, price>>,
         \A x \in Orders : Resting(x)' => Resting(x),
         pc' = pc, incoming' = incoming
  PROVE  MatchingInv'
<1>1. OnlyIncomingCrosses'
  BY DEF MatchingInv, OnlyIncomingCrosses
<1>2. FillAndKillLeads'
  BY DEF MatchingInv, FillAndKillLeads, AtLeastAsGood
<1>3. NoMarketRests'
  BY DEF MatchingInv, NoMarketRests
<1> QED BY <1>1, <1>2, <1>3 DEF MatchingInv

\* Every level map that is not empty has a best level: prices are bounded.
LEMMA BestExists ==
  ASSUME StructureInv, NEW s \in Sides, levels[s] # {}
  PROVE  Best(s) # {}
<1>1. levels[s] \subseteq Prices /\ MaxPrice \in Nat
  BY BoundsAssumption DEF StructureInv, TypeOK
<1>2. IsWellFoundedOn(OpToRel(<, Nat), Nat)
  BY NatLessThanWellFounded
<1>3. CASE s = "Sell"
  <2>1. levels[s] \subseteq Nat  BY <1>1 DEF Prices
  <2>2. PICK p \in levels[s] : \A r \in levels[s] : ~(<<r, p>> \in OpToRel(<, Nat))
    BY <1>2, <2>1, WFMin
  <2>3. \A r \in levels[s] : p <= r
    <3> SUFFICES ASSUME NEW r \in levels[s] PROVE p <= r
      OBVIOUS
    <3>1. p \in Nat /\ r \in Nat  BY <2>1
    <3>2. ~(r < p)  BY <2>2, <3>1 DEF OpToRel
    <3> QED BY <3>1, <3>2
  <2> QED BY <1>3, <2>3 DEF Best, AtLeastAsGood
<1>4. CASE s # "Sell"
  <2> DEFINE T == {MaxPrice - p : p \in levels[s]}
  <2>1. T \subseteq Nat /\ T # {}  BY <1>1 DEF Prices
  <2>2. PICK m \in T : \A n \in T : ~(<<n, m>> \in OpToRel(<, Nat))
    BY <1>2, <2>1, WFMin
  <2>3. PICK p \in levels[s] : m = MaxPrice - p  OBVIOUS
  <2>4. \A r \in levels[s] : p >= r
    <3> SUFFICES ASSUME NEW r \in levels[s] PROVE p >= r
      OBVIOUS
    <3>1. MaxPrice - r \in Nat /\ MaxPrice - p \in Nat /\ p \in Nat /\ r \in Nat
      BY <1>1 DEF Prices
    <3>2. ~(MaxPrice - r < MaxPrice - p)  BY <2>2, <2>3, <3>1 DEF OpToRel
    <3> QED BY <1>1, <3>1, <3>2
  <2>5. s = "Buy"  BY <1>4 DEF Sides
  <2> QED BY <2>4, <2>5 DEF Best, AtLeastAsGood
<1> QED BY <1>3, <1>4

\* When the two best levels do not cross, nothing in the book does.
LEMMA NoCrossLeft ==
  ASSUME StructureInv, CrossedLevels = {}
  PROVE  /\ \A p \in levels["Buy"], r \in levels["Sell"] : p < r
         /\ \A x, y \in Orders :
              ~(Resting(x) /\ Resting(y) /\ side[x] = "Buy" /\ side[y] = "Sell" /\ price[x] >= price[y])
<1>1. "Buy" \in Sides /\ "Sell" \in Sides  BY DEF Sides
<1>2. levels["Buy"] \subseteq Nat /\ levels["Sell"] \subseteq Nat
  BY <1>1, BoundsAssumption DEF StructureInv, TypeOK, Prices
<1>3. \A p \in levels["Buy"], r \in levels["Sell"] : p < r
  <2> SUFFICES ASSUME NEW p \in levels["Buy"], NEW r \in levels["Sell"] PROVE p < r
    OBVIOUS
  <2>1. PICK bp \in Best("Buy") : TRUE  BY <1>1, BestExists
  <2>2. PICK ap \in Best("Sell") : TRUE  BY <1>1, BestExists
  <2>3. ~(bp >= ap)
    <3>1. <<bp, ap>> \notin CrossedLevels  OBVIOUS
    <3> QED BY <3>1 DEF CrossedLevels, Crosses
  <2>4. bp \in levels["Buy"] /\ bp >= p /\ ap \in levels["Sell"] /\ ap <= r
    BY DEF Best, AtLeastAsGood
  <2> QED BY <1>2, <2>3, <2>4
<1>4. ASSUME NEW x \in Orders, NEW y \in Orders,
             Resting(x), Resting(y), side[x] = "Buy", side[y] = "Sell", price[x] >= price[y]
      PROVE  FALSE
  <2>1. price[x] \in levels["Buy"] /\ price[y] \in levels["Sell"]  BY <1>4, WaitingOrder
  <2> QED BY <1>2, <1>3, <1>4, <2>1
<1> QED BY <1>3, <1>4

\* A FillAndKill that can match comes before every waiting order of its own side: the book
\* it enters is not crossed.
LEMMA MatchableLeads ==
  ASSUME StructureInv, OnlyIncomingCrosses, pc = "add", NEW s \in Sides, NEW p \in Prices,
         CanMatch(s, p), NEW y \in Orders, Resting(y), side[y] = s
  PROVE  ~AtLeastAsGood(s, price[y], p)
<1>1. Opposite(s) \in Sides  BY DEF Opposite, Sides
<1>2. PICK r \in levels[Opposite(s)] : AtLeastAsGood(s, p, r)  BY DEF CanMatch
<1> DEFINE z == Head(queue[Opposite(s)][r])
<1>3. z \in Orders /\ Resting(z) /\ side[z] = Opposite(s) /\ price[z] = r /\ r \in Prices
  BY <1>1, FrontOrder
<1>4. price[y] \in Prices  BY WaitingOrder
<1>5. p \in Nat /\ r \in Nat /\ price[y] \in Nat  BY <1>3, <1>4, BoundsAssumption DEF Prices
<1> HIDE DEF z
<1>6. CASE s = "Buy"
  <2>1. ~(price[y] >= price[z])  BY <1>3, <1>6 DEF OnlyIncomingCrosses, Opposite
  <2> QED BY <1>2, <1>3, <1>5, <1>6, <2>1 DEF AtLeastAsGood
<1>7. CASE s = "Sell"
  <2>1. ~(price[z] >= price[y])  BY <1>3, <1>7 DEF OnlyIncomingCrosses, Opposite
  <2> QED BY <1>2, <1>3, <1>5, <1>7, <2>1 DEF AtLeastAsGood
<1> QED BY <1>6, <1>7 DEF Sides

LEMMA MatchingInit == Init => MatchingInv
BY MarkersAssumption DEF Init, MatchingInv, OnlyIncomingCrosses, FillAndKillLeads, NoMarketRests, Resting

\* Every step keeps who crosses whom.
LEMMA MatchingStep == BookInv /\ [Next]_vars => MatchingInv'
<1> SUFFICES ASSUME StructureInv, MatchingInv, [Next]_vars PROVE MatchingInv'
  BY DEF BookInv
<1>1. ASSUME NEW o \in Orders, ~Resting(o), UNCHANGED book, oid'[o] \in OrderIds, pc = "idle",
             \A x \in Orders \ {o} : /\ oid'[x] = oid[x] /\ side'[x] = side[x] /\ type'[x] = type[x]
                                     /\ price'[x] = price[x] /\ remaining'[x] = remaining[x]
      PROVE  MatchingInv'
  <2>1. \A x \in Orders : Resting(x)' <=> Resting(x)
    BY <1>1, OutsideStep
  <2>2. \A x \in Orders : Resting(x)' =>
          Resting(x) /\ side'[x] = side[x] /\ type'[x] = type[x] /\ price'[x] = price[x]
    BY <1>1, <2>1
  <2>3. OnlyIncomingCrosses'
    BY <1>1, <2>2 DEF MatchingInv, OnlyIncomingCrosses
  <2>4. FillAndKillLeads'
    BY <1>1, <2>2 DEF MatchingInv, FillAndKillLeads
  <2>5. NoMarketRests'
    BY <2>2 DEF MatchingInv, NoMarketRests
  <2> QED BY <2>3, <2>4, <2>5 DEF MatchingInv
<1>2. ASSUME NEW o \in Orders, NEW i \in Ids, NEW s \in Sides, NEW t \in OrderTypes,
             NEW p \in {0, InvalidPrice} \cup Prices, NEW q \in 1..MaxQty,
             SubmitNew(o, i, s, t, p, q)
      PROVE  MatchingInv'
  <2>1. i \in OrderIds  BY DEF OrderIds
  <2> QED BY <1>1, <1>2, <2>1 DEF SubmitNew, CallAllowed, StructureInv, TypeOK
<1>3. ASSUME NEW o \in Orders, Discard(o) PROVE MatchingInv'
  <2>1. EmptyId \in OrderIds  BY DEF OrderIds
  <2> QED BY <1>1, <1>3, <2>1 DEF Discard, Spares, StructureInv, TypeOK
<1>4. ASSUME NEW o \in Orders, SubmitAgain(o) PROVE MatchingInv'
  <2>1. pc = "idle" /\ UNCHANGED <<oid, side, type, price, index>>
    BY <1>4 DEF SubmitAgain, CallAllowed, fields, book
  <2>2. OnlyIncomingCrosses'
    BY <2>1 DEF MatchingInv, OnlyIncomingCrosses, Resting
  <2>3. FillAndKillLeads'
    BY <2>1 DEF MatchingInv, FillAndKillLeads, Resting
  <2>4. NoMarketRests'
    BY <2>1 DEF MatchingInv, NoMarketRests, Resting
  <2> QED BY <2>2, <2>3, <2>4 DEF MatchingInv
<1>5. ASSUME NEW i \in Ids, CancelOrder(i) PROVE MatchingInv'
  <2>1. i \in OrderIds /\ index[i] # NoOrder /\ Withdraw(i) /\ UNCHANGED fields
    BY <1>5 DEF CancelOrder, OrderIds
  <2>2. \A x \in Orders : Resting(x)' => Resting(x)
    BY <2>1, WithdrawStep
  <2>3. UNCHANGED <<side, type, price>> /\ pc' = pc /\ incoming' = incoming
    BY <1>5 DEF CancelOrder, fields
  <2> QED BY <2>2, <2>3, FewerOrders
<1>6. CASE Reject
  <2>1. pc = "add" /\ pc' = "idle" /\ UNCHANGED <<oid, side, type, price, index>>
    BY <1>6 DEF Reject, Return, fields, book
  <2> QED BY <2>1 DEF MatchingInv, OnlyIncomingCrosses, FillAndKillLeads, NoMarketRests, Resting
<1>7. CASE Accept
  <2> DEFINE o == incoming
  <2>1. o \in Orders /\ side[o] \in Sides
    BY <1>7 DEF Accept, StructureInv, CallInv, TypeOK
  <2>2. PICK p \in LimitPrices(o) : price' = [price EXCEPT ![o] = p] /\ Insert(o, p)
    BY <1>7 DEF Accept
  <2>3. p \in Prices  BY <1>7, <2>1, LimitIsPrice DEF Accept
  <2>4. /\ pc = "add" /\ pc' = "match" /\ UNCHANGED <<oid, side, remaining, incoming>>
        /\ type' = [type EXCEPT ![o] = BookedType(@)]
        /\ index[oid[o]] = NoOrder /\ remaining[o] > 0
        /\ type[o] = "FillAndKill" => CanMatch(side[o], price[o])
    BY <1>7 DEF Accept, Accepts, Valid
  <2>5. ~Resting(o) /\ \A x \in Orders : Resting(x)' <=> Resting(x) \/ x = o
    BY <2>1, <2>2, <2>3, <2>4, InsertStep
  <2>6. /\ \A x \in Orders : price'[x] = IF x = o THEN p ELSE price[x]
        /\ \A x \in Orders \ {o} : type'[x] = type[x]
        /\ type'[o] = IF type[o] = "Market" THEN "GoodTillCancel" ELSE type[o]
    BY <2>1, <2>2, <2>4 DEF StructureInv, TypeOK, BookedType
  <2>7. OnlyIncomingCrosses'
    BY <2>4, <2>5, <2>6 DEF MatchingInv, OnlyIncomingCrosses
  <2>8. NoMarketRests'
    BY <2>4, <2>5, <2>6 DEF MatchingInv, NoMarketRests
  <2>9. ASSUME NEW x \in Orders, Resting(x)', type'[x] = "FillAndKill",
               NEW y \in Orders \ {x}, Resting(y)', side[y] = side[x]
        PROVE  x = o /\ ~AtLeastAsGood(side[x], price'[y], price'[x])
    <3>1. x = o
      BY <2>4, <2>5, <2>6, <2>9 DEF MatchingInv, FillAndKillLeads
    <3>2. type[o] = "FillAndKill" /\ p = price[o] /\ CanMatch(side[o], p)
      BY <2>2, <2>4, <2>6, <2>9, <3>1 DEF LimitPrices
    <3>3. Resting(y) /\ price'[y] = price[y] /\ price'[x] = p
      BY <2>5, <2>6, <2>9, <3>1
    <3>4. ~AtLeastAsGood(side[o], price[y], p)
      BY <2>1, <2>3, <2>4, <2>9, <3>1, <3>2, <3>3, MatchableLeads DEF MatchingInv
    <3> QED BY <3>1, <3>3, <3>4
  <2>10. FillAndKillLeads'
    <3> SUFFICES ASSUME NEW x \in Orders, Resting(x)', type'[x] = "FillAndKill"
                 PROVE  /\ x = incoming' /\ pc' \in {"match", "killBuy", "killSell", "crashed"}
                        /\ pc' = "killSell" => side'[x] = "Sell"
                        /\ \A y \in Orders \ {x} : Resting(y)' /\ side'[y] = side'[x]
                             => ~AtLeastAsGood(side'[x], price'[y], price'[x])
      BY DEF FillAndKillLeads, AtLeastAsGood
    <3>1. x = o  BY <2>4, <2>5, <2>6 DEF MatchingInv, FillAndKillLeads
    <3> QED BY <2>4, <2>9, <3>1
  <2> QED BY <2>7, <2>8, <2>10 DEF MatchingInv
<1>8. CASE Match
  <2>1. PICK bs \in CrossedLevels : Fill(bs[1], bs[2])
    BY <1>8 DEF Match
  <2>2. bs[1] \in levels["Buy"] /\ bs[2] \in levels["Sell"]
    BY DEF CrossedLevels, Best
  <2>3. UNCHANGED <<oid, side, type, price, initial, pc, incoming>>
    BY <1>8 DEF Match
  <2>4. \A x \in Orders : Resting(x)' => Resting(x)
    BY <2>1, <2>2, <2>3, FillStep
  <2>5. UNCHANGED <<side, type, price>>  BY <2>3
  <2> QED BY <2>3, <2>4, <2>5, FewerOrders
<1>9. CASE MatchDone
  <2>1. pc = "match" /\ pc' = "killBuy" /\ UNCHANGED <<oid, side, type, price, index, incoming>>
    BY <1>9 DEF MatchDone, fields, book
  <2>2. OnlyIncomingCrosses'
    BY <1>9, <2>1, NoCrossLeft DEF MatchDone, OnlyIncomingCrosses, Resting
  <2>3. FillAndKillLeads'
    BY <2>1 DEF MatchingInv, FillAndKillLeads, Resting, AtLeastAsGood
  <2>4. NoMarketRests'
    BY <2>1 DEF MatchingInv, NoMarketRests, Resting
  <2> QED BY <2>2, <2>3, <2>4 DEF MatchingInv
<1>10. CASE Fault
  <2>1. pc = "match" /\ pc' = "crashed" /\ UNCHANGED <<oid, side, type, price, index, incoming>>
    BY <1>10 DEF Fault, fields, book
  <2> QED BY <2>1 DEF MatchingInv, OnlyIncomingCrosses, FillAndKillLeads, NoMarketRests, Resting,
                      AtLeastAsGood
<1>11. ASSUME NEW s \in Sides, pc = KillPhase(s), AfterKill(s), UNCHANGED <<side, type, price>>,
              \A x \in Orders : Resting(x)' => Resting(x) /\ (side[x] = s => type[x] # "FillAndKill")
       PROVE  MatchingInv'
  <2>1. /\ s = "Buy"  => pc = "killBuy" /\ pc' = "killSell" /\ incoming' = incoming
        /\ s = "Sell" => pc = "killSell" /\ pc' = "idle"
        /\ s \in {"Buy", "Sell"}
    BY <1>11 DEF KillPhase, AfterKill, Return, Sides
  <2>2. OnlyIncomingCrosses'
    BY <1>11, <2>1 DEF MatchingInv, OnlyIncomingCrosses
  <2>3. NoMarketRests'
    BY <1>11 DEF MatchingInv, NoMarketRests
  <2>4. FillAndKillLeads'
    <3> SUFFICES ASSUME NEW x \in Orders, Resting(x)', type[x] = "FillAndKill"
                 PROVE  /\ x = incoming' /\ pc' \in {"match", "killBuy", "killSell", "crashed"}
                        /\ pc' = "killSell" => side[x] = "Sell"
                        /\ \A y \in Orders \ {x} : Resting(y)' /\ side[y] = side[x]
                             => ~AtLeastAsGood(side[x], price[y], price[x])
      BY <1>11 DEF FillAndKillLeads, AtLeastAsGood
    <3>1. side[x] # s /\ side[x] \in {"Buy", "Sell"} /\ Resting(x)
      BY <1>11 DEF StructureInv, TypeOK, Sides
    <3>2. s = "Buy"
      BY <2>1, <3>1 DEF MatchingInv, FillAndKillLeads
    <3> QED BY <1>11, <2>1, <3>1, <3>2 DEF MatchingInv, FillAndKillLeads
  <2> QED BY <2>2, <2>3, <2>4 DEF MatchingInv
<1>12. ASSUME NEW s \in Sides, Keep(s) PROVE MatchingInv'
  <2>1. UNCHANGED <<oid, side, type, price, index>> /\ pc = KillPhase(s) /\ AfterKill(s)
    BY <1>12 DEF Keep, fields, book
  <2>2. ASSUME NEW x \in Orders, Resting(x), side[x] = s, type[x] = "FillAndKill" PROVE FALSE
    <3>1. price[x] \in levels[s] /\ levels[s] \subseteq Nat
      <4>1. price[x] \in levels[s]  BY <2>2, WaitingOrder
      <4>2. levels[s] \subseteq Prices  BY DEF StructureInv, TypeOK
      <4> QED BY <4>1, <4>2, BoundsAssumption DEF Prices
    <3>2. price[x] \in Best(s)
      <4> SUFFICES ASSUME NEW r \in levels[s] PROVE AtLeastAsGood(s, price[x], r)
        BY <3>1 DEF Best
      <4> DEFINE z == Head(queue[s][r])
      <4>1. z \in Orders /\ Resting(z) /\ side[z] = s /\ price[z] = r  BY FrontOrder
      <4>2. z # x => ~AtLeastAsGood(s, r, price[x])
        BY <2>2, <4>1 DEF MatchingInv, FillAndKillLeads
      <4> HIDE DEF z
      <4> QED BY <3>1, <4>1, <4>2 DEF AtLeastAsGood
    <3> DEFINE h == Head(queue[s][price[x]])
    <3>3. h \in Orders /\ Resting(h) /\ side[h] = s /\ price[h] = price[x]
      BY <3>1, FrontOrder
    <3>4. h = x
      <4>1. h # x => ~AtLeastAsGood(s, price[x], price[x])
        BY <2>2, <3>3 DEF MatchingInv, FillAndKillLeads
      <4> HIDE DEF h
      <4> QED BY <3>1, <4>1 DEF AtLeastAsGood
    <3>5. x \in Killable(s)  BY <2>2, <3>2, <3>4 DEF Killable
    <3> QED BY <1>12, <3>5 DEF Keep
  <2>3. \A x \in Orders : Resting(x)' => Resting(x) /\ (side[x] = s => type[x] # "FillAndKill")
    BY <2>1, <2>2 DEF Resting
  <2> QED BY <1>11, <2>1, <2>3
<1>13. ASSUME NEW s \in Sides, Kill(s) PROVE MatchingInv'
  <2>1. PICK o \in Killable(s) : Withdraw(oid[o])
    BY <1>13 DEF Kill
  <2>2. PICK p \in Best(s) : o = Head(queue[s][p])
    BY <2>1 DEF Killable
  <2>3. /\ o \in Orders /\ Resting(o) /\ oid[o] \in OrderIds /\ index[oid[o]] = o /\ o # NoOrder
        /\ type[o] = "FillAndKill"
    <3>1. p \in levels[s]  BY DEF Best
    <3>2. o \in Orders /\ Resting(o)  BY <2>2, <3>1, FrontOrder
    <3> QED BY <3>2, <2>1, MarkersAssumption DEF StructureInv, TypeOK, Resting, Killable
  <2>4. UNCHANGED fields /\ UNCHANGED <<side, type, price>> /\ pc = KillPhase(s) /\ AfterKill(s)
    BY <1>13 DEF Kill, fields
  <2>5. \A x \in Orders : Resting(x)' <=> Resting(x) /\ x # o
    BY <2>1, <2>3, <2>4, WithdrawStep
  <2>6. \A x \in Orders \ {o} : Resting(x) => type[x] # "FillAndKill"
    BY <2>3 DEF MatchingInv, FillAndKillLeads
  <2> QED BY <1>11, <2>4, <2>5, <2>6
<1>14. CASE UNCHANGED vars
  BY <1>14 DEF vars, fields, book, MatchingInv, OnlyIncomingCrosses, FillAndKillLeads, NoMarketRests,
               Resting, AtLeastAsGood
<1> QED
  BY <1>2, <1>3, <1>4, <1>5, <1>6, <1>7, <1>8, <1>9, <1>10, <1>12, <1>13, <1>14 DEF Next, User, Engine

LEMMA BookInvariant == Spec => []BookInv
<1>1. Init => BookInv
  BY StructureInit, MatchingInit DEF BookInv
<1>2. BookInv /\ [Next]_vars => BookInv'
  BY StructureStep, MatchingStep DEF BookInv
<1> QED BY <1>1, <1>2, PTL DEF Spec

-----------------------------------------------------------------------------
\* What the matching invariant gives the user of the book.

\* Between two calls the best bid is below the best ask, for every number of levels and
\* orders: MatchOrders (book_l3.hpp:137-188) stops only when nothing can trade.
THEOREM NeverLeftCrossed == Spec => []Uncrossed
<1>1. BookInv => Uncrossed
  <2> SUFFICES ASSUME StructureInv, OnlyIncomingCrosses, pc = "idle",
                      NEW p \in levels["Buy"], NEW r \in levels["Sell"]
               PROVE  p < r
    BY DEF BookInv, MatchingInv, Uncrossed
  <2> DEFINE x == Head(queue["Buy"][p])
             y == Head(queue["Sell"][r])
  <2>1. p \in Prices /\ x \in Orders /\ Resting(x) /\ side[x] = "Buy" /\ price[x] = p
    BY FrontOrder DEF Sides
  <2>2. r \in Prices /\ y \in Orders /\ Resting(y) /\ side[y] = "Sell" /\ price[y] = r
    BY FrontOrder DEF Sides
  <2> HIDE DEF x, y
  <2>3. ~(p >= r)
    BY <2>1, <2>2 DEF OnlyIncomingCrosses
  <2> QED BY <2>1, <2>2, <2>3, BoundsAssumption DEF Prices
<1> QED BY <1>1, BookInvariant, PTL

\* Between two calls no FillAndKill and no unconverted market order waits: looking at the
\* best order of each side (book_l3.hpp:190-202) is enough to find what is to be killed.
THEOREM KillsAreComplete == Spec => []FillAndKillNeverRests
<1>1. BookInv => FillAndKillNeverRests
  BY DEF BookInv, MatchingInv, FillAndKillLeads, NoMarketRests, FillAndKillNeverRests
<1> QED BY <1>1, BookInvariant, PTL

\* The two orders of a matching iteration: one of them is the incoming order.
LEMMA CrossedFronts ==
  ASSUME BookInv, pc = "match", NEW bs \in CrossedLevels
  PROVE  LET b == Head(queue["Buy"][bs[1]])
             a == Head(queue["Sell"][bs[2]])
         IN /\ bs[1] \in levels["Buy"] /\ bs[2] \in levels["Sell"]
            /\ b \in Orders /\ a \in Orders /\ side[b] = "Buy" /\ side[a] = "Sell"
            /\ price[b] \in Prices /\ price[a] \in Prices /\ price[b] >= price[a]
            /\ incoming \in {b, a}
<1> DEFINE b == Head(queue["Buy"][bs[1]])
           a == Head(queue["Sell"][bs[2]])
<1>1. bs[1] \in levels["Buy"] /\ bs[2] \in levels["Sell"] /\ bs[1] >= bs[2]
  BY DEF CrossedLevels, Best, Crosses
<1>2. b \in Orders /\ Resting(b) /\ side[b] = "Buy" /\ price[b] = bs[1] /\ bs[1] \in Prices
  BY <1>1, FrontOrder DEF BookInv, Sides
<1>3. a \in Orders /\ Resting(a) /\ side[a] = "Sell" /\ price[a] = bs[2] /\ bs[2] \in Prices
  BY <1>1, FrontOrder DEF BookInv, Sides
<1> HIDE DEF b, a
<1>4. incoming \in {b, a}
  BY <1>1, <1>2, <1>3 DEF BookInv, MatchingInv, OnlyIncomingCrosses
<1> QED BY <1>1, <1>2, <1>3, <1>4 DEF b, a

\* Every trade has the incoming order on one side, and neither order trades beyond its
\* limit (book_l3.hpp:140-179).
THEOREM IncomingTrades == Spec => TradesInvolveIncoming
<1>1. BookInv /\ [Next]_vars =>
        [pc = "match" => \A o \in Orders \ {incoming} : remaining'[o] # remaining[o] =>
           /\ remaining'[incoming] < remaining[incoming]
           /\ side[o] # side[incoming]
           /\ AtLeastAsGood(side[incoming], price[incoming], price[o])]_vars
  <2> SUFFICES ASSUME BookInv, Next, pc = "match", NEW o \in Orders \ {incoming},
                      remaining'[o] # remaining[o]
               PROVE  /\ remaining'[incoming] < remaining[incoming]
                      /\ side[o] # side[incoming]
                      /\ AtLeastAsGood(side[incoming], price[incoming], price[o])
    BY DEF vars
  <2>1. Match
    BY DEF Next, User, Engine, SubmitNew, SubmitAgain, Discard, CancelOrder, CallAllowed, Reject,
           Accept, MatchDone, Kill, Keep, KillPhase, Fault, fields
  <2>2. PICK bs \in CrossedLevels : Fill(bs[1], bs[2])
    BY <2>1 DEF Match
  <2> DEFINE b == Head(queue["Buy"][bs[1]])
             a == Head(queue["Sell"][bs[2]])
  <2>3. /\ bs[1] \in levels["Buy"] /\ bs[2] \in levels["Sell"]
        /\ side[b] = "Buy" /\ side[a] = "Sell" /\ incoming \in {b, a} /\ price[b] >= price[a]
        /\ price[b] \in Prices /\ price[a] \in Prices
    BY CrossedFronts
  <2>4. /\ \A x \in Orders \ {b, a} : remaining'[x] = remaining[x]
        /\ remaining'[b] < remaining[b] /\ remaining'[a] < remaining[a]
    <3>1. UNCHANGED <<oid, side, type, price, initial>>  BY <2>1 DEF Match
    <3> QED BY <2>2, <2>3, <3>1, FillStep DEF BookInv
  <2> HIDE DEF b, a
  <2>5. {o, incoming} = {b, a}
    BY <2>3, <2>4
  <2> QED BY <2>3, <2>4, <2>5, BoundsAssumption DEF AtLeastAsGood, Prices
<1> QED BY <1>1, BookInvariant, PTL DEF Spec, TradesInvolveIncoming

\* The checks after matching (book_l3.hpp:190-202) look at the best order of each side,
\* whoever owns it, and cancel the incoming order or nothing.
THEOREM OnlyIncomingKilled == Spec => KillsOnlyIncoming
<1>1. BookInv /\ [Next]_vars =>
        [(\E s \in Sides : pc = KillPhase(s)) =>
           \A i \in OrderIds : index'[i] # index[i] => index[i] = incoming]_vars
  <2> SUFFICES ASSUME BookInv, Next, NEW s \in Sides, pc = KillPhase(s),
                      NEW i \in OrderIds, index'[i] # index[i]
               PROVE  index[i] = incoming
    BY DEF vars
  <2>1. PICK t \in Sides : Kill(t)
    BY DEF Next, User, Engine, SubmitNew, SubmitAgain, Discard, CancelOrder, CallAllowed, Reject,
           Accept, Match, MatchDone, Keep, KillPhase, Fault, fields, book
  <2>2. PICK o \in Killable(t) : Withdraw(oid[o])
    BY <2>1 DEF Kill
  <2>3. o \in Orders /\ type[o] = "FillAndKill" /\ Resting(o)
    <3>1. PICK p \in Best(t) : o = Head(queue[t][p])  BY DEF Killable
    <3>2. p \in levels[t]  BY DEF Best
    <3> QED BY <3>1, <3>2, FrontOrder DEF Killable, BookInv
  <2>4. o = incoming
    BY <2>3 DEF BookInv, MatchingInv, FillAndKillLeads
  <2>5. i = oid[o]
    BY <2>2 DEF Withdraw, BookInv, StructureInv, TypeOK
  <2> QED BY <2>3, <2>4, <2>5 DEF Resting
<1> QED BY <1>1, BookInvariant, PTL DEF Spec, KillsOnlyIncoming

-----------------------------------------------------------------------------
\* The open quantity of a level.

\* f[k] is what the first k orders of q have left, if rem tells what each has left.
Sums(f, q, rem) ==
  /\ f \in [0..Len(q) -> Nat]
  /\ f[0] = 0
  /\ \A k \in 1..Len(q) : f[k] = f[k - 1] + rem[q[k]]

\* q has a quantity under rem, and it is n.
Totals(q, rem, n) == \E f : Sums(f, q, rem) /\ f[Len(q)] = n

\* A function with a least point where it differs from another: there is none below.
LEMMA LeastIndex ==
  ASSUME NEW X \in SUBSET Nat, X # {}
  PROVE  \E k \in X : \A j \in X : k <= j
<1>1. PICK k \in X : \A j \in X : ~(<<j, k>> \in OpToRel(<, Nat))
  BY NatLessThanWellFounded, WFMin
<1>2. \A j \in X : ~(j < k)
  BY <1>1 DEF OpToRel
<1> QED BY <1>2

\* The quantity of a level is determined by what its orders have left.
LEMMA QuantityIs ==
  ASSUME NEW S, NEW q \in Seq(S), NEW n, Totals(q, remaining, n)
  PROVE  Quantity(q) = n
<1> DEFINE Step(h) == [k \in 0..Len(q) |-> IF k = 0 THEN 0 ELSE h[k - 1] + remaining[q[k]]]
           g == CHOOSE h : h = Step(h)
<1>1. PICK f : Sums(f, q, remaining) /\ f[Len(q)] = n
  BY DEF Totals
<1>2. Len(q) \in Nat
  BY LenProperties
<1>3. f = Step(f)
  <2>1. f = [k \in 0..Len(q) |-> f[k]]  BY <1>1 DEF Sums
  <2>2. \A k \in 0..Len(q) : f[k] = IF k = 0 THEN 0 ELSE f[k - 1] + remaining[q[k]]
    <3>1. \A k \in 0..Len(q) : k # 0 => k \in 1..Len(q)  BY <1>2
    <3> QED BY <1>1, <3>1 DEF Sums
  <2> QED BY <2>1, <2>2
<1>4. g = Step(g)
  BY <1>3
<1>5. Quantity(q) = g[Len(q)]
  BY DEF Quantity
<1> HIDE DEF g
<1>6. \A k \in 0..Len(q) : g[k] = IF k = 0 THEN 0 ELSE g[k - 1] + remaining[q[k]]
  BY <1>4
<1>7. \A k \in 0..Len(q) : g[k] = f[k]
  <2> DEFINE X == {k \in 0..Len(q) : g[k] # f[k]}
  <2> SUFFICES ASSUME X # {} PROVE FALSE
    OBVIOUS
  <2>0. X \in SUBSET Nat
    BY <1>2
  <2>1. PICK k \in X : \A j \in X : k <= j
    <3> HIDE DEF X
    <3> QED BY <2>0, LeastIndex
  <2>2. CASE k = 0
    BY <1>1, <1>6, <2>2 DEF Sums
  <2>3. CASE k # 0
    <3>1. k - 1 \in 0..Len(q) /\ k \in 1..Len(q) /\ ~(k <= k - 1)
      BY <1>2, <2>3
    <3>2. g[k - 1] = f[k - 1]
      BY <2>1, <3>1
    <3> QED BY <1>1, <1>6, <3>1, <3>2 DEF Sums
  <2> QED BY <2>2, <2>3
<1> QED BY <1>1, <1>2, <1>5, <1>7

\* The sums grow, and no order has more left than all of them together.
LEMMA SumsGrow ==
  ASSUME NEW S, NEW q \in Seq(S), NEW f, NEW rem, Sums(f, q, rem),
         \A k \in 1..Len(q) : rem[q[k]] \in Nat
  PROVE  \A i, j \in 0..Len(q) : i <= j => f[i] <= f[j]
<1> SUFFICES ASSUME NEW i \in 0..Len(q),
                    {j \in 0..Len(q) : i <= j /\ ~(f[i] <= f[j])} # {}
             PROVE  FALSE
  OBVIOUS
<1> DEFINE X == {j \in 0..Len(q) : i <= j /\ ~(f[i] <= f[j])}
<1>1. Len(q) \in Nat /\ f \in [0..Len(q) -> Nat] /\ \A k \in 1..Len(q) : f[k] = f[k - 1] + rem[q[k]]
  BY LenProperties DEF Sums
<1>2. PICK k \in X : \A j \in X : k <= j
  <2>1. X \in SUBSET Nat /\ X # {}  BY <1>1
  <2> HIDE DEF X
  <2> QED BY <2>1, LeastIndex
<1>3. k # i
  BY <1>1
<1>4. k - 1 \in 0..Len(q) /\ i <= k - 1 /\ k \in 1..Len(q) /\ ~(k <= k - 1)
  BY <1>1, <1>3
<1>5. f[i] <= f[k - 1]
  BY <1>2, <1>4
<1>6. ~(f[i] <= f[k])
  OBVIOUS
<1>7. f[k] = f[k - 1] + rem[q[k]] /\ rem[q[k]] \in Nat
  BY <1>1, <1>4
<1>8. f[i] \in Nat /\ f[k - 1] \in Nat
  BY <1>1, <1>4
<1> HIDE DEF X
<1> QED BY <1>5, <1>6, <1>7, <1>8

\* Whatever leaves alone what the orders of a level have left leaves its quantity alone.
LEMMA SameTotal ==
  ASSUME NEW S, NEW q \in Seq(S), NEW rem, NEW rest, NEW n, Totals(q, rem, n),
         \A x \in ToSet(q) : rest[x] = rem[x]
  PROVE  Totals(q, rest, n)
<1>1. PICK f : Sums(f, q, rem) /\ f[Len(q)] = n
  BY DEF Totals
<1>2. \A k \in 1..Len(q) : rest[q[k]] = rem[q[k]]
  BY LenProperties DEF ToSet
<1>3. Sums(f, q, rest)
  BY <1>1, <1>2 DEF Sums
<1> QED BY <1>1, <1>3 DEF Totals

\* A new order adds what it has left.
LEMMA AppendTotal ==
  ASSUME NEW S, NEW q \in Seq(S), NEW rem, NEW n, Totals(q, rem, n), NEW o \in S, rem[o] \in Nat
  PROVE  Totals(Append(q, o), rem, n + rem[o])
<1> DEFINE r == Append(q, o)
<1>1. PICK f : Sums(f, q, rem) /\ f[Len(q)] = n
  BY DEF Totals
<1>2. /\ Len(q) \in Nat /\ Len(r) = Len(q) + 1 /\ r[Len(q) + 1] = o
      /\ \A k \in 1..Len(q) : r[k] = q[k]
  BY AppendProperties, LenProperties
<1>3. f \in [0..Len(q) -> Nat] /\ f[0] = 0 /\ \A k \in 1..Len(q) : f[k] = f[k - 1] + rem[q[k]]
  BY <1>1 DEF Sums
<1> DEFINE g == [k \in 0..(Len(q) + 1) |-> IF k <= Len(q) THEN f[k] ELSE n + rem[o]]
<1> HIDE DEF r
<1>4. \A k \in 0..(Len(q) + 1) : g[k] = IF k <= Len(q) THEN f[k] ELSE n + rem[o]
  OBVIOUS
<1>5. g \in [0..(Len(q) + 1) -> Nat]
  <2>1. n \in Nat  BY <1>1, <1>2, <1>3
  <2>2. \A k \in 0..(Len(q) + 1) : k <= Len(q) => k \in 0..Len(q)  BY <1>2
  <2> QED BY <1>3, <2>1, <2>2
<1> HIDE DEF g
<1>6. g[0] = 0
  BY <1>2, <1>3, <1>4
<1>7. \A k \in 1..(Len(q) + 1) : g[k] = g[k - 1] + rem[r[k]]
  <2> SUFFICES ASSUME NEW k \in 1..(Len(q) + 1) PROVE g[k] = g[k - 1] + rem[r[k]]
    OBVIOUS
  <2>1. k - 1 \in 0..(Len(q) + 1) /\ k - 1 <= Len(q) /\ k \in 0..(Len(q) + 1)  BY <1>2
  <2>2. CASE k <= Len(q)
    <3>1. k \in 1..Len(q)  BY <1>2, <2>2
    <3> QED BY <1>2, <1>3, <1>4, <2>1, <2>2, <3>1
  <2>3. CASE ~(k <= Len(q))
    <3>1. k = Len(q) + 1 /\ k - 1 = Len(q)  BY <1>2, <2>3
    <3> QED BY <1>1, <1>2, <1>4, <2>1, <2>3, <3>1
  <2> QED BY <2>2, <2>3
<1>8. g[Len(r)] = n + rem[o]
  BY <1>2, <1>4
<1>9. Sums(g, r, rem)
  BY <1>2, <1>5, <1>6, <1>7 DEF Sums
<1> QED BY <1>8, <1>9 DEF Totals, r

\* An erased order takes away what it has left, and that is no more than the total.
LEMMA ErasedTotal ==
  ASSUME NEW S, NEW q \in Seq(S), NEW rem, NEW n, Totals(q, rem, n), NEW k \in DOMAIN q,
         \A j \in 1..Len(q) : rem[q[j]] \in Nat, NEW r \in Seq(S), Erased(q, k, r)
  PROVE  n \in Nat /\ rem[q[k]] <= n /\ Totals(r, rem, n - rem[q[k]])
<1> DEFINE d == rem[q[k]]
<1>1. PICK f : Sums(f, q, rem) /\ f[Len(q)] = n
  BY DEF Totals
<1>2. /\ Len(q) \in Nat /\ DOMAIN q = 1..Len(q) /\ k \in 1..Len(q) /\ Len(r) \in Nat /\ Len(r) = Len(q) - 1
      /\ \A j \in 1..Len(r) : r[j] = IF j < k THEN q[j] ELSE q[j + 1]
  BY LenProperties DEF Erased
<1>3. f \in [0..Len(q) -> Nat] /\ f[0] = 0 /\ \A j \in 1..Len(q) : f[j] = f[j - 1] + rem[q[j]]
  BY <1>1 DEF Sums
<1>4. d \in Nat
  BY <1>2
<1> HIDE DEF d
<1>5. \A j \in 0..Len(q) : k <= j => d <= f[j]
  <2>1. f[k] = f[k - 1] + d /\ f[k - 1] \in Nat /\ f[k] \in Nat
    <3>1. k - 1 \in 0..Len(q) /\ k \in 0..Len(q)  BY <1>2
    <3> QED BY <1>2, <1>3, <3>1 DEF d
  <2>2. \A j \in 0..Len(q) : k <= j => f[k] <= f[j]
    <3>1. k \in 0..Len(q)  BY <1>2
    <3>2. \A i, j \in 0..Len(q) : i <= j => f[i] <= f[j]  BY <1>1, SumsGrow
    <3> QED BY <3>1, <3>2
  <2>3. d <= f[k]  BY <1>4, <2>1
  <2>4. \A j \in 0..Len(q) : f[j] \in Nat  BY <1>3
  <2> QED BY <1>4, <2>1, <2>2, <2>3, <2>4
<1> DEFINE g == [j \in 0..Len(r) |-> IF j < k THEN f[j] ELSE f[j + 1] - d]
<1>6. \A j \in 0..Len(r) : g[j] = IF j < k THEN f[j] ELSE f[j + 1] - d
  OBVIOUS
<1>7. g \in [0..Len(r) -> Nat]
  <2>1. \A j \in 0..Len(r) : j \in 0..Len(q) /\ j + 1 \in 0..Len(q) /\ (~(j < k) => k <= j + 1)  BY <1>2
  <2>2. \A j \in 0..Len(r) : ~(j < k) => f[j + 1] - d \in Nat
    <3> SUFFICES ASSUME NEW j \in 0..Len(r), ~(j < k) PROVE f[j + 1] - d \in Nat
      OBVIOUS
    <3>1. f[j + 1] \in Nat /\ d <= f[j + 1]  BY <1>3, <1>5, <2>1
    <3> QED BY <1>4, <3>1
  <2>3. \A j \in 0..Len(r) : f[j] \in Nat  BY <1>3, <2>1
  <2> QED BY <2>2, <2>3
<1> HIDE DEF g
<1>8. g[0] = 0
  BY <1>2, <1>3, <1>6
<1>9. \A j \in 1..Len(r) : g[j] = g[j - 1] + rem[r[j]]
  <2> SUFFICES ASSUME NEW j \in 1..Len(r) PROVE g[j] = g[j - 1] + rem[r[j]]
    OBVIOUS
  <2>1. /\ j \in 0..Len(r) /\ j - 1 \in 0..Len(r) /\ j \in 1..Len(q) /\ j + 1 \in 1..Len(q)
        /\ j + 1 - 1 = j /\ j \in 0..Len(q) /\ j - 1 \in 0..Len(q)
    BY <1>2
  <2>2. CASE j < k
    <3>1. j - 1 < k  BY <1>2, <2>2
    <3>2. g[j] = f[j] /\ g[j - 1] = f[j - 1] /\ r[j] = q[j]  BY <1>2, <1>6, <2>1, <2>2, <3>1
    <3> QED BY <1>3, <2>1, <3>2
  <2>3. CASE j = k
    <3>1. j - 1 < k /\ ~(j < k)  BY <1>2, <2>3
    <3>2. g[j] = f[j + 1] - d /\ g[j - 1] = f[j - 1] /\ r[j] = q[j + 1]
      BY <1>2, <1>6, <2>1, <3>1
    <3>3. f[j + 1] = f[j] + rem[q[j + 1]] /\ f[j] = f[j - 1] + d
      BY <1>3, <2>1, <2>3 DEF d
    <3>4. f[j - 1] \in Nat /\ rem[q[j + 1]] \in Nat  BY <1>3, <2>1
    <3> QED BY <1>4, <3>2, <3>3, <3>4
  <2>4. CASE j > k
    <3>1. ~(j - 1 < k) /\ ~(j < k) /\ j - 1 + 1 = j  BY <1>2, <2>4
    <3>2. g[j] = f[j + 1] - d /\ g[j - 1] = f[j] - d /\ r[j] = q[j + 1]
      BY <1>2, <1>6, <2>1, <3>1
    <3>3. f[j + 1] = f[j] + rem[q[j + 1]]
      BY <1>3, <2>1
    <3>4. f[j] \in Nat /\ rem[q[j + 1]] \in Nat  BY <1>3, <2>1
    <3> QED BY <1>4, <3>2, <3>3, <3>4
  <2> QED BY <1>2, <2>2, <2>3, <2>4
<1>10. n \in Nat /\ d <= n
  <2>1. Len(q) \in 0..Len(q) /\ k <= Len(q)  BY <1>2
  <2> QED BY <1>1, <1>3, <1>5, <2>1
<1>11. g[Len(r)] = n - d
  <2>1. Len(r) \in 0..Len(r) /\ Len(r) + 1 = Len(q)  BY <1>2
  <2>2. CASE Len(r) < k
    <3>1. k = Len(q) /\ Len(r) = k - 1  BY <1>2, <2>2
    <3>2. f[k] = f[k - 1] + d /\ f[k - 1] \in Nat
      <4>1. k - 1 \in 0..Len(q)  BY <1>2
      <4> QED BY <1>2, <1>3, <4>1 DEF d
    <3>3. g[Len(r)] = f[k - 1]  BY <1>6, <2>1, <2>2, <3>1
    <3> QED BY <1>1, <1>4, <3>1, <3>2, <3>3
  <2>3. CASE ~(Len(r) < k)
    BY <1>1, <1>6, <2>1, <2>3
  <2> QED BY <2>2, <2>3
<1>12. Sums(g, r, rem)
  BY <1>7, <1>8, <1>9 DEF Sums
<1> QED BY <1>10, <1>11, <1>12 DEF Totals, d

\* A fill of the first order takes its quantity from the total.
LEMMA FilledTotal ==
  ASSUME NEW S, NEW q \in Seq(S), NEW rem, NEW n, Totals(q, rem, n), q # <<>>, IsInjective(q),
         \A j \in 1..Len(q) : rem[q[j]] \in Nat,
         NEW rest, NEW d \in Nat, d <= rem[q[1]], rest[q[1]] = rem[q[1]] - d,
         \A x \in ToSet(q) : x # q[1] => rest[x] = rem[x]
  PROVE  Totals(q, rest, n - d)
<1>1. PICK f : Sums(f, q, rem) /\ f[Len(q)] = n
  BY DEF Totals
<1>2. Len(q) \in Nat \ {0} /\ DOMAIN q = 1..Len(q)
  BY LenProperties, EmptySeq
<1>3. f \in [0..Len(q) -> Nat] /\ f[0] = 0 /\ \A j \in 1..Len(q) : f[j] = f[j - 1] + rem[q[j]]
  BY <1>1 DEF Sums
<1>4. \A j \in 2..Len(q) : rest[q[j]] = rem[q[j]]
  <2>1. \A j \in 2..Len(q) : j \in 1..Len(q) /\ j # 1 /\ 1 \in 1..Len(q)  BY <1>2
  <2> QED BY <1>2, <2>1 DEF ToSet, IsInjective
<1>5. f[1] = rem[q[1]] /\ f[1] \in Nat
  <2>1. 1 \in 1..Len(q) /\ 1 \in 0..Len(q) /\ 1 - 1 = 0  BY <1>2
  <2> QED BY <1>3, <2>1
<1>6. \A j \in 1..Len(q) : f[1] <= f[j] /\ f[j] \in Nat
  <2>1. \A j \in 1..Len(q) : j \in 0..Len(q) /\ 1 \in 0..Len(q) /\ 1 <= j  BY <1>2
  <2>2. \A i, j \in 0..Len(q) : i <= j => f[i] <= f[j]  BY <1>1, SumsGrow
  <2> QED BY <1>3, <2>1, <2>2
<1> DEFINE g == [j \in 0..Len(q) |-> IF j = 0 THEN 0 ELSE f[j] - d]
<1>7. \A j \in 0..Len(q) : g[j] = IF j = 0 THEN 0 ELSE f[j] - d
  OBVIOUS
<1>8. g \in [0..Len(q) -> Nat]
  <2>1. \A j \in 0..Len(q) : j # 0 => j \in 1..Len(q)  BY <1>2
  <2>2. \A j \in 1..Len(q) : f[j] - d \in Nat  BY <1>5, <1>6
  <2> QED BY <2>1, <2>2
<1> HIDE DEF g
<1>9. \A j \in 1..Len(q) : g[j] = g[j - 1] + rest[q[j]]
  <2> SUFFICES ASSUME NEW j \in 1..Len(q) PROVE g[j] = g[j - 1] + rest[q[j]]
    OBVIOUS
  <2>1. j \in 0..Len(q) /\ j - 1 \in 0..Len(q) /\ j # 0  BY <1>2
  <2>2. CASE j = 1
    <3>1. g[1] = f[1] - d /\ g[1 - 1] = 0  BY <1>7, <2>1, <2>2
    <3>2. rest[q[1]] = f[1] - d  BY <1>5
    <3> QED BY <1>5, <2>2, <3>1, <3>2
  <2>3. CASE j # 1
    <3>1. j \in 2..Len(q) /\ j - 1 # 0  BY <1>2, <2>3
    <3>2. g[j] = f[j] - d /\ g[j - 1] = f[j - 1] - d  BY <1>7, <2>1, <3>1
    <3>3. f[j] = f[j - 1] + rest[q[j]] /\ f[j - 1] \in Nat /\ rest[q[j]] \in Nat
      BY <1>3, <1>4, <2>1, <3>1
    <3> QED BY <3>2, <3>3
  <2> QED BY <2>2, <2>3
<1>10. g[0] = 0 /\ g[Len(q)] = n - d
  BY <1>1, <1>2, <1>7
<1>11. Sums(g, q, rest)
  BY <1>8, <1>9, <1>10 DEF Sums
<1> QED BY <1>10, <1>11 DEF Totals

-----------------------------------------------------------------------------
\* The L2 book beside the L3 book.

L2Inv == \A s \in Sides, p \in Prices : Totals(queue[s][p], remaining, l2[s][p])

\* The orders of a level and what they have left.
LEMMA LevelOrders ==
  ASSUME StructureInv, NEW s \in Sides, NEW p \in Prices
  PROVE  /\ queue[s][p] \in Seq(Orders) /\ IsInjective(queue[s][p])
         /\ ToSet(queue[s][p]) \subseteq Orders
         /\ \A j \in 1..Len(queue[s][p]) : remaining[queue[s][p][j]] \in Nat
         /\ \A x \in ToSet(queue[s][p]) : side[x] = s /\ price[x] = p /\ Resting(x)
<1>1. queue[s][p] \in Seq(Orders) /\ IsInjective(queue[s][p])
  BY DEF StructureInv, TypeOK, BookConsistent, NoDuplicates
<1>2. ToSet(queue[s][p]) \subseteq Orders
  BY <1>1, EmptyLine
<1>3. \A j \in 1..Len(queue[s][p]) : remaining[queue[s][p][j]] \in Nat
  <2>1. \A j \in 1..Len(queue[s][p]) : queue[s][p][j] \in Orders  BY <1>1, ElementOfSeq
  <2> QED BY <2>1, BoundsAssumption DEF StructureInv, TypeOK
<1> QED BY <1>1, <1>2, <1>3 DEF StructureInv, BookConsistent, QueuedOrdersIndexed

\* A level nobody touches keeps its total.
LEMMA LevelKept ==
  ASSUME StructureInv, L2Inv, NEW s \in Sides, NEW p \in Prices,
         queue'[s][p] = queue[s][p], l2'[s][p] = l2[s][p],
         \A x \in ToSet(queue[s][p]) : remaining'[x] = remaining[x]
  PROVE  Totals(queue'[s][p], remaining', l2'[s][p])
<1>1. queue[s][p] \in Seq(Orders)
  BY LevelOrders
<1>2. Totals(queue[s][p], remaining, l2[s][p])
  BY DEF L2Inv
<1>3. Totals(queue[s][p], remaining', l2[s][p])
  BY <1>1, <1>2, SameTotal
<1> QED BY <1>3

\* onOrderAdded adds to the level what the new order has left.
LEMMA InsertL2 ==
  ASSUME StructureInv, L2Inv, NEW o \in Orders, NEW p \in Prices, Insert(o, p),
         UNCHANGED remaining
  PROVE  L2Inv'
<1>1. /\ side[o] \in Sides /\ remaining[o] \in Nat
      /\ queue \in [Sides -> [Prices -> Seq(Orders)]] /\ l2 \in [Sides -> [Prices -> Nat]]
  BY BoundsAssumption DEF StructureInv, TypeOK
<1> SUFFICES ASSUME NEW t \in Sides, NEW e \in Prices
             PROVE  Totals(queue'[t][e], remaining', l2'[t][e])
  BY DEF L2Inv
<1>2. /\ queue'[t][e] = IF t = side[o] /\ e = p THEN Append(queue[t][e], o) ELSE queue[t][e]
      /\ l2'[t][e] = IF t = side[o] /\ e = p THEN l2[t][e] + remaining[o] ELSE l2[t][e]
  BY <1>1 DEF Insert, L2Add
<1>3. CASE t = side[o] /\ e = p
  <2>1. queue[t][e] \in Seq(Orders) /\ Totals(queue[t][e], remaining, l2[t][e])
    BY LevelOrders DEF L2Inv
  <2>2. Totals(Append(queue[t][e], o), remaining, l2[t][e] + remaining[o])
    BY <1>1, <2>1, AppendTotal
  <2> QED BY <1>2, <1>3, <2>2
<1>4. CASE ~(t = side[o] /\ e = p)
  BY <1>2, <1>4, LevelKept
<1> QED BY <1>3, <1>4

\* A level quantity no smaller than what is taken from it is reduced by that.
LEMMA ReducedIs ==
  \A x \in Nat, d \in Nat : d <= x => Reduced(x, d) = x - d
BY DEF Reduced

\* onOrderCancelled takes from the level what the cancelled order has left.
LEMMA WithdrawL2 ==
  ASSUME StructureInv, L2Inv, NEW id \in OrderIds, index[id] # NoOrder, Withdraw(id),
         UNCHANGED remaining
  PROVE  L2Inv'
<1> DEFINE o == index[id]
           s == side[o]
           p == price[o]
           q == queue[s][p]
<1>1. o \in Orders /\ Resting(o)
  BY DEF StructureInv, TypeOK, BookConsistent, IndexedOrdersQueued, Resting
<1>2. /\ s \in Sides /\ p \in Prices /\ remaining[o] \in Nat
      /\ queue \in [Sides -> [Prices -> Seq(Orders)]] /\ l2 \in [Sides -> [Prices -> Nat]]
  BY <1>1, WaitingOrder, BoundsAssumption DEF StructureInv, TypeOK
<1>3. PICK k \in DOMAIN q :
         /\ q[k] = o
         /\ queue'  = [queue EXCEPT ![s][p] = RemoveAt(q, k)]
         /\ l2'     = L2Cancel(s, p, remaining[o])
  BY DEF Withdraw
<1> SUFFICES ASSUME NEW t \in Sides, NEW e \in Prices
             PROVE  Totals(queue'[t][e], remaining', l2'[t][e])
  BY DEF L2Inv
<1> HIDE DEF o, s, p
<1>4. /\ queue'[t][e] = IF t = s /\ e = p THEN RemoveAt(q, k) ELSE queue[t][e]
      /\ l2'[t][e] = IF t = s /\ e = p THEN Reduced(l2[t][e], remaining[o]) ELSE l2[t][e]
  BY <1>2, <1>3 DEF L2Cancel
<1>5. CASE t = s /\ e = p
  <2>1. /\ q \in Seq(Orders) /\ Totals(q, remaining, l2[s][p]) /\ l2[s][p] \in Nat
        /\ \A j \in 1..Len(q) : remaining[q[j]] \in Nat
    BY <1>2, LevelOrders DEF L2Inv
  <2>2. RemoveAt(q, k) \in Seq(Orders) /\ Erased(q, k, RemoveAt(q, k))
    BY <1>3, <2>1, RemoveAtErases
  <2> HIDE DEF q
  <2>3. remaining[o] <= l2[s][p] /\ Totals(RemoveAt(q, k), remaining, l2[s][p] - remaining[o])
    BY <1>3, <2>1, <2>2, ErasedTotal
  <2>4. Reduced(l2[s][p], remaining[o]) = l2[s][p] - remaining[o]
    BY <1>2, <2>1, <2>3, ReducedIs
  <2> QED BY <1>4, <1>5, <2>3, <2>4
<1>6. CASE ~(t = s /\ e = p)
  BY <1>4, <1>6, LevelKept
<1> QED BY <1>5, <1>6

\* What a fill of d does to the total of the level whose front order it fills.
LEMMA FillTotal ==
  ASSUME StructureInv, L2Inv, NEW s \in Sides, NEW p \in Prices, queue[s][p] # <<>>,
         NEW d \in Nat, d <= remaining[Head(queue[s][p])], NEW rest,
         rest[Head(queue[s][p])] = remaining[Head(queue[s][p])] - d,
         \A x \in ToSet(queue[s][p]) : x # Head(queue[s][p]) => rest[x] = remaining[x]
  PROVE  Totals(AfterFill(queue[s][p], remaining[Head(queue[s][p])] - d), rest, Reduced(l2[s][p], d))
<1> DEFINE q == queue[s][p]
           n == l2[s][p]
<1>1. /\ q \in Seq(Orders) /\ IsInjective(q) /\ Totals(q, remaining, n) /\ n \in Nat
      /\ \A j \in 1..Len(q) : remaining[q[j]] \in Nat
  BY LevelOrders DEF L2Inv, StructureInv, TypeOK
<1>2. /\ Tail(q) \in Seq(Orders) /\ Erased(q, 1, Tail(q)) /\ 1 \in DOMAIN q /\ Head(q) = q[1]
      /\ DOMAIN q = 1..Len(q)
  BY <1>1, TailErases, LenProperties
<1>3. remaining[q[1]] \in Nat
  BY <1>1, <1>2
<1> HIDE DEF q, n
<1>4. remaining[q[1]] <= n /\ Totals(Tail(q), remaining, n - remaining[q[1]])
  BY <1>1, <1>2, ErasedTotal
<1>5. d <= remaining[q[1]] /\ rest[q[1]] = remaining[q[1]] - d
  BY <1>2 DEF q
<1>6. Reduced(n, d) = n - d
  BY <1>1, <1>3, <1>4, <1>5, ReducedIs
<1>7. \A x \in ToSet(q) : x # q[1] => rest[x] = remaining[x]
  BY <1>2 DEF q
<1>8. CASE remaining[q[1]] - d = 0
  <2>1. ToSet(Tail(q)) = ToSet(q) \ {q[1]} /\ IsInjective(Tail(q))
    BY <1>1, <1>2, ErasedLine
  <2>2. \A x \in ToSet(Tail(q)) : rest[x] = remaining[x]
    BY <1>7, <2>1
  <2>3. Totals(Tail(q), rest, n - remaining[q[1]])
    BY <1>2, <1>4, <2>2, SameTotal
  <2>4. n - remaining[q[1]] = n - d
    BY <1>1, <1>3, <1>8
  <2> QED BY <1>2, <1>6, <1>8, <2>3, <2>4 DEF AfterFill, q, n
<1>9. CASE remaining[q[1]] - d # 0
  <2>1. q # <<>>  BY DEF q
  <2>2. Totals(q, rest, n - d)
    BY <1>1, <1>5, <1>7, <2>1, FilledTotal
  <2> QED BY <1>2, <1>6, <1>9, <2>2 DEF AfterFill, q, n
<1> QED BY <1>8, <1>9

\* onOrderMatched takes the traded quantity from both levels.
LEMMA FillL2 ==
  ASSUME StructureInv, L2Inv, NEW bp \in levels["Buy"], NEW ap \in levels["Sell"], Fill(bp, ap)
  PROVE  L2Inv'
<1> DEFINE b == Head(queue["Buy"][bp])
           a == Head(queue["Sell"][ap])
           d == Lesser(remaining[b], remaining[a])
           bids == AfterFill(queue["Buy"][bp], remaining[b] - d)
           asks == AfterFill(queue["Sell"][ap], remaining[a] - d)
<1>1. /\ remaining' = [remaining EXCEPT ![b] = @ - d, ![a] = @ - d]
      /\ queue'  = [queue EXCEPT !["Buy"][bp] = bids, !["Sell"][ap] = asks]
      /\ l2'     = L2Matched(b, a, d)
  BY DEF Fill
<1>2. Sides = {"Buy", "Sell"} /\ "Buy" \in Sides /\ "Sell" \in Sides /\ "Buy" # "Sell"
  BY DEF Sides
<1>3. /\ b \in Orders /\ side[b] = "Buy" /\ price[b] = bp /\ bp \in Prices
      /\ queue["Buy"][bp] # <<>> /\ remaining[b] \in Nat
  BY <1>2, FrontOrder, BoundsAssumption DEF StructureInv, TypeOK
<1>4. /\ a \in Orders /\ side[a] = "Sell" /\ price[a] = ap /\ ap \in Prices
      /\ queue["Sell"][ap] # <<>> /\ remaining[a] \in Nat
  BY <1>2, FrontOrder, BoundsAssumption DEF StructureInv, TypeOK
<1>5. d \in Nat /\ d <= remaining[b] /\ d <= remaining[a] /\ a # b
  BY <1>2, <1>3, <1>4 DEF Lesser
<1>6. /\ queue \in [Sides -> [Prices -> Seq(Orders)]] /\ l2 \in [Sides -> [Prices -> Nat]]
      /\ remaining \in [Orders -> 0..MaxQty]
  BY DEF StructureInv, TypeOK
<1> HIDE DEF b, a, d, bids, asks
<1>7. /\ remaining'[b] = remaining[b] - d /\ remaining'[a] = remaining[a] - d
      /\ \A x \in Orders \ {b, a} : remaining'[x] = remaining[x]
  BY <1>1, <1>3, <1>4, <1>5, <1>6
<1> SUFFICES ASSUME NEW t \in Sides, NEW e \in Prices
             PROVE  Totals(queue'[t][e], remaining', l2'[t][e])
  BY DEF L2Inv
<1>8. /\ queue'[t][e] = IF t = "Buy" /\ e = bp THEN bids
                        ELSE IF t = "Sell" /\ e = ap THEN asks ELSE queue[t][e]
      /\ l2'[t][e] = IF (t = "Buy" /\ e = bp) \/ (t = "Sell" /\ e = ap)
                     THEN Reduced(l2[t][e], d) ELSE l2[t][e]
  BY <1>1, <1>2, <1>3, <1>4, <1>6 DEF L2Matched
<1>9. \A x \in ToSet(queue[t][e]) : x \in Orders /\ side[x] = t /\ price[x] = e
  BY LevelOrders
<1>10. CASE t = "Buy" /\ e = bp
  <2>1. \A x \in ToSet(queue["Buy"][bp]) : x # b => remaining'[x] = remaining[x]
    BY <1>2, <1>4, <1>7, <1>9, <1>10
  <2>2. Totals(bids, remaining', Reduced(l2["Buy"][bp], d))
    BY <1>2, <1>3, <1>5, <1>7, <2>1, FillTotal DEF b, bids
  <2> QED BY <1>8, <1>10, <2>2
<1>11. CASE t = "Sell" /\ e = ap
  <2>1. \A x \in ToSet(queue["Sell"][ap]) : x # a => remaining'[x] = remaining[x]
    BY <1>2, <1>3, <1>7, <1>9, <1>11
  <2>2. Totals(asks, remaining', Reduced(l2["Sell"][ap], d))
    BY <1>2, <1>4, <1>5, <1>7, <2>1, FillTotal DEF a, asks
  <2> QED BY <1>2, <1>8, <1>11, <2>2
<1>12. CASE ~(t = "Buy" /\ e = bp) /\ ~(t = "Sell" /\ e = ap)
  <2>1. \A x \in ToSet(queue[t][e]) : remaining'[x] = remaining[x]
    BY <1>3, <1>4, <1>7, <1>9, <1>12
  <2> QED BY <1>8, <1>12, <2>1, LevelKept
<1> QED BY <1>10, <1>11, <1>12

LEMMA L2Init == Init => L2Inv
<1> SUFFICES ASSUME Init, NEW s \in Sides, NEW p \in Prices
             PROVE  Totals(queue[s][p], remaining, l2[s][p])
  BY DEF L2Inv
<1>1. queue[s][p] = <<>> /\ l2[s][p] = 0
  BY DEF Init
<1>2. Sums([k \in 0..0 |-> 0], <<>>, remaining)
  BY DEF Sums
<1> QED BY <1>1, <1>2 DEF Totals

LEMMA L2Step == BookInv /\ L2Inv /\ [Next]_vars => L2Inv'
<1> SUFFICES ASSUME StructureInv, L2Inv, [Next]_vars PROVE L2Inv'
  BY DEF BookInv
\* Orders outside the book do not count.
<1>1. ASSUME NEW o \in Orders, ~Resting(o), UNCHANGED book,
             \A x \in Orders \ {o} : remaining'[x] = remaining[x]
      PROVE  L2Inv'
  <2> SUFFICES ASSUME NEW s \in Sides, NEW p \in Prices
               PROVE  Totals(queue'[s][p], remaining', l2'[s][p])
    BY DEF L2Inv
  <2>1. \A x \in ToSet(queue[s][p]) : remaining'[x] = remaining[x]
    BY <1>1, LevelOrders
  <2>2. queue' = queue /\ l2' = l2
    BY <1>1 DEF book
  <2> QED BY <2>1, <2>2, LevelKept
<1>2. ASSUME UNCHANGED <<queue, l2, remaining>> PROVE L2Inv'
  BY <1>2 DEF L2Inv
<1>3. ASSUME NEW o \in Orders, NEW i \in Ids, NEW s \in Sides, NEW t \in OrderTypes,
             NEW p \in {0, InvalidPrice} \cup Prices, NEW q \in 1..MaxQty, SubmitNew(o, i, s, t, p, q)
      PROVE  L2Inv'
  <2>1. ~Resting(o) /\ UNCHANGED book /\ \A x \in Orders \ {o} : remaining'[x] = remaining[x]
    BY <1>3 DEF SubmitNew, StructureInv, TypeOK
  <2> QED BY <1>1, <2>1
<1>4. ASSUME NEW o \in Orders, Discard(o) PROVE L2Inv'
  <2>1. ~Resting(o) /\ UNCHANGED book /\ \A x \in Orders \ {o} : remaining'[x] = remaining[x]
    BY <1>4 DEF Discard, Spares, StructureInv, TypeOK
  <2> QED BY <1>1, <2>1
<1>5. ASSUME NEW i \in Ids, CancelOrder(i) PROVE L2Inv'
  <2>1. i \in OrderIds /\ index[i] # NoOrder /\ Withdraw(i) /\ UNCHANGED remaining
    BY <1>5 DEF CancelOrder, OrderIds, fields
  <2> QED BY <2>1, WithdrawL2
<1>6. CASE Accept
  <2>1. incoming \in Orders /\ UNCHANGED remaining /\ Accepts(incoming)
    BY <1>6 DEF Accept, StructureInv, CallInv
  <2>2. PICK p \in LimitPrices(incoming) : Insert(incoming, p)
    BY <1>6 DEF Accept
  <2>3. p \in Prices
    BY <2>1, LimitIsPrice
  <2> QED BY <2>1, <2>2, <2>3, InsertL2
<1>7. CASE Match
  <2>1. PICK bs \in CrossedLevels : Fill(bs[1], bs[2])
    BY <1>7 DEF Match
  <2>2. bs[1] \in levels["Buy"] /\ bs[2] \in levels["Sell"]
    BY DEF CrossedLevels, Best
  <2> QED BY <2>1, <2>2, FillL2
<1>8. ASSUME NEW s \in Sides, Kill(s) PROVE L2Inv'
  <2>1. PICK o \in Killable(s) : Withdraw(oid[o])
    BY <1>8 DEF Kill
  <2>2. PICK p \in Best(s) : o = Head(queue[s][p])
    BY DEF Killable
  <2>3. o \in Orders /\ Resting(o)
    <3>1. p \in levels[s]  BY DEF Best
    <3> QED BY <2>2, <3>1, FrontOrder
  <2>4. oid[o] \in OrderIds /\ index[oid[o]] # NoOrder /\ UNCHANGED remaining
    BY <1>8, <2>3, MarkersAssumption DEF Kill, StructureInv, TypeOK, Resting, fields
  <2> QED BY <2>1, <2>4, WithdrawL2
<1>9. CASE \/ Reject \/ MatchDone \/ Fault \/ UNCHANGED vars
           \/ \E o \in Orders : SubmitAgain(o)
           \/ \E s \in Sides : Keep(s)
  BY <1>2, <1>9 DEF Reject, MatchDone, Fault, SubmitAgain, Keep, vars, fields, book
<1> QED BY <1>3, <1>4, <1>5, <1>6, <1>7, <1>8, <1>9 DEF Next, User, Engine

LEMMA L2Invariant == Spec => []L2Inv
BY BookInvariant, L2Init, L2Step, PTL DEF Spec

\* The L2 book shows at every step of every call the open quantity of each level of the
\* L3 book, however many orders a level has: onOrderAdded, onOrderCancelled and
\* onOrderMatched keep it so, and no reduction goes below zero.
THEOREM L2ShowsL3 == Spec => []L2MatchesL3
<1>1. BookInv /\ L2Inv => L2MatchesL3
  <2> SUFFICES ASSUME StructureInv, L2Inv, NEW s \in Sides, NEW p \in Prices
               PROVE  l2[s][p] = Quantity(queue[s][p])
    BY DEF BookInv, L2MatchesL3
  <2>1. queue[s][p] \in Seq(Orders) /\ Totals(queue[s][p], remaining, l2[s][p])
    BY LevelOrders DEF L2Inv
  <2> QED BY <2>1, QuantityIs
<1> QED BY <1>1, BookInvariant, L2Invariant, PTL

-----------------------------------------------------------------------------
\* FillOrKill orders.

\* A FillOrKill in the book is a sell order in the course of trading, at the price of the
\* best bid level, which still has all the quantity the order lacks.
Filling(o) ==
  /\ o = incoming /\ pc \in {"match", "crashed"} /\ side[o] = "Sell"
  /\ remaining[o] <= l2["Buy"][price[o]]
  /\ \A r \in levels["Buy"] : r <= price[o]

FillOrKillInv ==
  \A o \in Orders : type[o] = "FillOrKill" =>
    /\ Resting(o)  => Filling(o)
    /\ ~Resting(o) => remaining[o] \in {0, initial[o]}

\* A bid price the L2 book shows is a level of the L3 book.
LEMMA ShownIsThere ==
  ASSUME StructureInv, L2Inv, NEW p \in Prices, l2["Buy"][p] > 0
  PROVE  p \in levels["Buy"]
<1>1. "Buy" \in Sides  BY DEF Sides
<1>2. Totals(queue["Buy"][p], remaining, l2["Buy"][p])  BY <1>1 DEF L2Inv
<1>3. queue["Buy"][p] # <<>>
  <2> SUFFICES ASSUME queue["Buy"][p] = <<>> PROVE FALSE
    OBVIOUS
  <2>1. PICK f : Sums(f, <<>>, remaining) /\ f[Len(<<>>)] = l2["Buy"][p]
    BY <1>2 DEF Totals
  <2> QED BY <2>1 DEF Sums
<1> QED BY <1>1, <1>3 DEF StructureInv, BookConsistent, LevelsExact

\* canFullyFill lets through no bid, and an ask only at the price of the best bid level
\* when that level alone can fill it.
LEMMA FullFill ==
  ASSUME StructureInv, L2Inv, OnlyIncomingCrosses, pc = "add",
         NEW s \in Sides, NEW p \in Prices, NEW q \in Nat \ {0}, CanFullyFill(s, p, q)
  PROVE  /\ s = "Sell" /\ q <= l2["Buy"][p]
         /\ \A r \in levels["Buy"] : r <= p
<1>0. Sides = {"Buy", "Sell"} /\ levels["Buy"] \subseteq Nat /\ levels["Sell"] \subseteq Nat /\ p \in Nat
      /\ l2["Buy"] \in [Prices -> Nat] /\ Prices \subseteq Nat
  <2>1. Sides = {"Buy", "Sell"} /\ Prices \subseteq Nat /\ p \in Nat
    BY BoundsAssumption DEF Sides, Prices
  <2>2. levels \in [Sides -> SUBSET Prices] /\ l2 \in [Sides -> [Prices -> Nat]]
    BY DEF StructureInv, TypeOK
  <2>3. levels["Buy"] \subseteq Prices /\ levels["Sell"] \subseteq Prices /\ l2["Buy"] \in [Prices -> Nat]
    BY <2>1, <2>2
  <2> QED BY <2>1, <2>3
<1>1. CASE s = "Buy"
  <2>1. PICK r \in Best("Sell") : \E v \in FirstVisitedAsk(p, r) : l2["Buy"][v] >= q
    BY <1>1 DEF CanFullyFill
  <2>2. PICK v \in FirstVisitedAsk(p, r) : l2["Buy"][v] >= q
    BY <2>1
  <2>3. v \in Prices /\ l2["Buy"][v] > 0 /\ v \in p..r
    BY DEF FirstVisitedAsk, L2BidPrices
  <2>4. v \in levels["Buy"] /\ r \in levels["Sell"]
    BY <2>3, ShownIsThere DEF Best
  <2>5. PICK w \in levels["Sell"] : p >= w
    BY <1>1 DEF CanFullyFill, CanMatch, Opposite, AtLeastAsGood
  <2>6. r <= w
    BY <2>5 DEF Best, AtLeastAsGood
  <2>7. v >= r
    BY <1>0, <2>3, <2>4, <2>5, <2>6
  <2> DEFINE x == Head(queue["Buy"][v])
             y == Head(queue["Sell"][r])
  <2>8. x \in Orders /\ Resting(x) /\ side[x] = "Buy" /\ price[x] = v
    BY <1>0, <2>4, FrontOrder
  <2>9. y \in Orders /\ Resting(y) /\ side[y] = "Sell" /\ price[y] = r
    BY <1>0, <2>4, FrontOrder
  <2> HIDE DEF x, y
  <2> QED BY <2>7, <2>8, <2>9 DEF OnlyIncomingCrosses
<1>2. CASE s = "Sell"
  <2>0. s # "Buy"  BY <1>2
  <2>1. PICK r \in Best("Buy") : \E v \in FirstVisitedBid(r, p) : l2["Buy"][v] >= q
    BY <2>0 DEF CanFullyFill
  <2>2. PICK v \in FirstVisitedBid(r, p) : l2["Buy"][v] >= q
    BY <2>1
  <2>3. v \in Prices /\ v \in r..p /\ r \in levels["Buy"]
    BY DEF FirstVisitedBid, L2BidPrices, Best
  <2>4. PICK w \in levels["Buy"] : p <= w
    BY <2>0 DEF CanFullyFill, CanMatch, Opposite, AtLeastAsGood
  <2>5. \A u \in levels["Buy"] : r >= u
    BY DEF Best, AtLeastAsGood
  <2>6. v = p /\ r = p
    BY <1>0, <2>3, <2>4, <2>5
  <2> QED BY <1>0, <1>2, <2>2, <2>5, <2>6
<1> QED BY <1>0, <1>1, <1>2

\* What a matching iteration takes from the incoming FillOrKill it takes from the best bid
\* level as well.
LEMMA FillingGoesOn ==
  ASSUME BookInv, L2Inv, pc = "match", NEW bs \in CrossedLevels, Fill(bs[1], bs[2]),
         UNCHANGED <<oid, side, type, price, initial, pc, incoming>>,
         NEW o \in Orders, Resting(o), Filling(o), Resting(o)'
  PROVE  Filling(o)'
<1> DEFINE b == Head(queue["Buy"][bs[1]])
           a == Head(queue["Sell"][bs[2]])
           d == Lesser(remaining[b], remaining[a])
<1>1. /\ bs[1] \in levels["Buy"] /\ bs[2] \in levels["Sell"]
      /\ b \in Orders /\ a \in Orders /\ side[b] = "Buy" /\ side[a] = "Sell"
      /\ price[b] \in Prices /\ price[a] \in Prices /\ price[b] >= price[a] /\ incoming \in {b, a}
  BY CrossedFronts
<1>2. a = o /\ a # b
  BY <1>1 DEF Filling
<1>3. price[b] = bs[1]
  BY <1>1, FrontOrder DEF BookInv, Sides
<1>4. bs[1] = price[o]
  BY <1>1, <1>2, <1>3, BoundsAssumption DEF Filling, Prices
<1>5. /\ remaining' = [remaining EXCEPT ![b] = @ - d, ![a] = @ - d]
      /\ levels' = [levels EXCEPT
           !["Buy"]  = LevelsAfter("Buy", bs[1], AfterFill(queue["Buy"][bs[1]], remaining[b] - d)),
           !["Sell"] = LevelsAfter("Sell", bs[2], AfterFill(queue["Sell"][bs[2]], remaining[a] - d))]
      /\ l2' = L2Matched(b, a, d)
  BY DEF Fill
<1>6. /\ remaining \in [Orders -> 0..MaxQty] /\ levels \in [Sides -> SUBSET Prices]
      /\ l2 \in [Sides -> [Prices -> Nat]] /\ Sides = {"Buy", "Sell"}
  BY DEF BookInv, StructureInv, TypeOK, Sides
<1>7. /\ remaining[b] \in Nat /\ remaining[a] \in Nat /\ d \in Nat /\ d <= remaining[a]
  <2>1. remaining[b] \in Nat /\ remaining[a] \in Nat  BY <1>1, <1>6, BoundsAssumption
  <2> HIDE DEF b, a
  <2> QED BY <2>1 DEF Lesser
<1> HIDE DEF b, a, d
<1>8. remaining'[o] = remaining[o] - d
  BY <1>1, <1>2, <1>5, <1>6
<1>9. l2'["Buy"][price[o]] = Reduced(l2["Buy"][price[o]], d)
  BY <1>1, <1>2, <1>3, <1>4, <1>5, <1>6 DEF L2Matched
<1>10. remaining[o] <= l2["Buy"][price[o]] /\ l2["Buy"][price[o]] \in Nat
  BY <1>1, <1>2, <1>6 DEF Filling
<1>11. remaining'[o] <= l2'["Buy"][price[o]]
  BY <1>2, <1>7, <1>8, <1>9, <1>10, ReducedIs
<1>12. levels'["Buy"] \subseteq levels["Buy"]
  BY <1>5, <1>6 DEF LevelsAfter
<1> QED BY <1>11, <1>12 DEF Filling

LEMMA FillOrKillStep == BookInv /\ L2Inv /\ FillOrKillInv /\ [Next]_vars => FillOrKillInv'
<1> SUFFICES ASSUME BookInv, L2Inv, FillOrKillInv, [Next]_vars PROVE FillOrKillInv'
  OBVIOUS
<1>0. StructureInv /\ OnlyIncomingCrosses
  BY DEF BookInv, MatchingInv
\* No FillOrKill waits unless matching is under way.
<1>1. ASSUME pc \notin {"match", "crashed"}, NEW o \in Orders, type[o] = "FillOrKill"
      PROVE  ~Resting(o) /\ remaining[o] \in {0, initial[o]}
  BY <1>1 DEF FillOrKillInv, Filling
\* Then nothing is left to show for a step that puts no order in the book.
<1>2. ASSUME pc \notin {"match", "crashed"}, \A x \in Orders : Resting(x)' => Resting(x),
             UNCHANGED <<type, remaining, initial>>
      PROVE  FillOrKillInv'
  BY <1>1, <1>2 DEF FillOrKillInv
<1>3. ASSUME NEW o \in Orders, NEW i \in Ids, NEW s \in Sides, NEW t \in OrderTypes,
             NEW p \in {0, InvalidPrice} \cup Prices, NEW q \in 1..MaxQty, SubmitNew(o, i, s, t, p, q)
      PROVE  FillOrKillInv'
  <2>1. /\ pc = "idle" /\ ~Resting(o) /\ UNCHANGED book
        /\ remaining'[o] = q /\ initial'[o] = q /\ oid'[o] = i
        /\ \A x \in Orders \ {o} : /\ type'[x] = type[x] /\ remaining'[x] = remaining[x]
                                    /\ initial'[x] = initial[x] /\ oid'[x] = oid[x]
                                    /\ side'[x] = side[x] /\ price'[x] = price[x]
    BY <1>0, <1>3 DEF SubmitNew, CallAllowed, StructureInv, TypeOK
  <2>2. \A x \in Orders : Resting(x)' <=> Resting(x)
    <3>1. oid'[o] \in OrderIds  BY <2>1 DEF OrderIds
    <3> QED BY <1>0, <2>1, <3>1, OutsideStep
  <2> QED BY <1>1, <2>1, <2>2 DEF FillOrKillInv
<1>4. ASSUME NEW o \in Orders, Discard(o) PROVE FillOrKillInv'
  <2>1. /\ pc = "idle" /\ ~Resting(o) /\ UNCHANGED book
        /\ type'[o] = "GoodTillCancel" /\ oid'[o] = EmptyId
        /\ \A x \in Orders \ {o} : /\ type'[x] = type[x] /\ remaining'[x] = remaining[x]
                                    /\ initial'[x] = initial[x] /\ oid'[x] = oid[x]
                                    /\ side'[x] = side[x] /\ price'[x] = price[x]
    BY <1>0, <1>4 DEF Discard, Spares, StructureInv, TypeOK
  <2>2. \A x \in Orders : Resting(x)' <=> Resting(x)
    <3>1. oid'[o] \in OrderIds  BY <2>1 DEF OrderIds
    <3> QED BY <1>0, <2>1, <3>1, OutsideStep
  <2> QED BY <1>1, <2>1, <2>2 DEF FillOrKillInv
<1>5. ASSUME NEW i \in Ids, CancelOrder(i) PROVE FillOrKillInv'
  <2>1. i \in OrderIds /\ index[i] # NoOrder /\ Withdraw(i) /\ UNCHANGED fields /\ pc = "idle"
    BY <1>5 DEF CancelOrder, CallAllowed, OrderIds
  <2>2. \A x \in Orders : Resting(x)' <=> Resting(x) /\ x # index[i]
    BY <1>0, <2>1, WithdrawStep
  <2>3. UNCHANGED <<type, remaining, initial>>
    BY <2>1 DEF fields
  <2> QED BY <1>2, <2>1, <2>2, <2>3
<1>6. CASE Accept
  <2> DEFINE o == incoming
  <2>1. o \in Orders /\ side[o] \in Sides /\ remaining[o] \in 0..MaxQty /\ Accepts(o)
    BY <1>0, <1>6 DEF Accept, StructureInv, CallInv, TypeOK
  <2>2. PICK p \in LimitPrices(o) : price' = [price EXCEPT ![o] = p] /\ Insert(o, p)
    BY <1>6 DEF Accept
  <2>3. p \in Prices  BY <1>0, <2>1, LimitIsPrice
  <2>4. /\ pc = "add" /\ pc' = "match" /\ UNCHANGED <<oid, side, remaining, initial, incoming>>
        /\ type' = [type EXCEPT ![o] = BookedType(@)]
        /\ index[oid[o]] = NoOrder /\ remaining[o] > 0
        /\ type[o] = "FillOrKill" => CanFullyFill(side[o], price[o], remaining[o])
    BY <1>6 DEF Accept, Accepts, Valid
  <2>5. ~Resting(o) /\ \A x \in Orders : Resting(x)' <=> Resting(x) \/ x = o
    BY <1>0, <2>1, <2>2, <2>3, <2>4, InsertStep
  <2>6. /\ \A x \in Orders \ {o} : type'[x] = type[x]
        /\ type'[o] = IF type[o] = "Market" THEN "GoodTillCancel" ELSE type[o]
    BY <1>0, <2>1, <2>4 DEF StructureInv, TypeOK, BookedType
  <2>7. ASSUME NEW x \in Orders \ {o}, type'[x] = "FillOrKill"
        PROVE  ~Resting(x)' /\ remaining'[x] \in {0, initial'[x]}
    BY <1>1, <2>4, <2>5, <2>6, <2>7
  <2>8. ASSUME NEW x \in Orders, x = o, type'[x] = "FillOrKill" PROVE Filling(x)'
    <3>1. type[o] = "FillOrKill" /\ p = price[o] /\ CanFullyFill(side[o], p, remaining[o])
      BY <2>2, <2>4, <2>6, <2>8 DEF LimitPrices
    <3>2. remaining[o] \in Nat \ {0}  BY <2>1, <2>4, BoundsAssumption
    <3>3. side[o] = "Sell" /\ remaining[o] <= l2["Buy"][p] /\ \A r \in levels["Buy"] : r <= p
      BY <1>0, <2>1, <2>3, <2>4, <3>1, <3>2, FullFill
    <3>4. levels'["Buy"] = levels["Buy"] /\ l2'["Buy"][p] = l2["Buy"][p]
      <4>1. /\ levels' = [levels EXCEPT !["Sell"] = @ \cup {p}]
            /\ l2' = [l2 EXCEPT !["Sell"][p] = @ + remaining[o]]
        BY <2>2, <3>3 DEF Insert, L2Add
      <4>2. levels \in [Sides -> SUBSET Prices] /\ l2 \in [Sides -> [Prices -> Nat]] /\ "Buy" \in Sides
        BY <1>0 DEF StructureInv, TypeOK, Sides
      <4> QED BY <2>3, <4>1, <4>2
    <3>5. price'[o] = p
      BY <1>0, <2>1, <2>2 DEF StructureInv, TypeOK
    <3> QED BY <2>4, <2>8, <3>3, <3>4, <3>5 DEF Filling
  <2> SUFFICES ASSUME NEW x \in Orders, type'[x] = "FillOrKill"
               PROVE  /\ Resting(x)'  => Filling(x)'
                      /\ ~Resting(x)' => remaining'[x] \in {0, initial'[x]}
    BY DEF FillOrKillInv
  <2>9. CASE x = o  BY <2>5, <2>8, <2>9
  <2>10. CASE x # o  BY <2>7, <2>10
  <2> QED BY <2>9, <2>10
<1>7. CASE Match
  <2>1. PICK bs \in CrossedLevels : Fill(bs[1], bs[2])
    BY <1>7 DEF Match
  <2>2. UNCHANGED <<oid, side, type, price, initial, pc, incoming>> /\ pc = "match"
    BY <1>7 DEF Match
  <2> DEFINE b == Head(queue["Buy"][bs[1]])
             a == Head(queue["Sell"][bs[2]])
  <2>3. bs[1] \in levels["Buy"] /\ bs[2] \in levels["Sell"]
    BY DEF CrossedLevels, Best
  <2>4. /\ \A x \in Orders : Resting(x)' => Resting(x)
        /\ \A x \in Orders \ {b, a} : remaining'[x] = remaining[x]
        /\ \A x \in Orders : Resting(x) /\ ~Resting(x)' => remaining'[x] = 0
    BY <1>0, <2>1, <2>2, <2>3, FillStep
  <2>5. Resting(b) /\ Resting(a)
    BY <1>0, <2>3, FrontOrder DEF Sides
  <2> HIDE DEF b, a
  <2> SUFFICES ASSUME NEW o \in Orders, type[o] = "FillOrKill"
               PROVE  /\ Resting(o)'  => Filling(o)'
                      /\ ~Resting(o)' => remaining'[o] \in {0, initial'[o]}
    BY <2>2 DEF FillOrKillInv
  <2>6. Resting(o)' => Filling(o)'
    <3> SUFFICES ASSUME Resting(o)' PROVE Filling(o)'
      OBVIOUS
    <3>1. Resting(o) /\ Filling(o)  BY <2>4 DEF FillOrKillInv
    <3> QED BY <2>1, <2>2, <3>1, FillingGoesOn
  <2>7. ~Resting(o)' => remaining'[o] \in {0, initial'[o]}
    <3>1. CASE Resting(o)  BY <2>4, <3>1
    <3>2. CASE ~Resting(o)  BY <2>2, <2>4, <2>5, <3>2 DEF FillOrKillInv
    <3> QED BY <3>1, <3>2
  <2> QED BY <2>6, <2>7
<1>8. CASE MatchDone
  <2>1. /\ pc = "match" /\ CrossedLevels = {} /\ UNCHANGED <<type, remaining, initial, oid, index>>
    BY <1>8 DEF MatchDone, fields, book
  <2>2. ASSUME NEW o \in Orders, type[o] = "FillOrKill", Resting(o) PROVE FALSE
    <3>1. Filling(o)  BY <2>2 DEF FillOrKillInv
    <3>2. price[o] \in Prices /\ price[o] \in levels["Sell"] /\ remaining[o] \in 1..MaxQty
      BY <1>0, <2>2, <3>1, WaitingOrder DEF Filling
    <3>3. l2["Buy"][price[o]] > 0
      <4>1. l2["Buy"][price[o]] \in Nat  BY <1>0, <3>2 DEF StructureInv, TypeOK, Sides
      <4> QED BY <3>1, <3>2, <4>1, BoundsAssumption DEF Filling
    <3>4. price[o] \in levels["Buy"]
      BY <1>0, <3>2, <3>3, ShownIsThere
    <3>5. price[o] < price[o]
      BY <1>0, <2>1, <3>2, <3>4, NoCrossLeft
    <3> QED BY <3>2, <3>5, BoundsAssumption DEF Prices
  <2> QED BY <2>1, <2>2 DEF FillOrKillInv, Resting
<1>9. ASSUME NEW s \in Sides, Kill(s) PROVE FillOrKillInv'
  <2>1. PICK o \in Killable(s) : Withdraw(oid[o])
    BY <1>9 DEF Kill
  <2>2. PICK p \in Best(s) : o = Head(queue[s][p])
    BY DEF Killable
  <2>3. o \in Orders /\ Resting(o)
    <3>1. p \in levels[s]  BY DEF Best
    <3> QED BY <1>0, <2>2, <3>1, FrontOrder
  <2>4. /\ oid[o] \in OrderIds /\ index[oid[o]] # NoOrder /\ UNCHANGED fields
        /\ pc \in {"killBuy", "killSell"}
    BY <1>0, <1>9, <2>3, MarkersAssumption DEF Kill, KillPhase, StructureInv, TypeOK, Resting
  <2>5. \A x \in Orders : Resting(x)' => Resting(x)
    BY <1>0, <2>1, <2>4, WithdrawStep
  <2>6. UNCHANGED <<type, remaining, initial>>
    BY <2>4 DEF fields
  <2> QED BY <1>2, <2>4, <2>5, <2>6
<1>10. CASE Fault
  <2>1. /\ pc = "match" /\ pc' = "crashed" /\ incoming' = incoming
        /\ UNCHANGED <<oid, side, type, price, remaining, initial, levels, index, l2>>
    BY <1>10 DEF Fault, fields, book
  <2> QED BY <2>1 DEF FillOrKillInv, Filling, Resting
<1>11. CASE Reject \/ (\E o \in Orders : SubmitAgain(o)) \/ (\E s \in Sides : Keep(s))
  <2>1. UNCHANGED <<oid, type, remaining, initial, index>> /\ pc \in {"idle", "add", "killBuy", "killSell"}
    BY <1>11 DEF Reject, SubmitAgain, CallAllowed, Keep, KillPhase, fields, book
  <2>2. \A x \in Orders : Resting(x)' => Resting(x)
    BY <2>1 DEF Resting
  <2> QED BY <1>2, <2>1, <2>2
<1>12. CASE UNCHANGED vars
  BY <1>12 DEF vars, fields, book, FillOrKillInv, Filling, Resting
<1> QED BY <1>3, <1>4, <1>5, <1>6, <1>7, <1>8, <1>9, <1>10, <1>11, <1>12 DEF Next, User, Engine

\* A FillOrKill trades all or nothing: what canFullyFill reads from the first level it visits
\* (book_l3.hpp:113-131) is never more than matching then finds, although it walks the bid
\* levels for both sides.
THEOREM FillOrKillIsAllOrNothing == Spec => []FillOrKillAllOrNothing
<1>1. Init => FillOrKillInv
  BY DEF Init, FillOrKillInv
<1>2. Spec => []FillOrKillInv
  BY <1>1, FillOrKillStep, BookInvariant, L2Invariant, PTL DEF Spec
<1>3. FillOrKillInv => FillOrKillAllOrNothing
  BY DEF FillOrKillInv, Filling, FillOrKillAllOrNothing
<1> QED BY <1>2, <1>3, PTL

-----------------------------------------------------------------------------
\* The orders ahead of one in its container.
AheadIn(q, o) == UNION {{q[j] : j \in 1..(k - 1)} : k \in {n \in DOMAIN q : q[n] = o}}

LEMMA AheadMeans ==
  ASSUME NEW q, NEW o, NEW x
  PROVE  x \in AheadIn(q, o) <=> \E k \in DOMAIN q : q[k] = o /\ \E j \in 1..(k - 1) : q[j] = x
BY DEF AheadIn

\* Only orders of the container are ahead of one.
LEMMA AheadInside ==
  ASSUME NEW S, NEW q \in Seq(S), NEW o, NEW x \in AheadIn(q, o)
  PROVE  x \in ToSet(q)
<1>1. Len(q) \in Nat /\ DOMAIN q = 1..Len(q)
  BY LenProperties
<1>2. PICK k \in DOMAIN q : q[k] = o /\ \E j \in 1..(k - 1) : q[j] = x
  BY AheadMeans
<1>3. PICK j \in 1..(k - 1) : q[j] = x
  BY <1>2
<1>4. j \in DOMAIN q
  BY <1>1
<1> QED BY <1>3, <1>4 DEF ToSet

\* Whoever is put at the back has everyone ahead, and is ahead of no one.
LEMMA AppendAhead ==
  ASSUME NEW S, NEW q \in Seq(S), NEW o \in S, o \notin ToSet(q)
  PROVE  /\ AheadIn(Append(q, o), o) = ToSet(q)
         /\ \A y : y # o => AheadIn(Append(q, o), y) = AheadIn(q, y)
<1> DEFINE r == Append(q, o)
<1>1. /\ r \in Seq(S) /\ Len(r) = Len(q) + 1 /\ r[Len(q) + 1] = o
      /\ \A k \in 1..Len(q) : r[k] = q[k]
  BY AppendProperties
<1>2. Len(q) \in Nat /\ DOMAIN q = 1..Len(q) /\ DOMAIN r = 1..(Len(q) + 1)
  BY <1>1, LenProperties
<1>3. \A k \in 1..Len(q) : q[k] # o
  BY <1>2 DEF ToSet
<1> HIDE DEF r
<1>4. ASSUME NEW x PROVE x \in AheadIn(r, o) <=> x \in ToSet(q)
  <2>1. \A k \in DOMAIN r : r[k] = o <=> k = Len(q) + 1
    BY <1>1, <1>2, <1>3
  <2>2. x \in AheadIn(r, o) <=> \E j \in 1..Len(q) : r[j] = x
    <3>1. Len(q) + 1 \in DOMAIN r /\ 1..((Len(q) + 1) - 1) = 1..Len(q)
      BY <1>2
    <3>2. ASSUME NEW j \in 1..Len(q), r[j] = x PROVE x \in AheadIn(r, o)
      BY <2>1, <3>1, <3>2, AheadMeans
    <3>3. ASSUME x \in AheadIn(r, o) PROVE \E j \in 1..Len(q) : r[j] = x
      <4>1. PICK k \in DOMAIN r : r[k] = o /\ \E j \in 1..(k - 1) : r[j] = x
        BY <3>3, AheadMeans
      <4>2. k = Len(q) + 1
        BY <2>1, <4>1
      <4> QED BY <3>1, <4>1, <4>2
    <3> QED BY <3>2, <3>3
  <2> QED BY <2>2, <1>1, <1>2 DEF ToSet
<1>5. ASSUME NEW y, y # o, NEW x PROVE x \in AheadIn(r, y) <=> x \in AheadIn(q, y)
  <2>1. \A k \in DOMAIN r : r[k] = y <=> k \in DOMAIN q /\ q[k] = y
    BY <1>1, <1>2, <1>5
  <2>2. \A k \in DOMAIN q : \A j \in 1..(k - 1) : r[j] = q[j]
    BY <1>1, <1>2
  <2>3. ASSUME NEW k \in DOMAIN r, r[k] = y, NEW j \in 1..(k - 1), r[j] = x PROVE x \in AheadIn(q, y)
    BY <2>1, <2>2, <2>3, AheadMeans
  <2>4. ASSUME NEW k \in DOMAIN q, q[k] = y, NEW j \in 1..(k - 1), q[j] = x PROVE x \in AheadIn(r, y)
    <3>1. k \in DOMAIN r /\ r[k] = y /\ r[j] = x  BY <2>1, <2>2, <2>4, <1>2
    <3> QED BY <3>1, AheadMeans
  <2> QED BY <2>3, <2>4, AheadMeans
<1>6. AheadIn(r, o) = ToSet(q)
  BY <1>4
<1>7. \A y : y # o => AheadIn(r, y) = AheadIn(q, y)
  <2> SUFFICES ASSUME NEW y, y # o PROVE AheadIn(r, y) = AheadIn(q, y)
    OBVIOUS
  <2>1. \A x : x \in AheadIn(r, y) <=> x \in AheadIn(q, y)
    BY <1>5
  <2> QED BY <2>1
<1> QED BY <1>6, <1>7, Zenon DEF r

\* Whoever leaves a container is no longer ahead of those that stay.
LEMMA EraseAhead ==
  ASSUME NEW S, NEW q \in Seq(S), IsInjective(q), NEW k \in DOMAIN q, NEW r \in Seq(S),
         Erased(q, k, r), NEW y, y # q[k]
  PROVE  \A x : x \in AheadIn(r, y) <=> x \in AheadIn(q, y) /\ x # q[k]
<1>1. /\ Len(q) \in Nat /\ DOMAIN q = 1..Len(q) /\ k \in 1..Len(q)
      /\ DOMAIN r = 1..(Len(q) - 1) /\ Len(r) = Len(q) - 1
  BY LenProperties DEF Erased
<1>2. \A j \in DOMAIN r : r[j] = IF j < k THEN q[j] ELSE q[j + 1]
  BY <1>1 DEF Erased
<1>3. \A i, j \in DOMAIN q : q[i] = q[j] => i = j
  BY DEF IsInjective
<1>4. ASSUME NEW x \in AheadIn(r, y) PROVE x \in AheadIn(q, y) /\ x # q[k]
  <2>1. PICK m \in DOMAIN r : r[m] = y /\ \E j \in 1..(m - 1) : r[j] = x
    BY AheadMeans
  <2>2. PICK j \in 1..(m - 1) : r[j] = x
    BY <2>1
  <2> DEFINE Old(n) == IF n < k THEN n ELSE n + 1
  <2>3. Old(m) \in DOMAIN q /\ q[Old(m)] = y /\ Old(j) \in 1..(Old(m) - 1) /\ q[Old(j)] = x
    <3>1. j \in DOMAIN r  BY <1>1
    <3> QED BY <3>1, <1>1, <1>2, <2>1, <2>2
  <2>4. Old(j) \in DOMAIN q /\ Old(j) # k
    BY <1>1, <2>3
  <2> HIDE DEF Old
  <2>5. x # q[k]
    BY <1>3, <2>3, <2>4
  <2> QED BY <2>3, <2>5, AheadMeans
<1>5. ASSUME NEW x \in AheadIn(q, y), x # q[k] PROVE x \in AheadIn(r, y)
  <2>1. PICK m \in DOMAIN q : q[m] = y /\ \E j \in 1..(m - 1) : q[j] = x
    BY AheadMeans
  <2>2. PICK j \in 1..(m - 1) : q[j] = x
    BY <2>1
  <2> DEFINE New(n) == IF n < k THEN n ELSE n - 1
  <2>3. m # k /\ j # k /\ j \in DOMAIN q
    BY <1>1, <1>5, <2>1, <2>2
  <2>4. New(m) \in DOMAIN r /\ New(j) \in 1..(New(m) - 1)
    BY <1>1, <2>3
  <2>5. r[New(m)] = q[m]
    BY <1>1, <1>2, <2>3, <2>4
  <2>6. New(j) \in DOMAIN r /\ r[New(j)] = q[j]
    BY <1>1, <1>2, <2>3, <2>4
  <2> HIDE DEF New
  <2> QED BY <2>1, <2>2, <2>4, <2>5, <2>6, AheadMeans
<1> QED BY <1>4, <1>5

\* Nobody is ahead of the front of a container.
LEMMA FrontAhead ==
  ASSUME NEW S, NEW q \in Seq(S), q # <<>>, IsInjective(q), NEW x
  PROVE  x \notin AheadIn(q, Head(q))
<1>1. 1 \in DOMAIN q /\ Head(q) = q[1]
  BY TailErases
<1> SUFFICES ASSUME x \in AheadIn(q, Head(q)) PROVE FALSE
  OBVIOUS
<1>2. PICK k \in DOMAIN q : q[k] = q[1] /\ \E j \in 1..(k - 1) : q[j] = x
  BY <1>1, AheadMeans
<1>3. k = 1
  BY <1>1, <1>2 DEF IsInjective
<1> QED BY <1>2, <1>3

\* A fill leaves those behind the front in order.
LEMMA FillAhead ==
  ASSUME NEW S, NEW q \in Seq(S), q # <<>>, IsInjective(q), NEW left, NEW y,
         left = 0 => y # Head(q), NEW x
  PROVE  x \in AheadIn(AfterFill(q, left), y) <=> x \in AheadIn(q, y) /\ ~(left = 0 /\ x = Head(q))
<1>1. Tail(q) \in Seq(S) /\ Erased(q, 1, Tail(q)) /\ 1 \in DOMAIN q /\ Head(q) = q[1]
  BY TailErases
<1>2. CASE left = 0
  <2>1. y # q[1] /\ Tail(q) \in Seq(S)
    BY <1>1, <1>2
  <2>2. x \in AheadIn(Tail(q), y) <=> x \in AheadIn(q, y) /\ x # q[1]
    BY <1>1, <2>1, EraseAhead
  <2> QED BY <1>1, <1>2, <2>2 DEF AfterFill
<1>3. CASE left # 0
  BY <1>3 DEF AfterFill
<1> QED BY <1>2, <1>3

-----------------------------------------------------------------------------
\* The refinement mapping and what the calls' steps do to it.

WaitingOrders == {x \in Orders : Resting(x)}

Entry(s, p, q, a) == [side |-> s, limit |-> p, qty |-> q, rank |-> 0, ahead |-> a]

Mapped ==
  [o \in {x \in Orders : Resting(x)} |->
     [side |-> side[o], limit |-> price[o], qty |-> remaining[o], rank |-> 0, ahead |-> Ahead(o)]]

LEMMA MappedIs ==
  /\ DOMAIN Mapped = WaitingOrders
  /\ \A o \in WaitingOrders :
       Mapped[o] = Entry(side[o], price[o], remaining[o], AheadIn(queue[side[o]][price[o]], o))
BY DEF Mapped, WaitingOrders, Entry, Ahead, AheadIn

LEMMA MappedIsNext ==
  Mapped' = [o \in WaitingOrders' |->
               Entry(side'[o], price'[o], remaining'[o], AheadIn(queue'[side'[o]][price'[o]], o))]
BY DEF Mapped, WaitingOrders, Entry, Ahead, AheadIn

\* Steps that leave the waiting orders alone.
LEMMA SameMap ==
  ASSUME \A x \in Orders : Resting(x)' <=> Resting(x), UNCHANGED queue,
         \A x \in WaitingOrders :
           side'[x] = side[x] /\ price'[x] = price[x] /\ remaining'[x] = remaining[x]
  PROVE  Mapped' = Mapped
<1>1. WaitingOrders' = WaitingOrders
  BY DEF WaitingOrders
<1>2. \A o \in WaitingOrders :
        /\ side'[o] = side[o] /\ price'[o] = price[o] /\ remaining'[o] = remaining[o]
        /\ queue'[side'[o]][price'[o]] = queue[side[o]][price[o]]
  OBVIOUS
<1>3. Mapped = [o \in WaitingOrders |->
                  Entry(side[o], price[o], remaining[o], AheadIn(queue[side[o]][price[o]], o))]
  BY DEF Mapped, WaitingOrders, Entry, Ahead, AheadIn
<1> QED BY <1>1, <1>2, <1>3, MappedIsNext

\* Those ahead of a waiting order wait at its side and price.
LEMMA AheadWait ==
  ASSUME StructureInv, NEW s \in Sides, NEW p \in Prices, NEW o, NEW x \in AheadIn(queue[s][p], o)
  PROVE  x \in WaitingOrders /\ side[x] = s /\ price[x] = p
<1>1. queue[s][p] \in Seq(Orders) /\ ToSet(queue[s][p]) \subseteq Orders
  BY LevelOrders
<1>2. x \in ToSet(queue[s][p])
  BY <1>1, AheadInside
<1> QED BY <1>1, <1>2, LevelOrders DEF WaitingOrders

\* cancelOrderImpl withdraws the order.
LEMMA WithdrawMap ==
  ASSUME StructureInv, NEW id \in OrderIds, index[id] # NoOrder, Withdraw(id), UNCHANGED fields
  PROVE  /\ index[id] \in WaitingOrders
         /\ Mapped' = [x \in DOMAIN Mapped \ {index[id]} |->
                         [Mapped[x] EXCEPT !.ahead = @ \ {index[id]}]]
<1> DEFINE o == index[id]
           s == side[o]
           p == price[o]
           q == queue[s][p]
<1>1. o \in Orders /\ Resting(o)
  BY DEF StructureInv, TypeOK, BookConsistent, IndexedOrdersQueued, Resting
<1>2. /\ s \in Sides /\ p \in Prices
      /\ queue \in [Sides -> [Prices -> Seq(Orders)]]
  BY <1>1, WaitingOrder DEF StructureInv, TypeOK
<1>3. PICK k \in DOMAIN q : q[k] = o /\ queue' = [queue EXCEPT ![s][p] = RemoveAt(q, k)]
  BY DEF Withdraw
<1>4. \A x \in Orders : Resting(x)' <=> Resting(x) /\ x # o
  BY WithdrawStep
<1> HIDE DEF o, s, p
<1>5. WaitingOrders' = WaitingOrders \ {o}
  BY <1>4 DEF WaitingOrders
<1>6. UNCHANGED <<side, price, remaining>>
  BY DEF fields
<1>7. q \in Seq(Orders) /\ IsInjective(q)
  BY <1>2, LevelOrders
<1>8. RemoveAt(q, k) \in Seq(Orders) /\ Erased(q, k, RemoveAt(q, k))
  BY <1>3, <1>7, RemoveAtErases
<1>9. ASSUME NEW x \in WaitingOrders \ {o}
      PROVE  Entry(side'[x], price'[x], remaining'[x], AheadIn(queue'[side'[x]][price'[x]], x))
               = [Mapped[x] EXCEPT !.ahead = @ \ {o}]
  <2> DEFINE t == side[x]
             e == price[x]
  <2>1. x \in Orders /\ x # o /\ t \in Sides /\ e \in Prices
    BY <1>9, WaitingOrder DEF WaitingOrders
  <2>2. queue'[t][e] = IF t = s /\ e = p THEN RemoveAt(q, k) ELSE queue[t][e]
    BY <1>2, <1>3, <2>1
  <2> HIDE DEF t, e
  <2>3. ASSUME NEW y PROVE y \in AheadIn(queue'[t][e], x) <=> y \in AheadIn(queue[t][e], x) /\ y # o
    <3>1. CASE t = s /\ e = p
      <4>1. \A z : z \in AheadIn(RemoveAt(q, k), x) <=> z \in AheadIn(q, x) /\ z # q[k]
        <5> HIDE DEF q
        <5> QED BY <1>3, <1>7, <1>8, <2>1, EraseAhead
      <4> QED BY <4>1, <1>3, <2>2, <3>1
    <3>2. CASE ~(t = s /\ e = p)
      <4>1. y \in AheadIn(queue[t][e], x) => y # o
        BY <2>1, <3>2, AheadWait DEF s, p
      <4> QED BY <4>1, <2>2, <3>2
    <3> QED BY <3>1, <3>2
  <2>4. AheadIn(queue'[t][e], x) = AheadIn(queue[t][e], x) \ {o}
    BY <2>3
  <2>5. Mapped[x] = Entry(t, e, remaining[x], AheadIn(queue[t][e], x))
    BY <1>9, MappedIs DEF t, e
  <2>6. side'[x] = t /\ price'[x] = e /\ remaining'[x] = remaining[x]
    BY <1>6 DEF t, e
  <2> QED BY <2>4, <2>5, <2>6 DEF Entry
<1>10. Mapped' = [x \in DOMAIN Mapped \ {o} |-> [Mapped[x] EXCEPT !.ahead = @ \ {o}]]
  BY <1>5, <1>9, MappedIs, MappedIsNext
<1>11. o \in WaitingOrders
  BY <1>1 DEF WaitingOrders
<1> QED BY <1>10, <1>11 DEF o

\* addOrderImpl admits the order behind all those of its side and price.
LEMMA InsertMap ==
  ASSUME StructureInv, NEW o \in Orders, NEW p \in Prices, index[oid[o]] = NoOrder,
         remaining[o] > 0, price' = [price EXCEPT ![o] = p], Insert(o, p),
         UNCHANGED <<oid, side, remaining>>
  PROVE  /\ o \notin WaitingOrders
         /\ Mapped' = [x \in DOMAIN Mapped \cup {o} |->
              IF x = o
                THEN Entry(side[o], p, remaining[o],
                           {y \in DOMAIN Mapped : Mapped[y].side = side[o] /\ Mapped[y].limit = p})
                ELSE Mapped[x]]
<1> DEFINE s == side[o]
           q == queue[s][p]
<1>1. ~Resting(o) /\ \A x \in Orders : Resting(x)' <=> Resting(x) \/ x = o
  BY InsertStep
<1>2. WaitingOrders' = WaitingOrders \cup {o} /\ o \notin WaitingOrders
  BY <1>1 DEF WaitingOrders
<1>3. s \in Sides /\ queue \in [Sides -> [Prices -> Seq(Orders)]] /\ price \in [Orders -> {0, InvalidPrice} \cup Prices]
  BY DEF StructureInv, TypeOK
<1>4. queue' = [queue EXCEPT ![s][p] = Append(q, o)]
  BY <1>3 DEF Insert
<1> HIDE DEF s
<1>5. q \in Seq(Orders) /\ o \notin ToSet(q)
  BY <1>1, <1>3, LevelOrders
<1>6. /\ AheadIn(Append(q, o), o) = ToSet(q)
      /\ \A y : y # o => AheadIn(Append(q, o), y) = AheadIn(q, y)
  BY <1>5, AppendAhead, Zenon
<1>7. Entry(side'[o], price'[o], remaining'[o], AheadIn(queue'[side'[o]][price'[o]], o))
        = Entry(s, p, remaining[o], {y \in DOMAIN Mapped : Mapped[y].side = s /\ Mapped[y].limit = p})
  <2>1. side'[o] = s /\ price'[o] = p /\ remaining'[o] = remaining[o] /\ queue'[s][p] = Append(q, o)
    BY <1>3, <1>4 DEF s
  <2>2. ToSet(q) = {y \in DOMAIN Mapped : Mapped[y].side = s /\ Mapped[y].limit = p}
    <3>1. ASSUME NEW y \in ToSet(q) PROVE y \in WaitingOrders /\ side[y] = s /\ price[y] = p
      BY <1>3, <3>1, LevelOrders DEF WaitingOrders
    <3>2. ASSUME NEW y \in WaitingOrders, side[y] = s, price[y] = p PROVE y \in ToSet(q)
      BY <3>2, WaitingOrder DEF WaitingOrders
    <3>3. \A y \in WaitingOrders : Mapped[y].side = side[y] /\ Mapped[y].limit = price[y]
      BY MappedIs DEF Entry
    <3> HIDE DEF q
    <3> QED BY <3>1, <3>2, <3>3, MappedIs
  <2>3. AheadIn(queue'[side'[o]][price'[o]], o) = ToSet(q)
    BY <1>6, <2>1, Zenon
  <2> QED BY <2>1, <2>2, <2>3, Zenon
<1>8. ASSUME NEW x \in WaitingOrders
      PROVE  Entry(side'[x], price'[x], remaining'[x], AheadIn(queue'[side'[x]][price'[x]], x)) = Mapped[x]
  <2>1. x \in Orders /\ x # o /\ side[x] \in Sides /\ price[x] \in Prices
    BY <1>2, <1>8, WaitingOrder DEF WaitingOrders
  <2>2. queue'[side[x]][price[x]] = IF side[x] = s /\ price[x] = p THEN Append(q, o) ELSE queue[side[x]][price[x]]
    BY <1>3, <1>4, <2>1
  <2>3. AheadIn(queue'[side[x]][price[x]], x) = AheadIn(queue[side[x]][price[x]], x)
    BY <1>6, <2>1, <2>2, Zenon
  <2>4. side'[x] = side[x] /\ price'[x] = price[x] /\ remaining'[x] = remaining[x]
    BY <1>3, <2>1
  <2>5. Mapped[x] = Entry(side[x], price[x], remaining[x], AheadIn(queue[side[x]][price[x]], x))
    BY MappedIs
  <2> QED BY <2>3, <2>4, <2>5, Zenon
<1>9. Mapped' = [x \in DOMAIN Mapped \cup {o} |->
              IF x = o
                THEN Entry(s, p, remaining[o],
                           {y \in DOMAIN Mapped : Mapped[y].side = s /\ Mapped[y].limit = p})
                ELSE Mapped[x]]
  <2> DEFINE A == {y \in DOMAIN Mapped : Mapped[y].side = s /\ Mapped[y].limit = p}
             E(x) == Entry(side'[x], price'[x], remaining'[x], AheadIn(queue'[side'[x]][price'[x]], x))
  <2>1. Mapped' = [x \in WaitingOrders \cup {o} |-> E(x)]
    BY <1>2, MappedIsNext
  <2>2. E(o) = Entry(s, p, remaining[o], A)
    BY <1>7
  <2>3. \A x \in WaitingOrders : E(x) = Mapped[x] /\ x # o
    BY <1>2, <1>8
  <2>4. DOMAIN Mapped = WaitingOrders
    BY MappedIs
  <2> HIDE DEF A, E
  <2>5. Mapped' = [x \in DOMAIN Mapped \cup {o} |-> IF x = o THEN Entry(s, p, remaining[o], A) ELSE Mapped[x]]
    BY <2>1, <2>2, <2>3, <2>4
  <2> QED BY <2>5 DEF A
<1> QED BY <1>2, <1>9 DEF s

\* A trade of quantity d between b and a, after which the orders of G are gone.
Trades(b, a, d, G) ==
  Mapped' = [x \in DOMAIN Mapped \ G |->
    [[Mapped[x] EXCEPT !.ahead = @ \ G] EXCEPT !.qty = IF x \in {b, a} THEN @ - d ELSE @]]

\* One iteration of the matching loop is a trade: the filled orders go, and with them they
\* go from the queues of those behind.
LEMMA FillMap ==
  ASSUME StructureInv, NEW bp \in levels["Buy"], NEW ap \in levels["Sell"], Fill(bp, ap),
         UNCHANGED <<oid, side, type, price, initial>>,
         NEW b, b = Head(queue["Buy"][bp]), NEW a, a = Head(queue["Sell"][ap]),
         NEW d, d = Lesser(remaining[b], remaining[a]),
         NEW G, G = {x \in {b, a} : remaining[x] = d}
  PROVE  Trades(b, a, d, G)
<1> DEFINE bids == AfterFill(queue["Buy"][bp], remaining[b] - d)
           asks == AfterFill(queue["Sell"][ap], remaining[a] - d)
<1>1. /\ remaining' = [remaining EXCEPT ![b] = @ - d, ![a] = @ - d]
      /\ queue'  = [queue EXCEPT !["Buy"][bp] = bids, !["Sell"][ap] = asks]
  BY DEF Fill
<1>2. Sides = {"Buy", "Sell"} /\ "Buy" \in Sides /\ "Sell" \in Sides /\ "Buy" # "Sell"
  BY DEF Sides
<1>3. /\ b \in Orders /\ side[b] = "Buy" /\ price[b] = bp /\ bp \in Prices
      /\ queue["Buy"][bp] # <<>> /\ remaining[b] \in Nat
  <2>1. b \in Orders /\ side[b] = "Buy" /\ price[b] = bp /\ bp \in Prices /\ queue["Buy"][bp] # <<>>
    BY <1>2, FrontOrder
  <2> QED BY <2>1, BoundsAssumption DEF StructureInv, TypeOK
<1>4. /\ a \in Orders /\ side[a] = "Sell" /\ price[a] = ap /\ ap \in Prices
      /\ queue["Sell"][ap] # <<>> /\ remaining[a] \in Nat
  <2>1. a \in Orders /\ side[a] = "Sell" /\ price[a] = ap /\ ap \in Prices /\ queue["Sell"][ap] # <<>>
    BY <1>2, FrontOrder
  <2> QED BY <2>1, BoundsAssumption DEF StructureInv, TypeOK
<1>5. d \in Nat /\ d <= remaining[b] /\ d <= remaining[a] /\ a # b
  BY <1>2, <1>3, <1>4 DEF Lesser
<1>6. /\ queue \in [Sides -> [Prices -> Seq(Orders)]] /\ remaining \in [Orders -> 0..MaxQty]
  BY DEF StructureInv, TypeOK
<1>7. /\ remaining'[b] = remaining[b] - d /\ remaining'[a] = remaining[a] - d
      /\ \A x \in Orders \ {b, a} : remaining'[x] = remaining[x]
  BY <1>1, <1>3, <1>4, <1>5, <1>6
<1>8. WaitingOrders' = WaitingOrders \ G
  <2>1. \A x \in Orders : Resting(x)' <=> Resting(x) /\ x \notin G
    BY FillStep
  <2> QED BY <2>1 DEF WaitingOrders
<1>9. b \in G <=> remaining[b] - d = 0
  BY <1>3, <1>5
<1>10. a \in G <=> remaining[a] - d = 0
  BY <1>4, <1>5
<1>11. G \subseteq {b, a}
  OBVIOUS
<1> HIDE DEF bids, asks
<1>12. ASSUME NEW x \in WaitingOrders \ G
       PROVE  Entry(side'[x], price'[x], remaining'[x], AheadIn(queue'[side'[x]][price'[x]], x))
                = [[Mapped[x] EXCEPT !.ahead = @ \ G] EXCEPT !.qty = IF x \in {b, a} THEN @ - d ELSE @]
  <2> DEFINE t == side[x]
             e == price[x]
  <2>1. x \in Orders /\ x \notin G /\ t \in Sides /\ e \in Prices
    BY <1>12, WaitingOrder DEF WaitingOrders
  <2>2. queue'[t][e] = IF t = "Buy" /\ e = bp THEN bids
                       ELSE IF t = "Sell" /\ e = ap THEN asks ELSE queue[t][e]
    BY <1>1, <1>2, <1>3, <1>4, <1>6, <2>1
  <2>3. Mapped[x] = Entry(t, e, remaining[x], AheadIn(queue[t][e], x))
    BY <1>12, MappedIs
  <2> HIDE DEF t, e
  <2>4. \A y \in AheadIn(queue[t][e], x) : side[y] = t /\ price[y] = e
    BY <2>1, AheadWait
  <2>5. ASSUME NEW y PROVE y \in AheadIn(queue'[t][e], x) <=> y \in AheadIn(queue[t][e], x) /\ y \notin G
    <3>1. CASE t = "Buy" /\ e = bp
      <4> DEFINE q == queue["Buy"][bp]
      <4>1. q \in Seq(Orders) /\ q # <<>> /\ IsInjective(q)
        BY <1>2, <1>3, LevelOrders
      <4>2. a \notin AheadIn(q, x)
        BY <1>2, <1>4, <2>4, <3>1
      <4> DEFINE left == remaining[b] - d
      <4>3. left = 0 => x # Head(q)
        BY <1>9, <2>1
      <4> HIDE DEF q, left
      <4>4. y \in AheadIn(AfterFill(q, left), x) <=> y \in AheadIn(q, x) /\ ~(left = 0 /\ y = Head(q))
        BY <4>1, <4>3, FillAhead
      <4>5. y \in AheadIn(bids, x) <=> y \in AheadIn(q, x) /\ ~(b \in G /\ y = b)
        BY <4>4, <1>9 DEF bids, q, left
      <4>6. y \in AheadIn(q, x) => y # a
        BY <4>2
      <4> QED BY <1>2, <1>11, <2>2, <3>1, <4>5, <4>6 DEF q
    <3>2. CASE t = "Sell" /\ e = ap
      <4> DEFINE q == queue["Sell"][ap]
      <4>1. q \in Seq(Orders) /\ q # <<>> /\ IsInjective(q)
        BY <1>2, <1>4, LevelOrders
      <4>2. b \notin AheadIn(q, x)
        BY <1>2, <1>3, <2>4, <3>2
      <4> DEFINE left == remaining[a] - d
      <4>3. left = 0 => x # Head(q)
        BY <1>10, <2>1
      <4> HIDE DEF q, left
      <4>4. y \in AheadIn(AfterFill(q, left), x) <=> y \in AheadIn(q, x) /\ ~(left = 0 /\ y = Head(q))
        BY <4>1, <4>3, FillAhead
      <4>5. y \in AheadIn(asks, x) <=> y \in AheadIn(q, x) /\ ~(a \in G /\ y = a)
        BY <4>4, <1>10 DEF asks, q, left
      <4>6. y \in AheadIn(q, x) => y # b
        BY <4>2
      <4> QED BY <1>2, <1>11, <2>2, <3>2, <4>5, <4>6 DEF q
    <3>3. CASE ~(t = "Buy" /\ e = bp) /\ ~(t = "Sell" /\ e = ap)
      <4>1. b \notin AheadIn(queue[t][e], x) /\ a \notin AheadIn(queue[t][e], x)
        BY <1>3, <1>4, <2>4, <3>3
      <4> QED BY <2>2, <3>3, <4>1, <1>11
    <3> QED BY <3>1, <3>2, <3>3
  <2>6. AheadIn(queue'[t][e], x) = AheadIn(queue[t][e], x) \ G
    BY <2>5
  <2>7. side'[x] = t /\ price'[x] = e
    BY DEF t, e
  <2>8. remaining'[x] = IF x \in {b, a} THEN remaining[x] - d ELSE remaining[x]
    BY <1>7, <2>1
  <2> DEFINE A == AheadIn(queue[t][e], x)
             m == remaining[x]
  <2>9. [[Entry(t, e, m, A) EXCEPT !.ahead = @ \ G] EXCEPT !.qty = IF x \in {b, a} THEN @ - d ELSE @]
          = Entry(t, e, IF x \in {b, a} THEN m - d ELSE m, A \ G)
    <3> HIDE DEF A, m
    <3> DEFINE B == A \ G
    <3>1. [Entry(t, e, m, A) EXCEPT !.ahead = @ \ G] = Entry(t, e, m, B)
      BY DEF Entry
    <3> HIDE DEF B
    <3>2. CASE x \in {b, a}
      <4>1. [Entry(t, e, m, B) EXCEPT !.qty = @ - d] = Entry(t, e, m - d, B)
        BY DEF Entry
      <4> QED BY <3>1, <3>2, <4>1, Zenon DEF B
    <3>3. CASE x \notin {b, a}
      <4>1. [Entry(t, e, m, B) EXCEPT !.qty = @] = Entry(t, e, m, B)
        BY DEF Entry
      <4> QED BY <3>1, <3>3, <4>1, Zenon DEF B
    <3> QED BY <3>2, <3>3, Zenon
  <2> QED BY <2>3, <2>6, <2>7, <2>8, <2>9, Zenon
<1> QED BY <1>8, <1>12, MappedIs, MappedIsNext DEF Trades

\* The fronts of the best levels are first in price-time priority.
LEMMA FrontIsFirst ==
  ASSUME StructureInv, NEW s \in Sides, NEW p \in Best(s)
  PROVE  Head(queue[s][p]) \in Abstract!First(s)
<1> DEFINE o == Head(queue[s][p])
<1>1. p \in levels[s] /\ \A r \in levels[s] : AtLeastAsGood(s, p, r)
  BY DEF Best
<1>2. /\ p \in Prices /\ o \in WaitingOrders /\ side[o] = s /\ price[o] = p
      /\ queue[s][p] # <<>>
  BY <1>1, FrontOrder DEF WaitingOrders
<1>3. AheadIn(queue[s][p], o) = {}
  <2>1. queue[s][p] \in Seq(Orders) /\ IsInjective(queue[s][p])
    BY <1>2, LevelOrders
  <2>2. \A x : x \notin AheadIn(queue[s][p], o)
    BY <1>2, <2>1, FrontAhead
  <2> QED BY <2>2
<1> HIDE DEF o
<1>4. DOMAIN Mapped = WaitingOrders
  BY MappedIs
<1>5. /\ Mapped[o].side = s /\ Mapped[o].limit = p /\ Mapped[o].ahead = {}
      /\ \A x \in WaitingOrders : Mapped[x].side = side[x] /\ Mapped[x].limit = price[x]
  BY <1>2, <1>3, MappedIs DEF Entry
<1>6. ASSUME NEW x \in WaitingOrders, Mapped[x].side = s
      PROVE  /\ ~(Mapped[x].side = "Buy" /\ Mapped[x].limit > Mapped[o].limit)
             /\ ~(Mapped[x].side = "Sell" /\ Mapped[x].limit < Mapped[o].limit)
             /\ x \notin Mapped[o].ahead
  <2>1. x \in Orders /\ price[x] \in levels[s] /\ price[x] \in Prices
    BY <1>5, <1>6, WaitingOrder DEF WaitingOrders
  <2>2. AtLeastAsGood(s, p, price[x])
    BY <1>1, <2>1
  <2> QED BY <1>2, <1>5, <1>6, <2>1, <2>2, BoundsAssumption DEF AtLeastAsGood, Prices
<1>7. o \in {y \in DOMAIN Mapped : Mapped[y].side = s /\ \A x \in DOMAIN Mapped : Mapped[x].side = s =>
        ~(\/ Mapped[x].side = "Buy"  /\ Mapped[x].limit > Mapped[y].limit
          \/ Mapped[x].side = "Sell" /\ Mapped[x].limit < Mapped[y].limit
          \/ x \in Mapped[y].ahead)}
  BY <1>2, <1>4, <1>5, <1>6
<1> QED BY <1>7 DEF Abstract!First, Abstract!Waiting, Abstract!Better, Mapped, o

\* While no limits cross, no two orders can trade.
LEMMA NoTrade ==
  ASSUME StructureInv,
         \A x, y \in Orders :
           ~(Resting(x) /\ Resting(y) /\ side[x] = "Buy" /\ side[y] = "Sell" /\ price[x] >= price[y])
  PROVE  ~Abstract!CanTrade
<1>1. \A x \in DOMAIN Mapped : x \in Orders /\ Resting(x) /\ Mapped[x].side = side[x] /\ Mapped[x].limit = price[x]
  BY MappedIs DEF WaitingOrders, Entry
<1>2. ~(\E x, y \in DOMAIN Mapped :
          Mapped[x].side = "Buy" /\ Mapped[y].side = "Sell" /\ Mapped[x].limit >= Mapped[y].limit)
  BY <1>1
<1> QED BY <1>2 DEF Abstract!CanTrade, Abstract!First, Abstract!Tradable, Abstract!Waiting, Mapped

\* Steps of the engine as steps of the abstract book.

LEMMA WithdrawAbstract ==
  ASSUME BookInv, pc \notin {"match", "crashed"}, NEW id \in OrderIds, index[id] # NoOrder,
         Withdraw(id), UNCHANGED fields
  PROVE  Abstract!Next
<1> PICK o : o = index[id]
  OBVIOUS
<1>1. o \in DOMAIN Mapped /\ Mapped' = [x \in DOMAIN Mapped \ {o} |-> [Mapped[x] EXCEPT !.ahead = @ \ {o}]]
  BY WithdrawMap, MappedIs DEF BookInv
<1>2. Abstract!Withdraw(o) /\ o \in Abstract!Waiting
  BY <1>1 DEF Abstract!Withdraw, Abstract!Without, Abstract!Waiting, Mapped
<1>3. ~Abstract!CanTrade
  BY NoTrade DEF BookInv, MatchingInv, OnlyIncomingCrosses
<1> QED BY <1>2, <1>3, Zenon DEF Abstract!Next

LEMMA AcceptAbstract ==
  ASSUME BookInv, Accept
  PROVE  Abstract!Next
<1> DEFINE o == incoming
<1>1. /\ o \in Orders /\ Accepts(o) /\ pc = "add"
      /\ UNCHANGED <<oid, side, remaining>>
  BY DEF Accept, BookInv, StructureInv, CallInv
<1>2. PICK p \in LimitPrices(o) : price' = [price EXCEPT ![o] = p] /\ Insert(o, p)
  BY DEF Accept
<1>3. p \in Prices
  BY <1>1, LimitIsPrice DEF BookInv
<1>4. index[oid[o]] = NoOrder /\ remaining[o] > 0
  BY <1>1 DEF Accepts, Valid
<1>5. remaining[o] \in 1..MaxQty /\ side[o] \in Sides
  BY <1>1, <1>4, BoundsAssumption DEF BookInv, StructureInv, TypeOK
<1> DEFINE s == side[o]
           A == {y \in DOMAIN Mapped : Mapped[y].side = s /\ Mapped[y].limit = p}
<1>6. /\ o \notin WaitingOrders
      /\ Mapped' = [x \in DOMAIN Mapped \cup {o} |->
                      IF x = o THEN Entry(s, p, remaining[o], A) ELSE Mapped[x]]
  <2> HIDE DEF o
  <2> QED BY <1>1, <1>2, <1>3, <1>4, InsertMap DEF BookInv
<1>7. \A y \in DOMAIN Mapped : Mapped[y].rank = 0
  BY MappedIs DEF Entry
<1>8. A = {y \in DOMAIN Mapped : (Mapped[y].side = s /\ Mapped[y].limit = p) /\ Mapped[y].rank <= 0}
  BY <1>7
<1> HIDE DEF A, s
<1>9. Mapped' = [x \in DOMAIN Mapped \cup {o} |->
         CASE x = o -> [side |-> s, limit |-> p, qty |-> remaining[o], rank |-> 0, ahead |-> A]
           [] x # o /\ ((Mapped[x].side = s /\ Mapped[x].limit = p) /\ Mapped[x].rank > 0)
                -> [Mapped[x] EXCEPT !.ahead = @ \cup {o}]
           [] OTHER -> Mapped[x]]
  <2> HIDE DEF o
  <2>1. \A x \in DOMAIN Mapped \cup {o} : x # o => ~(Mapped[x].rank > 0)
    BY <1>7
  <2> QED BY <1>6, <2>1 DEF Entry
<1>10. Abstract!Admit(o, s, p, remaining[o], 0)
  BY <1>8, <1>9 DEF Abstract!Admit, Abstract!Before, Abstract!Behind, Abstract!Same, Abstract!Waiting, Mapped
<1>11. o \in Orders \ Abstract!Waiting
  BY <1>1, <1>6 DEF Abstract!Waiting, WaitingOrders
<1>12. ~Abstract!CanTrade
  BY <1>1, NoTrade DEF BookInv, MatchingInv, OnlyIncomingCrosses
<1>13. s \in Abstract!Sides /\ p \in 1..MaxPrice
  BY <1>3, <1>5 DEF s, Sides, Abstract!Sides, Prices
<1> QED BY <1>5, <1>10, <1>11, <1>12, <1>13 DEF Abstract!Next

LEMMA MatchAbstract ==
  ASSUME BookInv, Match
  PROVE  Abstract!Next
<1>1. UNCHANGED <<oid, side, type, price, initial>>
  BY DEF Match
<1>2. PICK bs \in CrossedLevels : Fill(bs[1], bs[2])
  BY DEF Match
<1>3. /\ bs[1] \in Best("Buy") /\ bs[2] \in Best("Sell") /\ bs[1] >= bs[2]
      /\ bs[1] \in levels["Buy"] /\ bs[2] \in levels["Sell"]
  BY DEF CrossedLevels, Crosses, Best
<1>4. PICK b : b = Head(queue["Buy"][bs[1]])
  OBVIOUS
<1>5. PICK a : a = Head(queue["Sell"][bs[2]])
  OBVIOUS
<1>6. PICK d : d = Lesser(remaining[b], remaining[a])
  OBVIOUS
<1>7. PICK G : G = {x \in {b, a} : remaining[x] = d}
  OBVIOUS
<1>8. Trades(b, a, d, G)
  BY <1>1, <1>2, <1>3, <1>4, <1>5, <1>6, <1>7, FillMap DEF BookInv
<1>9. b \in Abstract!First("Buy") /\ a \in Abstract!First("Sell")
  BY <1>3, <1>4, <1>5, FrontIsFirst DEF BookInv, Sides
<1>10. b \in WaitingOrders /\ a \in WaitingOrders /\ price[b] = bs[1] /\ price[a] = bs[2]
  BY <1>3, <1>4, <1>5, FrontOrder DEF BookInv, WaitingOrders, Sides
<1>11. /\ Mapped[b].limit = bs[1] /\ Mapped[a].limit = bs[2]
       /\ Mapped[b].qty = remaining[b] /\ Mapped[a].qty = remaining[a]
  BY <1>10, MappedIs DEF Entry
<1>12. d = IF Mapped[b].qty < Mapped[a].qty THEN Mapped[b].qty ELSE Mapped[a].qty
  BY <1>6, <1>11 DEF Lesser
<1>13. G = {o \in {b, a} : Mapped[o].qty = d}
  BY <1>7, <1>11
<1>14. Mapped[b].limit >= Mapped[a].limit
  BY <1>3, <1>11
<1>15. Mapped' = [o \in DOMAIN Mapped \ G |->
          [[x \in DOMAIN Mapped \ G |-> [Mapped[x] EXCEPT !.ahead = @ \ G]][o]
             EXCEPT !.qty = IF o \in {b, a} THEN @ - d ELSE @]]
  BY <1>8 DEF Trades
<1>16. /\ Mapped[b].limit >= Mapped[a].limit
       /\ LET q    == IF Mapped[b].qty < Mapped[a].qty THEN Mapped[b].qty ELSE Mapped[a].qty
              gone == {o \in {b, a} : Mapped[o].qty = q}
          IN  Mapped' = [o \in DOMAIN Mapped \ gone |->
                [[x \in DOMAIN Mapped \ gone |-> [Mapped[x] EXCEPT !.ahead = @ \ gone]][o]
                   EXCEPT !.qty = IF o \in {b, a} THEN @ - q ELSE @]]
  BY <1>12, <1>13, <1>14, <1>15, Zenon
<1>17. Abstract!Trade(b, a)
  BY <1>16 DEF Abstract!Trade, Abstract!Tradable, Abstract!Without, Abstract!Waiting, Mapped
<1> QED BY <1>9, <1>17, Zenon DEF Abstract!Next

LEMMA AbstractInit == Init => Abstract!Init
<1> SUFFICES ASSUME Init PROVE Abstract!Init
  OBVIOUS
<1>1. {x \in Orders : Resting(x)} = {}
  BY MarkersAssumption DEF Init, Resting, OrderIds
<1> QED BY <1>1 DEF Abstract!Init

LEMMA AbstractStep == BookInv /\ [Next]_vars => [Abstract!Next]_Mapped
<1> SUFFICES ASSUME BookInv, [Next]_vars PROVE Abstract!Next \/ Mapped' = Mapped
  OBVIOUS
<1>0. StructureInv
  BY DEF BookInv
\* Steps on orders outside the book, and steps that change no order.
<1>1. ASSUME NEW o \in Orders, ~Resting(o), UNCHANGED book, oid'[o] \in OrderIds,
             \A x \in Orders \ {o} : /\ oid'[x] = oid[x] /\ side'[x] = side[x]
                                     /\ price'[x] = price[x] /\ remaining'[x] = remaining[x]
      PROVE  Mapped' = Mapped
  <2>1. \A x \in Orders : Resting(x)' <=> Resting(x)
    BY <1>0, <1>1, OutsideStep
  <2>2. \A x \in WaitingOrders : x \in Orders \ {o}
    BY <1>1 DEF WaitingOrders
  <2> QED BY <1>1, <2>1, <2>2, SameMap DEF book
<1>2. ASSUME UNCHANGED <<fields, book>> PROVE Mapped' = Mapped
  <2>1. \A x \in Orders : Resting(x)' <=> Resting(x)
    BY <1>2 DEF Resting, fields, book
  <2> QED BY <1>2, <2>1, SameMap DEF fields, book
<1>3. ASSUME NEW o \in Orders, NEW i \in Ids, NEW s \in Sides, NEW t \in OrderTypes,
             NEW p \in {0, InvalidPrice} \cup Prices, NEW q \in 1..MaxQty, SubmitNew(o, i, s, t, p, q)
      PROVE  Mapped' = Mapped
  <2>1. /\ ~Resting(o) /\ UNCHANGED book /\ oid'[o] \in OrderIds
        /\ \A x \in Orders \ {o} : /\ oid'[x] = oid[x] /\ side'[x] = side[x]
                                   /\ price'[x] = price[x] /\ remaining'[x] = remaining[x]
    BY <1>0, <1>3 DEF SubmitNew, StructureInv, TypeOK, OrderIds
  <2> QED BY <1>1, <2>1
<1>4. ASSUME NEW o \in Orders, Discard(o) PROVE Mapped' = Mapped
  <2>1. /\ ~Resting(o) /\ UNCHANGED book /\ oid'[o] \in OrderIds
        /\ \A x \in Orders \ {o} : /\ oid'[x] = oid[x] /\ side'[x] = side[x]
                                   /\ price'[x] = price[x] /\ remaining'[x] = remaining[x]
    BY <1>0, <1>4 DEF Discard, Spares, StructureInv, TypeOK, OrderIds
  <2> QED BY <1>1, <2>1
<1>5. ASSUME NEW i \in Ids, CancelOrder(i) PROVE Abstract!Next
  <2>1. /\ i \in OrderIds /\ index[i] # NoOrder /\ Withdraw(i) /\ UNCHANGED fields
        /\ pc \notin {"match", "crashed"}
    BY <1>5 DEF CancelOrder, CallAllowed, OrderIds
  <2> QED BY <2>1, WithdrawAbstract
<1>6. ASSUME NEW s \in Sides, Kill(s) PROVE Abstract!Next
  <2>1. PICK o \in Killable(s) : Withdraw(oid[o])
    BY <1>6 DEF Kill
  <2>2. PICK p \in Best(s) : o = Head(queue[s][p])
    BY DEF Killable
  <2>3. o \in Orders /\ Resting(o)
    <3>1. p \in levels[s]  BY DEF Best
    <3> QED BY <1>0, <2>2, <3>1, FrontOrder
  <2>4. oid[o] \in OrderIds /\ index[oid[o]] # NoOrder
    BY <1>0, <2>3, MarkersAssumption DEF StructureInv, TypeOK, Resting
  <2>5. UNCHANGED fields /\ pc \notin {"match", "crashed"}
    BY <1>6 DEF Kill, KillPhase
  <2> QED BY <2>1, <2>4, <2>5, WithdrawAbstract
<1>7. CASE \/ Reject \/ MatchDone \/ Fault \/ UNCHANGED vars
           \/ \E o \in Orders : SubmitAgain(o)
           \/ \E s \in Sides : Keep(s)
  BY <1>2, <1>7 DEF Reject, MatchDone, Fault, SubmitAgain, Keep, vars
<1> QED BY <1>3, <1>4, <1>5, <1>6, <1>7, AcceptAbstract, MatchAbstract DEF Next, User, Engine

\* Price-time priority: whatever is submitted and cancelled, the engine of book_l3.hpp admits,
\* trades and withdraws orders as PriceTimeBook allows, only the first of each side trade, and
\* while they can nothing else happens.
THEOREM EngineKeepsPriority == Spec => ImplementsPriceTimeBook
<1>1. Spec => Abstract!Init
  BY AbstractInit, PTL DEF Spec
<1>2. BookInv /\ [Next]_vars => [Abstract!Next]_Mapped
  BY AbstractStep
<1> QED BY <1>1, <1>2, BookInvariant, PTL DEF Spec, ImplementsPriceTimeBook, Abstract!Spec, Mapped
=============================================================================
