---------------------- MODULE VectorL2OrderBook_proofs ----------------------
(***************************************************************************)
(* Theorems of VectorL2OrderBook, for every bound on prices, quantities    *)
(* and levels.  The inductive invariant is that each vector is strictly    *)
(* sorted and holds no empty level: then findLevelIt splits a vector in    *)
(* the levels before a price and the others, a level of the price can only *)
(* be the one found, and a level put there or erased there leaves the      *)
(* vector sorted.                                                          *)
(***************************************************************************)
EXTENDS VectorL2OrderBook, SequenceTheorems, FiniteSetTheorems, WellFoundedInduction, TLAPS

Levels == [price : Prices, quantity : 1..MaxLevel]

SortedLine(s, q) == \A i, j \in DOMAIN q : i < j => cmp(s, q[i].price, q[j].price)

\* The line of a side shows quantity n at price p.
Shows(q, p, n) ==
  \/ \E i \in DOMAIN q : q[i].price = p /\ q[i].quantity = n
  \/ n = 0 /\ (\A i \in DOMAIN q : q[i].price # p)

\* The line of side s as the book keeps it.
LineOK(s, q) == q \in Seq(Levels) /\ SortedLine(s, q)

\* Offset n is the lower bound of price p.
LowerBound(s, q, p, n) ==
  /\ n \in 0..Len(q)
  /\ \A i \in DOMAIN q : cmp(s, q[i].price, p) <=> i <= n

\* Line r differs from q at most in what it shows at price p, which is n.
ShowsAt(q, r, p, n) ==
  /\ Shows(r, p, n)
  /\ \A e, m : e # p /\ Shows(q, e, m) => Shows(r, e, m)

IInv ==
  /\ levels \in [Sides -> Seq(Levels)]
  /\ \A s \in Sides : SortedLine(s, levels[s])

-----------------------------------------------------------------------------
\* Lines.

LEMMA LineProperties ==
  ASSUME NEW s, NEW q, LineOK(s, q)
  PROVE  /\ Len(q) \in Nat /\ DOMAIN q = 1..Len(q)
         /\ \A i \in DOMAIN q : q[i] \in Levels /\ q[i].price \in Prices /\ q[i].price \in Nat
                             /\ q[i].quantity \in 1..MaxLevel
<1>1. Len(q) \in Nat /\ DOMAIN q = 1..Len(q) /\ q \in [1..Len(q) -> Levels]
  BY LenProperties DEF LineOK
<1> QED BY <1>1, VectorAssumption DEF Levels, Prices

LEMMA LeastIndex ==
  ASSUME NEW X \in SUBSET Nat, X # {}
  PROVE  \E k \in X : \A j \in X : k <= j
<1>1. PICK k \in X : \A j \in X : ~(<<j, k>> \in OpToRel(<, Nat))
  BY NatLessThanWellFounded, WFMin
<1>2. \A j \in X : ~(j < k)
  BY <1>1 DEF OpToRel
<1> QED BY <1>2

\* The levels before a price are the first of the line, so their number is the lower bound.
LEMMA CountIsLowerBound ==
  ASSUME NEW s, NEW q, LineOK(s, q), NEW p \in Prices, NEW n,
         n = Cardinality({i \in DOMAIN q : cmp(s, q[i].price, p)})
  PROVE  LowerBound(s, q, p, n)
<1> DEFINE B == {i \in DOMAIN q : cmp(s, q[i].price, p)}
           X == {k \in Nat : \A i \in DOMAIN q : cmp(s, q[i].price, p) => i <= k}
<1>1. /\ Len(q) \in Nat /\ DOMAIN q = 1..Len(q) /\ p \in Nat
      /\ \A i \in DOMAIN q : q[i].price \in Nat
  BY LineProperties, VectorAssumption DEF Prices
<1>2. Len(q) \in X
  BY <1>1
<1>3. PICK k \in X : \A j \in X : k <= j
  BY <1>2, LeastIndex
<1>4. k \in 0..Len(q)
  BY <1>1, <1>2, <1>3
<1>5. \A i \in DOMAIN q : cmp(s, q[i].price, p) => i <= k
  BY <1>3
<1>6. ASSUME NEW i \in DOMAIN q, i <= k PROVE cmp(s, q[i].price, p)
  <2>1. k - 1 \in Nat /\ k - 1 \notin X
    BY <1>1, <1>3, <1>4, <1>6
  <2>2. PICK j \in DOMAIN q : cmp(s, q[j].price, p) /\ ~(j <= k - 1)
    BY <2>1
  <2>3. j = k
    BY <2>2, <1>1, <1>4, <1>5
  <2>4. CASE i = k
    BY <2>2, <2>3, <2>4
  <2>5. CASE i < k
    <3>1. cmp(s, q[i].price, q[j].price)
      BY <2>3, <2>5 DEF LineOK, SortedLine
    <3> QED BY <3>1, <2>2, <1>1 DEF cmp
  <2> QED BY <1>1, <1>4, <1>6, <2>4, <2>5
<1>7. B = 1..k
  BY <1>1, <1>4, <1>5, <1>6
<1>8. Cardinality(1..k) = k
  BY <1>4, FS_Interval
<1>9. n = k
  BY <1>7, <1>8
<1> QED BY <1>4, <1>5, <1>6, <1>9 DEF LowerBound

\* A level of the price can only be the one at the lower bound.
LEMMA LevelIsAtLowerBound ==
  ASSUME NEW s, NEW q, LineOK(s, q), NEW p \in Prices, NEW n, LowerBound(s, q, p, n),
         NEW i \in DOMAIN q, q[i].price = p
  PROVE  i = n + 1
<1>1. /\ Len(q) \in Nat /\ DOMAIN q = 1..Len(q) /\ p \in Nat /\ n \in 0..Len(q)
      /\ \A j \in DOMAIN q : q[j].price \in Nat
  BY LineProperties, VectorAssumption DEF Prices, LowerBound
<1>2. ~(i <= n)
  BY <1>1 DEF LowerBound, cmp
<1>3. n + 1 \in DOMAIN q /\ ~cmp(s, q[n + 1].price, p)
  BY <1>1, <1>2 DEF LowerBound
<1>4. ~(n + 1 < i)
  BY <1>3 DEF LineOK, SortedLine
<1> QED BY <1>1, <1>2, <1>4

\* What LevelQuantity yields of a line.
QuantityIn(q, p) ==
  LET at == {i \in DOMAIN q : q[i].price = p}
  IN IF at = {} THEN 0 ELSE q[CHOOSE i \in at : TRUE].quantity

\* A line shows one quantity at a price, and LevelQuantity is that.
LEMMA QuantityShown ==
  ASSUME NEW s, NEW q, LineOK(s, q), NEW p \in Prices
  PROVE  /\ Shows(q, p, QuantityIn(q, p)) /\ QuantityIn(q, p) \in 0..MaxLevel
         /\ \A n : Shows(q, p, n) => n = QuantityIn(q, p)
<1> DEFINE at == {i \in DOMAIN q : q[i].price = p}
           c == CHOOSE i \in at : TRUE
<1>1. /\ Len(q) \in Nat /\ DOMAIN q = 1..Len(q) /\ p \in Nat
      /\ \A j \in DOMAIN q : q[j].quantity \in 1..MaxLevel
  BY LineProperties, VectorAssumption DEF Prices
<1>2. QuantityIn(q, p) = IF at = {} THEN 0 ELSE q[c].quantity
  BY DEF QuantityIn
<1>3. PICK n : LowerBound(s, q, p, n)
  BY CountIsLowerBound
<1>4. \A i \in at : i = n + 1
  BY <1>3, LevelIsAtLowerBound
<1>5. CASE at = {}
  <2>1. QuantityIn(q, p) = 0 /\ (\A i \in DOMAIN q : q[i].price # p)
    BY <1>2, <1>5
  <2> QED BY <2>1, VectorAssumption DEF Shows
<1>6. CASE at # {}
  <2>1. c \in at
    BY <1>6
  <2>2. c \in DOMAIN q /\ q[c].price = p /\ QuantityIn(q, p) = q[c].quantity
    BY <2>1, <1>2, <1>6
  <2>3. \A i \in DOMAIN q : q[i].price = p => i = c
    BY <2>1, <1>4
  <2> HIDE DEF c, at
  <2>4. q[c].quantity \in 0..MaxLevel
    BY <2>2, <1>1, VectorAssumption
  <2> QED BY <2>2, <2>3, <2>4 DEF Shows
<1> QED BY <1>5, <1>6

-----------------------------------------------------------------------------
\* What levelAdd and levelRemove do to a line.

\* Sequence r is q without its element at index k.
Removed(q, k, r) ==
  /\ Len(r) = Len(q) - 1
  /\ \A j \in 1..Len(r) : r[j] = IF j < k THEN q[j] ELSE q[j + 1]

\* RemoveAt erases the element at its index, those behind it move up.
LEMMA RemoveAtMoves ==
  ASSUME NEW S, NEW q \in Seq(S), NEW k \in 1..Len(q), NEW r, r = RemoveAt(q, k)
  PROVE  r \in Seq(S) /\ Removed(q, k, r)
<1> DEFINE u == SubSeq(q, 1, k - 1)
           v == SubSeq(q, k + 1, Len(q))
<1>0. Len(q) \in Nat /\ k \in Nat /\ 1 <= k /\ k <= Len(q)
  BY LenProperties
<1>1. Len(q) \in Nat /\ q \in [1..Len(q) -> S]
  BY LenProperties
<1>2. /\ u \in Seq(S) /\ Len(u) = k - 1
      /\ \A i \in 1..(k - 1) : u[i] = q[i]
  <2>1. \A i \in 1..(k - 1) : q[i] \in S  BY <1>1
  <2>2. /\ u \in Seq(S) /\ Len(u) = IF 1 <= k - 1 THEN k - 1 - 1 + 1 ELSE 0
        /\ \A i \in 1..(k - 1 - 1 + 1) : u[i] = q[1 + i - 1]
    BY <2>1, SubSeqProperties
  <2>3. (IF 1 <= k - 1 THEN k - 1 - 1 + 1 ELSE 0) = k - 1
    BY <1>1
  <2>4. \A i \in 1..(k - 1) : i \in 1..(k - 1 - 1 + 1) /\ 1 + i - 1 = i
    BY <1>1
  <2> QED BY <2>2, <2>3, <2>4
<1>3. /\ v \in Seq(S) /\ Len(v) = Len(q) - k
      /\ \A i \in 1..(Len(q) - k) : v[i] = q[k + i]
  <2>1. \A i \in (k + 1)..Len(q) : q[i] \in S  BY <1>1
  <2>2. /\ v \in Seq(S) /\ Len(v) = IF k + 1 <= Len(q) THEN Len(q) - (k + 1) + 1 ELSE 0
        /\ \A i \in 1..(Len(q) - (k + 1) + 1) : v[i] = q[k + 1 + i - 1]
    BY <2>1, <1>1, SubSeqProperties
  <2>3. (IF k + 1 <= Len(q) THEN Len(q) - (k + 1) + 1 ELSE 0) = Len(q) - k
    BY <1>0
  <2>4. \A i \in 1..(Len(q) - k) : i \in 1..(Len(q) - (k + 1) + 1) /\ k + 1 + i - 1 = k + i
    BY <1>1
  <2> QED BY <2>2, <2>3, <2>4
<1>4. r = u \o v
  BY DEF RemoveAt
<1> HIDE DEF u, v
<1>5. /\ u \o v \in Seq(S) /\ Len(u \o v) = Len(u) + Len(v)
      /\ \A i \in 1..(Len(u) + Len(v)) : (u \o v)[i] = IF i <= Len(u) THEN u[i] ELSE v[i - Len(u)]
  BY <1>2, <1>3, ConcatProperties
<1>6. ASSUME NEW j \in 1..(Len(q) - 1) PROVE r[j] = IF j < k THEN q[j] ELSE q[j + 1]
  <2>1. CASE j < k
    BY <1>1, <1>2, <1>3, <1>4, <1>5, <2>1
  <2>2. CASE ~(j < k)
    <3>1. ~(j <= Len(u)) /\ j - Len(u) \in 1..(Len(q) - k) /\ k + (j - Len(u)) = j + 1
      BY <1>1, <1>2, <2>2
    <3>2. j \in 1..(Len(u) + Len(v))  BY <1>1, <1>2, <1>3
    <3>3. r[j] = v[j - Len(u)]  BY <3>1, <3>2, <1>4, <1>5
    <3>4. v[j - Len(u)] = q[j + 1]  BY <3>1, <1>3
    <3> QED BY <3>3, <3>4, <2>2
  <2> QED BY <2>1, <2>2
<1>7. Len(r) = Len(q) - 1
  BY <1>1, <1>2, <1>3, <1>4, <1>5
<1> QED BY <1>4, <1>5, <1>6, <1>7 DEF Removed

\* Sequence r is q with element e put at index k.
Inserted(q, k, e, r) ==
  /\ Len(r) = Len(q) + 1 /\ r[k] = e
  /\ \A j \in 1..Len(r) : j # k => r[j] = IF j < k THEN q[j] ELSE q[j - 1]

\* InsertAt puts the element at its index, those behind it move down.
LEMMA InsertAtMoves ==
  ASSUME NEW S, NEW q \in Seq(S), NEW k \in 1..(Len(q) + 1), NEW e \in S,
         NEW r, r = InsertAt(q, k, e)
  PROVE  r \in Seq(S) /\ Inserted(q, k, e, r)
<1> DEFINE u == SubSeq(q, 1, k - 1)
           v == SubSeq(q, k, Len(q))
           w == u \o <<e>>
<1>1. Len(q) \in Nat /\ q \in [1..Len(q) -> S]
  BY LenProperties
<1>2. /\ u \in Seq(S) /\ Len(u) = k - 1
      /\ \A i \in 1..(k - 1) : u[i] = q[i]
  <2>1. \A i \in 1..(k - 1) : q[i] \in S  BY <1>1
  <2>2. /\ u \in Seq(S) /\ Len(u) = IF 1 <= k - 1 THEN k - 1 - 1 + 1 ELSE 0
        /\ \A i \in 1..(k - 1 - 1 + 1) : u[i] = q[1 + i - 1]
    BY <2>1, SubSeqProperties
  <2>3. (IF 1 <= k - 1 THEN k - 1 - 1 + 1 ELSE 0) = k - 1
    BY <1>1
  <2>4. \A i \in 1..(k - 1) : i \in 1..(k - 1 - 1 + 1) /\ 1 + i - 1 = i
    BY <1>1
  <2> QED BY <2>2, <2>3, <2>4
<1>3. /\ v \in Seq(S) /\ Len(v) = Len(q) - k + 1
      /\ \A i \in 1..(Len(q) - k + 1) : v[i] = q[k + i - 1]
  <2>1. \A i \in k..Len(q) : q[i] \in S  BY <1>1
  <2>2. /\ v \in Seq(S) /\ Len(v) = IF k <= Len(q) THEN Len(q) - k + 1 ELSE 0
        /\ \A i \in 1..(Len(q) - k + 1) : v[i] = q[k + i - 1]
    BY <2>1, <1>1, SubSeqProperties
  <2>3. (IF k <= Len(q) THEN Len(q) - k + 1 ELSE 0) = Len(q) - k + 1
    BY <1>1
  <2> QED BY <2>2, <2>3
<1>4. r = w \o v
  BY DEF InsertAt
<1> HIDE DEF u, v
<1>5. <<e>> \in Seq(S) /\ Len(<<e>>) = 1 /\ <<e>>[1] = e
  OBVIOUS
<1>6. /\ w \in Seq(S) /\ Len(w) = k
      /\ \A i \in 1..k : w[i] = IF i < k THEN q[i] ELSE e
  <2>1. /\ w \in Seq(S) /\ Len(w) = Len(u) + Len(<<e>>)
        /\ \A i \in 1..(Len(u) + Len(<<e>>)) :
             w[i] = IF i <= Len(u) THEN u[i] ELSE <<e>>[i - Len(u)]
    BY <1>2, <1>5, ConcatProperties
  <2> HIDE DEF w
  <2>2. ASSUME NEW i \in 1..k PROVE w[i] = IF i < k THEN q[i] ELSE e
    <3>1. CASE i < k
      BY <1>1, <1>2, <1>5, <2>1, <3>1
    <3>2. CASE i = k
      <4>1. i - Len(u) = 1 /\ ~(i <= Len(u)) /\ i \in 1..(Len(u) + Len(<<e>>))
        BY <1>1, <1>2, <1>5, <3>2
      <4> QED BY <4>1, <1>5, <2>1, <3>2
    <3> QED BY <3>1, <3>2
  <2> QED BY <1>1, <1>2, <1>5, <2>1, <2>2
<1> HIDE DEF w
<1>7. /\ w \o v \in Seq(S) /\ Len(w \o v) = Len(w) + Len(v)
      /\ \A i \in 1..(Len(w) + Len(v)) : (w \o v)[i] = IF i <= Len(w) THEN w[i] ELSE v[i - Len(w)]
  BY <1>3, <1>6, ConcatProperties
<1>8. Len(r) = Len(q) + 1 /\ Len(w) + Len(v) = Len(q) + 1
  BY <1>1, <1>3, <1>4, <1>6, <1>7
<1>9. ASSUME NEW j \in 1..(Len(q) + 1)
      PROVE  r[j] = IF j = k THEN e ELSE IF j < k THEN q[j] ELSE q[j - 1]
  <2>1. CASE j <= k
    <3>1. j \in 1..k /\ j <= Len(w)  BY <1>1, <1>6, <2>1
    <3> QED BY <3>1, <1>4, <1>6, <1>7, <1>8
  <2>2. CASE ~(j <= k)
    <3>1. ~(j <= Len(w)) /\ j - Len(w) \in 1..(Len(q) - k + 1) /\ k + (j - Len(w)) - 1 = j - 1
      BY <1>1, <1>6, <2>2
    <3> QED BY <3>1, <1>1, <1>3, <1>4, <1>6, <1>7, <1>8, <2>2
  <2> QED BY <2>1, <2>2
<1> QED BY <1>1, <1>4, <1>7, <1>8, <1>9 DEF Inserted

\* A new level is put at the lower bound of its price: everything in front of it compares
\* before it and everything behind it does not.
LEMMA InsertKeeps ==
  ASSUME NEW s \in Sides, NEW q, LineOK(s, q), NEW p \in Prices, NEW n, LowerBound(s, q, p, n),
         NEW a \in 1..MaxLevel, \A i \in DOMAIN q : q[i].price # p,
         NEW r, r = InsertAt(q, n + 1, [price |-> p, quantity |-> a])
  PROVE  LineOK(s, r) /\ ShowsAt(q, r, p, a)
<1> DEFINE k == n + 1
           e == [price |-> p, quantity |-> a]
<1>1. /\ Len(q) \in Nat /\ DOMAIN q = 1..Len(q) /\ p \in Nat /\ q \in Seq(Levels)
      /\ \A j \in DOMAIN q : q[j].price \in Nat
      /\ n \in 0..Len(q) /\ k \in 1..(Len(q) + 1)
  BY LineProperties, VectorAssumption DEF Prices, LowerBound, LineOK
<1>2. e \in Levels
  BY DEF Levels
<1>3. /\ r \in Seq(Levels) /\ Len(r) = Len(q) + 1 /\ r[k] = e
      /\ \A j \in 1..Len(r) : j # k => r[j] = IF j < k THEN q[j] ELSE q[j - 1]
  <2>1. q \in Seq(Levels) /\ k \in 1..(Len(q) + 1) /\ e \in Levels /\ r = InsertAt(q, k, e)
    BY <1>1, <1>2
  <2> HIDE DEF k, e
  <2>2. r \in Seq(Levels) /\ Inserted(q, k, e, r)
    BY <2>1, InsertAtMoves
  <2> QED BY <2>2 DEF Inserted
<1>4. DOMAIN r = 1..(Len(q) + 1)
  BY <1>3, LenProperties
<1>5. r[k].price = p /\ r[k].quantity = a
  BY <1>3
<1> HIDE DEF e, k
<1>6. ASSUME NEW i \in DOMAIN q
      PROVE  /\ i < k => r[i] = q[i] /\ i \in DOMAIN r
             /\ i >= k => r[i + 1] = q[i] /\ i + 1 \in DOMAIN r
  <2>1. CASE i < k
    <3>1. i \in 1..Len(r) /\ i # k
      BY <1>1, <1>3, <2>1
    <3>2. r[i] = q[i]
      BY <3>1, <1>3, <2>1
    <3>3. ~(i >= k) /\ i \in DOMAIN r
      BY <3>1, <1>1, <1>3, <1>4, <2>1
    <3> QED BY <3>2, <3>3
  <2>2. CASE i >= k
    <3>1. i + 1 \in 1..Len(r) /\ i + 1 # k /\ ~(i + 1 < k) /\ (i + 1) - 1 = i
      BY <1>1, <1>3, <1>4, <2>2
    <3> QED BY <3>1, <1>1, <1>3, <1>4, <2>2
  <2> QED BY <2>1, <2>2, <1>1
<1>7. SortedLine(s, r)
  <2> SUFFICES ASSUME NEW i \in DOMAIN r, NEW j \in DOMAIN r, i < j
               PROVE  cmp(s, r[i].price, r[j].price)
    BY DEF SortedLine
  <2>1. /\ i \in 1..(Len(q) + 1) /\ j \in 1..(Len(q) + 1) /\ Len(r) = Len(q) + 1
        /\ k \in 1..(Len(q) + 1)
        /\ i # k => r[i] = IF i < k THEN q[i] ELSE q[i - 1]
        /\ j # k => r[j] = IF j < k THEN q[j] ELSE q[j - 1]
    BY <1>1, <1>3, <1>4
  <2>2. CASE j < k
    <3>1. i \in DOMAIN q /\ j \in DOMAIN q /\ r[i] = q[i] /\ r[j] = q[j]
      BY <1>1, <2>1, <2>2
    <3> QED BY <3>1 DEF LineOK, SortedLine
  <2>3. CASE j = k
    <3>1. i \in DOMAIN q /\ r[i] = q[i] /\ i <= n
      BY <1>1, <2>1, <2>3 DEF k
    <3> QED BY <3>1, <1>5, <2>3 DEF LowerBound
  <2>4. CASE i < k /\ k < j
    <3>1. i \in DOMAIN q /\ j - 1 \in DOMAIN q /\ i < j - 1 /\ r[i] = q[i] /\ r[j] = q[j - 1]
      BY <1>1, <2>1, <2>4
    <3> QED BY <3>1 DEF LineOK, SortedLine
  <2>5. CASE i = k
    <3>1. j - 1 \in DOMAIN q /\ r[j] = q[j - 1] /\ ~(j - 1 <= n)
      BY <1>1, <2>1, <2>5 DEF k
    <3>2. ~cmp(s, q[j - 1].price, p) /\ q[j - 1].price # p
      BY <3>1 DEF LowerBound
    <3> QED BY <3>1, <3>2, <1>1, <1>5, <2>5 DEF cmp
  <2>6. CASE k < i
    <3>1. /\ i - 1 \in DOMAIN q /\ j - 1 \in DOMAIN q /\ i - 1 < j - 1
          /\ r[i] = q[i - 1] /\ r[j] = q[j - 1]
      BY <1>1, <2>1, <2>6
    <3> QED BY <3>1 DEF LineOK, SortedLine
  <2> QED BY <1>1, <2>1, <2>2, <2>3, <2>4, <2>5, <2>6
<1>8. k \in DOMAIN r
  BY <1>1, <1>4 DEF k
<1>9. ASSUME NEW x, NEW m, x # p, Shows(q, x, m) PROVE Shows(r, x, m)
  <2>1. CASE \E i \in DOMAIN q : q[i].price = x /\ q[i].quantity = m
    BY <2>1, <1>6, <1>1, <1>4 DEF Shows, k
  <2>2. CASE m = 0 /\ (\A i \in DOMAIN q : q[i].price # x)
    <3>1. ASSUME NEW j \in DOMAIN r PROVE r[j].price # x
      <4>1. CASE j = k
        BY <4>1, <1>5, <1>9
      <4>2. CASE j < k
        <5>1. j \in DOMAIN q /\ j # k /\ j \in 1..Len(r)
          BY <4>2, <1>1, <1>3, <1>4 DEF k
        <5>2. r[j] = q[j]
          BY <4>2, <5>1, <1>3
        <5> QED BY <5>1, <5>2, <2>2
      <4>3. CASE j > k
        <5>1. j - 1 \in DOMAIN q /\ r[j] = q[j - 1]
          BY <4>3, <1>1, <1>3, <1>4 DEF k
        <5> QED BY <5>1, <2>2
      <4> QED BY <4>1, <4>2, <4>3, <1>1, <1>4 DEF k
    <3> QED BY <3>1, <2>2 DEF Shows
  <2> QED BY <2>1, <2>2, <1>9 DEF Shows
<1> QED BY <1>3, <1>5, <1>7, <1>8, <1>9 DEF LineOK, ShowsAt, Shows

\* The level of a price is erased.
LEMMA EraseKeeps ==
  ASSUME NEW s \in Sides, NEW q, LineOK(s, q), NEW k \in DOMAIN q, NEW r, r = RemoveAt(q, k)
  PROVE  LineOK(s, r) /\ ShowsAt(q, r, q[k].price, 0)
<1>1. /\ Len(q) \in Nat /\ DOMAIN q = 1..Len(q) /\ q \in Seq(Levels)
      /\ \A j \in DOMAIN q : q[j].price \in Nat
  BY LineProperties DEF LineOK
<1>2. /\ r \in Seq(Levels) /\ Len(r) = Len(q) - 1
      /\ \A j \in 1..Len(r) : r[j] = IF j < k THEN q[j] ELSE q[j + 1]
  <2>1. q \in Seq(Levels) /\ k \in 1..Len(q) /\ r = RemoveAt(q, k)
    BY <1>1
  <2>2. r \in Seq(Levels) /\ Removed(q, k, r)
    BY <2>1, RemoveAtMoves
  <2> QED BY <2>2 DEF Removed
<1>3. DOMAIN r = 1..(Len(q) - 1)
  BY <1>2, LenProperties
<1> DEFINE Old(j) == IF j < k THEN j ELSE j + 1
<1>4. \A j \in DOMAIN r : Old(j) \in DOMAIN q /\ Old(j) # k /\ r[j] = q[Old(j)]
  BY <1>1, <1>2, <1>3
<1>5. \A i, j \in DOMAIN r : i < j => Old(i) < Old(j)
  BY <1>1, <1>3
<1>6. SortedLine(s, r)
  BY <1>4, <1>5 DEF LineOK, SortedLine
<1>7. \A i \in DOMAIN q : i # k => \E j \in DOMAIN r : r[j] = q[i]
  <2> SUFFICES ASSUME NEW i \in DOMAIN q, i # k PROVE \E j \in DOMAIN r : r[j] = q[i]
    OBVIOUS
  <2>1. CASE i < k
    <3>1. i \in DOMAIN r /\ r[i] = q[i]
      BY <1>1, <1>2, <1>3, <2>1
    <3> QED BY <3>1
  <2>2. CASE i > k
    <3>1. i - 1 \in DOMAIN r /\ ~(i - 1 < k) /\ (i - 1) + 1 = i
      BY <1>1, <1>3, <2>2
    <3> QED BY <3>1, <1>2, <1>3
  <2> QED BY <1>1, <2>1, <2>2
<1>8. \A j \in DOMAIN r : r[j].price # q[k].price
  <2> SUFFICES ASSUME NEW j \in DOMAIN r, r[j].price = q[k].price PROVE FALSE
    OBVIOUS
  <2> DEFINE i == Old(j)
  <2>1. i \in DOMAIN q /\ i # k /\ q[i].price = q[k].price
    BY <1>4
  <2> HIDE DEF i
  <2>2. cmp(s, q[i].price, q[k].price) \/ cmp(s, q[k].price, q[i].price)
    BY <2>1, <1>1 DEF LineOK, SortedLine
  <2> QED BY <2>1, <2>2, <1>1 DEF cmp
<1> HIDE DEF Old
<1>9. ASSUME NEW x, NEW m, x # q[k].price, Shows(q, x, m) PROVE Shows(r, x, m)
  <2>1. CASE \E i \in DOMAIN q : q[i].price = x /\ q[i].quantity = m
    BY <2>1, <1>7, <1>9 DEF Shows
  <2>2. CASE m = 0 /\ (\A i \in DOMAIN q : q[i].price # x)
    BY <2>2, <1>4 DEF Shows
  <2> QED BY <2>1, <2>2, <1>9 DEF Shows
<1> QED BY <1>2, <1>6, <1>8, <1>9 DEF LineOK, ShowsAt, Shows

\* The quantity of a level changes.
LEMMA ChangeKeeps ==
  ASSUME NEW s \in Sides, NEW q, LineOK(s, q), NEW k \in DOMAIN q, NEW a \in 1..MaxLevel,
         NEW r, r = [q EXCEPT ![k].quantity = a]
  PROVE  LineOK(s, r) /\ ShowsAt(q, r, q[k].price, a)
<1>1. /\ Len(q) \in Nat /\ DOMAIN q = 1..Len(q) /\ q \in [1..Len(q) -> Levels]
      /\ \A j \in DOMAIN q : q[j] \in Levels
  BY LineProperties, LenProperties DEF LineOK
<1>2. [q[k] EXCEPT !.quantity = a] = [price |-> q[k].price, quantity |-> a]
  BY <1>1 DEF Levels
<1>3. [price |-> q[k].price, quantity |-> a] \in Levels
  BY <1>1 DEF Levels
<1>4. r = [q EXCEPT ![k] = [price |-> q[k].price, quantity |-> a]]
  BY <1>2
<1>5. /\ r \in Seq(Levels) /\ DOMAIN r = DOMAIN q
      /\ r[k].price = q[k].price /\ r[k].quantity = a
      /\ \A j \in DOMAIN q : j # k => r[j] = q[j]
  <2>1. r \in [1..Len(q) -> Levels]
    BY <1>1, <1>3, <1>4
  <2>2. r \in Seq(Levels)
    BY <2>1, <1>1
  <2> QED BY <1>1, <1>4, <2>2
<1>6. \A j \in DOMAIN q : r[j].price = q[j].price
  BY <1>5
<1>7. SortedLine(s, r)
  BY <1>5, <1>6 DEF LineOK, SortedLine
<1>8. ASSUME NEW x, NEW m, x # q[k].price, Shows(q, x, m) PROVE Shows(r, x, m)
  BY <1>5, <1>6, <1>8 DEF Shows
<1> QED BY <1>5, <1>7, <1>8 DEF LineOK, ShowsAt, Shows

-----------------------------------------------------------------------------
\* Steps of the book.

\* The refinement mapping: what the vectors show.
Shown == [s \in Sides |-> [p \in Prices |-> LevelQuantity(s, p)]]

\* One line is replaced by another that shows n at price p.
Replaces(s, p, n) ==
  \E r : /\ LineOK(s, r)
         /\ ShowsAt(levels[s], r, p, n)
         /\ levels' = [levels EXCEPT ![s] = r]

LEMMA LinesOK ==
  ASSUME IInv, NEW s \in Sides
  PROVE  LineOK(s, levels[s])
BY DEF IInv, LineOK

LEMMA QuantityOfLine ==
  ASSUME IInv, NEW s \in Sides, NEW p \in Prices
  PROVE  /\ LevelQuantity(s, p) = QuantityIn(levels[s], p)
         /\ LevelQuantity(s, p) \in 0..MaxLevel
         /\ \A n : Shows(levels[s], p, n) => n = LevelQuantity(s, p)
<1>1. LevelQuantity(s, p) = QuantityIn(levels[s], p)
  BY DEF LevelQuantity, QuantityIn
<1> QED BY <1>1, LinesOK, QuantityShown

\* Such a step keeps the invariant and changes one quantity.
LEMMA ReplaceKeeps ==
  ASSUME IInv, NEW s \in Sides, NEW p \in Prices, NEW n, Replaces(s, p, n)
  PROVE  IInv' /\ Shown' = [Shown EXCEPT ![s][p] = n]
<1>1. PICK r : /\ LineOK(s, r)
               /\ ShowsAt(levels[s], r, p, n)
               /\ levels' = [levels EXCEPT ![s] = r]
  BY DEF Replaces
<1>2. levels' \in [Sides -> Seq(Levels)] /\ \A t \in Sides : LineOK(t, levels'[t])
  BY <1>1 DEF IInv, LineOK
<1>3. IInv'
  BY <1>2 DEF IInv, LineOK, SortedLine, cmp
<1>4. ASSUME NEW t \in Sides, NEW e \in Prices
      PROVE  LevelQuantity(t, e)' = IF t = s /\ e = p THEN n ELSE LevelQuantity(t, e)
  <2>1. LevelQuantity(t, e)' = QuantityIn(levels'[t], e)
    BY DEF LevelQuantity, QuantityIn
  <2>2. levels'[t] = IF t = s THEN r ELSE levels[t]
    BY <1>1 DEF IInv
  <2>3. \A m : Shows(levels'[t], e, m) => m = QuantityIn(levels'[t], e)
    BY <1>2, QuantityShown
  <2>4. CASE t # s
    BY <2>1, <2>2, <2>4, QuantityOfLine
  <2>5. CASE t = s /\ e = p
    BY <2>1, <2>2, <2>3, <2>5, <1>1 DEF ShowsAt
  <2>6. CASE t = s /\ e # p
    <3>1. Shows(levels[s], e, LevelQuantity(s, e))
      BY LinesOK, QuantityShown, QuantityOfLine
    <3>2. Shows(r, e, LevelQuantity(s, e))
      BY <3>1, <1>1, <2>6 DEF ShowsAt
    <3> QED BY <3>2, <2>1, <2>2, <2>3, <2>6
  <2> QED BY <2>4, <2>5, <2>6
<1>5. Shown' = [t \in Sides |-> [e \in Prices |-> LevelQuantity(t, e)']]
  BY DEF Shown
<1>6. Shown' = [Shown EXCEPT ![s][p] = n]
  BY <1>4, <1>5 DEF Shown
<1> QED BY <1>3, <1>6

\* The level found, or none of the price.
LEMMA FoundLevel ==
  ASSUME IInv, NEW s \in Sides, NEW p \in Prices, NEW n, n = findLevelIt(s, p)
  PROVE  /\ LowerBound(s, levels[s], p, n)
         /\ LevelExists(s, p, n) =>
              /\ n + 1 \in DOMAIN levels[s] /\ levels[s][n + 1].price = p
              /\ levels[s][n + 1].quantity = LevelQuantity(s, p)
              /\ LevelQuantity(s, p) \in 1..MaxLevel
         /\ ~LevelExists(s, p, n) =>
              LevelQuantity(s, p) = 0 /\ \A i \in DOMAIN levels[s] : levels[s][i].price # p
<1>1. LineOK(s, levels[s])
  BY LinesOK
<1>2. LowerBound(s, levels[s], p, n)
  BY <1>1, CountIsLowerBound DEF findLevelIt
<1>3. /\ Len(levels[s]) \in Nat /\ DOMAIN levels[s] = 1..Len(levels[s]) /\ n \in 0..Len(levels[s])
      /\ \A i \in DOMAIN levels[s] : levels[s][i].quantity \in 1..MaxLevel
  BY <1>1, <1>2, LineProperties DEF LowerBound
<1>4. ASSUME LevelExists(s, p, n)
      PROVE  /\ n + 1 \in DOMAIN levels[s] /\ levels[s][n + 1].price = p
             /\ levels[s][n + 1].quantity = LevelQuantity(s, p)
             /\ LevelQuantity(s, p) \in 1..MaxLevel
  <2>1. n + 1 \in DOMAIN levels[s] /\ levels[s][n + 1].price = p
    BY <1>3, <1>4 DEF LevelExists
  <2>2. Shows(levels[s], p, levels[s][n + 1].quantity)
    BY <2>1 DEF Shows
  <2>3. levels[s][n + 1].quantity = LevelQuantity(s, p)
    BY <2>2, QuantityOfLine
  <2> QED BY <2>1, <2>3, <1>3
<1>5. ASSUME ~LevelExists(s, p, n)
      PROVE  LevelQuantity(s, p) = 0 /\ \A i \in DOMAIN levels[s] : levels[s][i].price # p
  <2>1. ASSUME NEW i \in DOMAIN levels[s], levels[s][i].price = p PROVE FALSE
    <3>1. i = n + 1
      BY <2>1, <1>1, <1>2, LevelIsAtLowerBound
    <3> QED BY <3>1, <2>1, <1>3, <1>5 DEF LevelExists
  <2>2. Shows(levels[s], p, 0)
    BY <2>1 DEF Shows
  <2> QED BY <2>1, <2>2, QuantityOfLine
<1> QED BY <1>2, <1>4, <1>5

\* The quantity of the level found becomes a.
LEMMA ChangeReplaces ==
  ASSUME IInv, NEW s \in Sides, NEW p \in Prices, NEW k \in DOMAIN levels[s],
         levels[s][k].price = p, NEW a \in 1..MaxLevel,
         levels' = [levels EXCEPT ![s][k].quantity = a]
  PROVE  Replaces(s, p, a)
<1> DEFINE r == [levels[s] EXCEPT ![k].quantity = a]
<1>1. LineOK(s, r) /\ ShowsAt(levels[s], r, p, a)
  BY LinesOK, ChangeKeeps
<1>2. levels' = [levels EXCEPT ![s] = r]
  BY DEF IInv
<1> QED BY <1>1, <1>2 DEF Replaces

LEMMA AddReplaces ==
  ASSUME IInv, NEW s \in Sides, NEW p \in Prices, NEW q \in 1..MaxQty, addOrder(s, p, q)
  PROVE  Replaces(s, p, LevelQuantity(s, p) + q)
<1> DEFINE n == findLevelIt(s, p)
<1>1. /\ LevelQuantity(s, p) \in 0..MaxLevel /\ q \in Nat \ {0}
      /\ LevelQuantity(s, p) + q \in 1..MaxLevel
  BY QuantityOfLine, VectorAssumption DEF addOrder
<1>2. CASE LevelExists(s, p, n)
  <2>1. n + 1 \in DOMAIN levels[s] /\ levels[s][n + 1].price = p
        /\ levels[s][n + 1].quantity = LevelQuantity(s, p)
    BY <1>2, FoundLevel
  <2>2. levels' = [levels EXCEPT ![s][n + 1].quantity = @ + q]
    BY <1>2 DEF addOrder, levelAdd, Changed
  <2> HIDE DEF n
  <2>3. levels' = [levels EXCEPT ![s][n + 1].quantity = LevelQuantity(s, p) + q]
    BY <2>1, <2>2
  <2> QED BY <2>1, <2>3, <1>1, ChangeReplaces
<1>3. CASE ~LevelExists(s, p, n)
  <2> DEFINE a == LevelQuantity(s, p) + q
             r == InsertAt(levels[s], n + 1, [price |-> p, quantity |-> a])
  <2>1. LowerBound(s, levels[s], p, n) /\ LevelQuantity(s, p) = 0
        /\ \A i \in DOMAIN levels[s] : levels[s][i].price # p
    BY <1>3, FoundLevel
  <2>2. levels' = [levels EXCEPT ![s] = InsertAt(@, n + 1, [price |-> p, quantity |-> q])]
    BY <1>3 DEF addOrder, levelAdd
  <2>3. a = q
    BY <2>1, <1>1
  <2> HIDE DEF n
  <2>4. levels' = [levels EXCEPT ![s] = r]
    BY <2>2, <2>3
  <2>5. a \in 1..MaxLevel
    BY <1>1
  <2> HIDE DEF a
  <2>6. LineOK(s, r) /\ ShowsAt(levels[s], r, p, a)
    BY <2>1, <2>5, LinesOK, InsertKeeps
  <2> HIDE DEF r
  <2>7. Replaces(s, p, a)
    BY <2>4, <2>6 DEF Replaces
  <2> QED BY <2>7 DEF a
<1> QED BY <1>2, <1>3

LEMMA CancelReplaces ==
  ASSUME IInv, NEW s \in Sides, NEW p \in Prices, NEW q \in 1..MaxQty, cancelOrder(s, p, q)
  PROVE  /\ LevelQuantity(s, p) > 0
         /\ Replaces(s, p, IF LevelQuantity(s, p) > q THEN LevelQuantity(s, p) - q ELSE 0)
<1> DEFINE n == findLevelIt(s, p)
           a == LevelQuantity(s, p)
<1>1. LevelExists(s, p, n)
  BY DEF cancelOrder, levelRemove
<1>2. /\ n + 1 \in DOMAIN levels[s] /\ levels[s][n + 1].price = p
      /\ levels[s][n + 1].quantity = a /\ a \in 1..MaxLevel
  BY <1>1, FoundLevel
<1>3. levels' = IF Emptied(levels[s][n + 1].quantity - q)
                  THEN [levels EXCEPT ![s] = RemoveAt(@, n + 1)]
                  ELSE [levels EXCEPT ![s][n + 1].quantity = @ + (-q)]
  BY DEF cancelOrder, levelRemove, Changed
<1>4. q \in Nat \ {0} /\ MaxLevel \in Nat
  BY VectorAssumption
<1> HIDE DEF n, a
<1>5. CASE a > q
  <2>1. ~Emptied(levels[s][n + 1].quantity - q) /\ a - q \in 1..MaxLevel /\ a + (-q) = a - q
    BY <1>2, <1>4, <1>5 DEF Emptied
  <2>2. levels' = [levels EXCEPT ![s][n + 1].quantity = a - q]
    BY <1>2, <1>3, <2>1
  <2>3. Replaces(s, p, a - q)
    BY <2>1, <2>2, <1>2, ChangeReplaces
  <2> QED BY <2>3, <1>2, <1>4, <1>5 DEF a
<1>6. CASE ~(a > q)
  <2>1. Emptied(levels[s][n + 1].quantity - q)
    BY <1>2, <1>4, <1>6 DEF Emptied
  <2> DEFINE r == RemoveAt(levels[s], n + 1)
  <2>2. levels' = [levels EXCEPT ![s] = r]
    BY <1>3, <2>1
  <2>3. LineOK(s, r) /\ ShowsAt(levels[s], r, p, 0)
    BY <1>2, LinesOK, EraseKeeps
  <2> HIDE DEF r
  <2>4. Replaces(s, p, 0)
    BY <2>2, <2>3 DEF Replaces
  <2> QED BY <2>4, <1>2, <1>4, <1>6 DEF a
<1> QED BY <1>5, <1>6

-----------------------------------------------------------------------------
LEMMA InitIInv == Init => IInv
<1> SUFFICES ASSUME Init PROVE IInv
  OBVIOUS
<1>1. levels \in [Sides -> Seq(Levels)] /\ \A s \in Sides : levels[s] = <<>>
  BY DEF Init
<1> QED BY <1>1 DEF IInv, SortedLine

LEMMA NextIInv == IInv /\ [Next]_levels => IInv'
<1> SUFFICES ASSUME IInv, [Next]_levels PROVE IInv'
  OBVIOUS
<1>1. ASSUME NEW s \in Sides, NEW p \in Prices, NEW q \in 1..MaxQty, addOrder(s, p, q) PROVE IInv'
  BY <1>1, AddReplaces, ReplaceKeeps
<1>2. ASSUME NEW s \in Sides, NEW p \in Prices, NEW q \in 1..MaxQty, cancelOrder(s, p, q) PROVE IInv'
  BY <1>2, CancelReplaces, ReplaceKeeps
<1>3. CASE UNCHANGED levels
  BY <1>3 DEF IInv, SortedLine, cmp
<1> QED BY <1>1, <1>2, <1>3 DEF Next

LEMMA VectorInvariant == Spec => []IInv
BY InitIInv, NextIInv, PTL DEF Spec

\* Every level in the vectors of book_l2_vector.hpp has a valid price and no negative quantity,
\* also when more is cancelled than was added.
THEOREM VectorTypes == Spec => []TypeOK
<1>1. IInv => TypeOK
  <2>1. Levels \subseteq [price : Prices, quantity : 0..MaxLevel]
    BY VectorAssumption DEF Levels
  <2>2. Seq(Levels) \subseteq Seq([price : Prices, quantity : 0..MaxLevel])
    <3> SUFFICES ASSUME NEW S, Levels \subseteq S PROVE Seq(Levels) \subseteq Seq(S)
      BY <2>1
    <3> SUFFICES ASSUME NEW q \in Seq(Levels) PROVE q \in Seq(S)
      OBVIOUS
    <3>1. Len(q) \in Nat /\ q \in [1..Len(q) -> Levels]
      BY LenProperties
    <3>2. q \in [1..Len(q) -> S]
      BY <3>1
    <3> QED BY <3>1, <3>2
  <2> QED BY <2>2 DEF IInv, TypeOK
<1> QED BY <1>1, VectorInvariant, PTL

\* What the searches of level_searcher.hpp rely on: each vector is strictly sorted and no
\* level is empty, after any sequence of calls.
THEOREM VectorsStaySorted == Spec => []LevelsSorted
<1>1. IInv => LevelsSorted
  <2> SUFFICES ASSUME IInv, NEW s \in Sides
               PROVE  /\ \A i, j \in DOMAIN levels[s] : i < j => cmp(s, levels[s][i].price, levels[s][j].price)
                      /\ \A i \in DOMAIN levels[s] : levels[s][i].quantity > 0
    BY DEF LevelsSorted
  <2>1. \A i \in DOMAIN levels[s] : levels[s][i].quantity \in 1..MaxLevel
    BY LinesOK, LineProperties
  <2>2. SortedLine(s, levels[s])
    BY DEF IInv
  <2> QED BY <2>1, <2>2, VectorAssumption DEF SortedLine
<1> QED BY <1>1, VectorInvariant, PTL

-----------------------------------------------------------------------------
\* The vector based book implements the map based one.

LEMMA MapBasedInit == Init => MapBased!Init
<1> SUFFICES ASSUME Init PROVE MapBased!Init
  OBVIOUS
<1>1. \A s \in Sides, p \in Prices : LevelQuantity(s, p) = 0
  BY DEF Init, LevelQuantity
<1> QED BY <1>1 DEF MapBased!Init, MapBased!Sides, MapBased!Prices, Sides, Prices

LEMMA MapBasedStep == IInv /\ [Next]_levels => [MapBased!Next]_Shown
<1> SUFFICES ASSUME IInv, [Next]_levels PROVE [MapBased!Next]_Shown
  OBVIOUS
<1>1. MapBased!Sides = Sides /\ MapBased!Prices = Prices
  BY DEF MapBased!Sides, MapBased!Prices, Sides, Prices
<1>2. \A s \in Sides, p \in Prices : Shown[s][p] = LevelQuantity(s, p)
  BY DEF Shown
<1>3. ASSUME NEW s \in Sides, NEW p \in Prices, NEW q \in 1..MaxQty, addOrder(s, p, q)
      PROVE  MapBased!addOrder(s, p, q)
  <2>1. Shown' = [Shown EXCEPT ![s][p] = LevelQuantity(s, p) + q]
    BY <1>3, AddReplaces, ReplaceKeeps
  <2>2. Shown[s][p] + q <= MaxLevel
    BY <1>2, <1>3 DEF addOrder
  <2>3. Shown' = [Shown EXCEPT ![s][p] = @ + q]
    BY <1>2, <2>1
  <2> QED BY <2>2, <2>3 DEF MapBased!addOrder, Shown
<1>4. ASSUME NEW s \in Sides, NEW p \in Prices, NEW q \in 1..MaxQty, cancelOrder(s, p, q)
      PROVE  MapBased!cancelOrder(s, p, q)
  <2>1. /\ LevelQuantity(s, p) > 0
        /\ Shown' = [Shown EXCEPT ![s][p] =
                       IF LevelQuantity(s, p) > q THEN LevelQuantity(s, p) - q ELSE 0]
    BY <1>4, CancelReplaces, ReplaceKeeps
  <2>2. Shown' = [Shown EXCEPT ![s][p] = IF @ > q THEN @ - q ELSE 0]
    BY <1>2, <2>1
  <2> QED BY <1>2, <2>1, <2>2 DEF MapBased!cancelOrder, Shown
<1>5. CASE UNCHANGED levels
  BY <1>5 DEF Shown, LevelQuantity
<1>6. CASE Next
  BY <1>1, <1>3, <1>4, <1>6 DEF Next, MapBased!Next
<1> QED BY <1>5, <1>6

\* Whatever is added and cancelled in whatever order, the vector based L2 book shows at every
\* price what the map based one shows.
THEOREM VectorImplementsMap == Spec => ImplementsL2OrderBook
<1>1. Spec => MapBased!Init
  BY MapBasedInit, PTL DEF Spec
<1>2. IInv /\ [Next]_levels => [MapBased!Next]_Shown
  BY MapBasedStep
<1> QED BY <1>1, <1>2, VectorInvariant, PTL DEF Spec, ImplementsL2OrderBook, MapBased!Spec, Shown
=============================================================================
