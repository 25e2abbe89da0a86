--------------------------- MODULE VectorBookL3_proofs ---------------------------
(***************************************************************************)
(* Theorems of VectorBookL3, for every set of orders, every bound and each *)
(* of the three level containers.  The vectors are dealt with first: each  *)
(* is strictly sorted and only its best level can be empty, so that what   *)
(* the searches find is the level of the price, and an insertion, erasure  *)
(* or change at that place leaves all other lines alone.  From there on    *)
(* the book is its lines, the orders waiting per side and price, and the   *)
(* inductive invariant relates the id map to them: whatever waits is what  *)
(* its own id leads to, and an iterator that does not dangle points at an  *)
(* order that waits at its own side and price.  A second invariant keeps   *)
(* every line in the order of creation times; with it each operation does  *)
(* to the orders what PriceTimeBook allows.                                *)
(***************************************************************************)
EXTENDS VectorBookL3, SequenceTheorems, FiniteSetTheorems, WellFoundedInduction, TLAPS

Levels == [price : Prices, orders : Seq(Orders)]

SortedLine(s, q) == \A i, j \in DOMAIN q : i < j => cmp(s, q[i].price, q[j].price)

\* The vector of side s as the book keeps it.
LineOK(s, q) == q \in Seq(Levels) /\ SortedLine(s, q)

OnlyBestEmpty(q) == \A i \in DOMAIN q : q[i].orders = <<>> => i = Len(q)
NoneEmpty(q)     == \A i \in DOMAIN q : q[i].orders # <<>>

\* Vector q has orders l at price p.
Shows(q, p, l) ==
  \/ \E i \in DOMAIN q : q[i].price = p /\ q[i].orders = l
  \/ l = <<>> /\ (\A i \in DOMAIN q : q[i].price # p)

\* The orders vector q has at price p.
LineAt(q, p) ==
  LET at == {i \in DOMAIN q : q[i].price = p}
  IN IF at = {} THEN <<>> ELSE q[CHOOSE i \in at : TRUE].orders

\* Offset n is the lower bound of price p.
LowerBound(s, q, p, n) ==
  /\ n \in 0..Len(q)
  /\ \A i \in DOMAIN q : cmp(s, q[i].price, p) <=> i <= n

\* Vector r differs from q at most in what it has at price p, which is l.
ShowsAt(q, r, p, l) ==
  /\ Shows(r, p, l)
  /\ \A e, m : e # p /\ Shows(q, e, m) => Shows(r, e, m)

-----------------------------------------------------------------------------
\* Vectors.

LEMMA LineProperties ==
  ASSUME NEW s, NEW q, LineOK(s, q)
  PROVE  /\ Len(q) \in Nat /\ DOMAIN q = 1..Len(q)
         /\ \A i \in DOMAIN q : q[i] \in Levels /\ q[i].price \in Prices /\ q[i].price \in Nat
                             /\ q[i].orders \in Seq(Orders)
<1>1. Len(q) \in Nat /\ DOMAIN q = 1..Len(q) /\ q \in [1..Len(q) -> Levels]
  BY LenProperties DEF LineOK
<1> QED BY <1>1, VectorBookAssumption DEF Levels, Prices

LEMMA LeastIndex ==
  ASSUME NEW X \in SUBSET Nat, X # {}
  PROVE  \E k \in X : \A j \in X : k <= j
<1>1. PICK k \in X : \A j \in X : ~(<<j, k>> \in OpToRel(<, Nat))
  BY NatLessThanWellFounded, WFMin
<1>2. \A j \in X : ~(j < k)
  BY <1>1 DEF OpToRel
<1> QED BY <1>2

\* The levels before a price are the first of the line, so their number is the lower bound.
LEMMA CountIsLowerBound ==
  ASSUME NEW s, NEW q, LineOK(s, q), NEW p \in Prices, NEW n,
         n = Cardinality({i \in DOMAIN q : cmp(s, q[i].price, p)})
  PROVE  LowerBound(s, q, p, n)
<1> DEFINE B == {i \in DOMAIN q : cmp(s, q[i].price, p)}
           X == {k \in Nat : \A i \in DOMAIN q : cmp(s, q[i].price, p) => i <= k}
<1>1. /\ Len(q) \in Nat /\ DOMAIN q = 1..Len(q) /\ p \in Nat
      /\ \A i \in DOMAIN q : q[i].price \in Nat
  BY LineProperties, VectorBookAssumption DEF Prices
<1>2. Len(q) \in X
  BY <1>1
<1>3. PICK k \in X : \A j \in X : k <= j
  BY <1>2, LeastIndex
<1>4. k \in 0..Len(q)
  BY <1>1, <1>2, <1>3
<1>5. \A i \in DOMAIN q : cmp(s, q[i].price, p) => i <= k
  BY <1>3
<1>6. ASSUME NEW i \in DOMAIN q, i <= k PROVE cmp(s, q[i].price, p)
  <2>1. k - 1 \in Nat /\ k - 1 \notin X
    BY <1>1, <1>3, <1>4, <1>6
  <2>2. PICK j \in DOMAIN q : cmp(s, q[j].price, p) /\ ~(j <= k - 1)
    BY <2>1
  <2>3. j = k
    BY <2>2, <1>1, <1>4, <1>5
  <2>4. CASE i = k
    BY <2>2, <2>3, <2>4
  <2>5. CASE i < k
    <3>1. cmp(s, q[i].price, q[j].price)
      BY <2>3, <2>5 DEF LineOK, SortedLine
    <3> QED BY <3>1, <2>2, <1>1 DEF cmp
  <2> QED BY <1>1, <1>4, <1>6, <2>4, <2>5
<1>7. B = 1..k
  BY <1>1, <1>4, <1>5, <1>6
<1>8. Cardinality(1..k) = k
  BY <1>4, FS_Interval
<1>9. n = k
  BY <1>7, <1>8
<1> QED BY <1>4, <1>5, <1>6, <1>9 DEF LowerBound

\* A level of the price can only be the one at the lower bound.
LEMMA LevelIsAtLowerBound ==
  ASSUME NEW s, NEW q, LineOK(s, q), NEW p \in Prices, NEW n, LowerBound(s, q, p, n),
         NEW i \in DOMAIN q, q[i].price = p
  PROVE  i = n + 1
<1>1. /\ Len(q) \in Nat /\ DOMAIN q = 1..Len(q) /\ p \in Nat /\ n \in 0..Len(q)
      /\ \A j \in DOMAIN q : q[j].price \in Nat
  BY LineProperties, VectorBookAssumption DEF Prices, LowerBound
<1>2. ~(i <= n)
  BY <1>1 DEF LowerBound, cmp
<1>3. n + 1 \in DOMAIN q /\ ~cmp(s, q[n + 1].price, p)
  BY <1>1, <1>2 DEF LowerBound
<1>4. ~(n + 1 < i)
  BY <1>3 DEF LineOK, SortedLine
<1> QED BY <1>1, <1>2, <1>4

\* A vector has one line at a price, and LineAt is that.
LEMMA LineShown ==
  ASSUME NEW s, NEW q, LineOK(s, q), NEW p \in Prices
  PROVE  /\ Shows(q, p, LineAt(q, p)) /\ LineAt(q, p) \in Seq(Orders)
         /\ \A l : Shows(q, p, l) => l = LineAt(q, p)
<1> DEFINE at == {i \in DOMAIN q : q[i].price = p}
           c == CHOOSE i \in at : TRUE
<1>1. /\ Len(q) \in Nat /\ DOMAIN q = 1..Len(q) /\ p \in Nat
      /\ \A j \in DOMAIN q : q[j].orders \in Seq(Orders)
  BY LineProperties, VectorBookAssumption DEF Prices
<1>2. LineAt(q, p) = IF at = {} THEN <<>> ELSE q[c].orders
  BY DEF LineAt
<1>3. PICK n : LowerBound(s, q, p, n)
  BY CountIsLowerBound
<1>4. \A i \in at : i = n + 1
  BY <1>3, LevelIsAtLowerBound
<1>5. CASE at = {}
  <2>1. LineAt(q, p) = <<>> /\ (\A i \in DOMAIN q : q[i].price # p)
    BY <1>2, <1>5
  <2> QED BY <2>1 DEF Shows
<1>6. CASE at # {}
  <2>1. c \in at
    BY <1>6
  <2>2. c \in DOMAIN q /\ q[c].price = p /\ LineAt(q, p) = q[c].orders
    BY <2>1, <1>2, <1>6
  <2>3. \A i \in DOMAIN q : q[i].price = p => i = c
    BY <2>1, <1>4
  <2> HIDE DEF c, at
  <2> QED BY <2>2, <2>3, <1>1 DEF Shows
<1> QED BY <1>5, <1>6

-----------------------------------------------------------------------------
\* What levelAddOrder and levelRemoveOrder do to a vector.

\* Sequence r is q without its element at index k.
Removed(q, k, r) ==
  /\ Len(r) = Len(q) - 1
  /\ \A j \in 1..Len(r) : r[j] = IF j < k THEN q[j] ELSE q[j + 1]

\* RemoveAt erases the element at its index, those behind it move up.
LEMMA RemoveAtMoves ==
  ASSUME NEW S, NEW q \in Seq(S), NEW k \in 1..Len(q), NEW r, r = RemoveAt(q, k)
  PROVE  r \in Seq(S) /\ Removed(q, k, r)
<1> DEFINE u == SubSeq(q, 1, k - 1)
           v == SubSeq(q, k + 1, Len(q))
<1>0. Len(q) \in Nat /\ k \in Nat /\ 1 <= k /\ k <= Len(q)
  BY LenProperties
<1>1. Len(q) \in Nat /\ q \in [1..Len(q) -> S]
  BY LenProperties
<1>2. /\ u \in Seq(S) /\ Len(u) = k - 1
      /\ \A i \in 1..(k - 1) : u[i] = q[i]
  <2>1. \A i \in 1..(k - 1) : q[i] \in S  BY <1>1
  <2>2. /\ u \in Seq(S) /\ Len(u) = IF 1 <= k - 1 THEN k - 1 - 1 + 1 ELSE 0
        /\ \A i \in 1..(k - 1 - 1 + 1) : u[i] = q[1 + i - 1]
    BY <2>1, SubSeqProperties
  <2>3. (IF 1 <= k - 1 THEN k - 1 - 1 + 1 ELSE 0) = k - 1
    BY <1>1
  <2>4. \A i \in 1..(k - 1) : i \in 1..(k - 1 - 1 + 1) /\ 1 + i - 1 = i
    BY <1>1
  <2> QED BY <2>2, <2>3, <2>4
<1>3. /\ v \in Seq(S) /\ Len(v) = Len(q) - k
      /\ \A i \in 1..(Len(q) - k) : v[i] = q[k + i]
  <2>1. \A i \in (k + 1)..Len(q) : q[i] \in S  BY <1>1
  <2>2. /\ v \in Seq(S) /\ Len(v) = IF k + 1 <= Len(q) THEN Len(q) - (k + 1) + 1 ELSE 0
        /\ \A i \in 1..(Len(q) - (k + 1) + 1) : v[i] = q[k + 1 + i - 1]
    BY <2>1, <1>1, SubSeqProperties
  <2>3. (IF k + 1 <= Len(q) THEN Len(q) - (k + 1) + 1 ELSE 0) = Len(q) - k
    BY <1>0
  <2>4. \A i \in 1..(Len(q) - k) : i \in 1..(Len(q) - (k + 1) + 1) /\ k + 1 + i - 1 = k + i
    BY <1>1
  <2> QED BY <2>2, <2>3, <2>4
<1>4. r = u \o v
  BY DEF RemoveAt
<1> HIDE DEF u, v
<1>5. /\ u \o v \in Seq(S) /\ Len(u \o v) = Len(u) + Len(v)
      /\ \A i \in 1..(Len(u) + Len(v)) : (u \o v)[i] = IF i <= Len(u) THEN u[i] ELSE v[i - Len(u)]
  BY <1>2, <1>3, ConcatProperties
<1>6. ASSUME NEW j \in 1..(Len(q) - 1) PROVE r[j] = IF j < k THEN q[j] ELSE q[j + 1]
  <2>1. CASE j < k
    BY <1>1, <1>2, <1>3, <1>4, <1>5, <2>1
  <2>2. CASE ~(j < k)
    <3>1. ~(j <= Len(u)) /\ j - Len(u) \in 1..(Len(q) - k) /\ k + (j - Len(u)) = j + 1
      BY <1>1, <1>2, <2>2
    <3>2. j \in 1..(Len(u) + Len(v))  BY <1>1, <1>2, <1>3
    <3>3. r[j] = v[j - Len(u)]  BY <3>1, <3>2, <1>4, <1>5
    <3>4. v[j - Len(u)] = q[j + 1]  BY <3>1, <1>3
    <3> QED BY <3>3, <3>4, <2>2
  <2> QED BY <2>1, <2>2
<1>7. Len(r) = Len(q) - 1
  BY <1>1, <1>2, <1>3, <1>4, <1>5
<1> QED BY <1>4, <1>5, <1>6, <1>7 DEF Removed

\* Sequence r is q with element e put at index k.
Inserted(q, k, e, r) ==
  /\ Len(r) = Len(q) + 1 /\ r[k] = e
  /\ \A j \in 1..Len(r) : j # k => r[j] = IF j < k THEN q[j] ELSE q[j - 1]

\* InsertAt puts the element at its index, those behind it move down.
LEMMA InsertAtMoves ==
  ASSUME NEW S, NEW q \in Seq(S), NEW k \in 1..(Len(q) + 1), NEW e \in S,
         NEW r, r = InsertAt(q, k, e)
  PROVE  r \in Seq(S) /\ Inserted(q, k, e, r)
<1> DEFINE u == SubSeq(q, 1, k - 1)
           v == SubSeq(q, k, Len(q))
           w == u \o <<e>>
<1>1. Len(q) \in Nat /\ q \in [1..Len(q) -> S]
  BY LenProperties
<1>2. /\ u \in Seq(S) /\ Len(u) = k - 1
      /\ \A i \in 1..(k - 1) : u[i] = q[i]
  <2>1. \A i \in 1..(k - 1) : q[i] \in S  BY <1>1
  <2>2. /\ u \in Seq(S) /\ Len(u) = IF 1 <= k - 1 THEN k - 1 - 1 + 1 ELSE 0
        /\ \A i \in 1..(k - 1 - 1 + 1) : u[i] = q[1 + i - 1]
    BY <2>1, SubSeqProperties
  <2>3. (IF 1 <= k - 1 THEN k - 1 - 1 + 1 ELSE 0) = k - 1
    BY <1>1
  <2>4. \A i \in 1..(k - 1) : i \in 1..(k - 1 - 1 + 1) /\ 1 + i - 1 = i
    BY <1>1
  <2> QED BY <2>2, <2>3, <2>4
<1>3. /\ v \in Seq(S) /\ Len(v) = Len(q) - k + 1
      /\ \A i \in 1..(Len(q) - k + 1) : v[i] = q[k + i - 1]
  <2>1. \A i \in k..Len(q) : q[i] \in S  BY <1>1
  <2>2. /\ v \in Seq(S) /\ Len(v) = IF k <= Len(q) THEN Len(q) - k + 1 ELSE 0
        /\ \A i \in 1..(Len(q) - k + 1) : v[i] = q[k + i - 1]
    BY <2>1, <1>1, SubSeqProperties
  <2>3. (IF k <= Len(q) THEN Len(q) - k + 1 ELSE 0) = Len(q) - k + 1
    BY <1>1
  <2> QED BY <2>2, <2>3
<1>4. r = w \o v
  BY DEF InsertAt
<1> HIDE DEF u, v
<1>5. <<e>> \in Seq(S) /\ Len(<<e>>) = 1 /\ <<e>>[1] = e
  OBVIOUS
<1>6. /\ w \in Seq(S) /\ Len(w) = k
      /\ \A i \in 1..k : w[i] = IF i < k THEN q[i] ELSE e
  <2>1. /\ w \in Seq(S) /\ Len(w) = Len(u) + Len(<<e>>)
        /\ \A i \in 1..(Len(u) + Len(<<e>>)) :
             w[i] = IF i <= Len(u) THEN u[i] ELSE <<e>>[i - Len(u)]
    BY <1>2, <1>5, ConcatProperties
  <2> HIDE DEF w
  <2>2. ASSUME NEW i \in 1..k PROVE w[i] = IF i < k THEN q[i] ELSE e
    <3>1. CASE i < k
      BY <1>1, <1>2, <1>5, <2>1, <3>1
    <3>2. CASE i = k
      <4>1. i - Len(u) = 1 /\ ~(i <= Len(u)) /\ i \in 1..(Len(u) + Len(<<e>>))
        BY <1>1, <1>2, <1>5, <3>2
      <4> QED BY <4>1, <1>5, <2>1, <3>2
    <3> QED BY <3>1, <3>2
  <2> QED BY <1>1, <1>2, <1>5, <2>1, <2>2
<1> HIDE DEF w
<1>7. /\ w \o v \in Seq(S) /\ Len(w \o v) = Len(w) + Len(v)
      /\ \A i \in 1..(Len(w) + Len(v)) : (w \o v)[i] = IF i <= Len(w) THEN w[i] ELSE v[i - Len(w)]
  BY <1>3, <1>6, ConcatProperties
<1>8. Len(r) = Len(q) + 1 /\ Len(w) + Len(v) = Len(q) + 1
  BY <1>1, <1>3, <1>4, <1>6, <1>7
<1>9. ASSUME NEW j \in 1..(Len(q) + 1)
      PROVE  r[j] = IF j = k THEN e ELSE IF j < k THEN q[j] ELSE q[j - 1]
  <2>1. CASE j <= k
    <3>1. j \in 1..k /\ j <= Len(w)  BY <1>1, <1>6, <2>1
    <3> QED BY <3>1, <1>4, <1>6, <1>7, <1>8
  <2>2. CASE ~(j <= k)
    <3>1. ~(j <= Len(w)) /\ j - Len(w) \in 1..(Len(q) - k + 1) /\ k + (j - Len(w)) - 1 = j - 1
      BY <1>1, <1>6, <2>2
    <3> QED BY <3>1, <1>1, <1>3, <1>4, <1>6, <1>7, <1>8, <2>2
  <2> QED BY <2>1, <2>2
<1> QED BY <1>1, <1>4, <1>7, <1>8, <1>9 DEF Inserted

\* A new level is put at the lower bound of its price: everything in front of it compares
\* before it and everything behind it does not.
LEMMA InsertKeeps ==
  ASSUME NEW s \in Sides, NEW q, LineOK(s, q), NEW p \in Prices, NEW n, LowerBound(s, q, p, n),
         NEW a \in Seq(Orders), \A i \in DOMAIN q : q[i].price # p,
         NEW r, r = InsertAt(q, n + 1, [price |-> p, orders |-> a])
  PROVE  /\ LineOK(s, r) /\ ShowsAt(q, r, p, a)
         /\ NoneEmpty(q) /\ a # <<>> => NoneEmpty(r)
<1> DEFINE k == n + 1
           e == [price |-> p, orders |-> a]
<1>1. /\ Len(q) \in Nat /\ DOMAIN q = 1..Len(q) /\ p \in Nat /\ q \in Seq(Levels)
      /\ \A j \in DOMAIN q : q[j].price \in Nat
      /\ n \in 0..Len(q) /\ k \in 1..(Len(q) + 1)
  BY LineProperties, VectorBookAssumption DEF Prices, LowerBound, LineOK
<1>2. e \in Levels
  BY DEF Levels
<1>3. /\ r \in Seq(Levels) /\ Len(r) = Len(q) + 1 /\ r[k] = e
      /\ \A j \in 1..Len(r) : j # k => r[j] = IF j < k THEN q[j] ELSE q[j - 1]
  <2>1. q \in Seq(Levels) /\ k \in 1..(Len(q) + 1) /\ e \in Levels /\ r = InsertAt(q, k, e)
    BY <1>1, <1>2
  <2> HIDE DEF k, e
  <2>2. r \in Seq(Levels) /\ Inserted(q, k, e, r)
    BY <2>1, InsertAtMoves
  <2> QED BY <2>2 DEF Inserted
<1>4. DOMAIN r = 1..(Len(q) + 1)
  BY <1>3, LenProperties
<1>5. r[k].price = p /\ r[k].orders = a
  BY <1>3
<1> HIDE DEF e, k
<1>6. ASSUME NEW i \in DOMAIN q
      PROVE  /\ i < k => r[i] = q[i] /\ i \in DOMAIN r
             /\ i >= k => r[i + 1] = q[i] /\ i + 1 \in DOMAIN r
  <2>1. CASE i < k
    <3>1. i \in 1..Len(r) /\ i # k
      BY <1>1, <1>3, <2>1
    <3>2. r[i] = q[i]
      BY <3>1, <1>3, <2>1
    <3>3. ~(i >= k) /\ i \in DOMAIN r
      BY <3>1, <1>1, <1>3, <1>4, <2>1
    <3> QED BY <3>2, <3>3
  <2>2. CASE i >= k
    <3>1. i + 1 \in 1..Len(r) /\ i + 1 # k /\ ~(i + 1 < k) /\ (i + 1) - 1 = i
      BY <1>1, <1>3, <1>4, <2>2
    <3> QED BY <3>1, <1>1, <1>3, <1>4, <2>2
  <2> QED BY <2>1, <2>2, <1>1
<1>7. SortedLine(s, r)
  <2> SUFFICES ASSUME NEW i \in DOMAIN r, NEW j \in DOMAIN r, i < j
               PROVE  cmp(s, r[i].price, r[j].price)
    BY DEF SortedLine
  <2>1. /\ i \in 1..(Len(q) + 1) /\ j \in 1..(Len(q) + 1) /\ Len(r) = Len(q) + 1
        /\ k \in 1..(Len(q) + 1)
        /\ i # k => r[i] = IF i < k THEN q[i] ELSE q[i - 1]
        /\ j # k => r[j] = IF j < k THEN q[j] ELSE q[j - 1]
    BY <1>1, <1>3, <1>4
  <2>2. CASE j < k
    <3>1. i \in DOMAIN q /\ j \in DOMAIN q /\ r[i] = q[i] /\ r[j] = q[j]
      BY <1>1, <2>1, <2>2
    <3> QED BY <3>1 DEF LineOK, SortedLine
  <2>3. CASE j = k
    <3>1. i \in DOMAIN q /\ r[i] = q[i] /\ i <= n
      BY <1>1, <2>1, <2>3 DEF k
    <3> QED BY <3>1, <1>5, <2>3 DEF LowerBound
  <2>4. CASE i < k /\ k < j
    <3>1. i \in DOMAIN q /\ j - 1 \in DOMAIN q /\ i < j - 1 /\ r[i] = q[i] /\ r[j] = q[j - 1]
      BY <1>1, <2>1, <2>4
    <3> QED BY <3>1 DEF LineOK, SortedLine
  <2>5. CASE i = k
    <3>1. j - 1 \in DOMAIN q /\ r[j] = q[j - 1] /\ ~(j - 1 <= n)
      BY <1>1, <2>1, <2>5 DEF k
    <3>2. ~cmp(s, q[j - 1].price, p) /\ q[j - 1].price # p
      BY <3>1 DEF LowerBound
    <3> QED BY <3>1, <3>2, <1>1, <1>5, <2>5 DEF cmp
  <2>6. CASE k < i
    <3>1. /\ i - 1 \in DOMAIN q /\ j - 1 \in DOMAIN q /\ i - 1 < j - 1
          /\ r[i] = q[i - 1] /\ r[j] = q[j - 1]
      BY <1>1, <2>1, <2>6
    <3> QED BY <3>1 DEF LineOK, SortedLine
  <2> QED BY <1>1, <2>1, <2>2, <2>3, <2>4, <2>5, <2>6
<1>8. k \in DOMAIN r
  BY <1>1, <1>4 DEF k
<1>9. ASSUME NEW x, NEW m, x # p, Shows(q, x, m) PROVE Shows(r, x, m)
  <2>1. CASE \E i \in DOMAIN q : q[i].price = x /\ q[i].orders = m
    BY <2>1, <1>6, <1>1, <1>4 DEF Shows, k
  <2>2. CASE m = <<>> /\ (\A i \in DOMAIN q : q[i].price # x)
    <3>1. ASSUME NEW j \in DOMAIN r PROVE r[j].price # x
      <4>1. CASE j = k
        BY <4>1, <1>5, <1>9
      <4>2. CASE j < k
        <5>1. j \in DOMAIN q /\ j # k /\ j \in 1..Len(r)
          BY <4>2, <1>1, <1>3, <1>4 DEF k
        <5>2. r[j] = q[j]
          BY <4>2, <5>1, <1>3
        <5> QED BY <5>1, <5>2, <2>2
      <4>3. CASE j > k
        <5>1. j - 1 \in DOMAIN q /\ r[j] = q[j - 1]
          BY <4>3, <1>1, <1>3, <1>4 DEF k
        <5> QED BY <5>1, <2>2
      <4> QED BY <4>1, <4>2, <4>3, <1>1, <1>4 DEF k
    <3> QED BY <3>1, <2>2 DEF Shows
  <2> QED BY <2>1, <2>2, <1>9 DEF Shows
<1>10. ASSUME NoneEmpty(q), a # <<>>, NEW j \in DOMAIN r PROVE r[j].orders # <<>>
  <2>1. CASE j = k
    BY <2>1, <1>5, <1>10
  <2>2. CASE j < k
    <3>1. j \in DOMAIN q /\ r[j] = q[j]
      BY <2>2, <1>1, <1>3, <1>4 DEF k
    <3> QED BY <3>1, <1>10 DEF NoneEmpty
  <2>3. CASE j > k
    <3>1. j - 1 \in DOMAIN q /\ r[j] = q[j - 1]
      BY <2>3, <1>1, <1>3, <1>4 DEF k
    <3> QED BY <3>1, <1>10 DEF NoneEmpty
  <2> QED BY <2>1, <2>2, <2>3, <1>1, <1>4 DEF k
<1>11. NoneEmpty(q) /\ a # <<>> => NoneEmpty(r)
  BY <1>10 DEF NoneEmpty
<1>12. LineOK(s, r)
  BY <1>3, <1>7 DEF LineOK
<1>13. Shows(r, p, a)
  BY <1>5, <1>8 DEF Shows
<1>14. ShowsAt(q, r, p, a)
  BY <1>9, <1>13 DEF ShowsAt
<1> QED BY <1>11, <1>12, <1>14

\* The level of a price is erased.
LEMMA EraseKeeps ==
  ASSUME NEW s \in Sides, NEW q, LineOK(s, q), NEW k \in DOMAIN q, NEW r, r = RemoveAt(q, k)
  PROVE  /\ LineOK(s, r) /\ ShowsAt(q, r, q[k].price, <<>>)
         /\ (\A j \in DOMAIN q : j # k => q[j].orders # <<>>) => NoneEmpty(r)
<1>1. /\ Len(q) \in Nat /\ DOMAIN q = 1..Len(q) /\ q \in Seq(Levels)
      /\ \A j \in DOMAIN q : q[j].price \in Nat
  BY LineProperties DEF LineOK
<1>2. /\ r \in Seq(Levels) /\ Len(r) = Len(q) - 1
      /\ \A j \in 1..Len(r) : r[j] = IF j < k THEN q[j] ELSE q[j + 1]
  <2>1. q \in Seq(Levels) /\ k \in 1..Len(q) /\ r = RemoveAt(q, k)
    BY <1>1
  <2>2. r \in Seq(Levels) /\ Removed(q, k, r)
    BY <2>1, RemoveAtMoves
  <2> QED BY <2>2 DEF Removed
<1>3. DOMAIN r = 1..(Len(q) - 1)
  BY <1>2, LenProperties
<1> DEFINE Old(j) == IF j < k THEN j ELSE j + 1
<1>4. \A j \in DOMAIN r : Old(j) \in DOMAIN q /\ Old(j) # k /\ r[j] = q[Old(j)]
  BY <1>1, <1>2, <1>3
<1>5. \A i, j \in DOMAIN r : i < j => Old(i) < Old(j)
  BY <1>1, <1>3
<1>6. SortedLine(s, r)
  BY <1>4, <1>5 DEF LineOK, SortedLine
<1>7. \A i \in DOMAIN q : i # k => \E j \in DOMAIN r : r[j] = q[i]
  <2> SUFFICES ASSUME NEW i \in DOMAIN q, i # k PROVE \E j \in DOMAIN r : r[j] = q[i]
    OBVIOUS
  <2>1. CASE i < k
    <3>1. i \in DOMAIN r /\ r[i] = q[i]
      BY <1>1, <1>2, <1>3, <2>1
    <3> QED BY <3>1
  <2>2. CASE i > k
    <3>1. i - 1 \in DOMAIN r /\ ~(i - 1 < k) /\ (i - 1) + 1 = i
      BY <1>1, <1>3, <2>2
    <3> QED BY <3>1, <1>2, <1>3
  <2> QED BY <1>1, <2>1, <2>2
<1>8. \A j \in DOMAIN r : r[j].price # q[k].price
  <2> SUFFICES ASSUME NEW j \in DOMAIN r, r[j].price = q[k].price PROVE FALSE
    OBVIOUS
  <2> DEFINE i == Old(j)
  <2>1. i \in DOMAIN q /\ i # k /\ q[i].price = q[k].price
    BY <1>4
  <2> HIDE DEF i
  <2>2. cmp(s, q[i].price, q[k].price) \/ cmp(s, q[k].price, q[i].price)
    BY <2>1, <1>1 DEF LineOK, SortedLine
  <2> QED BY <2>1, <2>2, <1>1 DEF cmp
<1> HIDE DEF Old
<1>9. ASSUME NEW x, NEW m, x # q[k].price, Shows(q, x, m) PROVE Shows(r, x, m)
  <2>1. CASE \E i \in DOMAIN q : q[i].price = x /\ q[i].orders = m
    BY <2>1, <1>7, <1>9 DEF Shows
  <2>2. CASE m = <<>> /\ (\A i \in DOMAIN q : q[i].price # x)
    BY <2>2, <1>4 DEF Shows
  <2> QED BY <2>1, <2>2, <1>9 DEF Shows
<1>10. (\A j \in DOMAIN q : j # k => q[j].orders # <<>>) => NoneEmpty(r)
  BY <1>4 DEF NoneEmpty
<1> QED BY <1>2, <1>6, <1>8, <1>9, <1>10 DEF LineOK, ShowsAt, Shows

\* The orders of a level change.
LEMMA ChangeKeeps ==
  ASSUME NEW s \in Sides, NEW q, LineOK(s, q), NEW k \in DOMAIN q, NEW a \in Seq(Orders),
         NEW r, r = [q EXCEPT ![k].orders = a]
  PROVE  /\ LineOK(s, r) /\ ShowsAt(q, r, q[k].price, a)
         /\ NoneEmpty(q) /\ (k = Len(q) \/ a # <<>>) => OnlyBestEmpty(r)
<1>1. /\ Len(q) \in Nat /\ DOMAIN q = 1..Len(q) /\ q \in [1..Len(q) -> Levels]
      /\ \A j \in DOMAIN q : q[j] \in Levels
  BY LineProperties, LenProperties DEF LineOK
<1>2. [q[k] EXCEPT !.orders = a] = [price |-> q[k].price, orders |-> a]
  BY <1>1 DEF Levels
<1>3. [price |-> q[k].price, orders |-> a] \in Levels
  BY <1>1 DEF Levels
<1>4. r = [q EXCEPT ![k] = [price |-> q[k].price, orders |-> a]]
  BY <1>2
<1>5. /\ r \in Seq(Levels) /\ DOMAIN r = DOMAIN q
      /\ r[k].price = q[k].price /\ r[k].orders = a
      /\ \A j \in DOMAIN q : j # k => r[j] = q[j]
  <2>1. r \in [1..Len(q) -> Levels]
    BY <1>1, <1>3, <1>4
  <2>2. r \in Seq(Levels)
    BY <2>1, <1>1
  <2> QED BY <1>1, <1>4, <2>2
<1>6. \A j \in DOMAIN q : r[j].price = q[j].price
  BY <1>5
<1>7. SortedLine(s, r)
  BY <1>5, <1>6 DEF LineOK, SortedLine
<1>8. ASSUME NEW x, NEW m, x # q[k].price, Shows(q, x, m) PROVE Shows(r, x, m)
  BY <1>5, <1>6, <1>8 DEF Shows
<1>9. Len(r) = Len(q)
  BY <1>1, <1>5, LenProperties
<1>10. NoneEmpty(q) /\ (k = Len(q) \/ a # <<>>) => OnlyBestEmpty(r)
  BY <1>5, <1>9 DEF NoneEmpty, OnlyBestEmpty
<1> QED BY <1>5, <1>7, <1>8, <1>10 DEF LineOK, ShowsAt, Shows

-----------------------------------------------------------------------------
\* The lines of the book.

\* The orders waiting on side s at price p.
Line(s, p) == LineAt(levels[s], p)

VectorsOK ==
  /\ levels \in [Sides -> Seq(Levels)]
  /\ \A s \in Sides : LineOK(s, levels[s]) /\ OnlyBestEmpty(levels[s])

\* Vector r has orders l at price p and otherwise the lines of q.
LineChanges(q, r, p, l) ==
  \A e \in Prices : LineAt(r, e) = IF e = p THEN l ELSE LineAt(q, e)

LEMMA ShowsChange ==
  ASSUME NEW s, NEW q, LineOK(s, q), NEW r, LineOK(s, r), NEW p \in Prices, NEW l, ShowsAt(q, r, p, l)
  PROVE  LineChanges(q, r, p, l)
<1> SUFFICES ASSUME NEW e \in Prices
             PROVE  LineAt(r, e) = IF e = p THEN l ELSE LineAt(q, e)
  BY DEF LineChanges
<1>1. \A m : Shows(r, e, m) => m = LineAt(r, e)
  BY LineShown
<1>2. CASE e = p
  BY <1>1, <1>2 DEF ShowsAt
<1>3. CASE e # p
  <2>1. Shows(q, e, LineAt(q, e))
    BY LineShown
  <2>2. Shows(r, e, LineAt(q, e))
    BY <1>3, <2>1 DEF ShowsAt
  <2> QED BY <1>1, <1>3, <2>2
<1> QED BY <1>2, <1>3

\* Only one line of the book changes.
OneLine(s, p, l) ==
  /\ VectorsOK'
  /\ \A r \in Sides, e \in Prices :
       LineAt(levels'[r], e) = IF r = s /\ e = p THEN l ELSE LineAt(levels[r], e)

LEMMA OneVector ==
  ASSUME VectorsOK, NEW s \in Sides, NEW p \in Prices, NEW l,
         NEW r, levels' = [levels EXCEPT ![s] = r],
         LineOK(s, r), OnlyBestEmpty(r), ShowsAt(levels[s], r, p, l)
  PROVE  OneLine(s, p, l)
<1>1. levels'[s] = r /\ \A t \in Sides : t # s => levels'[t] = levels[t]
  BY DEF VectorsOK
<1>2. LineChanges(levels[s], r, p, l)
  BY ShowsChange DEF VectorsOK
<1>3. \A t \in Sides : LineOK(t, levels'[t]) /\ OnlyBestEmpty(levels'[t])
  BY <1>1 DEF VectorsOK
<1>4. levels' \in [Sides -> Seq(Levels)]
  BY DEF VectorsOK, LineOK
<1>5. VectorsOK'
  BY <1>3, <1>4 DEF VectorsOK, LineOK, SortedLine, cmp, OnlyBestEmpty
<1>6. \A e \in Prices : LineAt(levels'[s], e) = IF e = p THEN l ELSE LineAt(levels[s], e)
  BY <1>1, <1>2 DEF LineChanges
<1> QED BY <1>1, <1>5, <1>6 DEF OneLine

\* The level found, or none of the price.
LEMMA FoundLevel ==
  ASSUME VectorsOK, NEW s \in Sides, NEW p \in Prices, NEW n, n = findLevelIt(s, p)
  PROVE  /\ LowerBound(s, levels[s], p, n)
         /\ LevelExists(s, p, n) =>
              /\ n + 1 \in DOMAIN levels[s] /\ levels[s][n + 1].price = p
              /\ levels[s][n + 1].orders = Line(s, p)
         /\ ~LevelExists(s, p, n) =>
              Line(s, p) = <<>> /\ \A i \in DOMAIN levels[s] : levels[s][i].price # p
<1>1. LineOK(s, levels[s])
  BY DEF VectorsOK
<1>2. LowerBound(s, levels[s], p, n)
  BY <1>1, CountIsLowerBound DEF findLevelIt
<1>3. /\ Len(levels[s]) \in Nat /\ DOMAIN levels[s] = 1..Len(levels[s]) /\ n \in 0..Len(levels[s])
  BY <1>1, <1>2, LineProperties DEF LowerBound
<1>4. \A l : Shows(levels[s], p, l) => l = Line(s, p)
  <2>1. \A l : Shows(levels[s], p, l) => l = LineAt(levels[s], p)
    BY <1>1, LineShown
  <2> QED BY <2>1 DEF Line
<1>5. ASSUME LevelExists(s, p, n)
      PROVE  /\ n + 1 \in DOMAIN levels[s] /\ levels[s][n + 1].price = p
             /\ levels[s][n + 1].orders = Line(s, p)
  <2>1. n + 1 \in DOMAIN levels[s] /\ levels[s][n + 1].price = p
    BY <1>3, <1>5 DEF LevelExists
  <2>2. Shows(levels[s], p, levels[s][n + 1].orders)
    BY <2>1 DEF Shows
  <2> QED BY <2>1, <2>2, <1>4
<1>6. ASSUME ~LevelExists(s, p, n)
      PROVE  Line(s, p) = <<>> /\ \A i \in DOMAIN levels[s] : levels[s][i].price # p
  <2>1. ASSUME NEW i \in DOMAIN levels[s], levels[s][i].price = p PROVE FALSE
    <3>1. i = n + 1
      BY <2>1, <1>1, <1>2, LevelIsAtLowerBound
    <3> QED BY <3>1, <2>1, <1>3, <1>6 DEF LevelExists
  <2>2. Shows(levels[s], p, <<>>)
    BY <2>1 DEF Shows
  <2> QED BY <2>1, <2>2, <1>4
<1> QED BY <1>2, <1>5, <1>6

\* A level that is there has the orders of its line.
LEMMA LevelHasLine ==
  ASSUME VectorsOK, NEW s \in Sides, NEW i \in DOMAIN levels[s]
  PROVE  /\ levels[s][i].price \in Prices /\ levels[s][i].orders \in Seq(Orders)
         /\ levels[s][i].orders = Line(s, levels[s][i].price)
         /\ i = findLevelIt(s, levels[s][i].price) + 1
<1> DEFINE q == levels[s]
           n == findLevelIt(s, q[i].price)
<1>1. LineOK(s, q)
  BY DEF VectorsOK
<1>2. q[i].price \in Prices /\ q[i].orders \in Seq(Orders)
  BY <1>1, LineProperties
<1>3. Shows(q, q[i].price, q[i].orders)
  BY DEF Shows
<1>4. q[i].orders = LineAt(q, q[i].price)
  BY <1>1, <1>2, <1>3, LineShown
<1>5. LowerBound(s, q, q[i].price, n)
  BY <1>2, FoundLevel
<1> HIDE DEF n
<1>6. i = n + 1
  BY <1>1, <1>2, <1>5, LevelIsAtLowerBound
<1> QED BY <1>2, <1>4, <1>6 DEF Line, n

LEMMA LineType ==
  ASSUME VectorsOK, NEW s \in Sides, NEW p \in Prices
  PROVE  Line(s, p) \in Seq(Orders)
<1>1. LineOK(s, levels[s])
  BY DEF VectorsOK
<1>2. LineAt(levels[s], p) \in Seq(Orders)
  BY <1>1, LineShown
<1> QED BY <1>2 DEF Line

\* Whoever waits waits in a level.
LEMMA LineHasLevel ==
  ASSUME VectorsOK, NEW s \in Sides, NEW p \in Prices, Line(s, p) # <<>>
  PROVE  LevelExists(s, p, findLevelIt(s, p))
BY FoundLevel

\* While the engine is not matching no level is empty.
LEMMA IdleNoneEmpty ==
  ASSUME VectorsOK, ~Busy, NEW s \in Sides
  PROVE  NoneEmpty(levels[s])
<1>1. OnlyBestEmpty(levels[s]) /\ ~LeftEmpty(s)
  BY DEF VectorsOK, Busy
<1>2. ASSUME NEW i \in DOMAIN levels[s], levels[s][i].orders = <<>> PROVE FALSE
  <2>1. i = Len(levels[s])
    BY <1>1, <1>2 DEF OnlyBestEmpty
  <2>2. levels[s] # <<>>
    BY <2>1
  <2> QED BY <1>1, <1>2, <2>1, <2>2 DEF LeftEmpty, BestLevel
<1> QED BY <1>2 DEF NoneEmpty

-----------------------------------------------------------------------------
\* What the operations do to the lines.

\* The line with the order put behind those in front of it.
Joined(line, o, t) == InsertAt(line, Cardinality(InFront(line, t)) + 1, o)

LEMMA JoinedIs ==
  ASSUME NEW line \in Seq(Orders), NEW o \in Orders, NEW t, NEW c, c = Cardinality(InFront(line, t)),
         NEW r, r = Joined(line, o, t)
  PROVE  /\ c \in 0..Len(line)
         /\ r \in Seq(Orders) /\ Inserted(line, c + 1, o, r)
         /\ r # <<>>
<1>1. Len(line) \in Nat /\ DOMAIN line = 1..Len(line)
  BY LenProperties
<1>2. IsFiniteSet(DOMAIN line) /\ Cardinality(DOMAIN line) = Len(line)
  BY <1>1, FS_Interval
<1>3. InFront(line, t) \in SUBSET DOMAIN line
  BY DEF InFront
<1>4. c \in Nat /\ c <= Len(line)
  <2>1. IsFiniteSet(InFront(line, t)) /\ Cardinality(InFront(line, t)) <= Cardinality(DOMAIN line)
    BY <1>2, <1>3, FS_Subset
  <2>2. Cardinality(InFront(line, t)) \in Nat
    BY <2>1, FS_CardinalityType
  <2> QED BY <1>2, <2>1, <2>2
<1>5. c + 1 \in 1..(Len(line) + 1) /\ r = InsertAt(line, c + 1, o)
  BY <1>1, <1>4 DEF Joined
<1>6. r \in Seq(Orders) /\ Inserted(line, c + 1, o, r)
  BY <1>5, InsertAtMoves
<1>7. r # <<>>
  <2>1. Len(r) = Len(line) + 1
    BY <1>6 DEF Inserted
  <2> QED BY <2>1, <1>1
<1> QED BY <1>1, <1>4, <1>6, <1>7

\* The orders of a level change.
LEMMA ChangeLine ==
  ASSUME VectorsOK, NEW s \in Sides, NEW p \in Prices, NEW k \in DOMAIN levels[s],
         levels[s][k].price = p, NEW l \in Seq(Orders), NoneEmpty(levels[s]), l # <<>>,
         levels' = [levels EXCEPT ![s][k].orders = l]
  PROVE  OneLine(s, p, l)
<1>1. PICK r : r = [levels[s] EXCEPT ![k].orders = l]
  OBVIOUS
<1>2. LineOK(s, levels[s])
  BY DEF VectorsOK
<1>3. LineOK(s, r) /\ ShowsAt(levels[s], r, p, l) /\ OnlyBestEmpty(r)
  BY <1>1, <1>2, ChangeKeeps
<1>4. levels' = [levels EXCEPT ![s] = r]
  BY <1>1 DEF VectorsOK
<1> QED BY <1>3, <1>4, OneVector

LEMMA NoneEmptyOnlyBest ==
  ASSUME NEW q, NoneEmpty(q)
  PROVE  OnlyBestEmpty(q)
BY DEF NoneEmpty, OnlyBestEmpty

\* An order joins the line of its side and price, in a level of its own if there is none.
LEMMA AddLine ==
  ASSUME VectorsOK, ~Busy, NEW o \in Orders, NEW s \in Sides, NEW p \in Prices, NEW t,
         Twins(Line(s, p), t) = {}, levelAddOrder(o, s, p, t)
  PROVE  OneLine(s, p, Joined(Line(s, p), o, t))
<1>1. PICK n : n = findLevelIt(s, p)
  OBVIOUS
<1>2. PICK l : l = Joined(Line(s, p), o, t)
  OBVIOUS
<1>3. l \in Seq(Orders) /\ l # <<>>
  <2>1. Line(s, p) \in Seq(Orders)
    BY LineType
  <2> QED BY <2>1, <1>2, JoinedIs
<1>4. NoneEmpty(levels[s]) /\ LineOK(s, levels[s])
  BY IdleNoneEmpty DEF VectorsOK
<1>5. LowerBound(s, levels[s], p, n)
  BY <1>1, FoundLevel
<1>6. CASE LevelExists(s, p, n)
  <2>1. /\ n + 1 \in DOMAIN levels[s] /\ levels[s][n + 1].price = p
        /\ levels[s][n + 1].orders = Line(s, p)
    BY <1>1, <1>6, FoundLevel
  <2>2. levels' = [levels EXCEPT ![s][n + 1].orders = l]
    BY <1>1, <1>2, <1>6, <2>1 DEF levelAddOrder, Joined
  <2>3. OneLine(s, p, l)
    BY <1>3, <1>4, <2>1, <2>2, ChangeLine
  <2> QED BY <1>2, <2>3
<1>7. CASE ~LevelExists(s, p, n)
  <2>1. Line(s, p) = <<>> /\ \A i \in DOMAIN levels[s] : levels[s][i].price # p
    BY <1>1, <1>7, FoundLevel
  <2>2. PICK r : r = InsertAt(levels[s], n + 1, [price |-> p, orders |-> l])
    OBVIOUS
  <2>3. levels' = [levels EXCEPT ![s] = r]
    <3>1. l = InsertAt(<<>>, Cardinality(InFront(<<>>, t)) + 1, o) /\ Twins(<<>>, t) = {}
      BY <1>2, <2>1 DEF Joined
    <3> QED BY <1>1, <1>7, <2>2, <3>1 DEF levelAddOrder
  <2>4. LineOK(s, r) /\ ShowsAt(levels[s], r, p, l) /\ NoneEmpty(r)
    BY <1>3, <1>4, <1>5, <2>1, <2>2, InsertKeeps
  <2>5. OneLine(s, p, l)
    BY <2>3, <2>4, OneVector, NoneEmptyOnlyBest
  <2> QED BY <1>2, <2>5
<1> QED BY <1>6, <1>7

\* Where an iterator to x points.
LEMMA PositionIs ==
  ASSUME NEW line, NEW x \in ToSet(line)
  PROVE  Position(line, x) \in DOMAIN line /\ line[Position(line, x)] = x
<1>1. \E k \in DOMAIN line : line[k] = x
  BY DEF ToSet
<1> QED BY <1>1 DEF Position

\* An order leaves the line it waits in.
LEMMA RemoveLine ==
  ASSUME VectorsOK, ~Busy, NEW x, NEW s, s = order[x].side, s \in Sides,
         NEW p, p = order[x].price, p \in Prices, x \in ToSet(Line(s, p)), levelRemoveOrder(x)
  PROVE  OneLine(s, p, RemoveAt(Line(s, p), Position(Line(s, p), x)))
<1>1. PICK n : n = findLevelIt(s, p)
  OBVIOUS
<1>2. PICK l : l = RemoveAt(Line(s, p), Position(Line(s, p), x))
  OBVIOUS
<1>3. Line(s, p) \in Seq(Orders) /\ Line(s, p) # <<>>
  <2>1. Line(s, p) # <<>>
    BY DEF ToSet
  <2> QED BY <2>1, LineType
<1>4. /\ n + 1 \in DOMAIN levels[s] /\ levels[s][n + 1].price = p
      /\ levels[s][n + 1].orders = Line(s, p)
  BY <1>1, <1>3, LineHasLevel, FoundLevel
<1>5. NoneEmpty(levels[s]) /\ LineOK(s, levels[s])
  BY IdleNoneEmpty DEF VectorsOK
<1>6. levels' = IF l = <<>> THEN [levels EXCEPT ![s] = RemoveAt(@, n + 1)]
                            ELSE [levels EXCEPT ![s][n + 1].orders = l]
  BY <1>1, <1>2, <1>4 DEF levelRemoveOrder
<1>7. l \in Seq(Orders)
  <2>1. Position(Line(s, p), x) \in 1..Len(Line(s, p))
    BY <1>3, PositionIs, LenProperties
  <2> QED BY <1>2, <1>3, <2>1, RemoveAtMoves
<1>8. CASE l = <<>>
  <2>1. PICK r : r = RemoveAt(levels[s], n + 1)
    OBVIOUS
  <2>2. LineOK(s, r) /\ ShowsAt(levels[s], r, p, l) /\ NoneEmpty(r)
    BY <1>4, <1>5, <1>8, <2>1, EraseKeeps DEF NoneEmpty
  <2>3. levels' = [levels EXCEPT ![s] = r]
    BY <1>6, <1>8, <2>1
  <2>4. OneLine(s, p, l)
    BY <2>2, <2>3, OneVector, NoneEmptyOnlyBest
  <2> QED BY <1>2, <2>4
<1>9. CASE l # <<>>
  <2>1. levels' = [levels EXCEPT ![s][n + 1].orders = l]
    BY <1>6, <1>9
  <2>2. OneLine(s, p, l)
    BY <1>4, <1>5, <1>7, <1>9, <2>1, ChangeLine
  <2> QED BY <1>2, <2>2
<1> QED BY <1>8, <1>9

\* An emptied level is erased, and none beside it.
LEMMA EmptyLine ==
  ASSUME VectorsOK, NEW s \in Sides, removeEmptyLevelImpl(s)
  PROVE  VectorsOK' /\ \A r \in Sides, e \in Prices : LineAt(levels'[r], e) = Line(r, e)
<1>1. PICK p : p = BestLevel(s).price
  OBVIOUS
<1>2. PICK k : k = Len(levels[s])
  OBVIOUS
<1>3. levels[s] # <<>> /\ levels[s][k].orders = <<>> /\ levels[s][k].price = p
  BY <1>1, <1>2 DEF removeEmptyLevelImpl, LeftEmpty, BestLevel
<1>4. LineOK(s, levels[s]) /\ OnlyBestEmpty(levels[s])
  BY DEF VectorsOK
<1>5. k \in DOMAIN levels[s]
  <2>1. k \in Nat /\ DOMAIN levels[s] = 1..k
    BY <1>2, <1>4, LineProperties
  <2>2. k # 0
    BY <1>2, <1>3, <1>4, EmptySeq DEF LineOK
  <2> QED BY <2>1, <2>2
<1>6. p \in Prices /\ Line(s, p) = <<>> /\ k = findLevelIt(s, p) + 1
  BY <1>3, <1>5, LevelHasLine
<1>7. PICK r : r = RemoveAt(levels[s], k)
  OBVIOUS
<1>8. levels' = [levels EXCEPT ![s] = r]
  BY <1>1, <1>6, <1>7 DEF removeEmptyLevelImpl
<1>9. LineOK(s, r) /\ ShowsAt(levels[s], r, p, <<>>) /\ NoneEmpty(r)
  <2>1. \A j \in DOMAIN levels[s] : j # k => levels[s][j].orders # <<>>
    BY <1>2, <1>4 DEF OnlyBestEmpty
  <2> QED BY <2>1, <1>3, <1>4, <1>5, <1>7, EraseKeeps
<1>10. OneLine(s, p, <<>>)
  BY <1>6, <1>8, <1>9, OneVector, NoneEmptyOnlyBest
<1> QED BY <1>6, <1>10 DEF OneLine, Line

\* The best level of a side that can trade.
LEMMA BestLine ==
  ASSUME VectorsOK, CanFill, NEW s \in Sides
  PROVE  /\ Len(levels[s]) \in DOMAIN levels[s] /\ NoneEmpty(levels[s])
         /\ BestLevel(s).price \in Prices
         /\ BestLevel(s).orders = Line(s, BestLevel(s).price)
         /\ Line(s, BestLevel(s).price) # <<>>
<1>1. levels[s] # <<>> /\ ~LeftEmpty(s)
  BY DEF CanFill, Crosses, Sides
<1>2. LineOK(s, levels[s]) /\ OnlyBestEmpty(levels[s])
  BY DEF VectorsOK
<1>3. Len(levels[s]) \in Nat /\ DOMAIN levels[s] = 1..Len(levels[s])
  BY <1>2, LineProperties
<1>4. Len(levels[s]) # 0
  BY <1>1, <1>2, EmptySeq DEF LineOK
<1>5. Len(levels[s]) \in DOMAIN levels[s]
  BY <1>3, <1>4
<1>6. BestLevel(s).orders # <<>>
  BY <1>1 DEF LeftEmpty
<1>7. NoneEmpty(levels[s])
  BY <1>2, <1>6 DEF OnlyBestEmpty, NoneEmpty, BestLevel
<1> QED BY <1>5, <1>6, <1>7, LevelHasLine DEF BestLevel

\* A round of matching changes the best line of each side.
LEMMA FillLines ==
  ASSUME VectorsOK, CanFill, NEW gone,
         levels' = [s \in Sides |->
             [levels[s] EXCEPT ![Len(levels[s])].orders =
                IF Head(@) \in gone THEN Tail(@) ELSE @]]
  PROVE  /\ VectorsOK'
         /\ \A s \in Sides, e \in Prices : LineAt(levels'[s], e) =
              IF e = BestLevel(s).price /\ Head(Line(s, e)) \in gone THEN Tail(Line(s, e)) ELSE Line(s, e)
<1>1. ASSUME NEW s \in Sides
      PROVE  /\ LineOK(s, levels'[s]) /\ OnlyBestEmpty(levels'[s])
             /\ \A e \in Prices : LineAt(levels'[s], e) =
                  IF e = BestLevel(s).price /\ Head(Line(s, e)) \in gone
                    THEN Tail(Line(s, e)) ELSE Line(s, e)
  <2>1. PICK p : p = BestLevel(s).price
    OBVIOUS
  <2>2. PICK k : k = Len(levels[s])
    OBVIOUS
  <2>3. /\ k \in DOMAIN levels[s] /\ NoneEmpty(levels[s]) /\ p \in Prices
        /\ levels[s][k].price = p /\ levels[s][k].orders = Line(s, p) /\ Line(s, p) # <<>>
    BY <2>1, <2>2, BestLine DEF BestLevel
  <2>4. PICK l : l = IF Head(Line(s, p)) \in gone THEN Tail(Line(s, p)) ELSE Line(s, p)
    OBVIOUS
  <2>5. l \in Seq(Orders)
    <3>1. Line(s, p) \in Seq(Orders)
      BY <2>3, LineType
    <3>2. Tail(Line(s, p)) \in Seq(Orders)
      BY <3>1, <2>3, HeadTailProperties
    <3> QED BY <3>1, <3>2, <2>4
  <2>6. levels'[s] = [levels[s] EXCEPT ![k].orders = l]
    BY <2>2, <2>3, <2>4
  <2>7. LineOK(s, levels[s])
    BY DEF VectorsOK
  <2>8. LineOK(s, levels'[s]) /\ ShowsAt(levels[s], levels'[s], p, l) /\ OnlyBestEmpty(levels'[s])
    BY <2>2, <2>3, <2>5, <2>6, <2>7, ChangeKeeps
  <2>9. \A e \in Prices : LineAt(levels'[s], e) = IF e = p THEN l ELSE LineAt(levels[s], e)
    <3>1. PICK r : r = levels'[s]
      OBVIOUS
    <3>2. LineOK(s, r) /\ ShowsAt(levels[s], r, p, l)
      BY <2>8, <3>1
    <3>3. LineChanges(levels[s], r, p, l)
      BY <2>3, <2>7, <3>2, ShowsChange
    <3> QED BY <3>1, <3>3 DEF LineChanges
  <2> QED BY <2>1, <2>4, <2>8, <2>9 DEF Line
<1>2. levels' \in [Sides -> Seq(Levels)]
  BY <1>1 DEF LineOK
<1>3. VectorsOK'
  BY <1>1, <1>2 DEF VectorsOK, LineOK, SortedLine, cmp, OnlyBestEmpty
<1> QED BY <1>1, <1>3

-----------------------------------------------------------------------------
\* The inductive invariant.

OrderFields == [side : Sides, price : Prices, remaining : 1..MaxQty, time : 0..MaxTime]

MapsOK ==
  /\ container \in Containers /\ crashed \in BOOLEAN
  /\ DOMAIN index \subseteq Orders
  /\ \A i \in DOMAIN index : index[i] \in Orders \cup {Dangling}
  /\ DOMAIN order = Known
  /\ \A x \in Known : order[x] \in OrderFields

\* Whatever waits is what its own id leads to, and waits once.
LinesIndexed ==
  \A s \in Sides, p \in Prices :
    /\ IsInjective(Line(s, p))
    /\ \A x \in ToSet(Line(s, p)) :
         x \in DOMAIN index /\ index[x] = x /\ order[x].side = s /\ order[x].price = p

\* What an iterator points at waits where its fields say.
IteratorsWait ==
  \A i \in Known : /\ index[i] \in Known
                   /\ index[i] \in ToSet(Line(order[index[i]].side, order[index[i]].price))

\* An id leads to another order only in a std::set, and then to one just like its own.
TwinsAlike == \A i \in Known : index[i] # i => container = "set" /\ SamePlace(order, i, index[i])

IInv == VectorsOK /\ MapsOK /\ LinesIndexed /\ IteratorsWait /\ TwinsAlike

LEMMA KnownOrder ==
  ASSUME IInv, NEW i \in Known
  PROVE  /\ i \in Orders /\ index[i] \in Orders /\ index[i] # Dangling
         /\ order[i] \in OrderFields /\ order[i].side \in Sides /\ order[i].price \in Prices
BY VectorBookAssumption DEF IInv, MapsOK, Known, OrderFields

\* An order that waits is known by its own id.
LEMMA WaitingKnown ==
  ASSUME IInv, NEW s \in Sides, NEW p \in Prices, NEW x \in ToSet(Line(s, p))
  PROVE  x \in Known /\ x \in Orders /\ index[x] = x /\ order[x].side = s /\ order[x].price = p
<1>1. x \in DOMAIN index /\ index[x] = x /\ order[x].side = s /\ order[x].price = p
  BY DEF IInv, LinesIndexed
<1>2. x \in Orders /\ x # Dangling
  BY <1>1, VectorBookAssumption DEF IInv, MapsOK
<1> QED BY <1>1, <1>2 DEF Known

\* An order that joins its line.
LEMMA JoinedSet ==
  ASSUME NEW line \in Seq(Orders), NEW o \in Orders, o \notin ToSet(line), IsInjective(line),
         NEW t, NEW r, r = Joined(line, o, t)
  PROVE  IsInjective(r) /\ \A x : x \in ToSet(r) <=> x = o \/ x \in ToSet(line)
<1>1. PICK c : c = Cardinality(InFront(line, t))
  OBVIOUS
<1>2. c \in 0..Len(line) /\ r \in Seq(Orders) /\ Inserted(line, c + 1, o, r)
  BY <1>1, JoinedIs
<1>3. /\ Len(line) \in Nat /\ DOMAIN line = 1..Len(line) /\ Len(r) = Len(line) + 1
      /\ DOMAIN r = 1..(Len(line) + 1)
  BY <1>2, LenProperties DEF Inserted
<1>4. /\ c + 1 \in DOMAIN r /\ r[c + 1] = o
      /\ \A j \in DOMAIN r : j # c + 1 => r[j] = IF j < c + 1 THEN line[j] ELSE line[j - 1]
  BY <1>2, <1>3 DEF Inserted
<1> DEFINE Old(j) == IF j < c + 1 THEN j ELSE j - 1
           New(i) == IF i < c + 1 THEN i ELSE i + 1
<1>5. \A j \in DOMAIN r : j # c + 1 => Old(j) \in DOMAIN line /\ r[j] = line[Old(j)]
  BY <1>2, <1>3, <1>4
<1>6. \A i, j \in DOMAIN r : i # c + 1 /\ j # c + 1 /\ Old(i) = Old(j) => i = j
  BY <1>2, <1>3
<1>7. \A i \in DOMAIN line : New(i) \in DOMAIN r /\ New(i) # c + 1 /\ Old(New(i)) = i
  BY <1>2, <1>3
<1> HIDE DEF Old, New
<1>8. \A i \in DOMAIN line : line[i] # o
  BY DEF ToSet
<1>9. IsInjective(r)
  BY <1>4, <1>5, <1>6, <1>8 DEF IsInjective
<1>10. ASSUME NEW x PROVE x \in ToSet(r) <=> x = o \/ x \in ToSet(line)
  <2>1. ASSUME x \in ToSet(r) PROVE x = o \/ x \in ToSet(line)
    BY <2>1, <1>4, <1>5 DEF ToSet
  <2>2. ASSUME x = o PROVE x \in ToSet(r)
    BY <2>2, <1>4 DEF ToSet
  <2>3. ASSUME x \in ToSet(line) PROVE x \in ToSet(r)
    <3>1. PICK i \in DOMAIN line : line[i] = x
      BY <2>3 DEF ToSet
    <3>2. New(i) \in DOMAIN r /\ r[New(i)] = x
      BY <1>5, <1>7, <3>1
    <3> QED BY <3>2 DEF ToSet
  <2> QED BY <2>1, <2>2, <2>3
<1> QED BY <1>9, <1>10

\* The orders ahead of one in its container.
AheadIn(q, o) == UNION {{q[j] : j \in 1..(k - 1)} : k \in {n \in DOMAIN q : q[n] = o}}

LEMMA AheadMeans ==
  ASSUME NEW q, NEW o, NEW x
  PROVE  x \in AheadIn(q, o) <=> \E k \in DOMAIN q : q[k] = o /\ \E j \in 1..(k - 1) : q[j] = x
BY DEF AheadIn

\* Only orders of the container are ahead of one.
LEMMA AheadInside ==
  ASSUME NEW S, NEW q \in Seq(S), NEW o, NEW x \in AheadIn(q, o)
  PROVE  x \in ToSet(q)
<1>1. Len(q) \in Nat /\ DOMAIN q = 1..Len(q)
  BY LenProperties
<1>2. PICK k \in DOMAIN q : q[k] = o /\ \E j \in 1..(k - 1) : q[j] = x
  BY AheadMeans
<1>3. PICK j \in 1..(k - 1) : q[j] = x
  BY <1>2
<1>4. j \in DOMAIN q
  BY <1>1
<1> QED BY <1>3, <1>4 DEF ToSet

\* Whoever leaves a container is no longer ahead of those that stay.
LEMMA RemoveAhead ==
  ASSUME NEW S, NEW q \in Seq(S), IsInjective(q), NEW k \in DOMAIN q, NEW r \in Seq(S),
         Removed(q, k, r), NEW y, y # q[k]
  PROVE  \A x : x \in AheadIn(r, y) <=> x \in AheadIn(q, y) /\ x # q[k]
<1>1. /\ Len(q) \in Nat /\ DOMAIN q = 1..Len(q) /\ k \in 1..Len(q)
      /\ DOMAIN r = 1..(Len(q) - 1) /\ Len(r) = Len(q) - 1
  BY LenProperties DEF Removed
<1>2. \A j \in DOMAIN r : r[j] = IF j < k THEN q[j] ELSE q[j + 1]
  BY <1>1 DEF Removed
<1>3. \A i, j \in DOMAIN q : q[i] = q[j] => i = j
  BY DEF IsInjective
<1>4. ASSUME NEW x \in AheadIn(r, y) PROVE x \in AheadIn(q, y) /\ x # q[k]
  <2>1. PICK m \in DOMAIN r : r[m] = y /\ \E j \in 1..(m - 1) : r[j] = x
    BY AheadMeans
  <2>2. PICK j \in 1..(m - 1) : r[j] = x
    BY <2>1
  <2> DEFINE Old(n) == IF n < k THEN n ELSE n + 1
  <2>3. Old(m) \in DOMAIN q /\ q[Old(m)] = y /\ Old(j) \in 1..(Old(m) - 1) /\ q[Old(j)] = x
    <3>1. j \in DOMAIN r  BY <1>1
    <3> QED BY <3>1, <1>1, <1>2, <2>1, <2>2
  <2>4. Old(j) \in DOMAIN q /\ Old(j) # k
    BY <1>1, <2>3
  <2> HIDE DEF Old
  <2>5. x # q[k]
    BY <1>3, <2>3, <2>4
  <2> QED BY <2>3, <2>5, AheadMeans
<1>5. ASSUME NEW x \in AheadIn(q, y), x # q[k] PROVE x \in AheadIn(r, y)
  <2>1. PICK m \in DOMAIN q : q[m] = y /\ \E j \in 1..(m - 1) : q[j] = x
    BY AheadMeans
  <2>2. PICK j \in 1..(m - 1) : q[j] = x
    BY <2>1
  <2> DEFINE New(n) == IF n < k THEN n ELSE n - 1
  <2>3. m # k /\ j # k /\ j \in DOMAIN q
    BY <1>1, <1>5, <2>1, <2>2
  <2>4. New(m) \in DOMAIN r /\ New(j) \in 1..(New(m) - 1)
    BY <1>1, <2>3
  <2>5. r[New(m)] = q[m]
    BY <1>1, <1>2, <2>3, <2>4
  <2>6. New(j) \in DOMAIN r /\ r[New(j)] = q[j]
    BY <1>1, <1>2, <2>3, <2>4
  <2> HIDE DEF New
  <2> QED BY <2>1, <2>2, <2>4, <2>5, <2>6, AheadMeans
<1> QED BY <1>4, <1>5

\* The orders of gone have left a line, those that stay are in the same order.
Departed(line, r, gone) ==
  /\ IsInjective(r)
  /\ \A x : x \in ToSet(r) <=> x \in ToSet(line) /\ x \notin gone
  /\ \A y : y \notin gone => \A x : x \in AheadIn(r, y) <=> x \in AheadIn(line, y) /\ x \notin gone

LEMMA NoneDeparted ==
  ASSUME NEW line \in Seq(Orders), IsInjective(line), NEW gone, \A x \in ToSet(line) : x \notin gone
  PROVE  Departed(line, line, gone)
<1>1. \A y, x : x \in AheadIn(line, y) => x \notin gone
  BY AheadInside
<1> QED BY <1>1 DEF Departed

\* An order that leaves its line.
LEMMA RemovedLine ==
  ASSUME NEW line \in Seq(Orders), IsInjective(line), NEW k \in DOMAIN line,
         NEW r \in Seq(Orders), Removed(line, k, r)
  PROVE  Departed(line, r, {line[k]})
<1>1. /\ Len(line) \in Nat /\ DOMAIN line = 1..Len(line) /\ k \in 1..Len(line)
      /\ DOMAIN r = 1..(Len(line) - 1)
  BY LenProperties DEF Removed
<1>2. \A j \in DOMAIN r : r[j] = IF j < k THEN line[j] ELSE line[j + 1]
  BY <1>1 DEF Removed
<1> DEFINE Old(j) == IF j < k THEN j ELSE j + 1
           New(i) == IF i < k THEN i ELSE i - 1
<1>3. \A j \in DOMAIN r : Old(j) \in DOMAIN line /\ Old(j) # k /\ r[j] = line[Old(j)]
  BY <1>1, <1>2
<1>4. \A i, j \in DOMAIN r : Old(i) = Old(j) => i = j
  BY <1>1
<1>5. \A i \in DOMAIN line : i # k => New(i) \in DOMAIN r /\ Old(New(i)) = i
  BY <1>1
<1> HIDE DEF Old, New
<1>6. IsInjective(r)
  BY <1>3, <1>4 DEF IsInjective
<1>7. ASSUME NEW x PROVE x \in ToSet(r) <=> x \in ToSet(line) /\ x # line[k]
  <2>1. ASSUME x \in ToSet(r) PROVE x \in ToSet(line) /\ x # line[k]
    BY <2>1, <1>3 DEF ToSet, IsInjective
  <2>2. ASSUME x \in ToSet(line), x # line[k] PROVE x \in ToSet(r)
    <3>1. PICK i \in DOMAIN line : line[i] = x
      BY <2>2 DEF ToSet
    <3>2. New(i) \in DOMAIN r /\ r[New(i)] = x
      BY <1>3, <1>5, <2>2, <3>1
    <3> QED BY <3>2 DEF ToSet
  <2> QED BY <2>1, <2>2
<1>8. ASSUME NEW y, y # line[k] PROVE \A x : x \in AheadIn(r, y) <=> x \in AheadIn(line, y) /\ x # line[k]
  BY <1>8, RemoveAhead
<1> QED BY <1>6, <1>7, <1>8 DEF Departed

LEMMA TailRemoves ==
  ASSUME NEW line \in Seq(Orders), line # <<>>
  PROVE  /\ 1 \in DOMAIN line /\ Head(line) = line[1] /\ Head(line) \in ToSet(line)
         /\ Tail(line) \in Seq(Orders) /\ Removed(line, 1, Tail(line))
<1>1. /\ Tail(line) \in Seq(Orders) /\ Len(Tail(line)) = Len(line) - 1
      /\ \A j \in 1..Len(Tail(line)) : Tail(line)[j] = line[j + 1]
  BY HeadTailProperties
<1>2. Len(line) \in Nat \ {0} /\ DOMAIN line = 1..Len(line)
  BY LenProperties, EmptySeq
<1>3. Head(line) = line[1]
  OBVIOUS
<1>4. \A j \in 1..Len(Tail(line)) : ~(j < 1)
  BY <1>1, <1>2
<1> QED BY <1>1, <1>2, <1>3, <1>4 DEF Removed, ToSet

\* Nobody is ahead of the front of a container.
LEMMA FrontAhead ==
  ASSUME NEW q \in Seq(Orders), q # <<>>, IsInjective(q), NEW x
  PROVE  x \notin AheadIn(q, Head(q))
<1>1. 1 \in DOMAIN q /\ Head(q) = q[1]
  BY TailRemoves
<1> SUFFICES ASSUME x \in AheadIn(q, Head(q)) PROVE FALSE
  OBVIOUS
<1>2. PICK k \in DOMAIN q : q[k] = q[1] /\ \E j \in 1..(k - 1) : q[j] = x
  BY <1>1, AheadMeans
<1>3. k = 1
  BY <1>1, <1>2 DEF IsInjective
<1> QED BY <1>2, <1>3

-----------------------------------------------------------------------------
\* Every step keeps the invariant.

\* The id of the new order leads to x, all others lead to what they led to.
LEMMA AddIs ==
  ASSUME VectorsOK, NEW o, NEW s \in Sides, NEW p \in Prices, NEW t, levelAddOrder(o, s, p, t)
  PROVE  /\ Twins(Line(s, p), t) # {} => levels' = levels
         /\ \E x \in IF Twins(Line(s, p), t) = {} THEN {o} ELSE Twins(Line(s, p), t) :
              index' = [i \in DOMAIN index \cup {o} |-> IF i = o THEN x ELSE index[i]]
<1>1. PICK n : n = findLevelIt(s, p)
  OBVIOUS
<1>2. CASE LevelExists(s, p, n)
  <2>1. levels[s][n + 1].orders = Line(s, p)
    BY <1>1, <1>2, FoundLevel
  <2> QED BY <1>1, <1>2, <2>1 DEF levelAddOrder
<1>3. CASE ~LevelExists(s, p, n)
  <2>1. Line(s, p) = <<>>
    BY <1>1, <1>3, FoundLevel
  <2> QED BY <1>1, <1>3, <2>1 DEF levelAddOrder
<1> QED BY <1>2, <1>3

\* What is left to show when an order was added.
AddStep(o, s, p, q, t, x) ==
  /\ o \in Orders \ DOMAIN index
  /\ index' = [i \in DOMAIN index \cup {o} |-> IF i = o THEN x ELSE index[i]]
  /\ order' = [y \in DOMAIN order \cup {o} |->
       IF y = o THEN [side |-> s, price |-> p, remaining |-> q, time |-> t] ELSE order[y]]
  /\ x = o \/ x \in Twins(Line(s, p), t)
  /\ \A r \in Sides, e \in Prices :
       /\ IsInjective(LineAt(levels'[r], e))
       /\ \A y : y \in ToSet(LineAt(levels'[r], e)) <=>
                   y \in ToSet(Line(r, e)) \/ (r = s /\ e = p /\ y = o /\ x = o)
  /\ VectorsOK'
  /\ UNCHANGED <<container, crashed>>

LEMMA AddIsStep ==
  ASSUME IInv, NEW o \in Orders, NEW s \in Sides, NEW p \in Prices, NEW q, NEW t,
         addOrderImpl(o, s, p, q, t)
  PROVE  \E x : AddStep(o, s, p, q, t, x)
<1>1. /\ ~Busy /\ o \notin DOMAIN index /\ levelAddOrder(o, s, p, t)
      /\ order' = [y \in DOMAIN order \cup {o} |->
           IF y = o THEN [side |-> s, price |-> p, remaining |-> q, time |-> t] ELSE order[y]]
      /\ UNCHANGED <<container, crashed>>
  BY DEF addOrderImpl
<1>2. VectorsOK
  BY DEF IInv
<1>3. \A r \in Sides, e \in Prices : IsInjective(Line(r, e)) /\ o \notin ToSet(Line(r, e))
  BY <1>1 DEF IInv, LinesIndexed
<1>4. CASE Twins(Line(s, p), t) = {}
  <2>1. index' = [i \in DOMAIN index \cup {o} |-> IF i = o THEN o ELSE index[i]]
    <3>1. PICK x \in IF Twins(Line(s, p), t) = {} THEN {o} ELSE Twins(Line(s, p), t) :
            index' = [i \in DOMAIN index \cup {o} |-> IF i = o THEN x ELSE index[i]]
      BY <1>1, <1>2, AddIs
    <3>2. x = o
      BY <1>4
    <3> QED BY <3>1, <3>2
  <2>2. PICK l : l = Joined(Line(s, p), o, t)
    OBVIOUS
  <2>3. OneLine(s, p, l)
    BY <1>1, <1>2, <1>4, <2>2, AddLine
  <2>4. IsInjective(l) /\ \A y : y \in ToSet(l) <=> y = o \/ y \in ToSet(Line(s, p))
    <3>1. Line(s, p) \in Seq(Orders)
      BY <1>2, LineType
    <3> QED BY <1>3, <2>2, <3>1, JoinedSet
  <2>5. ASSUME NEW r \in Sides, NEW e \in Prices
        PROVE  /\ IsInjective(LineAt(levels'[r], e))
               /\ \A y : y \in ToSet(LineAt(levels'[r], e)) <=>
                           y \in ToSet(Line(r, e)) \/ (r = s /\ e = p /\ y = o)
    <3>1. LineAt(levels'[r], e) = IF r = s /\ e = p THEN l ELSE Line(r, e)
      BY <2>3 DEF OneLine, Line
    <3>2. CASE r = s /\ e = p
      BY <2>4, <3>1, <3>2
    <3>3. CASE ~(r = s /\ e = p)
      BY <1>3, <3>1, <3>3
    <3> QED BY <3>2, <3>3
  <2>6. VectorsOK'
    BY <2>3 DEF OneLine
  <2>7. AddStep(o, s, p, q, t, o)
    BY <1>1, <2>1, <2>5, <2>6 DEF AddStep
  <2> QED BY <2>7
<1>5. CASE Twins(Line(s, p), t) # {}
  <2>1. levels' = levels
    BY <1>1, <1>2, <1>5, AddIs
  <2>2. PICK x \in Twins(Line(s, p), t) :
          index' = [i \in DOMAIN index \cup {o} |-> IF i = o THEN x ELSE index[i]]
    BY <1>1, <1>2, <1>5, AddIs
  <2>3. x # o
    BY <1>3 DEF Twins
  <2>4. VectorsOK'
    BY <1>2, <2>1 DEF VectorsOK, LineOK, SortedLine, cmp, OnlyBestEmpty
  <2>5. \A r \in Sides, e \in Prices : LineAt(levels'[r], e) = Line(r, e)
    BY <2>1 DEF Line
  <2>6. AddStep(o, s, p, q, t, x)
    BY <1>1, <1>3, <2>2, <2>3, <2>4, <2>5 DEF AddStep
  <2> QED BY <2>6
<1> QED BY <1>4, <1>5

\* What the order added makes of the maps.
Added(o, s, p, q, t, x) ==
  /\ o \in Orders /\ o \notin Known /\ x \in Orders /\ x # Dangling
  /\ \A i : i \in Known' <=> i \in Known \/ i = o
  /\ index'[o] = x /\ \A i \in DOMAIN index : index'[i] = index[i]
  /\ order'[o] = [side |-> s, price |-> p, remaining |-> q, time |-> t]
  /\ \A i \in Known : order'[i] = order[i]
  /\ x # o => x \in Known /\ container = "set" /\ x \in ToSet(Line(s, p)) /\ order[x].time = t

LEMMA AddKnown ==
  ASSUME IInv, NEW o, NEW s \in Sides, NEW p \in Prices, NEW q, NEW t, NEW x,
         AddStep(o, s, p, q, t, x)
  PROVE  Added(o, s, p, q, t, x)
<1>1. o \in Orders /\ o \notin Known /\ o \notin DOMAIN index
  BY DEF AddStep, Known
<1>2. x # o => x \in Known /\ x \in Orders /\ container = "set" /\ x \in ToSet(Line(s, p)) /\ order[x].time = t
  <2>1. x # o => x \in ToSet(Line(s, p)) /\ container = "set" /\ order[x].time = t
    BY DEF AddStep, Twins
  <2> QED BY <2>1, WaitingKnown
<1>3. x \in Orders /\ x # Dangling
  BY <1>1, <1>2, VectorBookAssumption
<1>4. index'[o] = x /\ \A i \in DOMAIN index : index'[i] = index[i]
  BY <1>1 DEF AddStep
<1>5. DOMAIN index' = DOMAIN index \cup {o}
  BY DEF AddStep
<1>6. \A i : i \in Known' <=> i \in Known \/ i = o
  BY <1>1, <1>3, <1>4, <1>5 DEF Known
<1>7. DOMAIN order = Known
  BY DEF IInv, MapsOK
<1>8. order'[o] = [side |-> s, price |-> p, remaining |-> q, time |-> t]
  BY DEF AddStep
<1>9. \A i \in Known : order'[i] = order[i]
  BY <1>1, <1>7 DEF AddStep
<1> QED BY <1>1, <1>2, <1>3, <1>4, <1>6, <1>8, <1>9 DEF Added

LEMMA AddKeeps ==
  ASSUME IInv, NEW o, NEW s \in Sides, NEW p \in Prices, NEW q \in 1..MaxQty,
         NEW t \in 0..MaxTime, NEW x, AddStep(o, s, p, q, t, x)
  PROVE  IInv'
<1>0. Added(o, s, p, q, t, x)
  BY AddKnown
<1>1. /\ o \in Orders /\ o \notin Known /\ x \in Orders /\ x # Dangling
      /\ \A i : i \in Known' <=> i \in Known \/ i = o
      /\ index'[o] = x /\ \A i \in DOMAIN index : index'[i] = index[i]
      /\ order'[o] = [side |-> s, price |-> p, remaining |-> q, time |-> t]
      /\ \A i \in Known : order'[i] = order[i]
      /\ x # o => x \in Known /\ container = "set" /\ x \in ToSet(Line(s, p)) /\ order[x].time = t
  BY <1>0 DEF Added
<1>2. /\ VectorsOK' /\ UNCHANGED <<container, crashed>>
      /\ DOMAIN index' = DOMAIN index \cup {o} /\ DOMAIN order' = DOMAIN order \cup {o}
      /\ o \notin DOMAIN index
  BY DEF AddStep
<1>3. \A r \in Sides, e \in Prices :
        /\ IsInjective(LineAt(levels'[r], e))
        /\ \A y : y \in ToSet(LineAt(levels'[r], e)) <=>
                    y \in ToSet(Line(r, e)) \/ (r = s /\ e = p /\ y = o /\ x = o)
  BY DEF AddStep
<1>4. DOMAIN order = Known
  BY DEF IInv, MapsOK
<1>5. MapsOK'
  <2>1. container' \in Containers /\ crashed' \in BOOLEAN /\ DOMAIN index' \subseteq Orders
    BY <1>1, <1>2 DEF IInv, MapsOK
  <2>2. \A i \in DOMAIN index' : index'[i] \in Orders \cup {Dangling}
    BY <1>1, <1>2 DEF IInv, MapsOK
  <2>3. DOMAIN order' = Known'
    BY <1>1, <1>2, <1>4
  <2>4. [side |-> s, price |-> p, remaining |-> q, time |-> t] \in OrderFields
    BY DEF OrderFields
  <2>5. \A i \in Known' : order'[i] \in OrderFields
    BY <1>1, <2>4 DEF IInv, MapsOK
  <2> QED BY <2>1, <2>2, <2>3, <2>5 DEF MapsOK, OrderFields
<1>6. LinesIndexed'
  <2> SUFFICES ASSUME NEW r \in Sides, NEW e \in Prices, NEW y \in ToSet(LineAt(levels'[r], e))
               PROVE  y \in DOMAIN index' /\ index'[y] = y /\ order'[y].side = r /\ order'[y].price = e
    BY <1>3 DEF LinesIndexed, Line
  <2>1. CASE y \in ToSet(Line(r, e))
    <3>1. y \in Known /\ index[y] = y /\ order[y].side = r /\ order[y].price = e
      BY <2>1, WaitingKnown
    <3> QED BY <3>1, <1>1, <1>2 DEF Known
  <2>2. CASE r = s /\ e = p /\ y = o /\ x = o
    BY <2>2, <1>1, <1>2
  <2> QED BY <1>3, <2>1, <2>2
<1>7. IteratorsWait'
  <2> SUFFICES ASSUME NEW i \in Known'
               PROVE  /\ index'[i] \in Known'
                      /\ index'[i] \in ToSet(LineAt(levels'[order'[index'[i]].side], order'[index'[i]].price))
    BY DEF IteratorsWait, Line
  <2>1. CASE i \in Known
    <3>1. PICK y : y = index[i]
      OBVIOUS
    <3>2. y \in Known /\ y \in ToSet(Line(order[y].side, order[y].price))
      BY <2>1, <3>1 DEF IInv, IteratorsWait
    <3>3. order[y].side \in Sides /\ order[y].price \in Prices
      BY <3>2, KnownOrder
    <3>4. order'[y] = order[y] /\ y \in Known' /\ index'[i] = y
      BY <1>1, <2>1, <3>1, <3>2 DEF Known
    <3>5. y \in ToSet(LineAt(levels'[order[y].side], order[y].price))
      BY <1>3, <3>2, <3>3
    <3> QED BY <3>4, <3>5
  <2>2. CASE i = o /\ x = o
    <3>1. o \in ToSet(LineAt(levels'[s], p))
      BY <1>3, <2>2
    <3> QED BY <2>2, <3>1, <1>1
  <2>3. CASE i = o /\ x # o
    <3>1. x \in Known /\ order[x].side = s /\ order[x].price = p /\ x \in ToSet(Line(s, p))
      BY <1>1, <2>3, WaitingKnown
    <3>2. x \in ToSet(LineAt(levels'[s], p))
      BY <1>3, <3>1
    <3> QED BY <2>3, <3>1, <3>2, <1>1
  <2> QED BY <1>1, <2>1, <2>2, <2>3
<1>8. TwinsAlike'
  <2> SUFFICES ASSUME NEW i \in Known', index'[i] # i
               PROVE  container' = "set" /\ SamePlace(order', i, index'[i])
    BY DEF TwinsAlike, SamePlace
  <2>1. CASE i \in Known
    <3>1. PICK y : y = index[i]
      OBVIOUS
    <3>2. index'[i] = y /\ y \in Known
      BY <1>1, <2>1, <3>1 DEF IInv, IteratorsWait, Known
    <3>3. container = "set" /\ SamePlace(order, i, y)
      BY <2>1, <3>1, <3>2 DEF IInv, TwinsAlike
    <3>4. order'[i] = order[i] /\ order'[y] = order[y] /\ {i, y} \subseteq DOMAIN order'
      BY <1>1, <1>2, <1>4, <2>1, <3>2
    <3> QED BY <1>2, <3>2, <3>3, <3>4 DEF SamePlace
  <2>2. CASE i = o
    <3>1. x # o
      BY <1>1, <2>2
    <3>2. x \in Known /\ order[x].side = s /\ order[x].price = p /\ order[x].time = t /\ container = "set"
      BY <1>1, <3>1, WaitingKnown
    <3>3. order'[x] = order[x] /\ {o, x} \subseteq DOMAIN order'
      BY <1>1, <1>2, <1>4, <3>2
    <3> QED BY <1>1, <1>2, <2>2, <3>2, <3>3 DEF SamePlace
  <2> QED BY <1>1, <2>1, <2>2
<1> QED BY <1>2, <1>5, <1>6, <1>7, <1>8 DEF IInv

\* What is left to show when orders have left the book.
DepartStep(ids, gone) ==
  /\ Erased(ids, gone)
  /\ \A i \in ids \cap DOMAIN index : index[i] \in gone
  /\ \A r \in Sides, e \in Prices :
       Departed(Line(r, e), LineAt(levels'[r], e), gone)
  /\ DOMAIN order' = Known'
  /\ \A y \in Known' : /\ order'[y].remaining \in 1..MaxQty
                       /\ order'[y] = [order[y] EXCEPT !.remaining = order'[y].remaining]
  /\ VectorsOK'
  /\ UNCHANGED <<container, crashed>>

LEMMA DepartKnown ==
  ASSUME IInv, NEW ids, NEW gone, DepartStep(ids, gone)
  PROVE  \A i \in Known' : /\ i \in Known /\ index[i] \notin gone /\ index'[i] = index[i]
                           /\ index[i] \in Known' /\ index'[index[i]] = index[i]
<1>1. \A j \in DOMAIN index' : /\ j \in DOMAIN index /\ j \notin ids
                               /\ index'[j] = IF index[j] \in gone THEN Dangling ELSE index[j]
  BY DEF DepartStep, Erased
<1>2. \A j : j \in Known' <=> j \in Known /\ j \notin ids /\ index[j] \notin gone
  <2>1. DOMAIN index' = DOMAIN index \ ids
    BY DEF DepartStep, Erased
  <2> QED BY <1>1, <2>1 DEF Known
<1> SUFFICES ASSUME NEW i \in Known'
             PROVE  /\ i \in Known /\ index[i] \notin gone /\ index'[i] = index[i]
                    /\ index[i] \in Known' /\ index'[index[i]] = index[i]
  OBVIOUS
<1>3. i \in Known /\ index[i] \notin gone /\ index'[i] = index[i]
  BY <1>1, <1>2 DEF Known
<1>4. PICK x : x = index[i]
  OBVIOUS
<1>5. x \in Known /\ index[x] = x
  <2>1. x \in Known /\ x \in ToSet(Line(order[x].side, order[x].price))
    BY <1>3, <1>4 DEF IInv, IteratorsWait
  <2>2. order[x].side \in Sides /\ order[x].price \in Prices
    BY <2>1, KnownOrder
  <2> QED BY <2>1, <2>2, WaitingKnown
<1>6. x \notin ids
  BY <1>3, <1>4, <1>5 DEF DepartStep, Known
<1>7. x \in Known'
  BY <1>2, <1>3, <1>4, <1>5, <1>6
<1>8. index'[x] = x
  BY <1>1, <1>3, <1>4, <1>5, <1>7 DEF Known
<1> QED BY <1>3, <1>4, <1>7, <1>8

LEMMA DepartKeeps ==
  ASSUME IInv, NEW ids, NEW gone, DepartStep(ids, gone)
  PROVE  IInv'
<1>1. \A i \in Known' : /\ i \in Known /\ index[i] \notin gone /\ index'[i] = index[i]
                        /\ index[i] \in Known' /\ index'[index[i]] = index[i]
  BY DepartKnown
<1>2. /\ VectorsOK' /\ UNCHANGED <<container, crashed>>
      /\ DOMAIN index' = DOMAIN index \ ids /\ DOMAIN order' = Known'
      /\ \A i \in ids \cap DOMAIN index : index[i] \in gone
      /\ \A j \in DOMAIN index' : index'[j] = IF index[j] \in gone THEN Dangling ELSE index[j]
  BY DEF DepartStep, Erased
<1>3. \A r \in Sides, e \in Prices :
       /\ IsInjective(LineAt(levels'[r], e))
       /\ \A y : y \in ToSet(LineAt(levels'[r], e)) <=> y \in ToSet(Line(r, e)) /\ y \notin gone
  BY DEF DepartStep, Departed
<1>4. \A y \in Known' : /\ order'[y] \in OrderFields
                        /\ order'[y].side = order[y].side /\ order'[y].price = order[y].price
                        /\ order'[y].time = order[y].time
  <2> SUFFICES ASSUME NEW y \in Known'
               PROVE  /\ order'[y] \in OrderFields
                      /\ order'[y].side = order[y].side /\ order'[y].price = order[y].price
                      /\ order'[y].time = order[y].time
    OBVIOUS
  <2>1. PICK n : n = order'[y].remaining
    OBVIOUS
  <2>2. n \in 1..MaxQty /\ order'[y] = [order[y] EXCEPT !.remaining = n]
    BY <2>1 DEF DepartStep
  <2>3. order[y] \in OrderFields
    BY <1>1, KnownOrder
  <2> QED BY <2>2, <2>3 DEF OrderFields
<1>5. MapsOK'
  <2>1. container' \in Containers /\ crashed' \in BOOLEAN /\ DOMAIN index' \subseteq Orders
    BY <1>2 DEF IInv, MapsOK
  <2>2. \A i \in DOMAIN index' : index'[i] \in Orders \cup {Dangling}
    BY <1>2 DEF IInv, MapsOK
  <2> QED BY <1>2, <1>4, <2>1, <2>2 DEF MapsOK, OrderFields
<1>6. LinesIndexed'
  <2> SUFFICES ASSUME NEW r \in Sides, NEW e \in Prices, NEW y \in ToSet(LineAt(levels'[r], e))
               PROVE  y \in DOMAIN index' /\ index'[y] = y /\ order'[y].side = r /\ order'[y].price = e
    BY <1>3 DEF LinesIndexed, Line
  <2>1. y \in ToSet(Line(r, e)) /\ y \notin gone
    BY <1>3
  <2>2. y \in Known /\ y \in DOMAIN index /\ index[y] = y /\ order[y].side = r /\ order[y].price = e
    BY <2>1, WaitingKnown DEF Known
  <2>3. y \in DOMAIN index' /\ index'[y] = y
    BY <1>2, <2>1, <2>2
  <2>4. y \in Known'
    BY <2>2, <2>3 DEF Known
  <2> QED BY <1>4, <2>2, <2>3, <2>4
<1>7. IteratorsWait'
  <2> SUFFICES ASSUME NEW i \in Known'
               PROVE  /\ index'[i] \in Known'
                      /\ index'[i] \in ToSet(LineAt(levels'[order'[index'[i]].side], order'[index'[i]].price))
    BY DEF IteratorsWait, Line
  <2>1. PICK x : x = index[i]
    OBVIOUS
  <2>2. x \in Known' /\ x \notin gone /\ index'[i] = x /\ i \in Known
    BY <1>1, <2>1
  <2>3. x \in Known /\ x \in ToSet(Line(order[x].side, order[x].price))
    BY <2>1, <2>2 DEF IInv, IteratorsWait
  <2>4. order[x].side \in Sides /\ order[x].price \in Prices
    BY <2>3, KnownOrder
  <2>5. x \in ToSet(LineAt(levels'[order[x].side], order[x].price))
    BY <1>3, <2>2, <2>3, <2>4
  <2> QED BY <1>4, <2>2, <2>5
<1>8. TwinsAlike'
  <2> SUFFICES ASSUME NEW i \in Known', index'[i] # i
               PROVE  container' = "set" /\ SamePlace(order', i, index'[i])
    BY DEF TwinsAlike, SamePlace
  <2>1. PICK x : x = index[i]
    OBVIOUS
  <2>2. x \in Known' /\ index'[i] = x /\ i \in Known
    BY <1>1, <2>1
  <2>3. container = "set" /\ SamePlace(order, i, x)
    BY <2>1, <2>2 DEF IInv, TwinsAlike
  <2>4. {i, x} \subseteq DOMAIN order'
    BY <1>2, <2>2
  <2> QED BY <1>2, <1>4, <2>2, <2>3, <2>4 DEF SamePlace
<1> QED BY <1>2, <1>5, <1>6, <1>7, <1>8 DEF IInv

LEMMA CancelIsStep ==
  ASSUME IInv, NEW id \in DOMAIN index, cancelOrderImpl(id)
  PROVE  DepartStep({id}, {index[id]})
<1>1. PICK x : x = index[id]
  OBVIOUS
<1>2. /\ ~Busy /\ id \in Known /\ levelRemoveOrder(x) /\ Erased({id}, {x})
      /\ order' = Restrict(order, Known') /\ UNCHANGED <<container, crashed>>
  BY <1>1 DEF cancelOrderImpl, Known
<1>3. PICK s : s = order[x].side
  OBVIOUS
<1>4. PICK p : p = order[x].price
  OBVIOUS
<1>5. x \in Known /\ x \in ToSet(Line(s, p)) /\ s \in Sides /\ p \in Prices /\ VectorsOK
  <2>1. x \in Known /\ x \in ToSet(Line(s, p))
    BY <1>1, <1>2, <1>3, <1>4 DEF IInv, IteratorsWait
  <2> QED BY <2>1, <1>3, <1>4, KnownOrder DEF IInv
<1>6. PICK k : k = Position(Line(s, p), x)
  OBVIOUS
<1>7. PICK l : l = RemoveAt(Line(s, p), k)
  OBVIOUS
<1>8. OneLine(s, p, l)
  BY <1>2, <1>3, <1>4, <1>5, <1>6, <1>7, RemoveLine
<1>9. Line(s, p) \in Seq(Orders) /\ IsInjective(Line(s, p)) /\ k \in DOMAIN Line(s, p) /\ Line(s, p)[k] = x
  BY <1>5, <1>6, LineType, PositionIs DEF IInv, LinesIndexed
<1>10. Departed(Line(s, p), l, {x})
  <2>1. k \in 1..Len(Line(s, p))
    BY <1>9, LenProperties
  <2>2. l \in Seq(Orders) /\ Removed(Line(s, p), k, l)
    BY <1>7, <1>9, <2>1, RemoveAtMoves
  <2> QED BY <1>9, <2>2, RemovedLine
<1>11. ASSUME NEW r \in Sides, NEW e \in Prices
       PROVE  Departed(Line(r, e), LineAt(levels'[r], e), {x})
  <2>1. LineAt(levels'[r], e) = IF r = s /\ e = p THEN l ELSE Line(r, e)
    BY <1>8 DEF OneLine, Line
  <2>2. CASE r = s /\ e = p
    BY <1>10, <2>1, <2>2
  <2>3. CASE ~(r = s /\ e = p)
    <3>1. IsInjective(Line(r, e)) /\ Line(r, e) \in Seq(Orders)
      BY <1>5, LineType DEF IInv, LinesIndexed
    <3>2. x \notin ToSet(Line(r, e))
      BY <1>3, <1>4, <2>3, WaitingKnown
    <3>3. Departed(Line(r, e), Line(r, e), {x})
      BY <3>1, <3>2, NoneDeparted
    <3> QED BY <2>1, <2>3, <3>3
  <2> QED BY <2>2, <2>3
<1>12. \A y \in Known' : y \in Known
  BY <1>2 DEF Known, Erased
<1>13. DOMAIN order' = Known' /\ \A y \in Known' : order'[y] = order[y]
  BY <1>2 DEF Restrict
<1>14. \A y \in Known' : /\ order'[y].remaining \in 1..MaxQty
                         /\ order'[y] = [order[y] EXCEPT !.remaining = order'[y].remaining]
  <2> SUFFICES ASSUME NEW y \in Known'
               PROVE  /\ order'[y].remaining \in 1..MaxQty
                      /\ order'[y] = [order[y] EXCEPT !.remaining = order'[y].remaining]
    OBVIOUS
  <2>1. order[y] \in OrderFields /\ order'[y] = order[y]
    BY <1>12, <1>13, KnownOrder
  <2> QED BY <2>1 DEF OrderFields
<1>15. VectorsOK' /\ \A i \in {id} \cap DOMAIN index : index[i] \in {x}
  BY <1>1, <1>8 DEF OneLine
<1>16. DepartStep({id}, {x})
  BY <1>2, <1>11, <1>13, <1>14, <1>15 DEF DepartStep
<1> QED BY <1>1, <1>16

\* The two orders a round of matching trades.
FirstBuy  == Head(BestLevel("Buy").orders)
FirstSell == Head(BestLevel("Sell").orders)

\* What a round of matching does, with q traded and the orders of gone filled.
FillStep(b, a, q, gone) ==
  /\ b = FirstBuy /\ a = FirstSell
  /\ q = Lesser(order[b].remaining, order[a].remaining)
  /\ gone = {x \in {b, a} : order[x].remaining = q}
  /\ levels' = [s \in Sides |->
             [levels[s] EXCEPT ![Len(levels[s])].orders =
                IF Head(@) \in gone THEN Tail(@) ELSE @]]
  /\ Erased(gone, gone)
  /\ order' = [x \in Known' |->
             IF x \in {b, a} THEN [order[x] EXCEPT !.remaining = @ - q] ELSE order[x]]
  /\ UNCHANGED <<container, crashed>>

LEMMA FillIs ==
  ASSUME Fill
  PROVE  \E b, a, q, gone : FillStep(b, a, q, gone)
<1>1. PICK b : b = FirstBuy
  OBVIOUS
<1>2. PICK a : a = FirstSell
  OBVIOUS
<1>3. PICK q : q = Lesser(order[b].remaining, order[a].remaining)
  OBVIOUS
<1>4. PICK gone : gone = {x \in {b, a} : order[x].remaining = q}
  OBVIOUS
<1>5. FillStep(b, a, q, gone)
  BY <1>1, <1>2, <1>3, <1>4 DEF Fill, FillStep, FirstBuy, FirstSell
<1> QED BY <1>5

\* The first order of a side is the front of the line at its best price.
LEMMA FirstWaits ==
  ASSUME IInv, CanFill, NEW s \in Sides, NEW x, x = Head(BestLevel(s).orders),
         NEW p, p = BestLevel(s).price
  PROVE  /\ p \in Prices /\ Line(s, p) \in Seq(Orders) /\ Line(s, p) # <<>>
         /\ x = Head(Line(s, p)) /\ x \in ToSet(Line(s, p))
         /\ x \in Known /\ x \in Orders /\ index[x] = x
         /\ order[x] \in OrderFields /\ order[x].side = s /\ order[x].price = p
<1>1. p \in Prices /\ BestLevel(s).orders = Line(s, p) /\ Line(s, p) # <<>>
  BY BestLine DEF IInv
<1>2. Line(s, p) \in Seq(Orders)
  BY <1>1, LineType DEF IInv
<1>3. x = Head(Line(s, p))
  BY <1>1
<1>4. x \in ToSet(Line(s, p))
  BY <1>1, <1>2, <1>3, TailRemoves
<1>5. x \in Known /\ x \in Orders /\ index[x] = x /\ order[x].side = s /\ order[x].price = p
  BY <1>1, <1>4, WaitingKnown
<1> QED BY <1>1, <1>2, <1>3, <1>4, <1>5, KnownOrder

\* What is traded, and what is left of the two orders.
LEMMA TradedIs ==
  ASSUME IInv, CanFill, NEW b, NEW a, NEW q, NEW gone, FillStep(b, a, q, gone)
  PROVE  /\ b \in Known /\ a \in Known /\ b # a
         /\ index[b] = b /\ index[a] = a
         /\ order[b].remaining \in 1..MaxQty /\ order[a].remaining \in 1..MaxQty
         /\ q \in 1..MaxQty /\ gone # {} /\ gone \subseteq {b, a}
         /\ \A x \in {b, a} : x \notin gone => order[x].remaining - q \in 1..MaxQty
<1>1. /\ b \in Known /\ index[b] = b /\ order[b] \in OrderFields /\ order[b].side = "Buy"
      /\ a \in Known /\ index[a] = a /\ order[a] \in OrderFields /\ order[a].side = "Sell"
  BY FirstWaits DEF FillStep, FirstBuy, FirstSell, Sides
<1>2. order[b].remaining \in 1..MaxQty /\ order[a].remaining \in 1..MaxQty /\ b # a
  BY <1>1 DEF OrderFields
<1>3. q = Lesser(order[b].remaining, order[a].remaining)
  BY DEF FillStep
<1>4. /\ q \in 1..MaxQty /\ q <= order[b].remaining /\ q <= order[a].remaining
      /\ q = order[b].remaining \/ q = order[a].remaining
  BY <1>2, <1>3, VectorBookAssumption DEF Lesser
<1>5. gone = {x \in {b, a} : order[x].remaining = q}
  BY DEF FillStep
<1>6. \A x \in {b, a} : x \notin gone => order[x].remaining - q \in 1..MaxQty
  <2> SUFFICES ASSUME NEW x \in {b, a}, x \notin gone PROVE order[x].remaining - q \in 1..MaxQty
    OBVIOUS
  <2>1. order[x].remaining # q
    BY <1>5
  <2>2. order[x].remaining \in 1..MaxQty /\ q <= order[x].remaining
    BY <1>2, <1>4
  <2> QED BY <2>1, <2>2, <1>4, VectorBookAssumption
<1>7. gone # {}
  BY <1>4, <1>5
<1> QED BY <1>1, <1>2, <1>4, <1>5, <1>6, <1>7

LEMMA FillIsDepart ==
  ASSUME IInv, CanFill, NEW b, NEW a, NEW q, NEW gone, FillStep(b, a, q, gone)
  PROVE  DepartStep(gone, gone)
<1>1. /\ b \in Known /\ a \in Known /\ b # a /\ index[b] = b /\ index[a] = a
      /\ gone \subseteq {b, a}
      /\ \A x \in {b, a} : x \notin gone => order[x].remaining - q \in 1..MaxQty
  BY TradedIs
<1>2. /\ VectorsOK'
      /\ \A s \in Sides, e \in Prices : LineAt(levels'[s], e) =
           IF e = BestLevel(s).price /\ Head(Line(s, e)) \in gone THEN Tail(Line(s, e)) ELSE Line(s, e)
  BY FillLines DEF FillStep, IInv
<1>3. ASSUME NEW r \in Sides, NEW e \in Prices
      PROVE  Departed(Line(r, e), LineAt(levels'[r], e), gone)
  <2>1. PICK p : p = BestLevel(r).price
    OBVIOUS
  <2>2. PICK x : x = Head(BestLevel(r).orders)
    OBVIOUS
  <2>3. /\ p \in Prices /\ Line(r, p) \in Seq(Orders) /\ Line(r, p) # <<>>
        /\ x = Head(Line(r, p)) /\ order[x].side = r /\ order[x].price = p
    BY <2>1, <2>2, FirstWaits
  <2>4. IsInjective(Line(r, e)) /\ IsInjective(Line(r, p)) /\ Line(r, e) \in Seq(Orders)
    BY <2>3, LineType DEF IInv, LinesIndexed
  <2>5. \A y \in ToSet(Line(r, e)) : y \in gone => y = x /\ e = p
    <3> SUFFICES ASSUME NEW y \in ToSet(Line(r, e)), y \in gone PROVE y = x /\ e = p
      OBVIOUS
    <3>1. order[y].side = r /\ order[y].price = e
      BY WaitingKnown
    <3>2. order[b].side = "Buy" /\ order[a].side = "Sell"
      BY FirstWaits DEF FillStep, FirstBuy, FirstSell, Sides
    <3>3. y = x
      <4>1. CASE y = b
        BY <4>1, <3>1, <3>2, <2>2 DEF FillStep, FirstBuy
      <4>2. CASE y = a
        BY <4>2, <3>1, <3>2, <2>2 DEF FillStep, FirstSell
      <4> QED BY <1>1, <4>1, <4>2
    <3> QED BY <3>1, <3>3, <2>3
  <2>6. CASE e = p /\ x \in gone
    <3>1. PICK l : l = Line(r, p)
      OBVIOUS
    <3>2. l \in Seq(Orders) /\ l # <<>> /\ IsInjective(l) /\ Head(l) = x
      BY <2>3, <2>4, <3>1
    <3>3. /\ 1 \in DOMAIN l /\ l[1] = x
          /\ Tail(l) \in Seq(Orders) /\ Removed(l, 1, Tail(l))
      BY <3>2, TailRemoves
    <3>4. Departed(l, Tail(l), {x})
      BY <3>2, <3>3, RemovedLine
    <3>5. LineAt(levels'[r], e) = Tail(l)
      BY <1>2, <2>1, <2>3, <2>6, <3>1
    <3>6. \A y \in ToSet(l) : y \in gone <=> y \in {x}
      BY <2>5, <2>6, <3>1
    <3>7. \A y : \A z \in AheadIn(l, y) : z \in ToSet(l)
      BY <3>2, AheadInside
    <3>8. \A z : z \notin gone => z # x
      BY <2>6
    <3>9. Departed(l, Tail(l), gone)
      BY <3>4, <3>6, <3>7, <3>8 DEF Departed
    <3> QED BY <2>6, <3>1, <3>5, <3>9
  <2>7. CASE ~(e = p /\ x \in gone)
    <3>1. LineAt(levels'[r], e) = Line(r, e)
      BY <1>2, <2>1, <2>3, <2>7
    <3>2. \A y \in ToSet(Line(r, e)) : y \notin gone
      BY <2>5, <2>7
    <3>3. Departed(Line(r, e), Line(r, e), gone)
      BY <2>4, <3>2, NoneDeparted
    <3> QED BY <3>1, <3>3
  <2> QED BY <2>6, <2>7
<1>4. \A y \in Known' : y \in Known /\ y \notin gone
  BY DEF FillStep, Known, Erased
<1>5. DOMAIN order' = Known' /\ \A y \in Known' : order'[y] =
        IF y \in {b, a} THEN [order[y] EXCEPT !.remaining = @ - q] ELSE order[y]
  BY DEF FillStep
<1>6. ASSUME NEW y \in Known'
      PROVE  /\ order'[y].remaining \in 1..MaxQty
             /\ order'[y] = [order[y] EXCEPT !.remaining = order'[y].remaining]
  <2>1. order[y] \in OrderFields
    BY <1>4, KnownOrder
  <2>2. CASE y \in {b, a}
    <3>1. PICK n : n = order[y].remaining - q
      OBVIOUS
    <3>2. n \in 1..MaxQty
      BY <1>1, <1>4, <2>2, <3>1
    <3>3. order'[y] = [order[y] EXCEPT !.remaining = n]
      BY <1>5, <2>2, <3>1
    <3>4. order'[y].remaining = n
      BY <2>1, <3>3 DEF OrderFields
    <3> QED BY <3>2, <3>3, <3>4
  <2>3. CASE y \notin {b, a}
    BY <1>5, <2>1, <2>3 DEF OrderFields
  <2> QED BY <2>2, <2>3
<1>7. \A i \in gone \cap DOMAIN index : index[i] \in gone
  BY <1>1
<1>8. Erased(gone, gone) /\ UNCHANGED <<container, crashed>>
  BY DEF FillStep
<1> QED BY <1>2, <1>3, <1>5, <1>6, <1>7, <1>8 DEF DepartStep

\* A step that leaves the lines and the maps alone.
LEMMA SameLinesKeep ==
  ASSUME IInv, VectorsOK', \A r \in Sides, e \in Prices : LineAt(levels'[r], e) = Line(r, e),
         UNCHANGED <<container, order, index>>, crashed' \in BOOLEAN
  PROVE  IInv'
<1>1. Known' = Known /\ \A i, x : SamePlace(order', i, x) <=> SamePlace(order, i, x)
  BY DEF Known
<1>2. MapsOK'
  BY <1>1 DEF IInv, MapsOK, OrderFields
<1>3. LinesIndexed'
  BY DEF IInv, LinesIndexed, Line
<1>4. IteratorsWait'
  <2> SUFFICES ASSUME NEW i \in Known
               PROVE  /\ index[i] \in Known
                      /\ index[i] \in ToSet(LineAt(levels'[order[index[i]].side], order[index[i]].price))
    BY <1>1 DEF IteratorsWait, Line
  <2>1. /\ index[i] \in Known
        /\ index[i] \in ToSet(Line(order[index[i]].side, order[index[i]].price))
    BY DEF IInv, IteratorsWait
  <2>2. order[index[i]].side \in Sides /\ order[index[i]].price \in Prices
    BY <2>1, KnownOrder
  <2> QED BY <2>1, <2>2
<1>5. TwinsAlike'
  BY <1>1 DEF IInv, TwinsAlike, SamePlace
<1> QED BY <1>2, <1>3, <1>4, <1>5 DEF IInv

LEMMA StutterKeeps ==
  ASSUME IInv, UNCHANGED <<container, order, levels, index>>, crashed' \in BOOLEAN
  PROVE  IInv'
<1>1. VectorsOK'
  BY DEF IInv, VectorsOK, LineOK, SortedLine, cmp, OnlyBestEmpty
<1>2. \A r \in Sides, e \in Prices : LineAt(levels'[r], e) = Line(r, e)
  BY DEF Line
<1> QED BY <1>1, <1>2, SameLinesKeep

LEMMA TimesAre ==
  ASSUME NEW t \in Times
  PROVE  t \in 0..MaxTime
BY VectorBookAssumption DEF Times

LEMMA InitIInv == Init => IInv
<1> SUFFICES ASSUME Init PROVE IInv
  OBVIOUS
<1>1. levels \in [Sides -> Seq(Levels)] /\ \A s \in Sides : levels[s] = <<>>
  BY DEF Init
<1>2. VectorsOK
  BY <1>1 DEF VectorsOK, LineOK, SortedLine, OnlyBestEmpty
<1>3. Known = {} /\ DOMAIN index = {} /\ DOMAIN order = {}
  BY DEF Init, Known
<1>4. \A s \in Sides, p \in Prices : Line(s, p) = <<>>
  BY <1>1 DEF Line, LineAt
<1>5. LinesIndexed
  BY <1>4 DEF LinesIndexed, IsInjective, ToSet
<1> QED BY <1>2, <1>3, <1>5 DEF Init, IInv, MapsOK, IteratorsWait, TwinsAlike

LEMMA NextIInv == IInv /\ [Next]_vars => IInv'
<1> SUFFICES ASSUME IInv, [Next]_vars PROVE IInv'
  OBVIOUS
<1>0. crashed \in BOOLEAN
  BY DEF IInv, MapsOK
<1>1. ASSUME NEW o \in Orders, NEW s \in Sides, NEW p \in Prices, NEW q \in 1..MaxQty,
             NEW t \in Times, addOrderImpl(o, s, p, q, t)
      PROVE  IInv'
  <2>1. PICK x : AddStep(o, s, p, q, t, x)
    BY <1>1, AddIsStep
  <2> QED BY <2>1, AddKeeps, TimesAre
<1>2. ASSUME NEW id \in DOMAIN index, cancelOrderImpl(id) PROVE IInv'
  BY <1>2, CancelIsStep, DepartKeeps
<1>3. CASE Fill
  <2>1. PICK b, a, q, gone : FillStep(b, a, q, gone)
    BY <1>3, FillIs
  <2>2. CanFill
    BY <1>3 DEF Fill
  <2> QED BY <2>1, <2>2, FillIsDepart, DepartKeeps
<1>4. ASSUME NEW s \in Sides, removeEmptyLevelImpl(s) PROVE IInv'
  <2>1. UNCHANGED <<container, order, index, crashed>>
    BY <1>4 DEF removeEmptyLevelImpl
  <2>2. VectorsOK' /\ \A r \in Sides, e \in Prices : LineAt(levels'[r], e) = Line(r, e)
    BY <1>4, EmptyLine DEF IInv
  <2> QED BY <1>0, <2>1, <2>2, SameLinesKeep
<1>5. CASE FillFaults \/ (\E id \in DOMAIN index : CancelFaults(id))
  <2>1. UNCHANGED <<container, order, levels, index>> /\ crashed' \in BOOLEAN
    BY <1>5 DEF FillFaults, CancelFaults
  <2> QED BY <2>1, StutterKeeps
<1>6. CASE UNCHANGED vars
  BY <1>0, <1>6, StutterKeeps DEF vars
<1> QED BY <1>1, <1>2, <1>3, <1>4, <1>5, <1>6 DEF Next, User, Engine

LEMMA BookInvariant == Spec => []IInv
BY InitIInv, NextIInv, PTL DEF Spec

-----------------------------------------------------------------------------
\* The theorems.

\* The book of book_l3_vector.hpp keeps its types, and no order with a quantity of zero is
\* known to it: an order that is filled leaves the id map in the same round.
THEOREM VectorBookTypes == Spec => []TypeOK
<1>1. IInv => TypeOK
  <2> SUFFICES ASSUME IInv PROVE TypeOK
    OBVIOUS
  <2>1. levels \in [Sides -> Seq([price : Prices, orders : Seq(Orders)])]
    BY DEF IInv, VectorsOK, Levels
  <2>2. MapsOK
    BY DEF IInv
  <2> QED BY <2>1, <2>2 DEF TypeOK, MapsOK, OrderFields
<1> QED BY <1>1, BookInvariant, PTL

\* What waits at a price is what waits in the level of that price.
LEMMA WaitingInLine ==
  ASSUME VectorsOK, NEW s \in Sides, NEW p \in Prices, NEW x
  PROVE  x \in ToSet(Line(s, p)) => x \in Waiting(s, p)
<1> SUFFICES ASSUME x \in ToSet(Line(s, p)) PROVE x \in Waiting(s, p)
  OBVIOUS
<1>1. PICK n : n = findLevelIt(s, p)
  OBVIOUS
<1>2. Line(s, p) # <<>>
  BY DEF ToSet
<1>3. /\ n + 1 \in DOMAIN levels[s] /\ levels[s][n + 1].price = p
      /\ levels[s][n + 1].orders = Line(s, p)
  BY <1>1, <1>2, LineHasLevel, FoundLevel
<1>4. PICK i : i = n + 1
  OBVIOUS
<1> QED BY <1>3, <1>4 DEF Waiting

\* The searches find sorted levels and the id map and the levels of book_l3_vector.hpp describe
\* the same orders, after every insertion and erasure and at every step of a sweep, for each
\* of the containers of level_container.hpp.
THEOREM VectorBookConsistent == Spec => []BookConsistent
<1>1. IInv => BookConsistent
  <2> SUFFICES ASSUME IInv PROVE BookConsistent
    OBVIOUS
  <2>1. VectorsOK
    BY DEF IInv
  <2>2. LevelsSorted
    BY <2>1 DEF VectorsOK, LineOK, SortedLine, OnlyBestEmpty, LevelsSorted
  <2>3. ASSUME NEW s \in Sides, NEW i \in DOMAIN levels[s]
        PROVE  /\ IsInjective(levels[s][i].orders)
               /\ \A x \in ToSet(levels[s][i].orders) :
                    /\ x \in DOMAIN index /\ index[x] = x
                    /\ order[x].side = s /\ order[x].price = levels[s][i].price
    <3>1. PICK p : p = levels[s][i].price
      OBVIOUS
    <3>2. p \in Prices /\ levels[s][i].orders = Line(s, p)
      BY <2>1, <3>1, LevelHasLine
    <3> QED BY <3>1, <3>2 DEF IInv, LinesIndexed
  <2>4. ASSUME NEW i \in DOMAIN index, index[i] # Dangling
        PROVE  index[i] \in Waiting(order[index[i]].side, order[index[i]].price)
    <3>1. PICK x : x = index[i]
      OBVIOUS
    <3>2. x \in Known /\ x \in ToSet(Line(order[x].side, order[x].price))
      BY <2>4, <3>1 DEF IInv, IteratorsWait, Known
    <3>3. order[x].side \in Sides /\ order[x].price \in Prices
      BY <3>2, KnownOrder
    <3> QED BY <2>1, <3>1, <3>2, <3>3, WaitingInLine
  <2>5. LevelsIndexed
    BY <2>3 DEF LevelsIndexed
  <2>6. IndexWaits
    BY <2>3, <2>4 DEF IndexWaits
  <2> QED BY <2>2, <2>5, <2>6 DEF BookConsistent
<1> QED BY <1>1, BookInvariant, PTL

-----------------------------------------------------------------------------
\* An id that comes apart from its own order.

ComesApart(o) == o \in DOMAIN index' /\ index'[o] # o /\ (o \in DOMAIN index => index[o] = o)

ThroughTwin(o) ==
  /\ container = "set"
  /\ \E y \in Orders \ {o} : SamePlace(order, o, y) \/ SamePlace(order', o, y)

LEMMA AddComesApart ==
  ASSUME IInv, NEW o, NEW s \in Sides, NEW p \in Prices, NEW q, NEW t, NEW x,
         AddStep(o, s, p, q, t, x), NEW i, ComesApart(i)
  PROVE  ThroughTwin(i)
<1>1. Added(o, s, p, q, t, x)
  BY AddKnown
<1>2. DOMAIN index' = DOMAIN index \cup {o} /\ DOMAIN order' = DOMAIN order \cup {o}
  BY DEF AddStep
<1>3. i = o /\ x # o
  BY <1>1, <1>2 DEF Added, ComesApart
<1>4. x \in Known /\ container = "set" /\ order[x].time = t /\ order'[x] = order[x] /\ x \in Orders
  BY <1>1, <1>3 DEF Added
<1>5. order[x].side = s /\ order[x].price = p
  BY <1>1, <1>3, WaitingKnown DEF Added
<1>6. order'[o] = [side |-> s, price |-> p, remaining |-> q, time |-> t] /\ {o, x} \subseteq DOMAIN order'
  BY <1>1, <1>2, <1>4 DEF Added, IInv, MapsOK
<1>7. SamePlace(order', o, x)
  BY <1>4, <1>5, <1>6 DEF SamePlace
<1> QED BY <1>3, <1>4, <1>7 DEF ThroughTwin

LEMMA DepartComesApart ==
  ASSUME IInv, NEW ids, NEW gone, DepartStep(ids, gone), NEW i, ComesApart(i)
  PROVE  i \in Known /\ index[i] = i /\ i \in gone /\ i \notin ids
<1>1. i \in DOMAIN index \ ids /\ index'[i] = IF index[i] \in gone THEN Dangling ELSE index[i]
  BY DEF DepartStep, Erased, ComesApart
<1>2. index[i] = i /\ i \in gone
  BY <1>1 DEF ComesApart
<1>3. i # Dangling
  BY <1>1, VectorBookAssumption DEF IInv, MapsOK
<1> QED BY <1>1, <1>2, <1>3 DEF Known

LEMMA StepComesApart == IInv /\ [Next]_vars => \A i : ComesApart(i) => ThroughTwin(i)
<1> SUFFICES ASSUME IInv, [Next]_vars, NEW i, ComesApart(i) PROVE ThroughTwin(i)
  OBVIOUS
<1>1. ASSUME NEW o \in Orders, NEW s \in Sides, NEW p \in Prices, NEW q \in 1..MaxQty,
             NEW t \in Times, addOrderImpl(o, s, p, q, t)
      PROVE  ThroughTwin(i)
  <2>1. PICK x : AddStep(o, s, p, q, t, x)
    BY <1>1, AddIsStep
  <2> QED BY <2>1, AddComesApart
<1>2. ASSUME NEW id \in DOMAIN index, cancelOrderImpl(id) PROVE ThroughTwin(i)
  <2>1. DepartStep({id}, {index[id]})
    BY <1>2, CancelIsStep
  <2>2. i \in Known /\ index[i] = i /\ i \in {index[id]} /\ i \notin {id}
    BY <2>1, DepartComesApart
  <2>3. id \in Known /\ index[id] = i /\ id # i
    BY <1>2, <2>2 DEF cancelOrderImpl, Known
  <2>4. container = "set" /\ SamePlace(order, id, i)
    BY <2>3 DEF IInv, TwinsAlike
  <2>5. SamePlace(order, i, id) /\ id \in Orders
    BY <2>3, <2>4, KnownOrder DEF SamePlace
  <2> QED BY <2>3, <2>4, <2>5 DEF ThroughTwin
<1>3. CASE Fill
  <2>1. PICK b, a, q, gone : FillStep(b, a, q, gone)
    BY <1>3, FillIs
  <2>2. CanFill
    BY <1>3 DEF Fill
  <2>3. DepartStep(gone, gone)
    BY <2>1, <2>2, FillIsDepart
  <2> QED BY <2>3, DepartComesApart
<1>4. CASE UNCHANGED index
  BY <1>4 DEF ComesApart
<1>5. ASSUME NEW s \in Sides, removeEmptyLevelImpl(s) PROVE UNCHANGED index
  BY <1>5 DEF removeEmptyLevelImpl
<1>6. FillFaults \/ (\E id \in DOMAIN index : CancelFaults(id)) \/ UNCHANGED vars => UNCHANGED index
  BY DEF FillFaults, CancelFaults, vars
<1> QED BY <1>1, <1>2, <1>3, <1>4, <1>5, <1>6 DEF Next, User, Engine

\* Only std::set makes an id of book_l3_vector.hpp lose its own order, and only through another
\* order of the same side, price and creation time; with std::list and std::multiset every id
\* leads to its own order for as long as it is in the map.
THEOREM OnlySetsComeApart == Spec => OnlyTwinsComeApart
<1>1. IInv /\ [Next]_vars =>
        [\A o \in DOMAIN index' :
           index'[o] # o /\ (o \in DOMAIN index => index[o] = o) =>
             /\ container = "set"
             /\ \E y \in Orders \ {o} : SamePlace(order, o, y) \/ SamePlace(order', o, y)]_vars
  BY StepComesApart DEF ComesApart, ThroughTwin
<1> QED BY <1>1, BookInvariant, PTL DEF Spec, OnlyTwinsComeApart

-----------------------------------------------------------------------------
\* The order of a line.  A list keeps orders as they came and never looks at creation times;
\* in the sets whoever is ahead of an order was created no later.

TimesInv ==
  /\ container = "list" => \A x \in Known : order[x].time = 0
  /\ \A s \in Sides, p \in Prices : \A y : \A x \in AheadIn(Line(s, p), y) : order[x].time <= order[y].time

\* The order of time t stands behind those created no later and ahead of the others.
LEMMA JoinedAhead ==
  ASSUME NEW line \in Seq(Orders), NEW o \in Orders, o \notin ToSet(line), IsInjective(line),
         NEW t \in Nat, \A x \in ToSet(line) : order[x].time \in Nat,
         container = "list" => \A x \in ToSet(line) : order[x].time <= t,
         \A y : \A x \in AheadIn(line, y) : order[x].time <= order[y].time,
         NEW r, r = Joined(line, o, t)
  PROVE  \A z, y : y \in AheadIn(r, z) <=>
           \/ y \in AheadIn(line, z)
           \/ z = o /\ y \in ToSet(line) /\ order[y].time <= t
           \/ y = o /\ z \in ToSet(line) /\ ~(order[z].time <= t)
<1>1. PICK c : c = Cardinality(InFront(line, t))
  OBVIOUS
<1>2. c \in 0..Len(line) /\ r \in Seq(Orders) /\ Inserted(line, c + 1, o, r)
  BY <1>1, JoinedIs
<1>3. /\ Len(line) \in Nat /\ DOMAIN line = 1..Len(line) /\ Len(r) = Len(line) + 1
      /\ DOMAIN r = 1..(Len(line) + 1) /\ c \in Nat /\ c <= Len(line)
  BY <1>2, LenProperties DEF Inserted
<1>4. /\ c + 1 \in DOMAIN r /\ r[c + 1] = o
      /\ \A j \in DOMAIN r : j # c + 1 => r[j] = IF j < c + 1 THEN line[j] ELSE line[j - 1]
  BY <1>2, <1>3 DEF Inserted
\* The orders in front of the new one are the first of the line.
<1>5. \A i \in DOMAIN line : order[line[i]].time \in Nat /\ line[i] \in ToSet(line)
  BY DEF ToSet
<1>6. \A i \in DOMAIN line : i \in InFront(line, t) <=> order[line[i]].time <= t
  BY <1>5 DEF InFront
<1>7. \A i \in DOMAIN line : order[line[i]].time <= t <=> i <= c
  <2>1. ASSUME NEW i \in DOMAIN line, NEW j \in DOMAIN line, j < i, order[line[i]].time <= t
        PROVE  order[line[j]].time <= t
    <3>1. j \in 1..(i - 1)
      BY <1>3, <2>1
    <3>2. line[j] \in AheadIn(line, line[i])
      BY <3>1, AheadMeans
    <3>3. order[line[j]].time <= order[line[i]].time
      BY <3>2
    <3> QED BY <2>1, <3>3, <1>5
  <2> DEFINE X == {k \in Nat : \A i \in DOMAIN line : order[line[i]].time <= t => i <= k}
  <2>2. Len(line) \in X
    BY <1>3
  <2>3. PICK k \in X : \A j \in X : k <= j
    BY <2>2, LeastIndex
  <2>4. k \in Nat /\ k <= Len(line) /\ \A i \in DOMAIN line : order[line[i]].time <= t => i <= k
    BY <1>3, <2>2, <2>3
  <2>5. ASSUME NEW i \in DOMAIN line, i <= k PROVE order[line[i]].time <= t
    <3>1. k - 1 \in Nat /\ k - 1 \notin X
      BY <1>3, <2>3, <2>4, <2>5
    <3>2. PICK j \in DOMAIN line : order[line[j]].time <= t /\ ~(j <= k - 1)
      BY <3>1
    <3>3. j = k
      BY <3>2, <1>3, <2>4
    <3> QED BY <1>3, <2>1, <2>4, <2>5, <3>2, <3>3
  <2> HIDE DEF X
  <2>6. \A i : i \in InFront(line, t) <=> i \in 1..k
    <3>1. InFront(line, t) \subseteq DOMAIN line
      BY DEF InFront
    <3> QED BY <3>1, <1>3, <1>6, <2>4, <2>5
  <2>7. InFront(line, t) = 1..k
    BY <2>6
  <2>8. c = k
    BY <1>1, <2>4, <2>7, FS_Interval
  <2> QED BY <2>4, <2>5, <2>8
<1> DEFINE New(i) == IF i < c + 1 THEN i ELSE i + 1
<1>8. /\ \A i \in DOMAIN line : /\ New(i) \in DOMAIN r /\ New(i) # c + 1 /\ r[New(i)] = line[i]
                                /\ New(i) < c + 1 <=> i <= c
      /\ \A i, j \in DOMAIN line : New(j) < New(i) <=> j < i
      /\ \A m \in DOMAIN r : m # c + 1 => \E i \in DOMAIN line : m = New(i)
  <2>1. ASSUME NEW i \in DOMAIN line
        PROVE  /\ New(i) \in DOMAIN r /\ New(i) # c + 1 /\ r[New(i)] = line[i]
               /\ New(i) < c + 1 <=> i <= c
    <3>1. CASE i < c + 1
      <4>1. i \in DOMAIN r /\ i # c + 1 /\ New(i) = i
        BY <1>3, <3>1
      <4> QED BY <4>1, <3>1, <1>3, <1>4
    <3>2. CASE ~(i < c + 1)
      <4>1. i + 1 \in DOMAIN r /\ i + 1 # c + 1 /\ New(i) = i + 1 /\ ~(i + 1 < c + 1) /\ (i + 1) - 1 = i
        BY <1>3, <3>2
      <4> QED BY <4>1, <3>2, <1>3, <1>4
    <3> QED BY <3>1, <3>2
  <2>2. \A i, j \in DOMAIN line : New(j) < New(i) <=> j < i
    BY <1>3
  <2>3. ASSUME NEW m \in DOMAIN r, m # c + 1 PROVE \E i \in DOMAIN line : m = New(i)
    <3>1. CASE m < c + 1
      <4>1. m \in DOMAIN line /\ m = New(m)
        BY <1>3, <3>1
      <4> QED BY <4>1
    <3>2. CASE m > c + 1
      <4>1. m - 1 \in DOMAIN line /\ m = New(m - 1)
        BY <1>3, <3>2
      <4> QED BY <4>1
    <3> QED BY <1>3, <2>3, <3>1, <3>2
  <2> QED BY <2>1, <2>2, <2>3
<1> HIDE DEF New
<1>9. \A i \in DOMAIN line : line[i] # o
  BY DEF ToSet
\* Who is ahead of whom, by positions.
<1>10. \A q, z, y : y \in AheadIn(q, z) <=> \E k \in DOMAIN q : q[k] = z /\ \E j \in 1..(k - 1) : q[j] = y
  BY AheadMeans
<1>11. \A i \in DOMAIN line : \A j : j \in 1..(i - 1) <=> j \in DOMAIN line /\ j < i
  BY <1>3
<1>12. \A i \in DOMAIN r : \A j : j \in 1..(i - 1) <=> j \in DOMAIN r /\ j < i
  BY <1>3
<1>13. ASSUME NEW z, NEW y, y \in AheadIn(r, z)
       PROVE  \/ y \in AheadIn(line, z)
              \/ z = o /\ y \in ToSet(line) /\ order[y].time <= t
              \/ y = o /\ z \in ToSet(line) /\ ~(order[z].time <= t)
  <2>1. PICK k \in DOMAIN r, j \in DOMAIN r : r[k] = z /\ r[j] = y /\ j < k
    BY <1>10, <1>12, <1>13
  <2>2. CASE k # c + 1 /\ j # c + 1
    <3>1. PICK m \in DOMAIN line : k = New(m)
      BY <1>8, <2>2
    <3>2. PICK n \in DOMAIN line : j = New(n)
      BY <1>8, <2>2
    <3>3. line[m] = z /\ line[n] = y /\ n < m
      BY <1>8, <2>1, <3>1, <3>2
    <3> QED BY <3>3, <1>10, <1>11
  <2>3. CASE k = c + 1
    <3>1. j # c + 1 /\ z = o
      BY <1>3, <1>4, <2>1, <2>3
    <3>2. PICK n \in DOMAIN line : j = New(n)
      BY <1>8, <3>1
    <3>3. line[n] = y /\ n <= c
      BY <1>8, <2>1, <2>3, <3>2
    <3> QED BY <3>1, <3>3, <1>5, <1>7
  <2>4. CASE j = c + 1
    <3>1. k # c + 1 /\ y = o
      BY <1>3, <1>4, <2>1, <2>4
    <3>2. PICK m \in DOMAIN line : k = New(m)
      BY <1>8, <3>1
    <3>3. ~(k < c + 1)
      BY <1>3, <2>1, <2>4
    <3>4. line[m] = z /\ ~(m <= c)
      BY <1>8, <2>1, <3>2, <3>3
    <3> QED BY <3>1, <3>4, <1>5, <1>7
  <2> QED BY <2>2, <2>3, <2>4
<1>14. ASSUME NEW z, NEW y, y \in AheadIn(line, z) PROVE y \in AheadIn(r, z)
  <2>1. PICK k \in DOMAIN line, j \in DOMAIN line : line[k] = z /\ line[j] = y /\ j < k
    BY <1>10, <1>11, <1>14
  <2>2. r[New(k)] = z /\ r[New(j)] = y /\ New(j) < New(k) /\ New(k) \in DOMAIN r /\ New(j) \in DOMAIN r
    BY <1>8, <2>1
  <2> QED BY <2>2, <1>10, <1>12
<1>15. ASSUME NEW y \in ToSet(line), order[y].time <= t PROVE y \in AheadIn(r, o)
  <2>1. PICK j \in DOMAIN line : line[j] = y
    BY DEF ToSet
  <2>2. r[New(j)] = y /\ New(j) < c + 1 /\ New(j) \in DOMAIN r
    BY <1>7, <1>8, <1>15, <2>1
  <2> QED BY <2>2, <1>4, <1>10, <1>12
<1>16. ASSUME NEW z \in ToSet(line), ~(order[z].time <= t) PROVE o \in AheadIn(r, z)
  <2>1. PICK k \in DOMAIN line : line[k] = z
    BY DEF ToSet
  <2>2. r[New(k)] = z /\ ~(New(k) < c + 1) /\ New(k) # c + 1 /\ New(k) \in DOMAIN r
    BY <1>7, <1>8, <1>16, <2>1
  <2>3. c + 1 < New(k)
    BY <1>3, <2>2
  <2> QED BY <2>2, <2>3, <1>4, <1>10, <1>12
<1> QED BY <1>13, <1>14, <1>15, <1>16

\* Who is ahead of whom after an order was added.
AheadAfterAdd(o, s, p, t, x) ==
  \A r \in Sides, e \in Prices : \A z, y : y \in AheadIn(LineAt(levels'[r], e), z) <=>
    \/ y \in AheadIn(Line(r, e), z)
    \/ x = o /\ r = s /\ e = p /\ z = o /\ y \in ToSet(Line(r, e)) /\ order[y].time <= t
    \/ x = o /\ r = s /\ e = p /\ y = o /\ z \in ToSet(Line(r, e)) /\ ~(order[z].time <= t)

LEMMA OrderTimes ==
  ASSUME IInv, NEW i \in Known
  PROVE  order[i].time \in Nat
<1>1. order[i].time \in 0..MaxTime
  BY KnownOrder DEF OrderFields
<1> QED BY <1>1, VectorBookAssumption

LEMMA AddAhead ==
  ASSUME IInv, TimesInv, NEW o \in Orders, NEW s \in Sides, NEW p \in Prices, NEW q, NEW t \in Times,
         addOrderImpl(o, s, p, q, t), NEW x, AddStep(o, s, p, q, t, x)
  PROVE  AheadAfterAdd(o, s, p, t, x)
<1>1. ~Busy /\ o \notin DOMAIN index /\ levelAddOrder(o, s, p, t) /\ VectorsOK
  BY DEF addOrderImpl, IInv
<1>2. \A r \in Sides, e \in Prices : IsInjective(Line(r, e)) /\ o \notin ToSet(Line(r, e))
  BY <1>1 DEF IInv, LinesIndexed
<1>3. CASE Twins(Line(s, p), t) = {}
  <2>1. PICK l : l = Joined(Line(s, p), o, t)
    OBVIOUS
  <2>2. OneLine(s, p, l)
    BY <1>1, <1>3, <2>1, AddLine
  <2>3. x = o
    BY <1>3 DEF AddStep
  <2>4. PICK line : line = Line(s, p)
    OBVIOUS
  <2>5. line \in Seq(Orders) /\ o \notin ToSet(line) /\ IsInjective(line) /\ l = Joined(line, o, t)
    BY <1>1, <1>2, <2>1, <2>4, LineType
  <2>6. \A y \in ToSet(line) : y \in Known /\ order[y].time \in Nat
    BY <2>4, WaitingKnown, OrderTimes
  <2>7. t \in Nat
    BY TimesAre, VectorBookAssumption
  <2>8. container = "list" => \A y \in ToSet(line) : order[y].time <= t
    <3>1. container = "list" => t = 0 /\ \A y \in ToSet(line) : order[y].time = 0
      BY <2>6 DEF Times, TimesInv
    <3> QED BY <3>1
  <2>9. \A z : \A y \in AheadIn(line, z) : order[y].time <= order[z].time
    BY <2>4 DEF TimesInv
  <2>10. \A z, y : y \in AheadIn(l, z) <=>
           \/ y \in AheadIn(line, z)
           \/ z = o /\ y \in ToSet(line) /\ order[y].time <= t
           \/ y = o /\ z \in ToSet(line) /\ ~(order[z].time <= t)
    BY <2>5, <2>6, <2>7, <2>8, <2>9, JoinedAhead
  <2> SUFFICES ASSUME NEW r \in Sides, NEW e \in Prices, NEW z, NEW y
               PROVE  y \in AheadIn(LineAt(levels'[r], e), z) <=>
      \/ y \in AheadIn(Line(r, e), z)
      \/ x = o /\ r = s /\ e = p /\ z = o /\ y \in ToSet(Line(r, e)) /\ order[y].time <= t
      \/ x = o /\ r = s /\ e = p /\ y = o /\ z \in ToSet(Line(r, e)) /\ ~(order[z].time <= t)
    BY DEF AheadAfterAdd
  <2>11. LineAt(levels'[r], e) = IF r = s /\ e = p THEN l ELSE Line(r, e)
    BY <2>2 DEF OneLine, Line
  <2>12. CASE r = s /\ e = p
    BY <2>3, <2>4, <2>10, <2>11, <2>12
  <2>13. CASE ~(r = s /\ e = p)
    BY <2>11, <2>13
  <2> QED BY <2>12, <2>13
<1>4. CASE Twins(Line(s, p), t) # {}
  <2>1. levels' = levels
    BY <1>1, <1>4, AddIs
  <2>2. x # o
    <3>1. PICK y \in Twins(Line(s, p), t) :
            index' = [i \in DOMAIN index \cup {o} |-> IF i = o THEN y ELSE index[i]]
      BY <1>1, <1>4, AddIs
    <3>2. y # o
      BY <1>2 DEF Twins
    <3>3. index'[o] = x
      BY DEF AddStep
    <3> QED BY <3>1, <3>2, <3>3
  <2> QED BY <2>1, <2>2 DEF AheadAfterAdd, Line
<1> QED BY <1>3, <1>4

\* Whoever is ahead of an order is in the line.
LEMMA AheadKnown ==
  ASSUME IInv, NEW s \in Sides, NEW p \in Prices, NEW y, NEW x \in AheadIn(Line(s, p), y)
  PROVE  /\ x \in ToSet(Line(s, p)) /\ y \in ToSet(Line(s, p)) /\ x \in Known /\ y \in Known
         /\ order[x].side = s /\ order[x].price = p
<1>1. Line(s, p) \in Seq(Orders)
  BY LineType DEF IInv
<1>2. x \in ToSet(Line(s, p))
  BY <1>1, AheadInside
<1>3. PICK k \in DOMAIN Line(s, p) : Line(s, p)[k] = y
  BY AheadMeans
<1>4. y \in ToSet(Line(s, p))
  BY <1>3 DEF ToSet
<1> QED BY <1>2, <1>4, WaitingKnown

LEMMA AddTimes ==
  ASSUME IInv, TimesInv, NEW o, NEW s \in Sides, NEW p \in Prices, NEW q, NEW t \in Times, NEW x,
         AddStep(o, s, p, q, t, x), AheadAfterAdd(o, s, p, t, x)
  PROVE  TimesInv'
<1>0. Added(o, s, p, q, t, x)
  BY AddKnown
<1>1. /\ o \notin Known /\ \A i : i \in Known' <=> i \in Known \/ i = o
      /\ order'[o].time = t /\ \A i \in Known : order'[i] = order[i]
  BY <1>0 DEF Added
<1>2. container' = container
  BY DEF AddStep
<1>3. container' = "list" => \A i \in Known' : order'[i].time = 0
  BY <1>1, <1>2 DEF TimesInv, Times
<1>4. t \in Nat
  BY TimesAre, VectorBookAssumption
<1>5. ASSUME NEW r \in Sides, NEW e \in Prices, NEW z, NEW y \in AheadIn(LineAt(levels'[r], e), z)
      PROVE  order'[y].time <= order'[z].time
  <2>1. CASE y \in AheadIn(Line(r, e), z)
    <3>1. y \in Known /\ z \in Known
      BY <2>1, AheadKnown
    <3>2. order[y].time <= order[z].time
      BY <2>1 DEF TimesInv
    <3> QED BY <1>1, <3>1, <3>2
  <2>2. CASE z = o /\ y \in ToSet(Line(r, e)) /\ order[y].time <= t
    <3>1. y \in Known
      BY <2>2, WaitingKnown
    <3> QED BY <1>1, <2>2, <3>1
  <2>3. CASE y = o /\ z \in ToSet(Line(r, e)) /\ ~(order[z].time <= t)
    <3>1. z \in Known /\ order[z].time \in Nat
      BY <2>3, WaitingKnown, OrderTimes
    <3> QED BY <1>1, <1>4, <2>3, <3>1
  <2> QED BY <2>1, <2>2, <2>3 DEF AheadAfterAdd
<1> QED BY <1>3, <1>5 DEF TimesInv, Line

\* Creation times stay and orders only leave.
LEMMA DepartTimes ==
  ASSUME IInv, TimesInv, NEW ids, NEW gone, DepartStep(ids, gone)
  PROVE  TimesInv'
<1>1. \A i \in Known' : i \in Known
  BY DepartKnown
<1>2. \A i \in Known' : order'[i].time = order[i].time
  <2> SUFFICES ASSUME NEW i \in Known' PROVE order'[i].time = order[i].time
    OBVIOUS
  <2>1. PICK n : n = order'[i].remaining
    OBVIOUS
  <2>2. order'[i] = [order[i] EXCEPT !.remaining = n]
    BY <2>1 DEF DepartStep
  <2>3. order[i] \in OrderFields
    BY <1>1, KnownOrder
  <2> QED BY <2>2, <2>3 DEF OrderFields
<1>3. container' = container
  BY DEF DepartStep
<1>4. IInv'
  BY DepartKeeps
<1>5. ASSUME NEW r \in Sides, NEW e \in Prices, NEW z, NEW y \in AheadIn(LineAt(levels'[r], e), z)
      PROVE  order'[y].time <= order'[z].time
  <2>1. PICK l : l = LineAt(levels'[r], e)
    OBVIOUS
  <2>2. Departed(Line(r, e), l, gone)
    BY <2>1 DEF DepartStep
  <2>3. z \in ToSet(l) /\ y \in ToSet(l)
    <3>1. PICK k \in DOMAIN l : l[k] = z /\ \E j \in 1..(k - 1) : l[j] = y
      BY <1>5, <2>1, AheadMeans
    <3>2. LineOK(r, levels'[r])
      BY <1>4 DEF IInv, VectorsOK, LineOK, SortedLine, cmp
    <3>3. l \in Seq(Orders)
      BY <2>1, <3>2, LineShown
    <3>4. y \in ToSet(l)
      BY <1>5, <2>1, <3>3, AheadInside
    <3> QED BY <3>1, <3>4 DEF ToSet
  <2>4. z \notin gone
    BY <2>2, <2>3 DEF Departed
  <2>5. y \in AheadIn(Line(r, e), z)
    BY <1>5, <2>1, <2>2, <2>4 DEF Departed
  <2>6. order[y].time <= order[z].time
    BY <2>5 DEF TimesInv
  <2>7. z \in Known' /\ y \in Known'
    <3>1. \A w \in ToSet(LineAt(levels'[r], e)) : w \in DOMAIN index' /\ index'[w] = w
      BY <1>4 DEF IInv, LinesIndexed, Line
    <3>2. \A w \in DOMAIN index' : w \in Orders
      BY <1>4 DEF IInv, MapsOK
    <3> QED BY <2>1, <2>3, <3>1, <3>2, VectorBookAssumption DEF Known
  <2> QED BY <1>2, <2>6, <2>7
<1> QED BY <1>1, <1>2, <1>3, <1>5 DEF TimesInv, Line

LEMMA SameTimes ==
  ASSUME TimesInv, \A r \in Sides, e \in Prices : LineAt(levels'[r], e) = Line(r, e),
         UNCHANGED <<container, order, index>>
  PROVE  TimesInv'
BY DEF TimesInv, Line, Known

LEMMA InitTimes == Init => TimesInv
<1> SUFFICES ASSUME Init PROVE TimesInv
  OBVIOUS
<1>1. Known = {}
  BY DEF Init, Known
<1>2. \A s \in Sides, p \in Prices : Line(s, p) = <<>>
  BY DEF Init, Line, LineAt
<1>3. \A y, x : x \notin AheadIn(<<>>, y)
  BY DEF AheadIn
<1> QED BY <1>1, <1>2, <1>3 DEF TimesInv

LEMMA NextTimes == IInv /\ TimesInv /\ [Next]_vars => TimesInv'
<1> SUFFICES ASSUME IInv, TimesInv, [Next]_vars PROVE TimesInv'
  OBVIOUS
<1>1. ASSUME NEW o \in Orders, NEW s \in Sides, NEW p \in Prices, NEW q \in 1..MaxQty,
             NEW t \in Times, addOrderImpl(o, s, p, q, t)
      PROVE  TimesInv'
  <2>1. PICK x : AddStep(o, s, p, q, t, x)
    BY <1>1, AddIsStep
  <2>2. AheadAfterAdd(o, s, p, t, x)
    BY <1>1, <2>1, AddAhead
  <2> QED BY <2>1, <2>2, AddTimes
<1>2. ASSUME NEW id \in DOMAIN index, cancelOrderImpl(id) PROVE TimesInv'
  BY <1>2, CancelIsStep, DepartTimes
<1>3. CASE Fill
  <2>1. PICK b, a, q, gone : FillStep(b, a, q, gone)
    BY <1>3, FillIs
  <2>2. CanFill
    BY <1>3 DEF Fill
  <2> QED BY <2>1, <2>2, FillIsDepart, DepartTimes
<1>4. ASSUME NEW s \in Sides, removeEmptyLevelImpl(s) PROVE TimesInv'
  <2>1. UNCHANGED <<container, order, index>>
    BY <1>4 DEF removeEmptyLevelImpl
  <2>2. \A r \in Sides, e \in Prices : LineAt(levels'[r], e) = Line(r, e)
    BY <1>4, EmptyLine DEF IInv
  <2> QED BY <2>1, <2>2, SameTimes
<1>5. ASSUME UNCHANGED <<container, order, levels, index>> PROVE TimesInv'
  <2>1. \A r \in Sides, e \in Prices : LineAt(levels'[r], e) = Line(r, e)
    BY <1>5 DEF Line
  <2> QED BY <1>5, <2>1, SameTimes
<1>6. CASE FillFaults \/ (\E id \in DOMAIN index : CancelFaults(id)) \/ UNCHANGED vars
  BY <1>5, <1>6 DEF FillFaults, CancelFaults, vars
<1> QED BY <1>1, <1>2, <1>3, <1>4, <1>6 DEF Next, User, Engine

LEMMA TimesInvariant == Spec => []TimesInv
BY InitTimes, NextTimes, BookInvariant, PTL DEF Spec

-----------------------------------------------------------------------------
\* The refinement mapping and what the operations do to it.

\* The orders that wait: a twin taken for another order does not.
Resters == {x \in DOMAIN index : index[x] = x}

Entry(s, p, q, k, a) == [side |-> s, limit |-> p, qty |-> q, rank |-> k, ahead |-> a]

Mapped ==
  [o \in {x \in DOMAIN index : index[x] = x} |->
     [side |-> order[o].side, limit |-> order[o].price, qty |-> order[o].remaining,
      rank |-> order[o].time, ahead |-> Ahead(o)]]

Item(o) ==
  Entry(order[o].side, order[o].price, order[o].remaining, order[o].time,
        AheadIn(Line(order[o].side, order[o].price), o))

MapIs == Mapped = [o \in Resters |-> Item(o)]

LEMMA ResterWaits ==
  ASSUME IInv, NEW o \in Resters
  PROVE  /\ o \in Known /\ o \in Orders /\ index[o] = o
         /\ order[o].side \in Sides /\ order[o].price \in Prices /\ order[o] \in OrderFields
         /\ o \in ToSet(Line(order[o].side, order[o].price))
<1>1. o \in DOMAIN index /\ index[o] = o
  BY DEF Resters
<1>2. o \in Orders /\ o \in Known
  BY <1>1, VectorBookAssumption DEF IInv, MapsOK, Known
<1> QED BY <1>1, <1>2, KnownOrder DEF IInv, IteratorsWait

\* Whoever waits in a line rests in the book.
LEMMA WaitingRests ==
  ASSUME IInv, NEW s \in Sides, NEW p \in Prices, NEW x \in ToSet(Line(s, p))
  PROVE  x \in Resters
BY WaitingKnown DEF Known, Resters

\* An order stands in the level of its price and nowhere else.
LEMMA AheadIs ==
  ASSUME IInv, NEW o \in Resters
  PROVE  Ahead(o) = AheadIn(Line(order[o].side, order[o].price), o)
<1>1. PICK s : s = order[o].side
  OBVIOUS
<1>2. PICK p : p = order[o].price
  OBVIOUS
<1>3. s \in Sides /\ p \in Prices /\ o \in ToSet(Line(s, p)) /\ VectorsOK
  BY <1>1, <1>2, ResterWaits DEF IInv
<1>4. Ahead(o) = UNION {AheadIn(levels[s][i].orders, o) : i \in DOMAIN levels[s]}
  BY <1>1 DEF Ahead, AheadIn
<1>5. ASSUME NEW i \in DOMAIN levels[s], NEW x \in AheadIn(levels[s][i].orders, o)
      PROVE  x \in AheadIn(Line(s, p), o)
  <2>1. PICK e : e = levels[s][i].price
    OBVIOUS
  <2>2. e \in Prices /\ levels[s][i].orders = Line(s, e)
    BY <1>3, <2>1, LevelHasLine
  <2>3. o \in ToSet(Line(s, e))
    BY <1>3, <1>5, <2>2, AheadKnown
  <2>4. e = p
    BY <1>2, <1>3, <2>2, <2>3, WaitingKnown
  <2> QED BY <1>5, <2>2, <2>4
<1>6. ASSUME NEW x \in AheadIn(Line(s, p), o)
      PROVE  \E i \in DOMAIN levels[s] : x \in AheadIn(levels[s][i].orders, o)
  <2>1. PICK n : n = findLevelIt(s, p)
    OBVIOUS
  <2>2. Line(s, p) # <<>>
    BY <1>3 DEF ToSet
  <2>3. n + 1 \in DOMAIN levels[s] /\ levels[s][n + 1].orders = Line(s, p)
    BY <1>3, <2>1, <2>2, LineHasLevel, FoundLevel
  <2> QED BY <2>3
<1>7. \A x : x \in Ahead(o) <=> x \in AheadIn(Line(s, p), o)
  BY <1>4, <1>5, <1>6
<1> QED BY <1>1, <1>2, <1>7

LEMMA MapIsSo == IInv => MapIs
<1> SUFFICES ASSUME IInv PROVE MapIs
  OBVIOUS
<1>1. \A o \in Resters : [side |-> order[o].side, limit |-> order[o].price, qty |-> order[o].remaining,
                          rank |-> order[o].time, ahead |-> Ahead(o)] = Item(o)
  BY AheadIs DEF Item, Entry
<1> QED BY <1>1 DEF MapIs, Mapped, Resters

LEMMA MapIsNext == IInv' => MapIs'
BY MapIsSo, PTL

LEMMA MappedFields ==
  ASSUME IInv
  PROVE  /\ DOMAIN Mapped = Resters
         /\ \A o \in Resters :
              /\ Mapped[o] = Item(o)
              /\ Mapped[o].side = order[o].side /\ Mapped[o].limit = order[o].price
              /\ Mapped[o].qty = order[o].remaining /\ Mapped[o].rank = order[o].time
              /\ Mapped[o].ahead = AheadIn(Line(order[o].side, order[o].price), o)
<1>1. MapIs
  BY MapIsSo
<1> QED BY <1>1 DEF MapIs, Item, Entry

LEMMA SameMap ==
  ASSUME IInv, IInv', \A r \in Sides, e \in Prices : LineAt(levels'[r], e) = Line(r, e),
         UNCHANGED <<order, index>>
  PROVE  Mapped' = Mapped
<1>1. MapIs /\ MapIs'
  BY MapIsSo, MapIsNext
<1>2. Resters' = Resters
  BY DEF Resters
<1>3. ASSUME NEW o \in Resters PROVE Item(o)' = Item(o)
  <2>1. order[o].side \in Sides /\ order[o].price \in Prices
    BY ResterWaits
  <2> QED BY <2>1 DEF Item, Line
<1> QED BY <1>1, <1>2, <1>3 DEF MapIs

\* The orders that leave, and what becomes of those that stay.
LEMMA DepartMap ==
  ASSUME IInv, NEW ids, NEW gone, DepartStep(ids, gone)
  PROVE  /\ \A x : x \in Resters' <=> x \in Resters /\ x \notin gone
         /\ \A o \in Resters : o \notin gone =>
              Item(o)' = Entry(order[o].side, order[o].price, order'[o].remaining, order[o].time,
                               Mapped[o].ahead \ gone)
<1>1. ASSUME NEW x PROVE x \in Resters' <=> x \in Resters /\ x \notin gone
  <2>1. /\ DOMAIN index' = DOMAIN index \ ids
        /\ \A j \in DOMAIN index' : index'[j] = IF index[j] \in gone THEN Dangling ELSE index[j]
        /\ \A i \in ids \cap DOMAIN index : index[i] \in gone
    BY DEF DepartStep, Erased
  <2>2. ASSUME x \in Resters' PROVE x \in Resters /\ x \notin gone
    <3>1. x \in DOMAIN index' /\ index'[x] = x
      BY <2>2 DEF Resters
    <3>2. x \in DOMAIN index /\ x # Dangling
      BY <2>1, <3>1, VectorBookAssumption DEF IInv, MapsOK
    <3> QED BY <2>1, <3>1, <3>2 DEF Resters
  <2>3. ASSUME x \in Resters, x \notin gone PROVE x \in Resters'
    <3>1. x \in DOMAIN index /\ index[x] = x
      BY <2>3 DEF Resters
    <3>2. x \in DOMAIN index'
      BY <2>1, <2>3, <3>1
    <3>3. index'[x] = x
      BY <2>1, <2>3, <3>1, <3>2
    <3> QED BY <3>2, <3>3 DEF Resters
  <2> QED BY <2>2, <2>3
<1>2. ASSUME NEW o \in Resters, o \notin gone
      PROVE  Item(o)' = Entry(order[o].side, order[o].price, order'[o].remaining, order[o].time,
                              Mapped[o].ahead \ gone)
  <2>1. PICK s : s = order[o].side
    OBVIOUS
  <2>2. PICK p : p = order[o].price
    OBVIOUS
  <2>3. PICK n : n = order'[o].remaining
    OBVIOUS
  <2>4. s \in Sides /\ p \in Prices /\ order[o] \in OrderFields
    BY <2>1, <2>2, <1>2, ResterWaits
  <2>5. o \in Known'
    <3>1. o \in Resters'
      BY <1>1, <1>2
    <3>2. o # Dangling
      BY <1>2, ResterWaits, VectorBookAssumption
    <3> QED BY <3>1, <3>2 DEF Resters, Known
  <2>6. order'[o] = [order[o] EXCEPT !.remaining = n]
    BY <2>3, <2>5 DEF DepartStep
  <2>7. order'[o].side = s /\ order'[o].price = p /\ order'[o].time = order[o].time
    BY <2>1, <2>2, <2>4, <2>6 DEF OrderFields
  <2>8. PICK l : l = LineAt(levels'[s], p)
    OBVIOUS
  <2>9. Departed(Line(s, p), l, gone)
    BY <2>4, <2>8 DEF DepartStep
  <2>10. \A x : x \in AheadIn(l, o) <=> x \in AheadIn(Line(s, p), o) /\ x \notin gone
    BY <1>2, <2>9 DEF Departed
  <2>11. AheadIn(l, o) = AheadIn(Line(s, p), o) \ gone
    BY <2>10
  <2>12. Mapped[o].ahead = AheadIn(Line(s, p), o)
    BY <1>2, <2>1, <2>2, MappedFields
  <2>13. Item(o)' = Entry(s, p, n, order[o].time, AheadIn(l, o))
    BY <2>3, <2>7, <2>8 DEF Item, Line
  <2> QED BY <2>1, <2>2, <2>3, <2>11, <2>12, <2>13
<1> QED BY <1>1, <1>2

\* The best level of a side has the best of the prices anyone of the side waits at.
LEMMA BestPrice ==
  ASSUME IInv, NEW o \in Resters, NEW s, s = order[o].side
  PROVE  /\ levels[s] # <<>> /\ BestLevel(s).price \in Nat
         /\ s = "Buy"  => order[o].price <= BestLevel(s).price
         /\ s = "Sell" => order[o].price >= BestLevel(s).price
<1>1. PICK p : p = order[o].price
  OBVIOUS
<1>2. PICK q : q = levels[s]
  OBVIOUS
<1>3. s \in Sides /\ p \in Prices /\ o \in ToSet(Line(s, p)) /\ VectorsOK
  BY <1>1, ResterWaits DEF IInv
<1>4. LineOK(s, q)
  BY <1>2, <1>3 DEF VectorsOK
<1>5. PICK n : n = findLevelIt(s, p)
  OBVIOUS
<1>6. n + 1 \in DOMAIN q /\ q[n + 1].price = p
  <2>1. Line(s, p) # <<>>
    BY <1>3 DEF ToSet
  <2> QED BY <2>1, <1>2, <1>3, <1>5, LineHasLevel, FoundLevel
<1>7. /\ Len(q) \in Nat /\ DOMAIN q = 1..Len(q)
      /\ \A i \in DOMAIN q : q[i].price \in Nat
  BY <1>4, LineProperties
<1>8. Len(q) \in DOMAIN q /\ n + 1 <= Len(q) /\ q # <<>>
  BY <1>6, <1>7
<1>9. PICK e : e = q[Len(q)].price
  OBVIOUS
<1>10. e = p \/ cmp(s, p, e)
  <2>1. CASE n + 1 = Len(q)
    BY <2>1, <1>6, <1>9
  <2>2. CASE n + 1 < Len(q)
    BY <2>2, <1>4, <1>6, <1>8, <1>9 DEF LineOK, SortedLine
  <2> QED BY <1>6, <1>7, <1>8, <2>1, <2>2
<1>11. e \in Nat /\ p \in Nat /\ BestLevel(s).price = e
  BY <1>2, <1>6, <1>7, <1>8, <1>9 DEF BestLevel
<1>12. s = "Buy" => p <= e
  BY <1>10, <1>11 DEF cmp
<1>13. s = "Sell" => p >= e
  BY <1>10, <1>11 DEF cmp
<1> QED BY <1>1, <1>2, <1>8, <1>11, <1>12, <1>13

\* While the best levels do not cross no two orders can trade.
LEMMA NoTrade ==
  ASSUME IInv, ~Crosses
  PROVE  ~Abstract!CanTrade
<1>1. ASSUME NEW x \in Resters, NEW y \in Resters, order[x].side = "Buy", order[y].side = "Sell",
             order[x].price >= order[y].price
      PROVE  FALSE
  <2>1. /\ levels["Buy"] # <<>> /\ BestLevel("Buy").price \in Nat
        /\ order[x].price <= BestLevel("Buy").price
    BY <1>1, BestPrice
  <2>2. /\ levels["Sell"] # <<>> /\ BestLevel("Sell").price \in Nat
        /\ order[y].price >= BestLevel("Sell").price
    BY <1>1, BestPrice
  <2>3. order[x].price \in Nat /\ order[y].price \in Nat
    BY ResterWaits, VectorBookAssumption DEF Prices
  <2> QED BY <1>1, <2>1, <2>2, <2>3 DEF Crosses
<1>2. ~(\E x, y \in DOMAIN Mapped :
          Mapped[x].side = "Buy" /\ Mapped[y].side = "Sell" /\ Mapped[x].limit >= Mapped[y].limit)
  BY <1>1, MappedFields
<1> QED BY <1>2 DEF Abstract!CanTrade, Abstract!First, Abstract!Tradable, Abstract!Waiting, Mapped

\* The front of the best level is first in price-time priority.
LEMMA FrontIsFirst ==
  ASSUME IInv, CanFill, NEW s \in Sides, NEW o, o = Head(BestLevel(s).orders)
  PROVE  o \in Resters /\ o \in Abstract!First(s)
<1>1. PICK p : p = BestLevel(s).price
  OBVIOUS
<1>2. /\ p \in Prices /\ Line(s, p) \in Seq(Orders) /\ Line(s, p) # <<>>
      /\ o = Head(Line(s, p)) /\ o \in ToSet(Line(s, p))
      /\ order[o].side = s /\ order[o].price = p
  BY <1>1, FirstWaits
<1>3. o \in Resters
  BY <1>2, WaitingRests
<1>4. AheadIn(Line(s, p), o) = {}
  <2>1. IsInjective(Line(s, p))
    BY <1>2 DEF IInv, LinesIndexed
  <2>2. \A x : x \notin AheadIn(Line(s, p), o)
    BY <1>2, <2>1, FrontAhead
  <2> QED BY <2>2
<1>5. /\ DOMAIN Mapped = Resters
      /\ Mapped[o].side = s /\ Mapped[o].limit = p /\ Mapped[o].ahead = {}
      /\ \A x \in Resters : Mapped[x].side = order[x].side /\ Mapped[x].limit = order[x].price
  BY <1>2, <1>3, <1>4, MappedFields
<1>6. ASSUME NEW x \in Resters, Mapped[x].side = s
      PROVE  /\ ~(Mapped[x].side = "Buy" /\ Mapped[x].limit > Mapped[o].limit)
             /\ ~(Mapped[x].side = "Sell" /\ Mapped[x].limit < Mapped[o].limit)
             /\ x \notin Mapped[o].ahead
  <2>1. order[x].side = s
    BY <1>5, <1>6
  <2>2. /\ p \in Nat
        /\ s = "Buy"  => order[x].price <= p
        /\ s = "Sell" => order[x].price >= p
    BY <1>1, <2>1, BestPrice
  <2>3. order[x].price \in Nat
    BY ResterWaits, VectorBookAssumption DEF Prices
  <2> QED BY <1>5, <2>1, <2>2, <2>3
<1>7. o \in {y \in DOMAIN Mapped : Mapped[y].side = s /\ \A x \in DOMAIN Mapped : Mapped[x].side = s =>
        ~(\/ Mapped[x].side = "Buy"  /\ Mapped[x].limit > Mapped[y].limit
          \/ Mapped[x].side = "Sell" /\ Mapped[x].limit < Mapped[y].limit
          \/ x \in Mapped[y].ahead)}
  BY <1>3, <1>5, <1>6
<1> QED BY <1>3, <1>7 DEF Abstract!First, Abstract!Waiting, Abstract!Better, Mapped

\* cancelOrderImpl withdraws what the iterator of the id points at.
LEMMA CancelAbstract ==
  ASSUME IInv, NEW id \in DOMAIN index, cancelOrderImpl(id)
  PROVE  Abstract!Next
<1>1. PICK o : o = index[id]
  OBVIOUS
<1>2. DepartStep({id}, {o})
  BY <1>1, CancelIsStep
<1>3. o \in Resters
  <2>1. id \in Known
    BY DEF cancelOrderImpl, Known
  <2>2. o \in Known /\ o \in ToSet(Line(order[o].side, order[o].price))
    BY <1>1, <2>1 DEF IInv, IteratorsWait
  <2>3. order[o].side \in Sides /\ order[o].price \in Prices
    BY <2>2, KnownOrder
  <2> QED BY <2>2, <2>3, WaitingRests
<1>4. MapIs'
  BY <1>2, DepartKeeps, MapIsNext
<1>5. Resters' = Resters \ {o}
  BY <1>2, DepartMap
<1>6. ASSUME NEW x \in Resters \ {o} PROVE Item(x)' = [Mapped[x] EXCEPT !.ahead = @ \ {o}]
  <2>1. order'[x].remaining = order[x].remaining
    <3>1. x \in Known'
      <4>1. x # Dangling
        BY ResterWaits, VectorBookAssumption
      <4> QED BY <1>5, <4>1 DEF Resters, Known
    <3> QED BY <3>1 DEF cancelOrderImpl, Restrict
  <2>2. Item(x)' = Entry(order[x].side, order[x].price, order'[x].remaining, order[x].time,
                         Mapped[x].ahead \ {o})
    BY <1>2, <1>6, DepartMap
  <2>3. PICK A : A = Mapped[x].ahead
    OBVIOUS
  <2>4. Mapped[x] = Entry(order[x].side, order[x].price, order[x].remaining, order[x].time, A)
    BY <2>3, MappedFields DEF Item, Entry
  <2> QED BY <2>1, <2>2, <2>3, <2>4 DEF Entry
<1>7. Mapped' = [x \in DOMAIN Mapped \ {o} |-> [Mapped[x] EXCEPT !.ahead = @ \ {o}]]
  BY <1>4, <1>5, <1>6, MappedFields DEF MapIs
<1>8. o \in DOMAIN Mapped
  BY <1>3, MappedFields
<1>9. Abstract!Withdraw(o) /\ o \in Abstract!Waiting
  BY <1>7, <1>8 DEF Abstract!Withdraw, Abstract!Without, Abstract!Waiting, Mapped
<1>10. ~Abstract!CanTrade
  BY NoTrade DEF cancelOrderImpl, Busy
<1> QED BY <1>9, <1>10, Zenon DEF Abstract!Next

\* addOrderImpl admits the order, or leaves the lines alone when a twin is taken for it.
LEMMA AddAbstract ==
  ASSUME IInv, TimesInv, NEW o \in Orders, NEW s \in Sides, NEW p \in Prices, NEW q \in 1..MaxQty,
         NEW t \in Times, addOrderImpl(o, s, p, q, t)
  PROVE  Abstract!Next \/ Mapped' = Mapped
<1>1. PICK x : AddStep(o, s, p, q, t, x)
  BY AddIsStep
<1>2. AheadAfterAdd(o, s, p, t, x)
  BY <1>1, AddAhead
<1>3. t \in 0..MaxTime
  BY TimesAre
<1>4. IInv' /\ MapIs /\ MapIs'
  BY <1>1, <1>3, AddKeeps, MapIsSo, MapIsNext
<1>5. Added(o, s, p, q, t, x)
  BY <1>1, AddKnown
<1>6. /\ DOMAIN index' = DOMAIN index \cup {o} /\ o \notin DOMAIN index
      /\ index'[o] = x /\ \A i \in DOMAIN index : index'[i] = index[i]
      /\ order'[o] = [side |-> s, price |-> p, remaining |-> q, time |-> t]
      /\ \A i \in Known : order'[i] = order[i]
  BY <1>1, <1>5 DEF AddStep, Added
<1>7. o \notin Resters /\ \A z : z \in Resters' <=> z \in Resters \/ (z = o /\ x = o)
  BY <1>6 DEF Resters
\* Who is ahead of those that were in the book.
<1>8. ASSUME NEW z \in Resters
      PROVE  Item(z)' = Entry(order[z].side, order[z].price, order[z].remaining, order[z].time,
                              IF x = o /\ order[z].side = s /\ order[z].price = p /\ ~(order[z].time <= t)
                                THEN Mapped[z].ahead \cup {o} ELSE Mapped[z].ahead)
  <2>1. PICK r : r = order[z].side
    OBVIOUS
  <2>2. PICK e : e = order[z].price
    OBVIOUS
  <2>3. z \in Known /\ r \in Sides /\ e \in Prices /\ z \in ToSet(Line(r, e)) /\ z # o
    BY <1>7, <2>1, <2>2, ResterWaits
  <2>4. order'[z] = order[z]
    BY <1>6, <2>3
  <2>5. PICK l : l = LineAt(levels'[r], e)
    OBVIOUS
  <2>6. Item(z)' = Entry(r, e, order[z].remaining, order[z].time, AheadIn(l, z))
    BY <2>1, <2>2, <2>4, <2>5 DEF Item, Line
  <2>7. Mapped[z].ahead = AheadIn(Line(r, e), z)
    BY <2>1, <2>2, MappedFields
  <2>8. \A y : y \in AheadIn(l, z) <=>
          y \in AheadIn(Line(r, e), z) \/ (x = o /\ r = s /\ e = p /\ y = o /\ ~(order[z].time <= t))
    BY <1>2, <2>3, <2>5 DEF AheadAfterAdd
  <2>9. AheadIn(l, z) = IF x = o /\ r = s /\ e = p /\ ~(order[z].time <= t)
                          THEN AheadIn(Line(r, e), z) \cup {o} ELSE AheadIn(Line(r, e), z)
    <3>1. PICK B : B = AheadIn(Line(r, e), z)
      OBVIOUS
    <3>2. PICK C : C = AheadIn(l, z)
      OBVIOUS
    <3>3. CASE x = o /\ r = s /\ e = p /\ ~(order[z].time <= t)
      <4>1. \A y : y \in C <=> y \in B \cup {o}
        BY <2>8, <3>1, <3>2, <3>3
      <4>2. C = B \cup {o}
        BY <4>1
      <4> QED BY <3>1, <3>2, <3>3, <4>2
    <3>4. CASE ~(x = o /\ r = s /\ e = p /\ ~(order[z].time <= t))
      <4>1. \A y : y \in C <=> y \in B
        BY <2>8, <3>1, <3>2, <3>4
      <4>2. C = B
        BY <4>1
      <4> QED BY <3>1, <3>2, <3>4, <4>2
    <3> QED BY <3>3, <3>4
  <2> QED BY <2>1, <2>2, <2>6, <2>7, <2>9
<1>9. CASE x # o
  <2>1. Resters' = Resters
    BY <1>7, <1>9
  <2>2. \A z \in Resters : Item(z)' = Item(z)
    BY <1>8, <1>9, MappedFields DEF Item
  <2>3. Mapped' = Mapped
    BY <1>4, <2>1, <2>2 DEF MapIs
  <2> QED BY <2>3
<1>10. CASE x = o
  <2>1. Resters' = Resters \cup {o}
    BY <1>7, <1>10
  <2>2. PICK A : A = {y \in DOMAIN Mapped : (Mapped[y].side = s /\ Mapped[y].limit = p) /\ Mapped[y].rank <= t}
    OBVIOUS
  <2>3. Item(o)' = Entry(s, p, q, t, A)
    <3>1. PICK l : l = LineAt(levels'[s], p)
      OBVIOUS
    <3>2. Item(o)' = Entry(s, p, q, t, AheadIn(l, o))
      BY <1>6, <3>1 DEF Item, Line
    <3>3. \A y : y \in AheadIn(l, o) <=> y \in ToSet(Line(s, p)) /\ order[y].time <= t
      <4>1. \A y : y \notin AheadIn(Line(s, p), o)
        <5> SUFFICES ASSUME NEW y \in AheadIn(Line(s, p), o) PROVE FALSE
          OBVIOUS
        <5>1. o \in ToSet(Line(s, p))
          BY AheadKnown
        <5> QED BY <5>1, <1>7, WaitingRests
      <4>2. o \notin ToSet(Line(s, p))
        BY <1>7, WaitingRests
      <4> QED BY <1>2, <1>10, <3>1, <4>1, <4>2 DEF AheadAfterAdd
    <3>4. \A y : y \in A <=> y \in ToSet(Line(s, p)) /\ order[y].time <= t
      <4>1. \A y \in ToSet(Line(s, p)) : y \in Resters /\ order[y].side = s /\ order[y].price = p
        BY WaitingRests, WaitingKnown
      <4>2. \A y \in Resters : order[y].side = s /\ order[y].price = p => y \in ToSet(Line(s, p))
        BY ResterWaits
      <4> QED BY <2>2, <4>1, <4>2, MappedFields
    <3>5. AheadIn(l, o) = A
      BY <3>3, <3>4
    <3> QED BY <3>2, <3>5
  <2>4. ASSUME NEW z \in Resters
        PROVE  Item(z)' = IF (Mapped[z].side = s /\ Mapped[z].limit = p) /\ Mapped[z].rank > t
                            THEN [Mapped[z] EXCEPT !.ahead = @ \cup {o}] ELSE Mapped[z]
    <3>1. PICK B : B = Mapped[z].ahead
      OBVIOUS
    <3>2. /\ Mapped[z] = Entry(order[z].side, order[z].price, order[z].remaining, order[z].time, B)
          /\ Mapped[z].side = order[z].side /\ Mapped[z].limit = order[z].price /\ Mapped[z].rank = order[z].time
      BY <3>1, MappedFields DEF Item, Entry
    <3>3. order[z].time \in Nat /\ t \in Nat
      BY <1>3, ResterWaits, OrderTimes, VectorBookAssumption
    <3>4. (~(order[z].time <= t)) <=> Mapped[z].rank > t
      BY <3>2, <3>3
    <3>5. CASE (Mapped[z].side = s /\ Mapped[z].limit = p) /\ Mapped[z].rank > t
      <4>1. Item(z)' = Entry(order[z].side, order[z].price, order[z].remaining, order[z].time, B \cup {o})
        BY <1>8, <1>10, <3>1, <3>2, <3>4, <3>5
      <4>2. [Mapped[z] EXCEPT !.ahead = @ \cup {o}]
              = Entry(order[z].side, order[z].price, order[z].remaining, order[z].time, B \cup {o})
        BY <3>2 DEF Entry
      <4> QED BY <3>5, <4>1, <4>2
    <3>6. CASE ~((Mapped[z].side = s /\ Mapped[z].limit = p) /\ Mapped[z].rank > t)
      <4>1. Item(z)' = Entry(order[z].side, order[z].price, order[z].remaining, order[z].time, B)
        BY <1>8, <1>10, <3>1, <3>2, <3>4, <3>6
      <4> QED BY <3>2, <3>6, <4>1
    <3> QED BY <3>5, <3>6
  <2>5. Mapped' = [z \in DOMAIN Mapped \cup {o} |->
          CASE z = o -> [side |-> s, limit |-> p, qty |-> q, rank |-> t, ahead |-> A]
            [] z # o /\ ((Mapped[z].side = s /\ Mapped[z].limit = p) /\ Mapped[z].rank > t)
                 -> [Mapped[z] EXCEPT !.ahead = @ \cup {o}]
            [] OTHER -> Mapped[z]]
    <3>1. PICK F : F = [z \in DOMAIN Mapped \cup {o} |->
            CASE z = o -> [side |-> s, limit |-> p, qty |-> q, rank |-> t, ahead |-> A]
              [] z # o /\ ((Mapped[z].side = s /\ Mapped[z].limit = p) /\ Mapped[z].rank > t)
                   -> [Mapped[z] EXCEPT !.ahead = @ \cup {o}]
              [] OTHER -> Mapped[z]]
      OBVIOUS
    <3>2. DOMAIN Mapped = Resters
      BY MappedFields
    <3>3. F = [z \in Resters \cup {o} |-> F[z]]
      BY <3>1, <3>2
    <3>4. \A z \in Resters : Item(z)' = F[z]
      BY <1>7, <2>4, <3>1, <3>2
    <3>5. Item(o)' = F[o]
      BY <2>3, <3>1 DEF Entry
    <3>6. Mapped' = [z \in Resters \cup {o} |-> F[z]]
      BY <1>4, <2>1, <3>4, <3>5 DEF MapIs
    <3> QED BY <3>1, <3>3, <3>6
  <2>6. Abstract!Admit(o, s, p, q, t)
    BY <2>2, <2>5 DEF Abstract!Admit, Abstract!Before, Abstract!Behind, Abstract!Same, Abstract!Waiting, Mapped
  <2>7. o \in Orders \ Abstract!Waiting
    BY <1>7 DEF Abstract!Waiting, Resters
  <2>8. ~Abstract!CanTrade
    BY NoTrade DEF addOrderImpl, Busy
  <2>9. s \in Abstract!Sides /\ p \in 1..MaxPrice
    BY DEF Sides, Abstract!Sides, Prices
  <2> QED BY <1>3, <2>6, <2>7, <2>8, <2>9 DEF Abstract!Next
<1> QED BY <1>9, <1>10

\* A round of matching is a trade of the two first orders, as the map shows it.
Trades(b, a, d, G) ==
  Mapped' = [x \in DOMAIN Mapped \ G |->
    [[Mapped[x] EXCEPT !.ahead = @ \ G] EXCEPT !.qty = IF x \in {b, a} THEN @ - d ELSE @]]

LEMMA FillMap ==
  ASSUME IInv, CanFill, NEW b, NEW a, NEW q, NEW gone, FillStep(b, a, q, gone)
  PROVE  Trades(b, a, q, gone)
<1>1. DepartStep(gone, gone)
  BY FillIsDepart
<1>2. MapIs'
  BY <1>1, DepartKeeps, MapIsNext
<1>3. Resters' = Resters \ gone
  BY <1>1, DepartMap
<1>4. ASSUME NEW x \in Resters \ gone
      PROVE  Item(x)' = [[Mapped[x] EXCEPT !.ahead = @ \ gone]
                           EXCEPT !.qty = IF x \in {b, a} THEN @ - q ELSE @]
  <2>1. PICK A : A = Mapped[x].ahead
    OBVIOUS
  <2>2. PICK n : n = order[x].remaining
    OBVIOUS
  <2>3. PICK m : m = IF x \in {b, a} THEN n - q ELSE n
    OBVIOUS
  <2>4. order'[x].remaining = m
    <3>1. x \in Known'
      <4>1. x # Dangling
        BY ResterWaits, VectorBookAssumption
      <4>2. x \in Resters'
        BY <1>3, <1>4
      <4> QED BY <4>1, <4>2 DEF Resters, Known
    <3>2. order'[x] = IF x \in {b, a} THEN [order[x] EXCEPT !.remaining = @ - q] ELSE order[x]
      BY <3>1 DEF FillStep
    <3>3. order[x] \in OrderFields
      BY <1>4, ResterWaits
    <3> QED BY <2>2, <2>3, <3>2, <3>3 DEF OrderFields
  <2>5. PICK s : s = order[x].side
    OBVIOUS
  <2>6. PICK p : p = order[x].price
    OBVIOUS
  <2>7. PICK k : k = order[x].time
    OBVIOUS
  <2>8. Item(x)' = Entry(s, p, m, k, A \ gone)
    BY <1>1, <1>4, <2>1, <2>4, <2>5, <2>6, <2>7, DepartMap
  <2>9. Mapped[x] = Entry(s, p, n, k, A)
    BY <2>1, <2>2, <2>5, <2>6, <2>7, MappedFields DEF Item, Entry
  <2>10. PICK B : B = A \ gone
    OBVIOUS
  <2>11. [Mapped[x] EXCEPT !.ahead = @ \ gone] = Entry(s, p, n, k, B)
    BY <2>9, <2>10 DEF Entry
  <2>12. [Entry(s, p, n, k, B) EXCEPT !.qty = IF x \in {b, a} THEN @ - q ELSE @] = Entry(s, p, m, k, B)
    BY <2>3 DEF Entry
  <2> QED BY <2>8, <2>10, <2>11, <2>12
<1>5. DOMAIN Mapped = Resters
  BY MappedFields
<1> QED BY <1>2, <1>3, <1>4, <1>5 DEF MapIs, Trades

LEMMA FillAbstract ==
  ASSUME IInv, Fill
  PROVE  Abstract!Next
<1>1. PICK b, a, d, G : FillStep(b, a, d, G)
  BY FillIs
<1>2. CanFill /\ Crosses
  BY DEF Fill, CanFill
<1>3. Trades(b, a, d, G)
  BY <1>1, <1>2, FillMap
<1>4. /\ b = Head(BestLevel("Buy").orders) /\ a = Head(BestLevel("Sell").orders)
      /\ d = Lesser(order[b].remaining, order[a].remaining)
      /\ G = {x \in {b, a} : order[x].remaining = d}
  BY <1>1 DEF FillStep, FirstBuy, FirstSell
<1>5. /\ b \in Resters /\ b \in Abstract!First("Buy")
      /\ a \in Resters /\ a \in Abstract!First("Sell")
  BY <1>2, <1>4, FrontIsFirst DEF Sides
<1>6. order[b].price = BestLevel("Buy").price /\ order[a].price = BestLevel("Sell").price
  BY <1>2, <1>4, FirstWaits DEF Sides
<1>7. order[b].price >= order[a].price
  BY <1>2, <1>6 DEF Crosses
<1>8. /\ Mapped[b].limit = order[b].price /\ Mapped[a].limit = order[a].price
      /\ Mapped[b].qty = order[b].remaining /\ Mapped[a].qty = order[a].remaining
  BY <1>5, MappedFields
<1>9. d = IF Mapped[b].qty < Mapped[a].qty THEN Mapped[b].qty ELSE Mapped[a].qty
  BY <1>4, <1>8 DEF Lesser
<1>10. G = {o \in {b, a} : Mapped[o].qty = d}
  BY <1>4, <1>8
<1>11. Mapped[b].limit >= Mapped[a].limit
  BY <1>7, <1>8
<1>12. Mapped' = [o \in DOMAIN Mapped \ G |->
          [[x \in DOMAIN Mapped \ G |-> [Mapped[x] EXCEPT !.ahead = @ \ G]][o]
             EXCEPT !.qty = IF o \in {b, a} THEN @ - d ELSE @]]
  BY <1>3 DEF Trades
<1>13. /\ Mapped[b].limit >= Mapped[a].limit
       /\ LET q    == IF Mapped[b].qty < Mapped[a].qty THEN Mapped[b].qty ELSE Mapped[a].qty
              gone == {o \in {b, a} : Mapped[o].qty = q}
          IN  Mapped' = [o \in DOMAIN Mapped \ gone |->
                [[x \in DOMAIN Mapped \ gone |-> [Mapped[x] EXCEPT !.ahead = @ \ gone]][o]
                   EXCEPT !.qty = IF o \in {b, a} THEN @ - q ELSE @]]
  BY <1>9, <1>10, <1>11, <1>12, Zenon
<1>14. Abstract!Trade(b, a)
  BY <1>13 DEF Abstract!Trade, Abstract!Tradable, Abstract!Without, Abstract!Waiting, Mapped
<1> QED BY <1>5, <1>14, Zenon DEF Abstract!Next

LEMMA AbstractInit == Init => Abstract!Init
<1> SUFFICES ASSUME Init PROVE Abstract!Init
  OBVIOUS
<1>1. {x \in DOMAIN index : index[x] = x} = {}
  BY DEF Init
<1> QED BY <1>1 DEF Abstract!Init

LEMMA AbstractStep == IInv /\ TimesInv /\ [Next]_vars => [Abstract!Next]_Mapped
<1> SUFFICES ASSUME IInv, TimesInv, [Next]_vars PROVE Abstract!Next \/ Mapped' = Mapped
  OBVIOUS
<1>1. IInv'
  BY NextIInv
<1>2. ASSUME NEW s \in Sides, removeEmptyLevelImpl(s) PROVE Mapped' = Mapped
  <2>1. UNCHANGED <<order, index>>
    BY <1>2 DEF removeEmptyLevelImpl
  <2>2. \A r \in Sides, e \in Prices : LineAt(levels'[r], e) = Line(r, e)
    BY <1>2, EmptyLine DEF IInv
  <2> QED BY <1>1, <2>1, <2>2, SameMap
<1>3. CASE FillFaults \/ (\E id \in DOMAIN index : CancelFaults(id)) \/ UNCHANGED vars
  <2>1. UNCHANGED <<order, levels, index>>
    BY <1>3 DEF FillFaults, CancelFaults, vars
  <2>2. \A r \in Sides, e \in Prices : LineAt(levels'[r], e) = Line(r, e)
    BY <2>1 DEF Line
  <2>3. Mapped' = Mapped
    BY <1>1, <2>1, <2>2, SameMap
  <2> QED BY <2>3
<1> QED BY <1>2, <1>3, AddAbstract, CancelAbstract, FillAbstract DEF Next, User, Engine

\* Price-time priority: whatever is added and cancelled, and for each of the three containers,
\* the vector based book trades only the first orders of its two sides, where a list ranks
\* orders as they came and the sets as they were created; nothing else happens while they
\* can trade, and no order that waits is overtaken by one of a later rank.
THEOREM VectorBookKeepsPriority == Spec => ImplementsPriceTimeBook
<1>1. Spec => Abstract!Init
  BY AbstractInit, PTL DEF Spec
<1>2. IInv /\ TimesInv /\ [Next]_vars => [Abstract!Next]_Mapped
  BY AbstractStep
<1> QED BY <1>1, <1>2, BookInvariant, TimesInvariant, PTL
        DEF Spec, ImplementsPriceTimeBook, Abstract!Spec, Mapped
=============================================================================
