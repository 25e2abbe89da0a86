------------------------- MODULE SlabAllocator_proofs -------------------------
(***************************************************************************)
(* Theorems of SlabAllocator, for every size and number of slabs and every *)
(* set of clients.                                                         *)
(***************************************************************************)
EXTENDS SlabAllocator, Integers, SequenceTheorems, FiniteSetTheorems, TLAPS

-----------------------------------------------------------------------------
\* Lists.

\* An element put at the back.
LEMMA Appended ==
  ASSUME NEW S, NEW q \in Seq(S), NEW e \in S
  PROVE  /\ Append(q, e) \in Seq(S) /\ Len(Append(q, e)) = Len(q) + 1
         /\ ToSet(Append(q, e)) = ToSet(q) \cup {e}
         /\ IsInjective(q) /\ e \notin ToSet(q) => IsInjective(Append(q, e))
<1> DEFINE r == Append(q, e)
<1>1. /\ r \in Seq(S) /\ Len(r) = Len(q) + 1 /\ r[Len(r)] = e
      /\ \A k \in 1..Len(q) : r[k] = q[k]
  BY AppendProperties
<1>2. Len(q) \in Nat /\ DOMAIN q = 1..Len(q) /\ DOMAIN r = 1..(Len(q) + 1)
  BY <1>1, LenProperties
<1> HIDE DEF r
<1>3. ToSet(r) = ToSet(q) \cup {e}
  BY <1>1, <1>2 DEF ToSet
<1>4. IsInjective(q) /\ e \notin ToSet(q) => IsInjective(r)
  BY <1>1, <1>2 DEF ToSet, IsInjective
<1> QED BY <1>1, <1>3, <1>4 DEF r

\* The last element taken off.
LEMMA TakenLast ==
  ASSUME NEW S, NEW q \in Seq(S), q # <<>>, IsInjective(q)
  PROVE  /\ Front(q) \in Seq(S) /\ IsInjective(Front(q))
         /\ Last(q) \in ToSet(q) /\ ToSet(q) \subseteq S
         /\ ToSet(Front(q)) = ToSet(q) \ {Last(q)}
         /\ Len(Front(q)) = Len(q) - 1
<1> DEFINE n == Len(q)
           r == Front(q)
<1>1. n \in Nat \ {0} /\ DOMAIN q = 1..n /\ \A k \in 1..n : q[k] \in S
  BY LenProperties, EmptySeq, ElementOfSeq
<1>2. /\ r \in Seq(S) /\ Len(r) = n - 1
      /\ \A k \in 1..(n - 1) : r[k] = q[k]
  <2>1. \A k \in 1..(n - 1) : q[k] \in S  BY <1>1
  <2>2. /\ r \in Seq(S) /\ Len(r) = IF 1 <= n - 1 THEN n - 1 - 1 + 1 ELSE 0
        /\ \A k \in 1..(n - 1 - 1 + 1) : r[k] = q[1 + k - 1]
    BY <1>1, <2>1, SubSeqProperties DEF Front
  <2>3. (IF 1 <= n - 1 THEN n - 1 - 1 + 1 ELSE 0) = n - 1  BY <1>1
  <2>4. \A k \in 1..(n - 1) : k \in 1..(n - 1 - 1 + 1) /\ 1 + k - 1 = k  BY <1>1
  <2> QED BY <2>2, <2>3, <2>4
<1>3. DOMAIN r = 1..(n - 1)
  BY <1>2, LenProperties
<1> HIDE DEF r, n
<1>4. Last(q) = q[n]  BY DEF Last, n
<1>5. \A j, k \in 1..n : q[j] = q[k] => j = k
  BY <1>1 DEF IsInjective
<1>6. ToSet(r) = ToSet(q) \ {q[n]}
  BY <1>1, <1>2, <1>3, <1>5 DEF ToSet
<1>7. IsInjective(r)
  BY <1>1, <1>2, <1>3, <1>5 DEF IsInjective
<1>8. Last(q) \in ToSet(q) /\ ToSet(q) \subseteq S
  BY <1>1, <1>4 DEF ToSet
<1> QED BY <1>2, <1>4, <1>6, <1>7, <1>8 DEF r, n

\* An element put at the front.
LEMMA Prepended ==
  ASSUME NEW S, NEW q \in Seq(S), NEW e \in S
  PROVE  /\ <<e>> \o q \in Seq(S)
         /\ ToSet(<<e>> \o q) = ToSet(q) \cup {e}
         /\ IsInjective(q) /\ e \notin ToSet(q) => IsInjective(<<e>> \o q)
<1> DEFINE r == <<e>> \o q
<1>1. <<e>> \in Seq(S) /\ Len(<<e>>) = 1 /\ <<e>>[1] = e
  OBVIOUS
<1>2. /\ r \in Seq(S) /\ Len(r) = 1 + Len(q)
      /\ \A k \in 1..(1 + Len(q)) : r[k] = IF k <= 1 THEN <<e>>[k] ELSE q[k - 1]
  BY <1>1, ConcatProperties
<1>3. Len(q) \in Nat /\ DOMAIN q = 1..Len(q) /\ DOMAIN r = 1..(1 + Len(q))
  BY <1>2, LenProperties
<1>4. r[1] = e /\ \A k \in 1..Len(q) : r[k + 1] = q[k]
  BY <1>1, <1>2, <1>3
<1> HIDE DEF r
<1>5. \A k \in 1..(1 + Len(q)) : k = 1 \/ (k - 1 \in 1..Len(q) /\ r[k] = q[k - 1])
  BY <1>3, <1>4
<1>6. ToSet(r) = ToSet(q) \cup {e}
  <2>1. 1 \in 1..(1 + Len(q)) /\ \A k \in 1..Len(q) : k + 1 \in 1..(1 + Len(q))
    BY <1>3
  <2>2. ToSet(r) \subseteq ToSet(q) \cup {e}
    BY <1>3, <1>4, <1>5 DEF ToSet
  <2>3. e \in ToSet(r) /\ ToSet(q) \subseteq ToSet(r)
    BY <1>3, <1>4, <2>1 DEF ToSet
  <2> QED BY <2>2, <2>3
<1>7. IsInjective(q) /\ e \notin ToSet(q) => IsInjective(r)
  <2> SUFFICES ASSUME IsInjective(q), e \notin ToSet(q),
                      NEW j \in 1..(1 + Len(q)), NEW k \in 1..(1 + Len(q)), r[j] = r[k]
               PROVE  j = k
    BY <1>3 DEF IsInjective
  <2>1. CASE j = 1 \/ k = 1
    BY <1>3, <1>4, <1>5, <2>1 DEF ToSet
  <2>2. CASE j # 1 /\ k # 1
    BY <1>3, <1>5, <2>2 DEF IsInjective
  <2> QED BY <2>1, <2>2
<1> QED BY <1>2, <1>6, <1>7 DEF r

\* The element at one position removed.
LEMMA Removed ==
  ASSUME NEW S, NEW q \in Seq(S), NEW k \in DOMAIN q, IsInjective(q)
  PROVE  /\ RemoveAt(q, k) \in Seq(S) /\ IsInjective(RemoveAt(q, k))
         /\ ToSet(RemoveAt(q, k)) = ToSet(q) \ {q[k]}
<1> DEFINE n == Len(q)
           r == RemoveAt(q, k)
           u == SubSeq(q, 1, k - 1)
           v == SubSeq(q, k + 1, n)
<1>1. n \in Nat /\ DOMAIN q = 1..n /\ k \in 1..n /\ \A i \in 1..n : q[i] \in S
  BY LenProperties, ElementOfSeq
<1>2. /\ u \in Seq(S) /\ Len(u) = k - 1
      /\ \A i \in 1..(k - 1) : u[i] = q[i]
  <2>1. \A i \in 1..(k - 1) : q[i] \in S  BY <1>1
  <2>2. /\ u \in Seq(S) /\ Len(u) = IF 1 <= k - 1 THEN k - 1 - 1 + 1 ELSE 0
        /\ \A i \in 1..(k - 1 - 1 + 1) : u[i] = q[1 + i - 1]
    BY <1>1, <2>1, SubSeqProperties
  <2> QED BY <1>1, <2>2
<1>3. /\ v \in Seq(S) /\ Len(v) = n - k
      /\ \A i \in 1..(n - k) : v[i] = q[k + i]
  <2>1. \A i \in (k + 1)..n : q[i] \in S  BY <1>1
  <2>2. /\ v \in Seq(S) /\ Len(v) = IF k + 1 <= n THEN n - (k + 1) + 1 ELSE 0
        /\ \A i \in 1..(n - (k + 1) + 1) : v[i] = q[k + 1 + i - 1]
    BY <1>1, <2>1, SubSeqProperties
  <2>3. (IF k + 1 <= n THEN n - (k + 1) + 1 ELSE 0) = n - k  BY <1>1
  <2>4. \A i \in 1..(n - k) : i \in 1..(n - (k + 1) + 1) /\ k + 1 + i - 1 = k + i  BY <1>1
  <2> QED BY <2>2, <2>3, <2>4
<1>4. /\ r \in Seq(S) /\ Len(r) = n - 1 /\ r = u \o v
      /\ \A i \in 1..(n - 1) : r[i] = IF i <= k - 1 THEN u[i] ELSE v[i - (k - 1)]
  <2>1. r = u \o v  BY DEF RemoveAt
  <2>2. /\ u \o v \in Seq(S) /\ Len(u \o v) = Len(u) + Len(v)
        /\ \A i \in 1..(Len(u) + Len(v)) :
             (u \o v)[i] = IF i <= Len(u) THEN u[i] ELSE v[i - Len(u)]
    BY <1>2, <1>3, ConcatProperties
  <2>3. Len(u) = k - 1 /\ Len(u) + Len(v) = n - 1  BY <1>1, <1>2, <1>3
  <2> QED BY <2>1, <2>2, <2>3
<1>5. DOMAIN r = 1..(n - 1)
  BY <1>4, LenProperties
<1>6. \A i \in 1..(n - 1) : r[i] = IF i < k THEN q[i] ELSE q[i + 1]
  <2> SUFFICES ASSUME NEW i \in 1..(n - 1) PROVE r[i] = IF i < k THEN q[i] ELSE q[i + 1]
    OBVIOUS
  <2>1. CASE i < k
    BY <1>1, <1>2, <1>4, <2>1
  <2>2. CASE ~(i < k)
    <3>1. i - (k - 1) \in 1..(n - k) /\ k + (i - (k - 1)) = i + 1 /\ ~(i <= k - 1)
      BY <1>1, <2>2
    <3> QED BY <1>3, <1>4, <2>2, <3>1
  <2> QED BY <2>1, <2>2
<1> HIDE DEF r, n
<1>7. \A i, j \in 1..n : q[i] = q[j] => i = j
  BY <1>1 DEF IsInjective
<1>8. IsInjective(r)
  BY <1>1, <1>5, <1>6, <1>7 DEF IsInjective
<1>9. ToSet(r) = ToSet(q) \ {q[k]}
  <2>1. ASSUME NEW i \in 1..(n - 1) PROVE r[i] \in ToSet(q) \ {q[k]}
    <3>1. CASE i < k
      <4>1. i \in 1..n /\ i # k /\ r[i] = q[i]  BY <1>1, <1>6, <3>1
      <4> QED BY <1>1, <1>7, <4>1 DEF ToSet
    <3>2. CASE ~(i < k)
      <4>1. i + 1 \in 1..n /\ i + 1 # k /\ r[i] = q[i + 1]  BY <1>1, <1>6, <3>2
      <4> QED BY <1>1, <1>7, <4>1 DEF ToSet
    <3> QED BY <3>1, <3>2
  <2>2. ASSUME NEW j \in 1..n, j # k PROVE q[j] \in ToSet(r)
    <3>1. CASE j < k  BY <1>1, <1>5, <1>6, <3>1 DEF ToSet
    <3>2. CASE ~(j < k)
      <4>1. j - 1 \in 1..(n - 1) /\ ~(j - 1 < k) /\ (j - 1) + 1 = j  BY <1>1, <2>2, <3>2
      <4> QED BY <1>5, <1>6, <4>1 DEF ToSet
    <3> QED BY <3>1, <3>2
  <2> QED BY <1>1, <1>5, <2>1, <2>2 DEF ToSet
<1> QED BY <1>4, <1>8, <1>9 DEF r

-----------------------------------------------------------------------------
\* The three lists.

\* The list in which a slab with these free objects belongs.
Home(free) == IF is_full(free) THEN "full" ELSE IF is_free(free) THEN "free" ELSE "partial"

SlabsOf(l) == UNION {ToSet(l[x]) : x \in Lists}

\* Every slab of the lists l is in one of them, once, and that one is its home when f is what
\* is free.
Sorted(l, f) ==
  /\ l \in [Lists -> Seq(Slabs)]
  /\ \A x \in Lists : IsInjective(l[x])
  /\ \A x, y \in Lists : x # y => ToSet(l[x]) \cap ToSet(l[y]) = {}
  /\ \A x \in Lists : \A s \in ToSet(l[x]) : Home(f[s]) = x

\* The free objects of each slab: no more than fit, each once.
FreeOK(f) ==
  /\ f \in [Slabs -> Seq(Objects)]
  /\ \A s \in Slabs : IsInjective(f[s]) /\ \A o \in ToSet(f[s]) : o[1] = s

\* The lists r hold the slabs of l and suit the free objects g.
Resorts(r, l, g) == Sorted(r, g) /\ SlabsOf(r) = SlabsOf(l)

LEMMA ThreeLists ==
  ASSUME NEW l
  PROVE  /\ SlabsOf(l) = ToSet(l["partial"]) \cup ToSet(l["free"]) \cup ToSet(l["full"])
         /\ {"partial", "free", "full"} \subseteq Lists
BY DEF SlabsOf, Lists

\* The lists hold slabs, and no slab is in two of them.
LEMMA SortedLists ==
  ASSUME NEW l, NEW f, Sorted(l, f)
  PROVE  /\ \A x \in Lists : l[x] \in Seq(Slabs) /\ IsInjective(l[x]) /\ ToSet(l[x]) \subseteq Slabs
         /\ \A x, y \in Lists : \A s \in ToSet(l[x]) : x # y => s \notin ToSet(l[y])
<1>1. \A x \in Lists : l[x] \in Seq(Slabs) /\ IsInjective(l[x])
  BY DEF Sorted
<1>2. ASSUME NEW x \in Lists PROVE ToSet(l[x]) \subseteq Slabs
  <2>1. DOMAIN l[x] = 1..Len(l[x]) /\ \A k \in 1..Len(l[x]) : l[x][k] \in Slabs
    BY <1>1, LenProperties, ElementOfSeq
  <2> QED BY <2>1 DEF ToSet
<1>3. \A x, y \in Lists : \A s \in ToSet(l[x]) : x # y => s \notin ToSet(l[y])
  BY DEF Sorted
<1> QED BY <1>1, <1>2, <1>3

\* A slab with an object more or less stays where it belongs, if it still belongs there.
LEMMA Stays ==
  ASSUME NEW l, NEW f, NEW x \in Lists, NEW s \in ToSet(l[x]), NEW free,
         Sorted(l, f), f \in [Slabs -> Seq(Objects)], Home(free) = x
  PROVE  Sorted(l, [f EXCEPT ![s] = free])
<1>1. \A y \in Lists : ToSet(l[y]) \subseteq Slabs
  BY SortedLists
<1>2. \A y \in Lists : y # x => s \notin ToSet(l[y])
  BY SortedLists
<1>3. \A t \in Slabs : [f EXCEPT ![s] = free][t] = IF t = s THEN free ELSE f[t]
  OBVIOUS
<1> QED BY <1>1, <1>2, <1>3 DEF Sorted

\* A slab that belongs elsewhere now is moved there and nothing else moves.
LEMMA Moves ==
  ASSUME NEW l, NEW f, NEW x \in Lists, NEW y \in Lists, x # y, NEW s \in ToSet(l[x]), NEW free,
         Sorted(l, f), f \in [Slabs -> Seq(Objects)], Home(free) = y,
         NEW r, r = Spliced(l, s, x, y), NEW g, g = [f EXCEPT ![s] = free]
  PROVE  Resorts(r, l, g)
<1> DEFINE k == CHOOSE j \in DOMAIN l[x] : l[x][j] = s
<1>1. /\ \A z \in Lists : l[z] \in Seq(Slabs) /\ IsInjective(l[z]) /\ ToSet(l[z]) \subseteq Slabs
      /\ \A z \in Lists : z # x => s \notin ToSet(l[z])
  BY SortedLists
<1>2. k \in DOMAIN l[x] /\ l[x][k] = s
  BY DEF ToSet
<1>3. r = [l EXCEPT ![y] = <<s>> \o @, ![x] = RemoveAt(l[x], k)]
  BY DEF Spliced, Sorted
<1> HIDE DEF k
<1>4. /\ r[y] = <<s>> \o l[y] /\ r[x] = RemoveAt(l[x], k)
      /\ \A z \in Lists : z # x /\ z # y => r[z] = l[z]
      /\ DOMAIN r = Lists
  BY <1>3 DEF Sorted
<1>5. /\ r[y] \in Seq(Slabs) /\ IsInjective(r[y]) /\ ToSet(r[y]) = ToSet(l[y]) \cup {s}
  BY <1>1, <1>4, Prepended
<1>6. /\ r[x] \in Seq(Slabs) /\ IsInjective(r[x]) /\ ToSet(r[x]) = ToSet(l[x]) \ {s}
  BY <1>1, <1>2, <1>4, Removed
<1>7. r \in [Lists -> Seq(Slabs)]
  <2>1. r = [z \in Lists |-> r[z]]  BY <1>3 DEF Sorted
  <2>2. \A z \in Lists : r[z] \in Seq(Slabs)  BY <1>1, <1>4, <1>5, <1>6
  <2> QED BY <2>1, <2>2
<1>8. \A z \in Lists : ToSet(r[z]) = IF z = x THEN ToSet(l[x]) \ {s}
                                     ELSE IF z = y THEN ToSet(l[y]) \cup {s} ELSE ToSet(l[z])
  BY <1>4, <1>5, <1>6
<1>9. \A t \in Slabs : g[t] = IF t = s THEN free ELSE f[t]
  OBVIOUS
<1>10. \A z \in Lists : IsInjective(r[z])
  BY <1>1, <1>4, <1>5, <1>6
<1>11. \A z, w \in Lists : z # w => ToSet(r[z]) \cap ToSet(r[w]) = {}
  <2> SUFFICES ASSUME NEW z \in Lists, NEW w \in Lists, z # w,
                      NEW t, t \in ToSet(r[z]), t \in ToSet(r[w])
               PROVE  FALSE
    OBVIOUS
  <2>1. CASE t = s  BY <1>1, <1>8, <2>1
  <2>2. CASE t # s
    <3>1. t \in ToSet(l[z])  BY <1>8, <2>2
    <3>2. t \in ToSet(l[w])  BY <1>8, <2>2
    <3> QED BY <3>1, <3>2 DEF Sorted
  <2> QED BY <2>1, <2>2
<1>12. \A z \in Lists : \A t \in ToSet(r[z]) : Home(g[t]) = z
  <2> SUFFICES ASSUME NEW z \in Lists, NEW t \in ToSet(r[z]) PROVE Home(g[t]) = z
    OBVIOUS
  <2>1. CASE t = s
    <3>1. z = y /\ s \in Slabs  BY <1>1, <1>8, <2>1
    <3> QED BY <1>9, <2>1, <3>1
  <2>2. CASE t # s
    <3>1. t \in ToSet(l[z])  BY <1>8, <2>2
    <3>2. t \in Slabs  BY <1>1, <3>1
    <3> QED BY <1>9, <2>2, <3>1, <3>2 DEF Sorted
  <2> QED BY <2>1, <2>2
<1>13. Sorted(r, g)
  BY <1>7, <1>10, <1>11, <1>12 DEF Sorted
<1>14. SlabsOf(r) = SlabsOf(l)
  BY <1>8 DEF SlabsOf
<1> QED BY <1>13, <1>14 DEF Resorts

\* An object is its slab and its place.
LEMMA ObjectIs ==
  ASSUME NEW o \in Objects
  PROVE  o[1] \in Slabs /\ o[2] \in 1..SlabSize /\ o = <<o[1], o[2]>>
BY DEF Objects

\* No slab has more free objects than places.
LEMMA SlabBound ==
  ASSUME NEW q \in Seq(Objects), IsInjective(q), NEW s, \A o \in ToSet(q) : o[1] = s
  PROVE  Len(q) \in 0..SlabSize
<1> DEFINE n == Len(q)
           place == [k \in 1..n |-> q[k][2]]
<1>1. n \in Nat /\ DOMAIN q = 1..n /\ SlabSize \in Nat
  BY LenProperties, SlabAssumption
<1>2. \A k \in 1..n : q[k][2] \in 1..SlabSize /\ q[k] = <<s, q[k][2]>>
  <2> SUFFICES ASSUME NEW k \in 1..n PROVE q[k][2] \in 1..SlabSize /\ q[k] = <<s, q[k][2]>>
    OBVIOUS
  <2>1. q[k] \in Objects /\ q[k] \in ToSet(q)  BY <1>1, ElementOfSeq DEF ToSet
  <2> QED BY <2>1, ObjectIs
<1>3. place \in [1..n -> 1..SlabSize]
  BY <1>2
<1>4. \A j, k \in 1..n : place[j] = place[k] => j = k
  <2> SUFFICES ASSUME NEW j \in 1..n, NEW k \in 1..n, place[j] = place[k] PROVE j = k
    OBVIOUS
  <2>1. q[j] = q[k]  BY <1>2
  <2> QED BY <1>1, <2>1 DEF IsInjective
<1>5. place \in Injection(1..n, 1..SlabSize)
  BY <1>3, <1>4 DEF Injection, IsInjective
<1>6. IsFiniteSet(1..SlabSize) /\ Cardinality(1..SlabSize) = SlabSize /\ Cardinality(1..n) = n
  <2>1. /\ IsFiniteSet(1..SlabSize) /\ Cardinality(1..SlabSize) = IF 1 > SlabSize THEN 0 ELSE SlabSize - 1 + 1
        /\ Cardinality(1..n) = IF 1 > n THEN 0 ELSE n - 1 + 1
    BY <1>1, FS_Interval
  <2> QED BY <1>1, <2>1
<1>7. n <= SlabSize
  BY <1>5, <1>6, FS_Injection
<1> QED BY <1>1, <1>7

-----------------------------------------------------------------------------
\* The inductive invariant.

\* The slabs were created in the order of their numbers and those to come are whole.
CreatedInOrder ==
  /\ \E n \in 1..MaxSlabs : Created = 1..n
  /\ \A s \in Slabs \ Created : is_free(objs[s])

IInv == TypeOK /\ Sorted(list, objs) /\ FreeOK(objs) /\ CreatedInOrder /\ HeldByOne /\ NothingElseLost

LEMMA InitInv == Init => IInv
<1> SUFFICES ASSUME Init PROVE IInv
  OBVIOUS
<1>0. /\ SlabSize \in Nat /\ SlabSize > 1 /\ MaxSlabs \in Nat /\ MaxSlabs > 0 /\ 1 \in Slabs
      /\ "free" \in Lists
  BY SlabAssumption DEF Slabs, Lists
<1>1. /\ list["free"] = <<1>> /\ list["partial"] = <<>> /\ list["full"] = <<>>
      /\ list \in [Lists -> Seq(Slabs)]
  BY <1>0 DEF Init, Lists
<1>2. ToSet(list["free"]) = {1} /\ ToSet(list["partial"]) = {} /\ ToSet(list["full"]) = {}
      /\ \A x \in Lists : IsInjective(list[x])
  BY <1>1 DEF ToSet, IsInjective, Lists
<1>3. ASSUME NEW s \in Slabs
      PROVE  /\ objs[s] \in Seq(Objects) /\ Len(objs[s]) = SlabSize /\ IsInjective(objs[s])
             /\ ToSet(objs[s]) = {<<s, k>> : k \in 1..SlabSize}
  <2>1. objs[s] = [k \in 1..SlabSize |-> <<s, k>>]  BY DEF Init
  <2>2. \A k \in 1..SlabSize : <<s, k>> \in Objects  BY DEF Objects
  <2>3. objs[s] \in Seq(Objects)  BY <1>0, <2>1, <2>2, IsASeq
  <2>4. Len(objs[s]) = SlabSize  BY <1>0, <2>1, <2>3, LenProperties
  <2>5. DOMAIN objs[s] = 1..SlabSize /\ \A k \in 1..SlabSize : objs[s][k] = <<s, k>>
    BY <2>1
  <2>6. ToSet(objs[s]) = {<<s, k>> : k \in 1..SlabSize}  BY <2>5 DEF ToSet
  <2>7. IsInjective(objs[s])  BY <2>5 DEF IsInjective
  <2> QED BY <2>3, <2>4, <2>6, <2>7
<1>4. objs \in [Slabs -> Seq(Objects)]
  <2>1. objs = [s \in Slabs |-> objs[s]]  BY DEF Init
  <2> QED BY <1>3, <2>1
<1>5. Created = 1..1
  BY <1>2 DEF Created, Lists
<1>6. Sorted(list, objs)
  <2>1. Home(objs[1]) = "free"
    BY <1>0, <1>3 DEF Home, is_full, is_free
  <2> QED BY <1>1, <1>2, <2>1 DEF Sorted, Lists
<1>7. FreeOK(objs)
  BY <1>3, <1>4 DEF FreeOK
<1>8. CreatedInOrder
  BY <1>0, <1>3, <1>5 DEF CreatedInOrder, is_free
<1>9. mapped = {} /\ held = [c \in Clients |-> {}] /\ lost = {} /\ alive = TRUE
  BY DEF Init
<1>10. TypeOK
  BY <1>0, <1>1, <1>3, <1>4, <1>9 DEF TypeOK
<1>11. HeldByOne
  BY <1>3, <1>9 DEF HeldByOne
<1>12. NothingElseLost
  <2>1. UNION {ToSet(objs[s]) : s \in Slabs} = Objects
    BY <1>3 DEF Objects
  <2> QED BY <1>3, <1>9, <2>1 DEF NothingElseLost
<1> QED BY <1>6, <1>7, <1>8, <1>10, <1>11, <1>12 DEF IInv

\* The lists once a slab was added, if none had a free object.
LEMMA Grown ==
  ASSUME IInv, Cardinality(Created) < MaxSlabs \/ WithSlab = list
  PROVE  /\ Sorted(WithSlab, objs)
         /\ \E n \in 1..MaxSlabs : SlabsOf(WithSlab) = 1..n
         /\ Created \subseteq SlabsOf(WithSlab)
         /\ WithSlab["partial"] # <<>> \/ WithSlab["free"] # <<>>
         /\ WithSlab # list => \A s \in Created : is_full(objs[s])
<1>0. /\ {"partial", "free", "full"} = Lists /\ SlabSize > 1 /\ SlabSize \in Nat /\ MaxSlabs \in Nat
      /\ list \in [Lists -> Seq(Slabs)] /\ Sorted(list, objs)
  BY SlabAssumption DEF Lists, IInv, TypeOK
<1>1. CASE ~(list["partial"] = <<>> /\ list["free"] = <<>>)
  <2>1. WithSlab = list  BY <1>1 DEF WithSlab
  <2>2. SlabsOf(list) = Created  BY DEF SlabsOf, Created
  <2> QED BY <1>0, <1>1, <2>1, <2>2 DEF IInv, CreatedInOrder
<1>2. CASE list["partial"] = <<>> /\ list["free"] = <<>>
  <2> DEFINE c == Cardinality(Created) + 1
             l == [list EXCEPT !["free"] = <<c>>]
  <2>1. WithSlab = l  BY <1>2 DEF WithSlab, NewSlab
  <2>2. PICK n \in 1..MaxSlabs : Created = 1..n  BY DEF IInv, CreatedInOrder
  <2>3. Cardinality(Created) = n
    BY <1>0, <2>2, FS_Interval
  <2>4. l["free"] = <<c>> /\ l["partial"] = <<>> /\ l["full"] = list["full"]
    BY <1>0, <1>2
  <2>5. l # list  BY <1>2, <2>4
  <2>6. c = n + 1 /\ c \in Slabs /\ c \notin Created
    BY <1>0, <2>1, <2>2, <2>3, <2>5 DEF Slabs
  <2> HIDE DEF c
  <2>7. l \in [Lists -> Seq(Slabs)]
    <3>1. <<c>> \in Seq(Slabs)  BY <2>6
    <3> QED BY <1>0, <3>1
  <2>8. ToSet(l["free"]) = {c} /\ ToSet(l["partial"]) = {} /\ ToSet(l["full"]) = ToSet(list["full"])
    BY <2>4 DEF ToSet
  <2>9. ToSet(list["free"]) = {} /\ ToSet(list["partial"]) = {} /\ Created = ToSet(list["full"])
    <3>1. ToSet(list["free"]) = {} /\ ToSet(list["partial"]) = {}  BY <1>2 DEF ToSet
    <3>2. Created = SlabsOf(list)  BY DEF SlabsOf, Created
    <3> QED BY <3>1, <3>2, ThreeLists
  <2> HIDE DEF l
  <2>10. \A x \in Lists : IsInjective(l[x])
    <3>1. IsInjective(l["free"]) /\ IsInjective(l["partial"])
      BY <2>4 DEF IsInjective
    <3> QED BY <1>0, <2>4, <3>1 DEF Sorted
  <2>11. Home(objs[c]) = "free"
    <3>1. is_free(objs[c])  BY <2>6 DEF IInv, CreatedInOrder
    <3> QED BY <1>0, <3>1 DEF Home, is_full, is_free
  <2>12. Sorted(l, objs)
    <3>1. \A x, y \in Lists : x # y => ToSet(l[x]) \cap ToSet(l[y]) = {}
      BY <2>6, <2>8, <2>9 DEF Lists
    <3>2. \A x \in Lists : \A s \in ToSet(l[x]) : Home(objs[s]) = x
      BY <1>0, <2>8, <2>11 DEF Sorted
    <3> QED BY <2>7, <2>10, <3>1, <3>2 DEF Sorted
  <2>13. SlabsOf(l) = 1..(n + 1)
    <3>1. SlabsOf(l) = Created \cup {c}
      BY <2>8, <2>9, ThreeLists
    <3> QED BY <2>2, <2>6, <3>1
  <2>14. \A s \in Created : is_full(objs[s])
    <3>1. \A s \in Created : Home(objs[s]) = "full"  BY <1>0, <2>9 DEF Sorted
    <3> QED BY <3>1 DEF Home
  <2>15. n + 1 \in 1..MaxSlabs /\ Created \subseteq SlabsOf(l) /\ l["free"] # <<>>
    BY <1>0, <2>2, <2>4, <2>6, <2>13 DEF Slabs
  <2> QED BY <2>1, <2>12, <2>13, <2>14, <2>15
<1> QED BY <1>1, <1>2

-----------------------------------------------------------------------------
\* The steps.

\* allocate takes one free object from the slab it finds, and the slab ends up in its list.
LEMMA HandsOut ==
  ASSUME IInv, NEW o, HandOut(o)
  PROVE  /\ o \in Objects /\ o \notin mapped /\ o \in UNION {ToSet(objs[s]) : s \in Slabs}
         /\ Sorted(list', objs') /\ FreeOK(objs') /\ CreatedInOrder'
         /\ \A s \in Slabs : ToSet(objs'[s]) = ToSet(objs[s]) \ {o}
         /\ Created' # Created => \A s \in Created : is_full(objs[s])
<1> DEFINE l      == WithSlab
           source == IF l["partial"] # <<>> THEN "partial" ELSE "free"
           s      == Head(l[source])
           free   == Front(objs[s])
           target == Target(source, free)
<1>1. /\ Cardinality(Created) < MaxSlabs \/ l = list
      /\ o = Last(objs[s])
      /\ objs' = [objs EXCEPT ![s] = free]
      /\ list' = IF source = target THEN l ELSE Spliced(l, s, source, target)
  BY DEF HandOut
<1>2. /\ Sorted(l, objs)
      /\ l["partial"] # <<>> \/ l["free"] # <<>>
      /\ Created \subseteq SlabsOf(l)
      /\ \E n \in 1..MaxSlabs : SlabsOf(l) = 1..n
      /\ l # list => \A t \in Created : is_full(objs[t])
  BY <1>1, Grown
<1> HIDE DEF l
<1>3. /\ source \in Lists /\ l[source] \in Seq(Slabs) /\ l[source] # <<>>
      /\ source \in {"partial", "free"}
  <2>1. source \in {"partial", "free"} /\ l[source] # <<>>  BY <1>2
  <2>2. source \in Lists  BY <2>1 DEF Lists
  <2>3. l[source] \in Seq(Slabs)  BY <1>2, <2>2, SortedLists
  <2> QED BY <2>1, <2>2, <2>3
<1>4. s \in ToSet(l[source]) /\ s \in Slabs
  <2>1. Head(l[source]) = l[source][1] /\ 1 \in DOMAIN l[source]
    BY <1>3, LenProperties, EmptySeq
  <2>2. s \in ToSet(l[source])  BY <2>1 DEF ToSet
  <2> QED BY <1>2, <1>3, <2>2, SortedLists
<1>5. /\ objs \in [Slabs -> Seq(Objects)] /\ objs[s] \in Seq(Objects) /\ IsInjective(objs[s])
      /\ \A x \in ToSet(objs[s]) : x[1] = s
      /\ Len(objs[s]) \in 0..SlabSize /\ SlabSize \in Nat /\ SlabSize > 1
  BY <1>4, SlabBound, SlabAssumption DEF IInv, FreeOK
<1>6. Home(objs[s]) = source
  <2>1. \A x \in Lists : \A t \in ToSet(l[x]) : Home(objs[t]) = x
    BY <1>2 DEF Sorted
  <2> HIDE DEF source, s
  <2> QED BY <1>3, <1>4, <2>1
<1>7. objs[s] # <<>>
  BY <1>3, <1>6 DEF Home, is_full
<1>8. /\ free \in Seq(Objects) /\ IsInjective(free) /\ Len(free) = Len(objs[s]) - 1
      /\ o \in ToSet(objs[s]) /\ ToSet(free) = ToSet(objs[s]) \ {o} /\ o \in Objects
  BY <1>1, <1>5, <1>7, TakenLast
<1> HIDE DEF source, s, free
<1>9. Home(free) = target /\ target \in Lists
  <2>1. free = <<>> <=> Len(free) = 0  BY <1>8, EmptySeq
  <2>2. Len(objs[s]) # 0  BY <1>5, <1>7, EmptySeq
  <2>3. source = "free" => Len(objs[s]) = SlabSize
    BY <1>6 DEF Home, is_free
  <2>4. source = "partial" => Len(objs[s]) # SlabSize
    BY <1>6 DEF Home, is_free
  <2>5. CASE source = "free"
    BY <1>5, <1>8, <2>1, <2>3, <2>5 DEF Home, Target, is_full, is_free, Lists
  <2>6. CASE source = "partial"
    BY <1>5, <1>8, <2>1, <2>4, <2>6 DEF Home, Target, is_full, is_free, Lists
  <2> QED BY <1>3, <2>5, <2>6
<1> HIDE DEF target
<1>10. Sorted(list', objs') /\ SlabsOf(list') = SlabsOf(l)
  <2>1. CASE source = target
    <3>1. Sorted(l, [objs EXCEPT ![s] = free])
      BY <1>2, <1>3, <1>4, <1>5, <1>9, <2>1, Stays
    <3>2. list' = l  BY <1>1, <2>1
    <3> QED BY <1>1, <3>1, <3>2
  <2>2. CASE source # target
    <3>1. list' = Spliced(l, s, source, target)  BY <1>1, <2>2
    <3>2. Resorts(list', l, objs')
      BY <1>1, <1>2, <1>3, <1>4, <1>5, <1>9, <2>2, <3>1, Moves
    <3> QED BY <3>2 DEF Resorts
  <2> QED BY <2>1, <2>2
<1>11. \A t \in Slabs : objs'[t] = IF t = s THEN free ELSE objs[t]
  BY <1>1, <1>5
<1>12. objs' \in [Slabs -> Seq(Objects)]
  BY <1>1, <1>5, <1>8
<1>13. \A t \in Slabs : t # s => o \notin ToSet(objs[t])
  BY <1>5, <1>8 DEF IInv, FreeOK
<1>14. \A t \in Slabs : ToSet(objs'[t]) = ToSet(objs[t]) \ {o}
  BY <1>8, <1>11, <1>13
<1>15. FreeOK(objs')
  BY <1>8, <1>11, <1>12, <1>14 DEF IInv, FreeOK
<1>16. Created' = SlabsOf(l)
  BY <1>10 DEF Created, SlabsOf
<1>17. CreatedInOrder'
  <2>1. s \in SlabsOf(l)  BY <1>3, <1>4 DEF SlabsOf
  <2>2. \A t \in Slabs \ Created' : t \in Slabs \ Created /\ objs'[t] = objs[t]
    BY <1>2, <1>11, <1>16, <2>1
  <2> QED BY <1>2, <1>16, <2>2 DEF IInv, CreatedInOrder
<1>18. o \notin mapped
  BY <1>4, <1>8 DEF IInv, HeldByOne
<1>19. Created' # Created => l # list
  BY <1>16 DEF Created, SlabsOf
<1> QED BY <1>2, <1>4, <1>8, <1>10, <1>14, <1>15, <1>17, <1>18, <1>19

\* deallocate gives an object back to its slab, and the slab ends up in its list.
LEMMA TakesBack ==
  ASSUME IInv, NEW o \in Objects, o \in mapped, o[1] \in Created, Return(o)
  PROVE  /\ Sorted(list', objs') /\ FreeOK(objs') /\ CreatedInOrder'
         /\ \A s \in Slabs : ToSet(objs'[s]) = ToSet(objs[s]) \cup (IF s = o[1] THEN {o} ELSE {})
         /\ Created' = Created
<1> DEFINE s    == o[1]
           free == Append(objs[s], o)
<1>1. /\ objs' = [objs EXCEPT ![s] = free]
      /\ list' = IF is_full(objs[s]) THEN Spliced(list, s, "full", "partial")
                 ELSE IF is_free(free) THEN Spliced(list, s, "partial", "free") ELSE list
  BY DEF Return
<1>2. /\ s \in Slabs /\ objs[s] \in Seq(Objects) /\ IsInjective(objs[s]) /\ o \notin ToSet(objs[s])
      /\ \A x \in ToSet(objs[s]) : x[1] = s
      /\ objs \in [Slabs -> Seq(Objects)] /\ Sorted(list, objs)
      /\ SlabSize \in Nat /\ SlabSize > 1
  BY ObjectIs, SlabAssumption DEF IInv, FreeOK, HeldByOne
<1>3. /\ free \in Seq(Objects) /\ Len(free) = Len(objs[s]) + 1
      /\ ToSet(free) = ToSet(objs[s]) \cup {o} /\ IsInjective(free)
  BY <1>2, Appended
<1> HIDE DEF s, free
<1>4. \A x \in ToSet(free) : x[1] = s
  BY <1>2, <1>3 DEF s
<1>5. Len(free) \in 0..SlabSize /\ Len(objs[s]) \in Nat
  BY <1>2, <1>3, <1>4, SlabBound, LenProperties
<1>6. PICK x \in Lists : s \in ToSet(list[x])
  BY DEF Created, s
<1>7. Home(objs[s]) = x
  BY <1>2, <1>6 DEF Sorted
<1>8. objs[s] = <<>> <=> Len(objs[s]) = 0
  BY <1>2, EmptySeq
<1>9. free # <<>>
  BY <1>3, <1>5, EmptySeq
<1>10. Sorted(list', objs') /\ SlabsOf(list') = SlabsOf(list)
  <2>0. {"partial", "free", "full"} \subseteq Lists  BY DEF Lists
  <2>1. CASE is_full(objs[s])
    <3>1. x = "full" /\ Home(free) = "partial"
      BY <1>2, <1>3, <1>7, <1>8, <1>9, <2>1 DEF Home, is_full, is_free
    <3>2. list' = Spliced(list, s, "full", "partial")  BY <1>1, <2>1
    <3>3. "full" # "partial" /\ s \in ToSet(list["full"])  BY <1>6, <3>1
    <3>4. Resorts(list', list, objs')
      BY <1>1, <1>2, <2>0, <3>1, <3>2, <3>3, Moves
    <3> QED BY <3>4 DEF Resorts
  <2>2. CASE ~is_full(objs[s]) /\ is_free(free)
    <3>1. x = "partial" /\ Home(free) = "free"
      BY <1>2, <1>3, <1>5, <1>7, <1>9, <2>2 DEF Home, is_full, is_free
    <3>2. list' = Spliced(list, s, "partial", "free")  BY <1>1, <2>2
    <3>3. "partial" # "free" /\ s \in ToSet(list["partial"])  BY <1>6, <3>1
    <3>4. Resorts(list', list, objs')
      BY <1>1, <1>2, <2>0, <3>1, <3>2, <3>3, Moves
    <3> QED BY <3>4 DEF Resorts
  <2>3. CASE ~is_full(objs[s]) /\ ~is_free(free)
    <3>1. x = "partial" /\ Home(free) = "partial"
      BY <1>2, <1>3, <1>5, <1>7, <1>9, <2>3 DEF Home, is_full, is_free
    <3>2. list' = list  BY <1>1, <2>3
    <3> QED BY <1>1, <1>2, <1>6, <2>0, <3>1, <3>2, Stays
  <2> QED BY <2>1, <2>2, <2>3
<1>11. Created' = Created
  BY <1>10 DEF Created, SlabsOf
<1>12. \A t \in Slabs : objs'[t] = IF t = s THEN free ELSE objs[t]
  BY <1>1, <1>2
<1>13. objs' \in [Slabs -> Seq(Objects)]
  BY <1>1, <1>2, <1>3
<1>14. FreeOK(objs')
  BY <1>3, <1>4, <1>12, <1>13 DEF IInv, FreeOK
<1>15. CreatedInOrder'
  <2>1. \A t \in Slabs \ Created : objs'[t] = objs[t]
    BY <1>12 DEF s
  <2> QED BY <1>11, <2>1 DEF IInv, CreatedInOrder
<1> QED BY <1>3, <1>10, <1>11, <1>12, <1>14, <1>15 DEF s

\* All the objects that can be handed out.
FreeOf(f) == UNION {ToSet(f[s]) : s \in Slabs}

\* What is free is known slab by slab, so it is known altogether.
Loses(f, g, o) == \A s \in Slabs : ToSet(g[s]) = ToSet(f[s]) \ {o}
Gains(f, g, o) == \A s \in Slabs : ToSet(g[s]) = ToSet(f[s]) \cup (IF s = o[1] THEN {o} ELSE {})

LEMMA OneLess ==
  ASSUME NEW f, NEW g, NEW o, Loses(f, g, o)
  PROVE  FreeOf(g) = FreeOf(f) \ {o}
<1> USE DEF Loses
<1>1. FreeOf(g) \subseteq FreeOf(f) \ {o}  BY DEF FreeOf
<1>2. ASSUME NEW p \in FreeOf(f) \ {o} PROVE p \in FreeOf(g)
  <2>1. PICK s \in Slabs : p \in ToSet(f[s])  BY DEF FreeOf
  <2>2. p \in ToSet(g[s])  BY <2>1
  <2> QED BY <2>2 DEF FreeOf
<1> QED BY <1>1, <1>2

LEMMA OneMore ==
  ASSUME NEW f, NEW g, NEW o \in Objects, Gains(f, g, o)
  PROVE  FreeOf(g) = FreeOf(f) \cup {o}
<1> USE DEF Gains
<1>1. ASSUME NEW p \in FreeOf(g) PROVE p \in FreeOf(f) \cup {o}
  <2>1. PICK s \in Slabs : p \in ToSet(g[s])  BY DEF FreeOf
  <2>2. p \in ToSet(f[s]) \/ p = o  BY <2>1
  <2> QED BY <2>2 DEF FreeOf
<1>2. ASSUME NEW p \in FreeOf(f) PROVE p \in FreeOf(g)
  <2>1. PICK s \in Slabs : p \in ToSet(f[s])  BY DEF FreeOf
  <2>2. p \in ToSet(g[s])  BY <2>1
  <2> QED BY <2>2 DEF FreeOf
<1>3. o \in FreeOf(g)
  <2>1. o[1] \in Slabs  BY ObjectIs
  <2>2. o \in ToSet(g[o[1]])  BY <2>1
  <2> QED BY <2>1, <2>2 DEF FreeOf
<1> QED BY <1>1, <1>2, <1>3

LEMMA StepInv == IInv /\ [Next]_vars => IInv'
<1> SUFFICES ASSUME IInv, [Next]_vars PROVE IInv'
  OBVIOUS
<1>0. TypeOK /\ HeldByOne /\ FreeOK(objs) /\ (alive => lost = Objects \ (FreeOf(objs) \cup mapped))
  <2>1. UNION {ToSet(objs[s]) : s \in Slabs} = FreeOf(objs)  BY Zenon DEF FreeOf
  <2>2. alive => lost = Objects \ (mapped \cup UNION {ToSet(objs[s]) : s \in Slabs})
    BY Zenon DEF IInv, NothingElseLost
  <2>3. alive => lost = Objects \ (FreeOf(objs) \cup mapped)
    BY <2>1, <2>2, Zenon
  <2> QED BY <2>3 DEF IInv
\* NothingElseLost in terms of FreeOf.
<1>8. ASSUME FreeOK(objs'), alive' => lost' = Objects \ (FreeOf(objs') \cup mapped')
      PROVE  NothingElseLost'
  <2>1. UNION {ToSet(objs'[s]) : s \in Slabs} = FreeOf(objs')  BY Zenon DEF FreeOf
  <2>2. \A s \in Slabs : \A o \in ToSet(objs'[s]) : o[1] = s  BY <1>8 DEF FreeOK
  <2>3. alive' => lost' = Objects \ (mapped' \cup UNION {ToSet(objs'[s]) : s \in Slabs})
    BY <1>8, <2>1, Zenon
  <2> QED BY <2>2, <2>3 DEF NothingElseLost
\* What allocate does apart from the lists.
<1>1. ASSUME NEW o, HandOut(o), UNCHANGED alive
      PROVE  /\ o \in Objects /\ o \notin mapped /\ o \in FreeOf(objs)
             /\ Sorted(list', objs') /\ FreeOK(objs') /\ CreatedInOrder'
             /\ \A s \in Slabs : ToSet(objs'[s]) = ToSet(objs[s]) \ {o}
             /\ FreeOf(objs') = FreeOf(objs) \ {o}
  <2>1. /\ o \in Objects /\ o \notin mapped /\ o \in FreeOf(objs)
        /\ Sorted(list', objs') /\ FreeOK(objs') /\ CreatedInOrder'
        /\ \A s \in Slabs : ToSet(objs'[s]) = ToSet(objs[s]) \ {o}
    BY <1>1, HandsOut DEF FreeOf
  <2>2. FreeOf(objs') = FreeOf(objs) \ {o}
    <3>1. Loses(objs, objs', o)  BY <2>1 DEF Loses
    <3> QED BY <3>1, OneLess
  <2> QED BY <2>1, <2>2
\* The types of the lists and of the free objects follow from how they are sorted.
<1>2. ASSUME Sorted(list', objs'), FreeOK(objs')
      PROVE  /\ list' \in [Lists -> Seq(Slabs)] /\ objs' \in [Slabs -> Seq(Objects)]
             /\ \A s \in Slabs : Len(objs'[s]) <= SlabSize
  <2>1. ASSUME NEW s \in Slabs PROVE Len(objs'[s]) <= SlabSize
    <3>1. objs'[s] \in Seq(Objects) /\ IsInjective(objs'[s]) /\ \A o \in ToSet(objs'[s]) : o[1] = s
      BY <1>2 DEF FreeOK
    <3>2. Len(objs'[s]) \in 0..SlabSize /\ SlabSize \in Nat
      BY <3>1, SlabBound, SlabAssumption
    <3> QED BY <3>2
  <2> QED BY <1>2, <2>1 DEF Sorted, FreeOK
<1>3. ASSUME NEW c \in Clients, NEW o \in Objects, allocate(c, o) PROVE IInv'
  <2>1. /\ HandOut(o) /\ mapped' = mapped \cup {o} /\ held' = [held EXCEPT ![c] = @ \cup {o}]
        /\ lost' = lost /\ alive' = alive
    BY <1>3 DEF allocate
  <2>2. /\ o \notin mapped /\ o \in FreeOf(objs) /\ FreeOf(objs') = FreeOf(objs) \ {o}
        /\ Sorted(list', objs') /\ FreeOK(objs') /\ CreatedInOrder'
        /\ \A s \in Slabs : ToSet(objs'[s]) = ToSet(objs[s]) \ {o}
    BY <1>1, <2>1
  <2>3. held \in [Clients -> SUBSET Objects] /\ \A d \in Clients : held[d] \subseteq mapped
    BY <1>0 DEF TypeOK, HeldByOne
  <2>4. \A d \in Clients : held'[d] = IF d = c THEN held[d] \cup {o} ELSE held[d]
    BY <2>1, <2>3
  <2>5. TypeOK'
    BY <1>0, <1>2, <2>1, <2>2, <2>3 DEF TypeOK
  <2>6. HeldByOne'
    <3>1. mapped' = UNION {held'[d] : d \in Clients}
      BY <1>0, <2>1, <2>4 DEF HeldByOne
    <3>2. \A d, e \in Clients : d # e => held'[d] \cap held'[e] = {}
      <4> SUFFICES ASSUME NEW d \in Clients, NEW e \in Clients, d # e,
                          NEW p, p \in held'[d], p \in held'[e]
                   PROVE  FALSE
        OBVIOUS
      <4>1. ~(p \in held[d] /\ p \in held[e])  BY <1>0 DEF HeldByOne
      <4>2. p = o => p \notin held[d] /\ p \notin held[e]  BY <2>2, <2>3
      <4> QED BY <2>4, <4>1, <4>2
    <3>3. \A s \in Slabs : ToSet(objs'[s]) \cap mapped' = {}
      BY <1>0, <2>1, <2>2 DEF HeldByOne
    <3> QED BY <2>2, <3>1, <3>2, <3>3 DEF HeldByOne, FreeOK
  <2>7. NothingElseLost'
    <3>1. alive' => lost' = Objects \ (FreeOf(objs') \cup mapped')
      BY <1>0, <2>1, <2>2
    <3> QED BY <1>8, <2>2, <3>1
  <2> QED BY <2>2, <2>5, <2>6, <2>7 DEF IInv
<1>4. ASSUME NEW o \in Objects, AllocateThrows(o) PROVE IInv'
  <2>1. HandOut(o) /\ mapped' = mapped /\ held' = held /\ lost' = lost \cup {o} /\ alive' = alive
    BY <1>4 DEF AllocateThrows
  <2>2. /\ o \notin mapped /\ o \in FreeOf(objs) /\ FreeOf(objs') = FreeOf(objs) \ {o}
        /\ Sorted(list', objs') /\ FreeOK(objs') /\ CreatedInOrder'
        /\ \A s \in Slabs : ToSet(objs'[s]) = ToSet(objs[s]) \ {o}
    BY <1>1, <2>1
  <2>3. TypeOK'
    BY <1>0, <1>2, <2>1, <2>2 DEF TypeOK
  <2>4. HeldByOne'
    BY <1>0, <2>1, <2>2 DEF HeldByOne, FreeOK
  <2>5. NothingElseLost'
    <3>1. alive' => lost' = Objects \ (FreeOf(objs') \cup mapped')
      BY <1>0, <2>1, <2>2
    <3> QED BY <1>8, <2>2, <3>1
  <2> QED BY <2>2, <2>3, <2>4, <2>5 DEF IInv
<1>5. ASSUME NEW c \in Clients, NEW o \in Objects, deallocate(c, o) PROVE IInv'
  <2>1. /\ o \in mapped /\ o[1] \in Created /\ Return(o) /\ \A d \in Clients \ {c} : o \notin held[d]
        /\ mapped' = mapped \ {o} /\ held' = [held EXCEPT ![c] = @ \ {o}]
        /\ lost' = lost /\ alive' = alive
    BY <1>5 DEF deallocate, Known, Unmapped
  <2>2. /\ Sorted(list', objs') /\ FreeOK(objs') /\ CreatedInOrder'
        /\ \A s \in Slabs : ToSet(objs'[s]) = ToSet(objs[s]) \cup (IF s = o[1] THEN {o} ELSE {})
        /\ FreeOf(objs') = FreeOf(objs) \cup {o}
    <3>1. /\ Sorted(list', objs') /\ FreeOK(objs') /\ CreatedInOrder'
          /\ \A s \in Slabs : ToSet(objs'[s]) = ToSet(objs[s]) \cup (IF s = o[1] THEN {o} ELSE {})
      BY <2>1, TakesBack
    <3>2. FreeOf(objs') = FreeOf(objs) \cup {o}
      <4>1. Gains(objs, objs', o)  BY <3>1 DEF Gains
      <4> QED BY <4>1, OneMore
    <3> QED BY <3>1, <3>2
  <2>3. held \in [Clients -> SUBSET Objects] /\ \A d \in Clients : held[d] \subseteq mapped
    BY <1>0 DEF TypeOK, HeldByOne
  <2>4. \A d \in Clients : held'[d] = held[d] \ {o}
    BY <2>1, <2>3
  <2>5. TypeOK'
    BY <1>0, <1>2, <2>1, <2>2, <2>3 DEF TypeOK
  <2>6. HeldByOne'
    <3>1. mapped' = UNION {held'[d] : d \in Clients}
      BY <1>0, <2>1, <2>4 DEF HeldByOne
    <3>2. \A d, e \in Clients : d # e => held'[d] \cap held'[e] = {}
      <4> SUFFICES ASSUME NEW d \in Clients, NEW e \in Clients, d # e,
                          NEW p, p \in held'[d], p \in held'[e]
                   PROVE  FALSE
        OBVIOUS
      <4>1. p \in held[d] /\ p \in held[e]
        BY <2>4
      <4> QED BY <1>0, <4>1 DEF HeldByOne
    <3>3. \A s \in Slabs : ToSet(objs'[s]) \cap mapped' = {}
      BY <1>0, <2>1, <2>2 DEF HeldByOne
    <3> QED BY <2>2, <3>1, <3>2, <3>3 DEF HeldByOne, FreeOK
  <2>7. NothingElseLost'
    <3>1. alive' => lost' = Objects \ (FreeOf(objs') \cup mapped')
      BY <1>0, <2>1, <2>2
    <3> QED BY <1>8, <2>2, <3>1
  <2> QED BY <2>2, <2>5, <2>6, <2>7 DEF IInv
<1>6. CASE Destruct
  <2>1. /\ alive' = FALSE /\ mapped' = {} /\ held' = [c \in Clients |-> {}]
        /\ list' = list /\ objs' = objs /\ lost' = lost
    BY <1>6 DEF Destruct
  <2>2. HeldByOne'
    BY <1>0, <2>1 DEF HeldByOne
  <2> QED BY <2>1, <2>2 DEF IInv, TypeOK, CreatedInOrder, Created, NothingElseLost
<1>7. CASE UNCHANGED vars
  BY <1>7 DEF vars, IInv, TypeOK, CreatedInOrder, Created, HeldByOne, NothingElseLost
<1> QED BY <1>3, <1>4, <1>5, <1>6, <1>7 DEF Next, Call, DeallocateUnknown

LEMMA Invariant == Spec => []IInv
BY InitInv, StepInv, PTL DEF Spec

-----------------------------------------------------------------------------
\* Theorems.

\* Every variable stays in its domain and no slab has more free objects than SLAB_SIZE.
THEOREM SlabTypes == Spec => []TypeOK
<1>1. IInv => TypeOK  BY DEF IInv
<1> QED BY Invariant, <1>1, PTL

\* The splices of allocate and deallocate keep every slab in one list, the one that tells
\* how many free objects it has.
THEOREM SlabsWhereTheyBelong == Spec => []ListsExact
<1>1. IInv => ListsExact
  <2> SUFFICES ASSUME IInv PROVE ListsExact
    OBVIOUS
  <2>1. Sorted(list, objs) /\ SlabSize > 1 /\ SlabSize \in Nat
    BY SlabAssumption DEF IInv
  <2>2. OneListPerSlab
    BY <2>1 DEF OneListPerSlab, Sorted
  <2>3. ASSUME NEW s \in Created
        PROVE  /\ s \in ToSet(list["full"]) <=> Home(objs[s]) = "full"
               /\ s \in ToSet(list["free"]) <=> Home(objs[s]) = "free"
    <3>1. \A x \in Lists : \A t \in ToSet(list[x]) : Home(objs[t]) = x
      BY <2>1 DEF Sorted
    <3>2. PICK x \in Lists : s \in ToSet(list[x])  BY DEF Created
    <3>3. "full" \in Lists /\ "free" \in Lists  BY DEF Lists
    <3> QED BY <3>1, <3>2, <3>3
  <2>4. \A free : /\ Home(free) = "full" <=> is_full(free)
                  /\ Home(free) = "free" <=> is_free(free)
    BY <2>1 DEF Home, is_full, is_free
  <2> QED BY <2>2, <2>3, <2>4 DEF ListsExact, ListsFitSlabs
<1> QED BY Invariant, <1>1, PTL

\* Between allocate and deallocate an object is one client's and is not handed out again.
THEOREM OneHolderPerObject == Spec => []HeldByOne
<1>1. IInv => HeldByOne  BY DEF IInv
<1> QED BY Invariant, <1>1, PTL

\* Every object is free, held, or lost to a constructor that threw.
THEOREM ObjectsAccounted == Spec => []NothingElseLost
<1>1. IInv => NothingElseLost  BY DEF IInv
<1> QED BY Invariant, <1>1, PTL

\* addSlab runs only when no slab has a free object.
THEOREM SlabsAreLastResort == Spec => GrowsOnlyWhenFull
<1>1. IInv /\ [Next]_vars => [\A s \in Created : Created' # Created => is_full(objs[s])]_vars
  <2> SUFFICES ASSUME IInv, Next PROVE \A s \in Created : Created' # Created => is_full(objs[s])
    OBVIOUS
  <2>1. ASSUME NEW o, HandOut(o) PROVE Created' # Created => \A s \in Created : is_full(objs[s])
    BY <2>1, HandsOut
  <2>2. ASSUME NEW c \in Clients, NEW o \in Objects, deallocate(c, o) PROVE Created' = Created
    <3>1. o \in mapped /\ o[1] \in Created /\ Return(o)
      BY <2>2 DEF deallocate, Known
    <3> QED BY <3>1, TakesBack
  <2>3. list' = list => Created' = Created  BY DEF Created
  <2> QED BY <2>1, <2>2, <2>3 DEF Next, Call, allocate, AllocateThrows, DeallocateUnknown, Destruct, vars
<1> QED BY Invariant, <1>1, PTL DEF Spec, GrowsOnlyWhenFull
=============================================================================
