--------------------------- MODULE ObjectPool_proofs ---------------------------
(***************************************************************************)
(* Theorems of ObjectPool, for every size of the block, every set of       *)
(* clients and every set of addresses operator new gives out.              *)
(***************************************************************************)
EXTENDS ObjectPool, Integers, SequenceTheorems, TLAPS

-----------------------------------------------------------------------------
\* The list of free places.

\* An element put at the back.
LEMMA Appended ==
  ASSUME NEW S, NEW q \in Seq(S), NEW e \in S
  PROVE  /\ Append(q, e) \in Seq(S)
         /\ ToSet(Append(q, e)) = ToSet(q) \cup {e}
         /\ IsInjective(q) /\ e \notin ToSet(q) => IsInjective(Append(q, e))
<1> DEFINE r == Append(q, e)
<1>1. /\ r \in Seq(S) /\ Len(r) = Len(q) + 1 /\ r[Len(r)] = e
      /\ \A k \in 1..Len(q) : r[k] = q[k]
  BY AppendProperties
<1>2. Len(q) \in Nat /\ DOMAIN q = 1..Len(q) /\ DOMAIN r = 1..(Len(q) + 1)
  BY <1>1, LenProperties
<1> HIDE DEF r
<1>3. ToSet(r) = ToSet(q) \cup {e}
  BY <1>1, <1>2 DEF ToSet
<1>4. IsInjective(q) /\ e \notin ToSet(q) => IsInjective(r)
  BY <1>1, <1>2 DEF ToSet, IsInjective
<1> QED BY <1>1, <1>3, <1>4 DEF r

\* The last element taken off.
LEMMA TakenLast ==
  ASSUME NEW S, NEW q \in Seq(S), q # <<>>, IsInjective(q)
  PROVE  /\ Front(q) \in Seq(S) /\ IsInjective(Front(q))
         /\ Last(q) \in ToSet(q) /\ ToSet(q) \subseteq S
         /\ ToSet(Front(q)) = ToSet(q) \ {Last(q)}
<1> DEFINE n == Len(q)
           r == Front(q)
<1>1. n \in Nat \ {0} /\ DOMAIN q = 1..n /\ \A k \in 1..n : q[k] \in S
  BY LenProperties, EmptySeq, ElementOfSeq
<1>2. /\ r \in Seq(S) /\ Len(r) = n - 1
      /\ \A k \in 1..(n - 1) : r[k] = q[k]
  <2>1. \A k \in 1..(n - 1) : q[k] \in S  BY <1>1
  <2>2. /\ r \in Seq(S) /\ Len(r) = IF 1 <= n - 1 THEN n - 1 - 1 + 1 ELSE 0
        /\ \A k \in 1..(n - 1 - 1 + 1) : r[k] = q[1 + k - 1]
    BY <1>1, <2>1, SubSeqProperties DEF Front
  <2>3. (IF 1 <= n - 1 THEN n - 1 - 1 + 1 ELSE 0) = n - 1  BY <1>1
  <2>4. \A k \in 1..(n - 1) : k \in 1..(n - 1 - 1 + 1) /\ 1 + k - 1 = k  BY <1>1
  <2> QED BY <2>2, <2>3, <2>4
<1>3. DOMAIN r = 1..(n - 1)
  BY <1>2, LenProperties
<1> HIDE DEF r, n
<1>4. Last(q) = q[n]  BY DEF Last, n
<1>5. \A j, k \in 1..n : q[j] = q[k] => j = k
  BY <1>1 DEF IsInjective
<1>6. ToSet(r) = ToSet(q) \ {q[n]}
  BY <1>1, <1>2, <1>3, <1>5 DEF ToSet
<1>7. IsInjective(r)
  BY <1>1, <1>2, <1>3, <1>5 DEF IsInjective
<1> QED BY <1>1, <1>2, <1>4, <1>6, <1>7 DEF ToSet, r

-----------------------------------------------------------------------------
\* The inductive invariant.

IInv == TypeOK /\ HeldByOne /\ NothingElseLost

LEMMA InitInv == Init => IInv
<1> SUFFICES ASSUME Init PROVE IInv
  OBVIOUS
<1>1. BlockSize \in Nat  BY PoolAssumption
<1>2. objList = [k \in 1..BlockSize |-> k]  BY DEF Init, Block
<1>3. objList \in Seq(Block) /\ DOMAIN objList = Block /\ \A k \in Block : objList[k] = k
  <2>1. \A k \in 1..BlockSize : k \in Block  BY DEF Block
  <2> QED BY <1>1, <1>2, <2>1, IsASeq DEF Block
<1>4. ToSet(objList) = Block /\ IsInjective(objList)
  BY <1>3 DEF ToSet, IsInjective
<1>5. /\ unreturned = {} /\ lost = {} /\ alive = TRUE
      /\ held = [c \in Clients |-> {}]
  BY DEF Init
<1>6. UNION {held[c] : c \in Clients} = {}  BY <1>5
<1> QED BY <1>3, <1>4, <1>5, <1>6 DEF IInv, TypeOK, HeldByOne, NothingElseLost

\* What leaves the block's list when a place is taken from it.
LEMMA PlaceTaken ==
  ASSUME TypeOK, HeldByOne, NEW p, FromPool(p)
  PROVE  /\ p \in Block /\ p \in ToSet(objList) /\ p \notin unreturned
         /\ objList' \in Seq(Block) /\ IsInjective(objList')
         /\ ToSet(objList') = ToSet(objList) \ {p}
<1>1. objList \in Seq(Block) /\ objList # <<>> /\ IsInjective(objList)
      /\ p = Last(objList) /\ objList' = Front(objList)
  BY DEF TypeOK, HeldByOne, FromPool
<1> QED BY <1>1, TakenLast DEF HeldByOne

\* What client c gets it alone holds.
LEMMA Gets ==
  ASSUME TypeOK, HeldByOne, NEW c \in Clients, NEW p \in Places, p \notin unreturned,
         unreturned' = unreturned \cup {p},
         held' = [held EXCEPT ![c] = @ \cup {p}]
  PROVE  /\ held' \in [Clients -> SUBSET Places]
         /\ unreturned' = UNION {held'[d] : d \in Clients}
         /\ \A d, e \in Clients : d # e => held'[d] \cap held'[e] = {}
<1>1. \A d \in Clients : held'[d] = IF d = c THEN held[d] \cup {p} ELSE held[d]
  BY DEF TypeOK
<1>2. \A d \in Clients : p \notin held[d]
  BY DEF HeldByOne
<1>3. unreturned' = UNION {held'[d] : d \in Clients}
  BY <1>1 DEF HeldByOne
<1>4. \A d, e \in Clients : d # e => held'[d] \cap held'[e] = {}
  BY <1>1, <1>2 DEF HeldByOne
<1> QED BY <1>3, <1>4 DEF TypeOK

\* What client c returns nobody holds any more.
LEMMA GivesBack ==
  ASSUME TypeOK, HeldByOne, NEW c \in Clients, NEW p \in Places, p \in unreturned,
         \A d \in Clients \ {c} : p \notin held[d],
         unreturned' = unreturned \ {p},
         held' = [held EXCEPT ![c] = @ \ {p}]
  PROVE  /\ held' \in [Clients -> SUBSET Places]
         /\ unreturned' = UNION {held'[d] : d \in Clients}
         /\ \A d, e \in Clients : d # e => held'[d] \cap held'[e] = {}
<1>1. \A d \in Clients : held'[d] = IF d = c THEN held[d] \ {p} ELSE held[d]
  BY DEF TypeOK
<1>2. \A d \in Clients : held'[d] = held[d] \ {p}
  BY <1>1
<1>3. unreturned' = UNION {held'[d] : d \in Clients}
  BY <1>2 DEF HeldByOne
<1>4. \A d, e \in Clients : d # e => held'[d] \cap held'[e] = {}
  BY <1>2 DEF HeldByOne
<1> QED BY <1>3, <1>4 DEF TypeOK

LEMMA StepInv == IInv /\ [Next]_vars => IInv'
<1> SUFFICES ASSUME TypeOK, HeldByOne, NothingElseLost, [Next]_vars
             PROVE  IInv'
  BY DEF IInv
<1>0. Block \subseteq Places /\ HeapPlaces \subseteq Places /\ Block \cap HeapPlaces = {}
  BY PoolAssumption DEF Places
<1>1. CASE UNCHANGED vars
  BY <1>1 DEF vars, IInv, TypeOK, HeldByOne, NothingElseLost
<1>2. ASSUME NEW p \in Places, NEW c \in Clients, allocate(c, p) PROVE IInv'
  <2>1. /\ alive /\ unreturned' = unreturned \cup {p}
        /\ held' = [held EXCEPT ![c] = @ \cup {p}]
        /\ lost' = lost /\ alive' = alive
    BY <1>2 DEF allocate
  <2>2. /\ p \notin unreturned /\ objList' \in Seq(Block) /\ IsInjective(objList')
        /\ ToSet(objList') = ToSet(objList) \ {p}
        /\ ToSet(objList') \cup {p} = ToSet(objList) \/ p \notin Block
    <3>1. CASE FromPool(p)
      BY <3>1, PlaceTaken
    <3>2. CASE FromHeap(p)
      <4>1. p \in HeapPlaces \ unreturned /\ objList' = objList /\ ToSet(objList) = {}
        BY <3>2 DEF FromHeap, FreshPlaces, ToSet
      <4> QED BY <1>0, <4>1 DEF TypeOK, HeldByOne
    <3> QED BY <1>2, <3>1, <3>2 DEF allocate
  <2>3. TypeOK'
    BY <2>1, <2>2, Gets DEF TypeOK
  <2>4. HeldByOne'
    <3>1. ToSet(objList') \cap unreturned' = {}
      BY <2>1, <2>2 DEF HeldByOne
    <3> QED BY <2>1, <2>2, <3>1, Gets DEF HeldByOne
  <2>5. NothingElseLost'
    BY <2>1, <2>2 DEF NothingElseLost
  <2> QED BY <2>3, <2>4, <2>5 DEF IInv
<1>3. ASSUME NEW p \in Places, NEW c \in Clients, deallocate(c, p) PROVE IInv'
  <2>1. /\ alive /\ p \in unreturned /\ unreturned' = unreturned \ {p}
        /\ \A d \in Clients \ {c} : p \notin held[d]
        /\ held' = [held EXCEPT ![c] = @ \ {p}]
        /\ lost' = lost /\ alive' = alive
    BY <1>3 DEF deallocate, Known
  <2>2. /\ objList' \in Seq(Block) /\ IsInjective(objList')
        /\ ToSet(objList') = ToSet(objList) \cup ({p} \cap Block)
    <3>1. p \notin ToSet(objList) /\ objList \in Seq(Block) /\ IsInjective(objList)
      BY <2>1 DEF HeldByOne, TypeOK
    <3>2. CASE p \in Block
      <4>1. objList' = Append(objList, p)  BY <1>3, <3>2 DEF deallocate, Pooled
      <4> QED BY <3>1, <3>2, <4>1, Appended
    <3>3. CASE p \notin Block
      BY <1>3, <3>1, <3>3 DEF deallocate, Pooled
    <3> QED BY <3>2, <3>3
  <2>3. TypeOK'
    BY <2>1, <2>2, GivesBack DEF TypeOK
  <2>4. HeldByOne'
    <3>1. ToSet(objList') \cap unreturned' = {}
      BY <2>1, <2>2 DEF HeldByOne
    <3> QED BY <2>1, <2>2, <3>1, GivesBack DEF HeldByOne
  <2>5. NothingElseLost'
    BY <2>1, <2>2 DEF NothingElseLost
  <2> QED BY <2>3, <2>4, <2>5 DEF IInv
<1>4. ASSUME NEW p \in Places, AllocateThrows(p) PROVE IInv'
  <2>1. /\ alive /\ alive' = alive /\ lost' = lost \cup {p}
        /\ unreturned' = unreturned /\ held' = held
    BY <1>4 DEF AllocateThrows
  <2>2. /\ p \in Block /\ p \in ToSet(objList) /\ p \notin unreturned
        /\ objList' \in Seq(Block) /\ IsInjective(objList')
        /\ ToSet(objList') = ToSet(objList) \ {p}
    BY <1>4, PlaceTaken DEF AllocateThrows
  <2> QED BY <2>1, <2>2 DEF IInv, TypeOK, HeldByOne, NothingElseLost
<1>5. CASE Destruct
  <2>1. /\ alive' = FALSE /\ unreturned' = {} /\ objList' = <<>>
        /\ held' = [c \in Clients |-> {}] /\ lost' = lost
    BY <1>5 DEF Destruct
  <2>2. objList' \in Seq(Block) /\ ToSet(objList') = {} /\ IsInjective(objList')
    BY <2>1 DEF ToSet, IsInjective
  <2>3. UNION {held'[c] : c \in Clients} = {}  BY <2>1
  <2> QED BY <2>1, <2>2, <2>3 DEF IInv, TypeOK, HeldByOne, NothingElseLost
<1>6. ASSUME NEW p \in Places, DeallocateUnknown(p) PROVE IInv'
  BY <1>1, <1>6 DEF DeallocateUnknown
<1> QED BY <1>1, <1>2, <1>3, <1>4, <1>5, <1>6 DEF Next

LEMMA Invariant == Spec => []IInv
<1> QED BY InitInv, StepInv, PTL DEF Spec

-----------------------------------------------------------------------------
\* No place of the heap gets into the block's list.
THEOREM PoolTypes == Spec => []TypeOK
<1>1. IInv => TypeOK  BY DEF IInv
<1> QED BY <1>1, Invariant, PTL

\* No two clients hold one place and no held place can be handed out, also when clients
\* return objects twice.
THEOREM OneHolder == Spec => []HeldByOne
<1>1. IInv => HeldByOne  BY DEF IInv
<1> QED BY <1>1, Invariant, PTL

\* The places of the block that are neither free nor held are those whose constructor threw.
THEOREM BlockAccounted == Spec => []NothingElseLost
<1>1. IInv => NothingElseLost  BY DEF IInv
<1> QED BY <1>1, Invariant, PTL

\* allocate turns to the heap only when clients hold all of the block that was not lost.
THEOREM HeapIsLastResort == Spec => HeapOnlyWhenExhausted
<1> DEFINE Step == (unreturned' \ unreturned) \cap HeapPlaces # {} => Block \ lost \subseteq unreturned
<1>1. ASSUME IInv, [Next]_vars PROVE [Step]_vars
  <2> SUFFICES ASSUME Next, NEW h \in HeapPlaces, h \in unreturned' \ unreturned
               PROVE  Block \ lost \subseteq unreturned
    BY <1>1
  <2>1. h \notin Block /\ TypeOK /\ HeldByOne /\ NothingElseLost
    BY <1>1, PoolAssumption DEF IInv
  <2>2. PICK p \in Places, c \in Clients : allocate(c, p)
    BY DEF Next, deallocate, AllocateThrows, DeallocateUnknown, Destruct, vars
  <2>3. h = p /\ alive  BY <2>2 DEF allocate
  <2>4. FromHeap(p)  BY <2>1, <2>2, <2>3, PlaceTaken DEF allocate
  <2>5. ToSet(objList) = {}  BY <2>4 DEF FromHeap, ToSet
  <2> QED BY <2>1, <2>3, <2>5 DEF NothingElseLost
<1> QED BY <1>1, Invariant, PTL DEF Spec, HeapOnlyWhenExhausted
=============================================================================
