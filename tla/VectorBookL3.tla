----------------------------- MODULE VectorBookL3 -----------------------------
(***************************************************************************)
(* The vector based L3 book of book_l3_vector.hpp: per side a vector of    *)
(* levels sorted with the best price at the back, each with a level        *)
(* container, and the map from order ids to container iterators.  The      *)
(* container is std::list, std::multiset or std::set; level_traits.hpp     *)
(* inserts into each in its own way, the two sets ordered by creation time *)
(* (order_cmp.h).                                                          *)
(*                                                                         *)
(* The engine of book_l3.hpp is the client: it adds or cancels only when   *)
(* nothing crosses and no level is empty, and otherwise matches.  What     *)
(* orders it admits is modelled in OrderBookL3; here it admits any.        *)
(***************************************************************************)
EXTENDS Integers, Sequences, FiniteSets, SequencesExt

CONSTANTS
  Orders,      \* order objects, each with an id of its own
  MaxPrice,    \* prices are 1..MaxPrice
  MaxQty,      \* largest quantity of an order
  MaxTime,     \* creation times are 1..MaxTime
  Containers,  \* the level containers looked at
  Dangling     \* an iterator to an erased element

AllContainers == {"list", "multiset", "set"}
Sides         == {"Buy", "Sell"}
Prices        == 1..MaxPrice

ASSUME VectorBookAssumption ==
  /\ MaxPrice \in Nat /\ MaxQty \in Nat /\ MaxTime \in Nat
  /\ Containers \subseteq AllContainers
  /\ Dangling \notin Orders

VARIABLES
  container,  \* LevelContainer of this book
  order,      \* the fields of the orders whose ids lead to an element; no others are read
  levels,     \* levels[s]: bidLevels_ / askLevels_, the orders of a level oldest first
  index,      \* oidToLevelContainerItMap_: the order an id's iterator points at
  crashed     \* an iterator to an erased element was read and the program faulted

vars == <<container, order, levels, index, crashed>>

\* A list never looks at creation times; 0 stands for any.
Times == IF container = "list" THEN {0} ELSE 1..MaxTime

-----------------------------------------------------------------------------
\* The vectors of levels.

\* std::less for bids, std::greater for asks.
cmp(s, p, r) == IF s = "Buy" THEN p < r ELSE p > r

\* The number of levels that compare before p: what each search returns (LevelSearch).
findLevelIt(s, p) == Cardinality({i \in DOMAIN levels[s] : cmp(s, levels[s][i].price, p)})

\* A mutant: whatever level is found is taken.
LevelFound(s, p, offset) == offset < Len(levels[s])

\* The level found is the one of price p, and not end() or a neighbour.
LevelExists(s, p, offset) == offset < Len(levels[s]) /\ levels[s][offset + 1].price = p

BestLevel(s) == levels[s][Len(levels[s])]

\* A side whose best level was emptied by matching and is still in its vector.
LeftEmpty(s) == levels[s] # <<>> /\ BestLevel(s).orders = <<>>

Crosses ==
  /\ levels["Buy"] # <<>> /\ levels["Sell"] # <<>>
  /\ BestLevel("Buy").price >= BestLevel("Sell").price

\* MatchOrders has something left to do.
Busy == Crosses \/ \E s \in Sides : LeftEmpty(s)

-----------------------------------------------------------------------------
\* The level containers.

\* A mutant: a multiset inserts before the orders of the same creation time.
InFrontLowerBound(line, t) == {i \in DOMAIN line : order[line[i]].time < t}

\* The positions in front of an order of creation time t: all of a list, and in a set
\* or multiset the orders created no later.
InFront(line, t) == {i \in DOMAIN line : container = "list" \/ order[line[i]].time <= t}

\* A mutant: a multiset refuses equal elements, too.
TwinsInMultiset(line, t) == {x \in ToSet(line) : container # "list" /\ order[x].time = t}

\* The orders a std::set takes for the new one: insert fails and returns the iterator of that one.
Twins(line, t) == {x \in ToSet(line) : container = "set" /\ order[x].time = t}

\* The order goes into its level, which is created if need be.
levelAddOrder(o, s, p, t) ==
  LET offset == findLevelIt(s, p)
      exists == LevelExists(s, p, offset)
      line   == IF exists THEN levels[s][offset + 1].orders ELSE <<>>
      joined == InsertAt(line, Cardinality(InFront(line, t)) + 1, o)
      twins  == Twins(line, t)
  IN /\ levels' = CASE twins # {} -> levels
                    [] twins = {} /\ exists -> [levels EXCEPT ![s][offset + 1].orders = joined]
                    [] OTHER -> [levels EXCEPT ![s] =
                                   InsertAt(@, offset + 1, [price |-> p, orders |-> joined])]
     /\ \E x \in IF twins = {} THEN {o} ELSE twins :
          index' = [i \in DOMAIN index \cup {o} |-> IF i = o THEN x ELSE index[i]]

\* An order whose id is not in the map.  The object may be new or have been used before, with
\* the creation time of its first use: any time is possible.
addOrderImpl(o, s, p, q, t) ==
  /\ ~Busy /\ ~crashed
  /\ o \notin DOMAIN index
  /\ levelAddOrder(o, s, p, t)
  /\ order' = [x \in DOMAIN order \cup {o} |->
       IF x = o THEN [side |-> s, price |-> p, remaining |-> q, time |-> t] ELSE order[x]]
  /\ UNCHANGED <<container, crashed>>

\* The ids leave the map; iterators of other ids to the elements erased dangle.
Erased(ids, elements) ==
  index' = [i \in DOMAIN index \ ids |-> IF index[i] \in elements THEN Dangling ELSE index[i]]

\* The ids that lead to an element.
Known == {i \in DOMAIN index : index[i] # Dangling}

\* Where the iterator to x points in its container.
Position(line, x) == CHOOSE k \in DOMAIN line : line[k] = x

\* Order x leaves its level, and the level its vector if nothing is left in it.
levelRemoveOrder(x) ==
  LET s      == order[x].side
      offset == findLevelIt(s, order[x].price)
      line   == levels[s][offset + 1].orders
      rest   == RemoveAt(line, Position(line, x))
  IN levels' = IF rest = <<>>
                 THEN [levels EXCEPT ![s] = RemoveAt(@, offset + 1)]
                 ELSE [levels EXCEPT ![s][offset + 1].orders = rest]

\* The order the iterator of the id points at is withdrawn.
cancelOrderImpl(id) ==
  /\ ~Busy /\ ~crashed
  /\ index[id] # Dangling
  /\ levelRemoveOrder(index[id])
  /\ Erased({id}, {index[id]})
  /\ order' = Restrict(order, Known')
  /\ UNCHANGED <<container, crashed>>

\* cancelOrderImpl through an iterator whose element is gone: freed memory is read, and
\* erased a second time if it still looks like an element.
CancelFaults(id) ==
  /\ ~Busy /\ ~crashed
  /\ index[id] = Dangling
  /\ crashed' = TRUE
  /\ UNCHANGED <<container, order, levels, index>>

-----------------------------------------------------------------------------
\* Matching.

\* A mutant: the larger of two.
Greater(x, y) == IF x > y THEN x ELSE y

Lesser(x, y) == IF x < y THEN x ELSE y

CanFill == Crosses /\ ~\E s \in Sides : LeftEmpty(s)

\* One round of the inner loop of MatchOrders: the first orders of the best levels trade,
\* and levelRemoveOrderImpl takes the filled ones out of their containers and the id map.
Fill ==
  /\ CanFill /\ ~crashed
  /\ LET b    == Head(BestLevel("Buy").orders)
         a    == Head(BestLevel("Sell").orders)
         q    == Lesser(order[b].remaining, order[a].remaining)
         gone == {x \in {b, a} : order[x].remaining = q}
     IN /\ levels' = [s \in Sides |->
             [levels[s] EXCEPT ![Len(levels[s])].orders =
                IF Head(@) \in gone THEN Tail(@) ELSE @]]
        /\ Erased(gone, gone)
        /\ order' = [x \in Known' |->
             IF x \in {b, a} THEN [order[x] EXCEPT !.remaining = @ - q] ELSE order[x]]
  /\ UNCHANGED <<container, crashed>>

\* Every round fills an order, and levelRemoveOrderImpl reads its id through the iterator it
\* has just erased (line 62): the freed element usually still holds the pointer, which is
\* Fill, or the program faults.
FillFaults ==
  /\ CanFill /\ ~crashed
  /\ crashed' = TRUE
  /\ UNCHANGED <<container, order, levels, index>>

\* A mutant: empty ask levels stay.
RemoveEmptyBidLevel(s) ==
  /\ s = "Buy" /\ LeftEmpty("Buy") /\ ~crashed
  /\ levels' = [levels EXCEPT !["Buy"] = Front(@)]
  /\ UNCHANGED <<container, order, index, crashed>>

\* removeEmptyBidLevelImpl and removeEmptyAskLevelImpl, in this order: whatever level the
\* search finds for the price of the empty level is erased.
removeEmptyLevelImpl(s) ==
  /\ LeftEmpty(s) /\ ~crashed
  /\ s = "Sell" => ~LeftEmpty("Buy")
  /\ levels' = [levels EXCEPT ![s] = RemoveAt(@, findLevelIt(s, BestLevel(s).price) + 1)]
  /\ UNCHANGED <<container, order, index, crashed>>

-----------------------------------------------------------------------------
Init ==
  /\ container \in Containers
  /\ order   = [o \in {} |-> {}]
  /\ levels  = [s \in Sides |-> <<>>]
  /\ index   = [i \in {} |-> Dangling]
  /\ crashed = FALSE

User ==
  \/ \E o \in Orders, s \in Sides, p \in Prices, q \in 1..MaxQty, t \in Times :
       addOrderImpl(o, s, p, q, t)
  \/ \E id \in DOMAIN index : cancelOrderImpl(id) \/ CancelFaults(id)

Engine == Fill \/ \E s \in Sides : removeEmptyLevelImpl(s)

Next == User \/ Engine \/ FillFaults

\* MatchOrders runs in the caller's thread and waits for nothing.
Spec == Init /\ [][Next]_vars /\ WF_vars(Engine)

-----------------------------------------------------------------------------
\* Properties.

\* Every variable stays in its domain; in particular no filled order is known to the book.
TypeOK ==
  /\ container \in Containers
  /\ DOMAIN index \subseteq Orders
  /\ DOMAIN order = Known
  /\ \A o \in DOMAIN order :
       order[o] \in [side : Sides, price : Prices, remaining : 1..MaxQty, time : 0..MaxTime]
  /\ levels \in [Sides -> Seq([price : Prices, orders : Seq(Orders)])]
  /\ \A i \in DOMAIN index : index[i] \in Orders \cup {Dangling}
  /\ crashed \in BOOLEAN

\* One level per price, in the order the searches rely on; only the best can be empty.
LevelsSorted ==
  \A s \in Sides :
    /\ \A i, j \in DOMAIN levels[s] : i < j => cmp(s, levels[s][i].price, levels[s][j].price)
    /\ \A i \in DOMAIN levels[s] : levels[s][i].orders = <<>> => i = Len(levels[s])

\* Whatever waits in a level has its side and price and is what its own id leads to.
LevelsIndexed ==
  \A s \in Sides : \A i \in DOMAIN levels[s] : \A x \in ToSet(levels[s][i].orders) :
    /\ x \in DOMAIN index /\ index[x] = x
    /\ order[x].side = s /\ order[x].price = levels[s][i].price

Waiting(s, p) ==
  UNION {ToSet(levels[s][i].orders) : i \in {j \in DOMAIN levels[s] : levels[s][j].price = p}}

\* What an id leads to waits in the level of its side and price, which is where the book
\* looks for it, once.
IndexWaits ==
  /\ \A i \in DOMAIN index : index[i] # Dangling =>
       index[i] \in Waiting(order[index[i]].side, order[index[i]].price)
  /\ \A s \in Sides : \A i \in DOMAIN levels[s] : IsInjective(levels[s][i].orders)

\* After any sequence of insertions and erasures at any position of the vectors the searches
\* find sorted levels, and the id map and the levels describe the same orders, at every
\* step of a sweep and for each of the containers.
BookConsistent == LevelsSorted /\ LevelsIndexed /\ IndexWaits

SamePlace(f, x, y) ==
  /\ {x, y} \subseteq DOMAIN f
  /\ f[x].side = f[y].side /\ f[x].price = f[y].price /\ f[x].time = f[y].time

\* What a container makes of equal creation times is left to std::set alone: an id that leads
\* to its own order comes apart from it only in a std::set book, through another order of the
\* same side, price and creation time; list and multiset books never lose an order.
OnlyTwinsComeApart ==
  [][\A o \in DOMAIN index' :
       index'[o] # o /\ (o \in DOMAIN index => index[o] = o) =>
         /\ container = "set"
         /\ \E y \in Orders \ {o} : SamePlace(order, o, y) \/ SamePlace(order', o, y)]_vars

\* The orders that stand before o in its container.
Ahead(o) ==
  UNION {LET line == levels[order[o].side][i].orders
         IN UNION {{line[j] : j \in 1..(k - 1)} : k \in {n \in DOMAIN line : line[n] = o}}
         : i \in DOMAIN levels[order[o].side]}

Abstract == INSTANCE PriceTimeBook WITH
  Ranks   <- 0..MaxTime,
  waiting <- [o \in {x \in DOMAIN index : index[x] = x} |->
                [side |-> order[o].side, limit |-> order[o].price, qty |-> order[o].remaining,
                 rank |-> order[o].time, ahead |-> Ahead(o)]]

\* Price-time priority: trades are between the two first orders, where a list keeps orders
\* as they came and the two sets as they were created; an order that came into a level late
\* but was created early overtakes, and nothing else does.
ImplementsPriceTimeBook == Abstract!Spec

\* Matching comes to an end: crossed or emptied levels never stay, unless the program faults.
Settles == Busy ~> (~Busy \/ crashed)
=============================================================================
