-------------------------- MODULE VectorL2OrderBook --------------------------
(***************************************************************************)
(* The L2 book of book_l2_vector.hpp: a vector of levels per side, sorted  *)
(* with the best price at the back.  Positions in a vector are offsets     *)
(* from begin(), found by one of the searches of LevelSearch.              *)
(***************************************************************************)
EXTENDS Integers, Sequences, FiniteSets, SequencesExt

CONSTANTS
  MaxPrice,  \* prices are 1..MaxPrice
  MaxQty,    \* largest quantity of a call
  MaxLevel   \* bound: quantity of a level

ASSUME VectorAssumption == MaxPrice \in Nat /\ MaxQty \in Nat /\ MaxLevel \in Nat

Sides  == {"Buy", "Sell"}
Prices == 1..MaxPrice

VARIABLE levels   \* levels[s]: bidLevels_ and askLevels_

\* std::less for bids, std::greater for asks.
cmp(s, p, r) == IF s = "Buy" THEN p < r ELSE p > r

\* A mutant: the end of the equal range.
upperBound(s, p) == Cardinality({i \in DOMAIN levels[s] : ~cmp(s, p, levels[s][i].price)})

\* The number of levels that compare before p: what each search returns (LevelSearch).
findLevelIt(s, p) == Cardinality({i \in DOMAIN levels[s] : cmp(s, levels[s][i].price, p)})

\* A mutant: whatever level is found is taken.
LevelFound(s, p, offset) == offset < Len(levels[s])

\* The level found is the one of price p, and not end() or a neighbour.
LevelExists(s, p, offset) == offset < Len(levels[s]) /\ levels[s][offset + 1].price = p

Changed(s, offset, q) == [levels EXCEPT ![s][offset + 1].quantity = @ + q]

levelAdd(s, p, q) ==
  LET offset == findLevelIt(s, p)
  IN levels' = IF LevelExists(s, p, offset)
                 THEN Changed(s, offset, q)
                 ELSE [levels EXCEPT ![s] = InsertAt(@, offset + 1, [price |-> p, quantity |-> q])]

\* A mutant: a level is erased when nothing is left of it, but not when less is left.
EmptiedAtZero(q) == q = 0

Emptied(q) == q <= 0

levelRemove(s, p, q) ==
  LET offset == findLevelIt(s, p)
  IN /\ LevelExists(s, p, offset)
     /\ levels' = IF Emptied(levels[s][offset + 1].quantity - q)
                    THEN [levels EXCEPT ![s] = RemoveAt(@, offset + 1)]
                    ELSE Changed(s, offset, -q)

-----------------------------------------------------------------------------
LevelQuantity(s, p) ==
  LET at == {i \in DOMAIN levels[s] : levels[s][i].price = p}
  IN IF at = {} THEN 0 ELSE levels[s][CHOOSE i \in at : TRUE].quantity

addOrder(s, p, q) == LevelQuantity(s, p) + q <= MaxLevel /\ levelAdd(s, p, q)

\* Cancelling an order, or a quantity of a side and price; without a level nothing happens.
cancelOrder(s, p, q) == levelRemove(s, p, q)

Init == levels = [s \in Sides |-> <<>>]

Next ==
  \E s \in Sides, p \in Prices, q \in 1..MaxQty : addOrder(s, p, q) \/ cancelOrder(s, p, q)

Spec == Init /\ [][Next]_levels

-----------------------------------------------------------------------------
\* Properties.

\* Levels have a valid price and no negative quantity, also when more is cancelled than was
\* added.
TypeOK == levels \in [Sides -> Seq([price : Prices, quantity : 0..MaxLevel])]

\* Each vector is strictly sorted, one level per price, and no level is empty: what the
\* searches rely on, after any sequence of insertions and erasures at any position.
LevelsSorted ==
  \A s \in Sides :
    /\ \A i, j \in DOMAIN levels[s] : i < j => cmp(s, levels[s][i].price, levels[s][j].price)
    /\ \A i \in DOMAIN levels[s] : levels[s][i].quantity > 0

MapBased == INSTANCE L2OrderBook WITH
  quantity <- [s \in Sides |-> [p \in Prices |-> LevelQuantity(s, p)]]

\* The vector based book does what the map based one does.
ImplementsL2OrderBook == MapBased!Spec
=============================================================================
