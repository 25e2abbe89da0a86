----------------------------- MODULE L2OrderBook -----------------------------
(***************************************************************************)
(* The L2 book by itself, as book_l2.hpp offers it and book_l2_map.hpp     *)
(* keeps it: a quantity for each side and price.  A user may add and       *)
(* cancel quantities in any order, also ones that were never added.  Calls *)
(* with a price or quantity of zero or below are ignored.                  *)
(***************************************************************************)
EXTENDS Integers

CONSTANTS
  MaxPrice,  \* prices are 1..MaxPrice
  MaxQty,    \* largest quantity of a call
  MaxLevel   \* bound: quantity of a level

Sides  == {"Buy", "Sell"}
Prices == 1..MaxPrice

VARIABLE quantity   \* quantity[s][p]: quantity_ of the level, 0 when there is none

Init == quantity = [s \in Sides |-> [p \in Prices |-> 0]]

addOrder(s, p, q) ==
  /\ quantity[s][p] + q <= MaxLevel
  /\ quantity' = [quantity EXCEPT ![s][p] = @ + q]

\* A level is erased when its quantity drops to zero or below.
cancelOrder(s, p, q) ==
  /\ quantity[s][p] > 0
  /\ quantity' = [quantity EXCEPT ![s][p] = IF @ > q THEN @ - q ELSE 0]

Next ==
  \E s \in Sides, p \in Prices, q \in 1..MaxQty : addOrder(s, p, q) \/ cancelOrder(s, p, q)

Spec == Init /\ [][Next]_quantity
=============================================================================
