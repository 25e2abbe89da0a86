-------------------------- MODULE OrderBookL3Refines --------------------------
(***************************************************************************)
(* OrderBookL3 implements PriceTimeBook: the orders in the levels are the  *)
(* waiting orders, and the orders ahead of one are those before it in its  *)
(* level container.                                                        *)
(***************************************************************************)
EXTENDS OrderBookL3

\* The orders that stand before o in its level.
Ahead(o) ==
  LET line == queue[side[o]][price[o]]
  IN UNION {{line[j] : j \in 1..(k - 1)} : k \in {n \in DOMAIN line : line[n] = o}}

Abstract == INSTANCE PriceTimeBook WITH
  Ranks   <- {0},
  waiting <- [o \in {x \in Orders : Resting(x)} |->
                [side |-> side[o], limit |-> price[o], qty |-> remaining[o],
                 rank |-> 0, ahead |-> Ahead(o)]]

\* Price-time priority: every step of every call of book_l3.hpp admits one order, trades
\* the two orders that are first in priority, withdraws one order or leaves the book alone,
\* and no order is admitted or withdrawn while two orders can trade.
ImplementsPriceTimeBook == Abstract!Spec
=============================================================================
