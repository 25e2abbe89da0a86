---------------------------- MODULE PriceTimeBook ----------------------------
(***************************************************************************)
(* What a limit order book with continuous matching promises its users,    *)
(* without levels, containers, indexes or order types: orders wait with a  *)
(* limit, a quantity and a rank, every order knows which orders are before *)
(* it at its price (those of a lower rank, and of its own rank those that  *)
(* came before it), and two orders trade only when both are first in       *)
(* price-time priority.  While orders can trade no order is admitted or    *)
(* withdrawn.  OrderBookL3Refines shows that the engine of book_l3.hpp     *)
(* implements it with one rank (first come, first served), VectorBookL3    *)
(* that the vector based book does, with creation times as ranks where the *)
(* container orders by them.                                               *)
(***************************************************************************)
EXTENDS Naturals

CONSTANTS Orders, MaxPrice, MaxQty, Ranks

Sides == {"Buy", "Sell"}

VARIABLE waiting   \* a function from the waiting orders to what is known of them

Waiting == DOMAIN waiting
Same(o, s, p) == waiting[o].side = s /\ waiting[o].limit = p

\* x comes before y in the queue of their side.
Better(x, y) ==
  \/ waiting[x].side = "Buy"  /\ waiting[x].limit > waiting[y].limit
  \/ waiting[x].side = "Sell" /\ waiting[x].limit < waiting[y].limit
  \/ x \in waiting[y].ahead

First(s) ==
  {o \in Waiting : waiting[o].side = s /\ \A x \in Waiting : waiting[x].side = s => ~Better(x, o)}

Tradable(b, a) == waiting[b].limit >= waiting[a].limit

CanTrade == \E b \in First("Buy"), a \in First("Sell") : Tradable(b, a)

\* The orders that stay, with the departed ones gone from the queues they were in.
Without(gone) ==
  [o \in Waiting \ gone |-> [waiting[o] EXCEPT !.ahead = @ \ gone]]

-----------------------------------------------------------------------------
Init == waiting = [o \in {} |-> {}]

Before(y, s, p, r) == Same(y, s, p) /\ waiting[y].rank <= r
Behind(y, s, p, r) == Same(y, s, p) /\ waiting[y].rank > r

\* The new order stands behind those before it and ahead of the rest at its price.
Admit(o, s, p, q, r) ==
  waiting' = [x \in Waiting \cup {o} |->
    CASE x = o -> [side |-> s, limit |-> p, qty |-> q, rank |-> r,
                   ahead |-> {y \in Waiting : Before(y, s, p, r)}]
      [] x # o /\ Behind(x, s, p, r) -> [waiting[x] EXCEPT !.ahead = @ \cup {o}]
      [] OTHER -> waiting[x]]

Trade(b, a) ==
  /\ Tradable(b, a)
  /\ LET q    == IF waiting[b].qty < waiting[a].qty THEN waiting[b].qty ELSE waiting[a].qty
         gone == {o \in {b, a} : waiting[o].qty = q}
     IN waiting' = [o \in Waiting \ gone |->
          [Without(gone)[o] EXCEPT !.qty = IF o \in {b, a} THEN @ - q ELSE @]]

Withdraw(o) == waiting' = Without({o})

\* While two orders can trade, only a trade may happen.
Next ==
  \/ \E b \in First("Buy"), a \in First("Sell") : Trade(b, a)
  \/ /\ ~CanTrade
     /\ \/ \E o \in Orders \ Waiting, s \in Sides, p \in 1..MaxPrice, q \in 1..MaxQty, r \in Ranks :
             Admit(o, s, p, q, r)
        \/ \E o \in Waiting : Withdraw(o)

Spec == Init /\ [][Next]_waiting

=============================================================================
