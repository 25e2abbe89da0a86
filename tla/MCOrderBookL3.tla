---------------------------- MODULE MCOrderBookL3 ----------------------------
(* Small instances of OrderBookL3 for TLC. *)
EXTENDS OrderBookL3Refines, TLC

\* What new orders are worth trying: the validation looks at no type, so one type will do for
\* the invalid price, and it alone looks at the price a market order comes with.
NewOrders ==
  ((OrderTypes \ {"Market"}) \X Prices)
    \cup {<<"GoodTillCancel", 0>>} \cup ((OrderTypes \cap {"Market"}) \X {InvalidPrice})

MCUser ==
  \/ \E o \in Orders, i \in Ids, s \in Sides, n \in NewOrders, q \in 1..MaxQty :
       SubmitNew(o, i, s, n[1], n[2], q)
  \/ \E o \in Orders : SubmitAgain(o) \/ Discard(o)
  \/ \E i \in Ids : CancelOrder(i)

MCNext == MCUser \/ Engine \/ Fault

MCSpec == Init /\ [][MCNext]_vars

\* Neither order objects nor ids are told apart by anything but equality.
Symmetry == Permutations(Orders) \cup Permutations(Ids)
=============================================================================
