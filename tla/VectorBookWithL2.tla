--------------------------- MODULE VectorBookWithL2 ---------------------------
(***************************************************************************)
(* The vector based L3 book with the map based L2 book it owns.  The       *)
(* engine tells the L2 book of every order it has added, of both sides of  *)
(* every trade and of every order it has cancelled; nobody tells it what a *)
(* level container did with an order.                                      *)
(***************************************************************************)
EXTENDS VectorBookL3

VARIABLE l2   \* l2[s][p]: quantity_ of the L2 level, 0 when there is none

varsWithL2 == <<vars, l2>>

\* A level is erased when its quantity drops to zero or below.
Reduced(quantity, q) == IF quantity > q THEN quantity - q ELSE 0

onOrderAdded(s, p, q) == l2' = [l2 EXCEPT ![s][p] = @ + q]

onOrderMatched(b, a, q) ==
  l2' = [l2 EXCEPT !["Buy"][order[b].price]  = Reduced(@, q),
                   !["Sell"][order[a].price] = Reduced(@, q)]

onOrderCancelled(x) ==
  l2' = [l2 EXCEPT ![order[x].side][order[x].price] = Reduced(@, order[x].remaining)]

\* An order that a std::set has refused is added to the L2 book all the same.
addOrder(o, s, p, q, t) == addOrderImpl(o, s, p, q, t) /\ onOrderAdded(s, p, q)

\* A mutant: the L2 book is told of the order that has the id, not of the one withdrawn.
CancelById(id) == cancelOrderImpl(id) /\ onOrderCancelled(id)

cancelOrder(id) == cancelOrderImpl(id) /\ onOrderCancelled(index[id])

MatchRound ==
  /\ Fill
  /\ LET b == Head(BestLevel("Buy").orders)
         a == Head(BestLevel("Sell").orders)
     IN onOrderMatched(b, a, Lesser(order[b].remaining, order[a].remaining))

\* Filled orders leave without a word to the L2 book, and so do emptied levels.
RemoveEmptyLevel(s) == removeEmptyLevelImpl(s) /\ UNCHANGED l2

Faults == (FillFaults \/ \E id \in DOMAIN index : CancelFaults(id)) /\ UNCHANGED l2

InitWithL2 == Init /\ l2 = [s \in Sides |-> [p \in Prices |-> 0]]

EngineWithL2 == MatchRound \/ \E s \in Sides : RemoveEmptyLevel(s)

NextWithL2 ==
  \/ \E o \in Orders, s \in Sides, p \in Prices, q \in 1..MaxQty, t \in Times :
       addOrder(o, s, p, q, t)
  \/ \E id \in DOMAIN index : cancelOrder(id)
  \/ EngineWithL2
  \/ Faults

\* Every step is one of VectorBookL3, whose properties hold here too.
SpecWithL2 == InitWithL2 /\ [][NextWithL2]_varsWithL2 /\ WF_varsWithL2(EngineWithL2)

-----------------------------------------------------------------------------
\* Properties.

Open(s, p) == MapThenSumSet(LAMBDA x : order[x].remaining, Waiting(s, p))

\* What the L2 book shows beyond what can be traded.
Surplus(s, p) == l2[s][p] - Open(s, p)

\* The L2 book and the levels agree through fills, sweeps and cancels, whichever order a
\* cancelled id leads to, and come apart in one way only: a std::set refuses an order, whose
\* whole quantity the L2 book then shows for good, though no level has it.
L2DriftsByTwinsOnly ==
  [][\A s \in Sides, p \in Prices : Surplus(s, p)' # Surplus(s, p) =>
       /\ container = "set"
       /\ \E o \in DOMAIN index' \ DOMAIN index :
            /\ index'[o] # o /\ order'[o].side = s /\ order'[o].price = p
            /\ Surplus(s, p)' = Surplus(s, p) + order'[o].remaining]_varsWithL2
=============================================================================
