----------------------------- MODULE OrderBookL3 -----------------------------
(***************************************************************************)
(* The L3 order book of src/src/book: the engine of book_l3.hpp            *)
(* (validation, admission by order type, matching, cancelling) over the    *)
(* map based book of book_l3_map.hpp with a FIFO level container           *)
(* (std::list), and the L2 book of book_l2.hpp / book_l2_map.hpp that the  *)
(* engine keeps beside it and reads back in canFullyFill.                  *)
(*                                                                         *)
(* The code is single threaded and every call runs to completion.  A call  *)
(* is modelled as its steps: the caller hands over an order, addOrder      *)
(* decides, one step per iteration of the matching loop, one step per side *)
(* for the FillAndKill check, return.  Order objects belong to the caller, *)
(* who may hand the same object over again after it left the book.         *)
(***************************************************************************)
EXTENDS Naturals, Sequences, FiniteSets, SequencesExt

CONSTANTS
  Orders,        \* order objects (Order*)
  Ids,           \* order ids (OrderId); two objects may carry the same id
  EmptyId,       \* the id of a default constructed order, the empty string
  MaxPrice,      \* prices are 1..MaxPrice; 0 stands for an invalid price
  MaxQty,        \* largest quantity an order is constructed with
  InvalidPrice,  \* Constants::InvalidPrice, the NaN of a market order
  OrderTypes,    \* the order types the caller submits
  MaxSpares,     \* bound: used orders outside the book when the user makes a call
  NoOrder        \* "no entry" in the id index

AllTypes == {"GoodTillCancel", "FillAndKill", "FillOrKill", "GoodForDay", "Market"}
Sides    == {"Buy", "Sell"}
Prices   == 1..MaxPrice
OrderIds == Ids \cup {EmptyId}
Phases   == {"idle", "add", "match", "killBuy", "killSell", "crashed"}

ASSUME BoundsAssumption  == MaxPrice \in Nat \ {0} /\ MaxQty \in Nat \ {0}
ASSUME TypesAssumption   == OrderTypes \subseteq AllTypes
ASSUME MarkersAssumption == NoOrder \notin Orders /\ InvalidPrice \notin Nat

VARIABLES
  oid, side, type, price, remaining, initial,  \* the fields of each Order object
  levels,     \* levels[s]: keys of bidLevels_ / askLevels_ (and of priceTo*LevelItMap_)
  queue,      \* queue[s][p]: the level container at p, oldest order first
  index,      \* oidToLevelContainerItMap_: the order an id's iterator points at
  l2,         \* l2[s][p]: quantity_ of the L2 level at p, 0 when there is none
  pc,         \* where the running call stands
  incoming,   \* the order argument of the running addOrder call
  submitted   \* the type that order had when it was handed over

fields == <<oid, side, type, price, remaining, initial>>
book   == <<levels, queue, index, l2>>
vars   == <<fields, book, pc, incoming, submitted>>

-----------------------------------------------------------------------------
\* The two sides and their best and worst levels.

Opposite(s) == IF s = "Buy" THEN "Sell" ELSE "Buy"

\* The level order of side s: bids by std::greater, asks by std::less.
AtLeastAsGood(s, p, r) == IF s = "Buy" THEN p >= r ELSE p <= r

Best(s)  == {p \in levels[s] : \A r \in levels[s] : AtLeastAsGood(s, p, r)}
Worst(s) == {p \in levels[s] : \A r \in levels[s] : AtLeastAsGood(s, r, p)}

\* A mutant: the loop of MatchOrders without its no-cross break.
CrossesAlways(bidPrice, askPrice) == TRUE

\* A mutant: the no-cross break taken at equal prices.
CrossesStrictly(bidPrice, askPrice) == bidPrice > askPrice

\* The loop of MatchOrders goes on while this holds of the two best prices.
Crosses(bidPrice, askPrice) == bidPrice >= askPrice

Resting(o) == index[oid[o]] = o

-----------------------------------------------------------------------------
\* Order.

Lesser(x, y) == IF x < y THEN x ELSE y

\* OrderValidate::validte refuses a price <= 0, which a NaN is not.
Valid(o) == remaining[o] > 0 /\ price[o] # 0

-----------------------------------------------------------------------------
\* The L2 book: a level whose quantity drops to zero or below is erased.

Reduced(level, q) == IF level > q THEN level - q ELSE 0

L2Add(s, p, q)    == [l2 EXCEPT ![s][p] = @ + q]
L2Cancel(s, p, q) == [l2 EXCEPT ![s][p] = Reduced(@, q)]

\* A mutant: both sides are reduced at the bid's price.
L2MatchedAtBid(b, a, q) ==
  [l2 EXCEPT ![side[b]][price[b]] = Reduced(@, q),
             ![side[a]][price[b]] = Reduced(@, q)]

\* onOrderMatched: the quantity leaves the level of each order's own price.
L2Matched(b, a, q) ==
  [l2 EXCEPT !["Buy"][price[b]]  = Reduced(@, q),
             !["Sell"][price[a]] = Reduced(@, q)]

L2BidPrices == {p \in Prices : l2["Buy"][p] > 0}

\* forEachBidLevel(pmin, pmax, _): bids downwards from the highest price, first
\* skipping those above pmax, stopping below pmin.
FirstVisitedBid(pmin, pmax) ==
  {p \in L2BidPrices : p \in pmin..pmax /\ \A r \in L2BidPrices : r > p => r > pmax}

\* forEachAskLevel(pmin, pmax, _) walks the BID levels too (book_l2.hpp:56):
\* from the highest downwards, skipping those below pmin, stopping above pmax.
FirstVisitedAsk(pmin, pmax) ==
  {p \in L2BidPrices : p \in pmin..pmax /\ \A r \in L2BidPrices : r <= p}

-----------------------------------------------------------------------------
\* Admission of an order.

CanMatch(s, p) == \E r \in levels[Opposite(s)] : AtLeastAsGood(s, p, r)

\* A mutant: a FillOrKill is admitted like a FillAndKill.
CanPartlyFill(s, p, q) == CanMatch(s, p)

\* The callback returns true once the quantity is used up and the walk stops on
\* false, so the first level visited decides.
CanFullyFill(s, p, q) ==
  /\ CanMatch(s, p)
  /\ IF s = "Buy"
       THEN \E r \in Best("Sell") : \E v \in FirstVisitedAsk(p, r) : l2["Buy"][v] >= q
       ELSE \E r \in Best("Buy")  : \E v \in FirstVisitedBid(r, p) : l2["Buy"][v] >= q

Accepts(o) ==
  /\ Valid(o)
  /\ index[oid[o]] = NoOrder
  /\ type[o] = "Market"      => levels[Opposite(side[o])] # {}
  /\ type[o] = "FillAndKill" => CanMatch(side[o], price[o])
  /\ type[o] = "FillOrKill"  => CanFullyFill(side[o], price[o], remaining[o])

\* A mutant: a market order keeps its own price.
OwnPrice(o) == {price[o]}

\* The limit an accepted order gets: a market order becomes GoodTillCancel at the
\* worst price of the other side.
LimitPrices(o) == IF type[o] = "Market" THEN Worst(Opposite(side[o])) ELSE {price[o]}

-----------------------------------------------------------------------------
\* Calls of the user.

\* Orders that were constructed and are not in the book (any more).
Spares == {o \in Orders : ~Resting(o) /\ initial[o] > 0}

\* A bound: the user has few used orders, and has discarded those without a fill, which are
\* no different from new ones with the same fields.
CallAllowed ==
  /\ pc = "idle"
  /\ Cardinality(Spares) <= MaxSpares
  /\ \A o \in Spares : remaining[o] < initial[o]

\* An order object is constructed and handed to addOrder.  Its three-argument
\* constructor makes a market order with price InvalidPrice.
SubmitNew(o, i, s, t, p, q) ==
  /\ CallAllowed
  /\ ~Resting(o) /\ initial[o] = 0
  /\ p = InvalidPrice => t = "Market"
  /\ oid'       = [oid EXCEPT ![o] = i]
  /\ side'      = [side EXCEPT ![o] = s]
  /\ type'      = [type EXCEPT ![o] = t]
  /\ price'     = [price EXCEPT ![o] = p]
  /\ remaining' = [remaining EXCEPT ![o] = q]
  /\ initial'   = [initial EXCEPT ![o] = q]
  /\ pc' = "add"
  /\ incoming' = o
  /\ submitted' = t
  /\ UNCHANGED book

\* An object that was used before is handed over as it is: still in the book, filled, or
\* cancelled after a partial fill (refused or cancelled without a fill it is like a new one).
SubmitAgain(o) ==
  /\ CallAllowed
  /\ pc' = "add"
  /\ incoming' = o
  /\ submitted' = type[o]
  /\ UNCHANGED <<fields, book>>

\* An object outside the book is reset to a default constructed Order: no id, quantity
\* and price zero.  Its side and type are not initialised then, and no call reads them
\* before the quantity is refused.
Discard(o) ==
  /\ pc = "idle"
  /\ o \in Spares
  /\ oid'       = [oid EXCEPT ![o] = EmptyId]
  /\ side'      = [side EXCEPT ![o] = "Buy"]
  /\ type'      = [type EXCEPT ![o] = "GoodTillCancel"]
  /\ price'     = [price EXCEPT ![o] = 0]
  /\ remaining' = [remaining EXCEPT ![o] = 0]
  /\ initial'   = [initial EXCEPT ![o] = 0]
  /\ UNCHANGED <<book, pc, incoming, submitted>>

Return == pc' = "idle" /\ incoming' = NoOrder /\ submitted' = NoOrder

\* addOrder's early returns: nothing changes.
Reject ==
  /\ pc = "add"
  /\ ~Accepts(incoming)
  /\ Return
  /\ UNCHANGED <<fields, book>>

\* addOrderImpl puts the order at the back of its level, creating the level if
\* need be; onOrderAdded adds its quantity to the L2 book.
Insert(o, p) ==
  /\ levels' = [levels EXCEPT ![side[o]] = @ \cup {p}]
  /\ queue'  = [queue EXCEPT ![side[o]][p] = Append(@, o)]
  /\ index'  = [index EXCEPT ![oid[o]] = o]
  /\ l2'     = L2Add(side[o], p, remaining[o])

\* toGoodTillCancel changes the type too, and is called for market orders alone.
BookedType(t) == IF t = "Market" THEN "GoodTillCancel" ELSE t

Accept ==
  /\ pc = "add"
  /\ Accepts(incoming)
  /\ \E p \in LimitPrices(incoming) :
       /\ price' = [price EXCEPT ![incoming] = p]
       /\ Insert(incoming, p)
  /\ type' = [type EXCEPT ![incoming] = BookedType(@)]
  /\ pc' = "match"
  /\ UNCHANGED <<oid, side, remaining, initial, incoming, submitted>>

-----------------------------------------------------------------------------
\* Matching.

\* A mutant: a partly filled order goes to the back of its level.
AfterFillRequeued(orders, left) ==
  IF left = 0 THEN Tail(orders) ELSE Append(Tail(orders), Head(orders))

\* A mutant: filled orders stay in their level.
AfterFillKept(orders, left) == orders

\* A level container after its first order was left with quantity left.
AfterFill(orders, left) == IF left = 0 THEN Tail(orders) ELSE orders

\* A mutant: filled orders stay in the index.
IndexKept(b, a, q) == index

\* levelRemoveOrderImpl erases the id of every filled order.
IndexAfterFill(b, a, q) ==
  [i \in OrderIds |-> IF \E o \in {b, a} : i = oid[o] /\ remaining[o] = q
                   THEN NoOrder ELSE index[i]]

\* The level map of side s once the container at p is c: an empty level goes.
LevelsAfter(s, p, c) == IF c = <<>> THEN levels[s] \ {p} ELSE levels[s]

\* One iteration of the matching loop: the oldest order of the best bid level
\* against the oldest order of the best ask level.
Fill(bidPrice, askPrice) ==
  LET b    == Head(queue["Buy"][bidPrice])
      a    == Head(queue["Sell"][askPrice])
      q    == Lesser(remaining[b], remaining[a])
      bids == AfterFill(queue["Buy"][bidPrice], remaining[b] - q)
      asks == AfterFill(queue["Sell"][askPrice], remaining[a] - q)
  IN /\ remaining' = [remaining EXCEPT ![b] = @ - q, ![a] = @ - q]
     /\ queue'  = [queue EXCEPT !["Buy"][bidPrice] = bids, !["Sell"][askPrice] = asks]
     /\ levels' = [levels EXCEPT !["Buy"]  = LevelsAfter("Buy", bidPrice, bids),
                                 !["Sell"] = LevelsAfter("Sell", askPrice, asks)]
     /\ index'  = IndexAfterFill(b, a, q)
     /\ l2'     = L2Matched(b, a, q)

CrossedLevels == {bs \in Best("Buy") \X Best("Sell") : Crosses(bs[1], bs[2])}

Match ==
  /\ pc = "match"
  /\ \E bs \in CrossedLevels :
       /\ queue["Buy"][bs[1]] # <<>> /\ queue["Sell"][bs[2]] # <<>>
       /\ Fill(bs[1], bs[2])
  /\ UNCHANGED <<oid, side, type, price, initial, pc, incoming, submitted>>

\* Every iteration fills an order, and levelRemoveOrderImpl reads that order's id
\* through the list iterator it has just erased (book_l3_map.hpp:52-53): the freed
\* node usually still holds the pointer, which is Match, or the program faults.
Fault ==
  /\ pc = "match"
  /\ CrossedLevels # {}
  /\ pc' = "crashed"
  /\ UNCHANGED <<fields, book, incoming, submitted>>

MatchDone ==
  /\ pc = "match"
  /\ CrossedLevels = {}
  /\ pc' = "killBuy"
  /\ UNCHANGED <<fields, book, incoming, submitted>>

-----------------------------------------------------------------------------
\* Cancelling.

\* cancelOrderImpl and onOrderCancelled for the order an id's iterator points at.
Withdraw(id) ==
  LET o == index[id]
      s == side[o]
      p == price[o]
  IN \E k \in DOMAIN queue[s][p] :
       /\ queue[s][p][k] = o
       /\ LET rest == RemoveAt(queue[s][p], k)
          IN /\ queue'  = [queue EXCEPT ![s][p] = rest]
             /\ levels' = [levels EXCEPT ![s] = LevelsAfter(s, p, rest)]
       /\ index' = [index EXCEPT ![id] = NoOrder]
       /\ l2'    = L2Cancel(s, p, remaining[o])

\* After matching, each side's best order is cancelled if it is a FillAndKill: first
\* the bid, then the ask, then addOrder returns.
KillPhase(s) == IF s = "Buy" THEN "killBuy" ELSE "killSell"

AfterKill(s) ==
  IF s = "Buy" THEN pc' = "killSell" /\ UNCHANGED <<incoming, submitted>> ELSE Return

\* A mutant: the kill looks at the type of the order that came in.
KillableForIncoming(s) ==
  {o \in Orders : type[incoming] = "FillAndKill" /\ \E p \in Best(s) : o = Head(queue[s][p])}

\* A mutant: both checks look at the bids' best order.
KillableBid(s) ==
  {o \in Orders : s = "Buy" /\ type[o] = "FillAndKill" /\ \E p \in Best(s) : o = Head(queue[s][p])}

Killable(s) ==
  {o \in Orders : type[o] = "FillAndKill" /\ \E p \in Best(s) : o = Head(queue[s][p])}

Kill(s) ==
  /\ pc = KillPhase(s)
  /\ \E o \in Killable(s) : Withdraw(oid[o])
  /\ AfterKill(s)
  /\ UNCHANGED fields

Keep(s) ==
  /\ pc = KillPhase(s)
  /\ Killable(s) = {}
  /\ AfterKill(s)
  /\ UNCHANGED <<fields, book>>

\* cancelOrder by id; for an id that is not in the book it returns at once.
CancelOrder(id) ==
  /\ CallAllowed
  /\ index[id] # NoOrder
  /\ Withdraw(id)
  /\ UNCHANGED <<fields, pc, incoming, submitted>>

-----------------------------------------------------------------------------
Init ==
  /\ oid       = [o \in Orders |-> EmptyId]
  /\ side      = [o \in Orders |-> "Buy"]
  /\ type      = [o \in Orders |-> "GoodTillCancel"]
  /\ price     = [o \in Orders |-> 0]
  /\ remaining = [o \in Orders |-> 0]
  /\ initial   = [o \in Orders |-> 0]
  /\ levels    = [s \in Sides |-> {}]
  /\ queue     = [s \in Sides |-> [p \in Prices |-> <<>>]]
  /\ index     = [i \in OrderIds |-> NoOrder]
  /\ l2        = [s \in Sides |-> [p \in Prices |-> 0]]
  /\ pc        = "idle"
  /\ incoming  = NoOrder
  /\ submitted = NoOrder

User ==
  \/ \E o \in Orders, i \in Ids, s \in Sides, t \in OrderTypes,
        p \in {0, InvalidPrice} \cup Prices, q \in 1..MaxQty : SubmitNew(o, i, s, t, p, q)
  \/ \E o \in Orders : SubmitAgain(o) \/ Discard(o)
  \/ \E i \in Ids : CancelOrder(i)

\* The steps of a running addOrder call.
Engine ==
  \/ Reject
  \/ Accept
  \/ Match
  \/ MatchDone
  \/ \E s \in Sides : Kill(s)
  \/ \E s \in Sides : Keep(s)

Next == User \/ Engine \/ Fault

\* A running call is never suspended for ever: nothing in it waits.
Spec == Init /\ [][Next]_vars /\ WF_vars(Engine)

-----------------------------------------------------------------------------
\* Properties.

\* Every variable stays in its domain; in particular no level has an invalid price.
TypeOK ==
  /\ oid       \in [Orders -> OrderIds]
  /\ side      \in [Orders -> Sides]
  /\ type      \in [Orders -> AllTypes]
  /\ price     \in [Orders -> {0, InvalidPrice} \cup Prices]
  /\ remaining \in [Orders -> 0..MaxQty]
  /\ initial   \in [Orders -> 0..MaxQty]
  /\ levels    \in [Sides -> SUBSET Prices]
  /\ queue     \in [Sides -> [Prices -> Seq(Orders)]]
  /\ index     \in [OrderIds -> Orders \cup {NoOrder}]
  /\ l2        \in [Sides -> [Prices -> Nat]]
  /\ pc        \in Phases
  /\ incoming  \in Orders \cup {NoOrder}
  /\ submitted \in AllTypes \cup {NoOrder}

\* No level is kept empty, none is missing from the level map.
LevelsExact == \A s \in Sides : levels[s] = {p \in Prices : queue[s][p] # <<>>}

\* Whatever waits in a level is an open order of that side and price, and its id
\* leads back to it.
QueuedOrdersIndexed ==
  \A s \in Sides, p \in Prices : \A o \in ToSet(queue[s][p]) :
    side[o] = s /\ price[o] = p /\ remaining[o] > 0 /\ Resting(o)

\* Every indexed id leads to an order with that id which waits in its level.
IndexedOrdersQueued ==
  \A i \in OrderIds : index[i] # NoOrder =>
    LET o == index[i]
    IN oid[o] = i /\ price[o] \in Prices /\ o \in ToSet(queue[side[o]][price[o]])

\* No order waits twice in a level.
NoDuplicates == \A s \in Sides, p \in Prices : IsInjective(queue[s][p])

\* The three structures the book keeps over the same orders (level map, level
\* containers, id index) describe the same set of orders at every step, also in the
\* middle of a matching sweep.
BookConsistent == LevelsExact /\ QueuedOrdersIndexed /\ IndexedOrdersQueued /\ NoDuplicates

\* The open quantity of a level's orders, added up from the front.
Quantity(orders) ==
  LET sum[k \in 0..Len(orders)] == IF k = 0 THEN 0 ELSE sum[k - 1] + remaining[orders[k]]
  IN sum[Len(orders)]

\* The L2 book shows, at every step of every call, exactly the open quantity of each
\* L3 level: what canFullyFill reads and what a user of the L2 book sees.
L2MatchesL3 == \A s \in Sides, p \in Prices : l2[s][p] = Quantity(queue[s][p])

\* When no call is running the best bid is below the best ask: matching went on until
\* nothing could trade, also across several levels and after a kill.
Uncrossed ==
  pc = "idle" => \A p \in levels["Buy"], r \in levels["Sell"] : p < r

\* When no call is running no FillAndKill and no unconverted market order waits in the
\* book: what a FillAndKill could not trade is found and cancelled, on either side and
\* after any number of trades.
FillAndKillNeverRests ==
  pc = "idle" => \A o \in Orders : Resting(o) => type[o] \notin {"FillAndKill", "Market"}

\* A FillOrKill order either trades its whole quantity or nothing: the estimate that
\* canFullyFill takes from the L2 book is never too optimistic, so none is left waiting.
FillOrKillAllOrNothing ==
  pc = "idle" => \A o \in Orders :
    type[o] = "FillOrKill" => ~Resting(o) /\ remaining[o] \in {0, initial[o]}

\* Matching trades the incoming order against the other side and never two orders that
\* were already waiting, and never beyond the limit of either order.
TradesInvolveIncoming ==
  [][pc = "match" => \A o \in Orders \ {incoming} : remaining'[o] # remaining[o] =>
       /\ remaining'[incoming] < remaining[incoming]
       /\ side[o] # side[incoming]
       /\ AtLeastAsGood(side[incoming], price[incoming], price[o])]_vars

\* The kill at the end of addOrder looks at the best order of each side, whoever sent it;
\* it only ever cancels the order this call brought in.
KillsOnlyIncoming ==
  [][(\E s \in Sides : pc = KillPhase(s)) =>
       \A i \in OrderIds : index'[i] # index[i] => index[i] = incoming]_vars

\* Every addOrder call returns, unless the read through the erased iterator faults.
CallReturns == (pc # "idle") ~> (pc \in {"idle", "crashed"})

\* book_l3.hpp:29-30 says of the price a market order is given that it "is only used for
\* matching": when the call returns the market order is not waiting at that price.
MarketPriceOnlyForMatching ==
  [][pc = "killSell" /\ submitted = "Market" => index'[oid[incoming]] # incoming]_vars
=============================================================================
