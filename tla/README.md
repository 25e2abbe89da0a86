# Formal model of cpp-order-book

TLA+ modules, TLC configurations and TLAPS proofs for the order book in `src/src/book` and
the queues and allocators in `src/include`. Paths below are relative to the repository's
root, which is `src/`.

Checking: `tlc -config L3Engine.cfg MCOrderBookL3.tla` and so on, see the table of
runs; `tlapm OrderBookL3_proofs.tla` and so on for the eight modules named `*_proofs`.

## 1. The system

| part | source | state | operations |
|---|---|---|---|
| L3 matching engine | `src/book/book_l3.hpp` | none of its own (CRTP over a book) | `addOrder`, `cancelOrder(s)`, `modifyOrder`; inside: `canMatch`, `canFullyFill`, `MatchOrders` |
| L3 book on maps | `book_l3_map.hpp` | bid and ask level maps, price-to-level index, id-to-iterator index, an L2 book | `addOrderImpl`, `cancelOrderImpl`, `levelRemoveOrderImpl`, `removeEmpty*LevelImpl`, best and worst level |
| L3 book on vectors | `book_l3_vector.hpp` | sorted vectors of levels, id index, an L2 book | the same |
| L2 book on maps, on vectors | `book_l2.hpp`, `book_l2_map.hpp`, `book_l2_vector.hpp` | quantity and volume per level | `addOrder`, `cancelOrder`; on maps also `forEachBidLevel`, `forEachAskLevel` |
| level containers | `level_traits.hpp`, `level_concepts*.hpp`, `order_cmp.h` | the orders of one level (list, deque, set, multiset) | `insert`, `erase`, `first`, `empty` |
| level searchers | `level_searcher.hpp` | none | `findLevelIt`: binary, branchless binary, linear |
| orders and values | `order.h`, `order_validate.h`, `order_type.h`, `side.h`, `trade.h`, ... | fields of an order, owned by the caller | constructors, `fill`, `toGoodTillCancel` |
| SPSC queue | `include/concurrency/spscqueue.hpp` | ring, `head_`, `tail_` | `emplace`, `pop`, `size`, destructor |
| MPMC queue | `include/concurrency/mpmcqueue.hpp` | ring, a stamp per slot, `head_`, `tail_` | `emplace`, `pop`, `size`, destructor |
| slab allocator | `include/util/slaballocator.hpp` | slabs in three lists, object-to-slab map, mutex | `allocate`, `deallocate`, destructor |
| object pool | `include/util/objectpool.hpp` | list of free places, set of unreturned objects, mutex | `allocate`, `deallocate`, destructor |
| singleton, flyweight string | `include/util/...` | one object; a map of shared strings | `GetInst`; find or insert |

How they interact. The engine is the base class of both L3 books and calls the derived class
for everything it stores. Each L3 book owns an L2 book: `onOrderAdded`, `onOrderMatched` and
`onOrderCancelled` write it, `canFullyFill` reads it. Order objects belong to the caller, who
may take them from the object pool; the book keeps pointers to them. The book is single
threaded. The queues are shared by threads without locks, the allocators with one mutex per
instance. Nothing in the repository puts an order into a queue.

What is hard. In the book: one fill changes five structures in separate statements; the order
types make different decisions before and after matching; the L2 book has to agree with the
levels whenever it is read; time priority is only a position in a container; caller-owned
objects come back in any state. In the queues: stale views of the other thread's index,
laps, exceptions between two stores. In the allocators: the lists a slab moves between, double
returns, exceptions, exhaustion. `PROJECT.json` lists the hazards one by one with their lines.

## 2. Modules

```
PriceTimeBook        what a book with price-time priority promises
  ^ implemented by   (OrderBookL3Refines)
OrderBookL3          engine + map based L3 book + L2 book + list as level container
  OrderBookL3_proofs theorems, over OrderBookL3Refines
  ^ also by
VectorBookL3         vector based L3 book + list, set or multiset as level container
  VectorBookL3_proofs
VectorBookWithL2     the vector based L3 book with the L2 book it owns
L2OrderBook          the L2 book by itself, on maps
  ^ implemented by
VectorL2OrderBook    the L2 book on sorted vectors
  VectorL2OrderBook_proofs
LevelSearch          the three searches over such a vector
  LevelSearch_proofs
BoundedFifo          what a bounded queue promises
  ^ implemented by
SPSCQueue            the ring with delayed views of the indexes
  SPSCQueue_proofs
MPMCQueue            tickets and stamps
  MPMCQueue_proofs
SlabAllocator        slabs and their three lists
  SlabAllocator_proofs
ObjectPool           the block, and the heap behind it
  ObjectPool_proofs
FlyweightString      the pool of strings
MC*                  symmetry sets for TLC, and the new orders l3_engine tries
```

### OrderBookL3

State: `oid, side, type, price, remaining, initial` are the fields of the caller's order
objects; `levels[s]` the keys of `bidLevels_`/`askLevels_` (the price-to-level index always
has the same keys); `queue[s][p]` the container of a level; `index` the id index; `l2[s][p]`
the quantity of the L2 level. `pc`, `incoming` and `submitted` say where the running call
stands. A call is several steps:

| action | code |
|---|---|
| `SubmitNew` | an order is constructed (`order.h:13-23`) and given to `addOrder` |
| `SubmitAgain` | an object that was used before is given to `addOrder` as it is: still resting, filled, or cancelled after a partial fill (refused or cancelled without a fill it is like a new one) |
| `Reject` | the early returns of `addOrder` (`book_l3.hpp:20-51`) |
| `Accept` | market orders converted, `addOrderImpl`, `onOrderAdded` (`:28-55`) |
| `Match` | one round of the inner loop with the removal of filled orders and of empty levels (`:140-188`) |
| `MatchDone` | nothing crosses any more |
| `Kill(s)`, `Keep(s)` | the check for FillAndKill on one side, bids first (`:190-202`) |
| `CancelOrder` | `cancelOrder`; `cancelOrders` is a sequence of them |
| `Discard` | the caller resets an object that is not in the book |
| `Fault` | the read through the erased iterator in `levelRemoveOrderImpl` (`book_l3_map.hpp:52-53`) crashes |

`levelRemoveOrderImpl` erases the list node and then reads the order's id through the erased
iterator: undefined behaviour. The model has two of its outcomes: the node still holds the
pointer (`Match`), or the program faults (`Fault`). The third, a wrong id read from reused
memory, is not modelled: between the two statements nothing allocates.

Details that are modelled as they are, because the properties depend on them:
`forEachAskLevel` walks the bids (`book_l2.hpp:56`) and `canFullyFill` passes its bounds
in the wrong order for more than one level. So a FillOrKill buy is always refused and a
FillOrKill sell is admitted only at the best bid's price and quantity; the estimate is never
too optimistic, which is what `FillOrKillAllOrNothing` needs.

Abstractions: prices are `1..MaxPrice` (only their order matters to the book), 0 is any
invalid price, `InvalidPrice` the NaN of a market order. A NaN on any other order type is
excluded by the guard of `SubmitNew`: it passes the validation and breaks the order of
`std::map`. Quantities are naturals without a width. The trades a call returns are the `Match`
steps. `GoodForDay` is in `AllTypes`, no code treats it differently from GoodTillCancel,
and the runs leave it out for that reason; the proofs include it. `volume_` is left out:
no code of the book reads it.

### PriceTimeBook and OrderBookL3Refines

The abstract book knows no levels, indexes, containers or order types. A waiting order has a
side, a limit, a quantity, a rank and the set of orders before it at its price: those of
a lower rank, and of its own rank those that were there when it came. Only the two orders that
are first in priority trade, and while orders can trade nothing is admitted or withdrawn.
`OrderBookL3Refines` maps the orders in the levels to the waiting orders, all of one rank (a list
is first come, first served). `ImplementsPriceTimeBook` is the abstract specification under
that mapping.

### VectorBookL3

State: `levels[s]` is the vector of a side, each level with its price and its container, worst
first as in the code; `index` the id map, with `Dangling` for an iterator whose element was
erased under another id; `order` the fields of the orders an id leads to; `container` which
container the book was instantiated with.

| action | code |
|---|---|
| `addOrderImpl` | `book_l3_vector.hpp:30-38` with `levelAddOrder` (`:99-113`) and the `insert` of the container (`level_traits.hpp:8-31`) |
| `cancelOrderImpl` | `:40-55` with `levelRemoveOrder` (`:115-129`) |
| `Fill` | one round of the inner loop of `MatchOrders` (`book_l3.hpp:152-179`) with `levelRemoveOrderImpl` (`:59-63`), which leaves emptied levels in their vectors |
| `removeEmptyLevelImpl(s)` | `:65-72`, bids first |
| `FillFaults`, `CancelFaults` | the reads through erased iterators (`:62`, and `:42` once `std::set` has let two ids lead to one order) fault |

The engine is the client: it adds and cancels only when nothing crosses and no level is empty
(`Busy`), since a call of `addOrder` runs its matching to the end. Which orders it admits and
at which limit is the subject of `OrderBookL3`; here any order may come at any time. An order
object may be added again after it left the book, with the creation time it had, so every add
takes any creation time. Each order has an id of its own: ids that collide are refused by the
engine before the book sees them. A second iterator to an erased element is read only by
`cancelOrder`; the model ends there, as what erasing it again does is not bounded by anything.

Ranks are creation times for the two sets and all equal for the list. With that the book
implements `PriceTimeBook` for all three containers, and the set too: an order it refuses is
never admitted, and withdrawing the wrong one of two twins is still withdrawing one order. What
goes wrong between ids and orders then is the business of `OnlyTwinsComeApart`: an id
comes apart from its order in `std::set` books only, and only through an order of the same
side, price and creation time. Default constructed orders all have creation time 0, so in a
`std::set` book every two of them at one price are such twins.

### VectorBookWithL2

Extends `VectorBookL3` with `l2`, the quantities of the map based L2 book beside it. Each action is
one of `VectorBookL3` and what the engine then tells the L2 book: `addOrder` with `onOrderAdded`
(`book_l3.hpp:53-54`), `MatchRound` with `onOrderMatched`, `cancelOrder` with `onOrderCancelled`
for the order the iterator led to, which need not be the one that has the id; emptied levels and
faults tell it nothing. An order that `std::set` refused is added to the L2 book all the same.
Then the L2 book shows its quantity for good and no level has it, so with `std::set` the two
books match only as long as there are no twins. `L2DriftsByTwinsOnly` says that nothing else
ever drives them apart: while the difference of the two stays as it is on every other step, it grows
by the whole quantity of an order on the step that refuses it. The run `l3_vector` checks the
properties of `VectorBookL3` in this module, with its fairness: every step here is a step there.

### L2OrderBook, VectorL2OrderBook, LevelSearch

`L2OrderBook` is the L2 book on maps as a user sees it, one action for `addOrder` and one for
both `cancelOrder` overloads; ignored calls are stuttering steps. `VectorL2OrderBook` has the
two vectors, with insertion and erasure at the position a search returns. Walks it has none:
they do not compile for this book (see section 4); those of the map based book are in
`OrderBookL3`, as `canFullyFill` uses them. It takes "the number of levels that compare before
the price" for the search; `LevelSearch` has the loops of the three searches themselves, one action per round, and
shows that this is what each of them returns.

### SPSCQueue and BoundedFifo

Each step of the code between two accesses of shared memory is an action. An index is
written by one thread and read by the other with release and acquire; `headSeen` and
`tailSeen` are what the other thread's load returns, and follow the index one store at a time
(`HeadVisible`, `TailVisible`). The object in a slot needs no such copy: whoever sees the
index also sees what was written before it. The constructor of `T` may throw.
`BoundedFifo` is the queue as its users see it.

### MPMCQueue

`ClaimTail`/`ClaimHead` are the `fetch_add`, `SeeFree`/`SeeFull` the end of the spin loops,
then the access to the slot and the store of the stamp. A stamp only grows and a thread waits
for one exact value, so a late read is only a longer wait and needs no variable.
An object is named by the ticket of its `emplace`. `Destruct` destroys all slots, as the code
does, raw and moved-from ones included; `T` is assumed to bear that.

### SlabAllocator and ObjectPool

Every call holds the mutex from its first to its last line and is one action. `held` is what
clients have, a history variable, as is `lost`, the objects whose constructor threw. Clients
return what they hold or what nobody holds any more; a stale owner returning a place that
somebody else has got meanwhile cannot be told from a legal return by this code and is
excluded by the guard.

At exit the slab allocator destroys what is in its map (`Destruct`).

### FlyweightString

`pool` maps keys to string objects, `text` is what an object says. The mutex is held for a
lookup, so a construction is one step. `GetOrAdd` takes what the argument says by the time
`emplace` builds the key: the argument's text for an lvalue, the empty text for an rvalue that
was moved from in the same argument list.

## 3. Runs

| run | instance | shows |
|---|---|---|
| `l3_engine` | 3 orders, 3 ids, 2 prices, quantities 1..2; GoodTillCancel, FillAndKill, FillOrKill, Market | structures agree at every step, no crossed book, no FillAndKill and no unconverted market order left, FillOrKill all or nothing, only the incoming order trades and is killed; price-time priority across partial fills, kills, cancels and used orders handed over again |
| `l3_returns` | 2 orders, all types, no symmetry | every `addOrder` returns |
| `l3_vector` | 3 orders, 3 prices, quantities 1..2, 2 creation times; list, multiset and set | sorted levels and an exact id map at every step of a sweep, matching ends, priority by arrival or creation time, only `std::set` loses orders and only to twins, and the L2 book beside the levels agrees with them but for what `std::set` refused |
| `l3_market_price` | 2 orders | violated, see findings |
| `flyweight` | 3 strings, 2 handles | violated, see findings |
| `vector_l2` | 3 prices, up to 3 units per level | sorted vectors implement the L2 book on maps, also when more is cancelled than was added |
| `search` | all sorted vectors of up to 6 of 7 prices, all prices, all searchers | lower bound returned, loops end |
| `spsc` | capacity 4, 2 values | FIFO under delayed views and exceptions, no leak, every object is taken |
| `spsc_size` | capacity 3 | violated, see findings |
| `mpmc` | 2 producers, 2 consumers, capacity 2, 6 tickets | exclusive slots, right objects, every call that can return does |
| `slab` | 3 slabs of 2, 2 clients | lists fit the slabs, one owner, nothing lost but what a throwing constructor was given |
| `pool` | block of 4, 2 heap places, 2 clients | the same for the pool, heap only at exhaustion |

Bounds. Three orders are the fewest with which an incoming order meets two resting ones: two
in one level (time priority, partial fill of the second) or in two levels (a sweep). Two
prices are the fewest with better, equal and worse; the vectors get three, so that levels are
inserted into and erased from the middle. Quantity 2 allows partial fills on either
side. `MaxSpares` (1) limits how many used objects outside the book exist when the user
makes a call; one is enough to hand over each kind of used object. An object that was refused, or
cancelled before any fill, is discarded before the next call: handed over again it has the fields,
and so the effect, of a new order, which `SubmitNew` covers. Id collisions come from
choosing ids freely. `l3_engine` takes its new orders from `NewOrders` of `MCOrderBookL3`: every
type but Market at every price, Market at `InvalidPrice`, and the price 0 with GoodTillCancel
only, because the check of the price looks at no type and nothing but that check looks at the
price a market order comes with. `l3_returns` makes no such selection. Six tickets over two slots are three laps, so
producers a lap apart meet on a slot. Capacity 4 of the ring gives room for two views
that are both late. The searches need lengths that are even, odd, one and zero.

`CHECK_DEADLOCK FALSE` is used where a bounded instance may stop: when the caller's objects or
tickets are used up, when the program has faulted, when a queue or an allocator was destroyed, when a search
has returned, when constructors have lost all the objects.

Fairness. `OrderBookL3`: weak fairness of the engine's own steps, as a running call is plain
sequential code without waiting. `VectorBookL3` (`Fill`, `removeEmptyLevelImpl`; `EngineWithL2` in `VectorBookWithL2`) and
`LevelSearch`: the same. `SPSCQueue`: each thread goes on
with a call it has begun, stores become visible in finite time (C++ asks this of atomics), and
the consumer goes on calling `pop`; nothing is assumed of new calls of `emplace`.
`MPMCQueue`: each thread goes on with a call it has begun; nothing is assumed of new calls.
Since a spinning thread's step is enabled for good once its stamp has arrived, weak fairness
is enough.

Every property has a mutant in `PROJECT.json`: the definition of a plausible bug that breaks it
in its run. The mutants stand in the modules in front of the definitions they replace.

## 4. Findings

* `l3_market_price`: `addOrder` gives a market order the worst price of the other side;
  the comment (`book_l3.hpp:29-30`) says that price "is only used for matching". What the
  other side cannot fill stays in the book as a GoodTillCancel order at that price.
* `spsc_size`: `size()` tests an unsigned difference for `< 0` (`spscqueue.hpp:62`), so
  the correction that follows never happens and the size is wrong after a wrap-around.
* `flyweight`: `getOrAdd(std::string&&)` moves its argument into the new object while `emplace`
  still needs it for the key (`flyweightstring.cpp:20`). New strings are pooled under the empty key,
  and the next one gets the first one's object. The header (`flyweightstring.h:37`, `:49`) promises
  "the string in the pool".

Seen while reading, without a text of the repository that says otherwise: FillOrKill buys are
always refused (above); `modifyOrder` does not compile when used; `std::set` as level
container drops an order whose creation time equals another's (modelled in `VectorBookL3`; the
books' tests pass `std::set` and hold as long as the clock ticks between two orders); a throwing constructor
leaves a slot of the MPMC queue blocked for ever; the MPMC destructor destroys slots in
which nothing was constructed.

Two more, seen the same way and confirmed with g++:

* `forEachBidLevel` and `forEachAskLevel` do not compile for `VectorBasedL2OrderBook`:
  `book_l2.hpp:47` and `:57` bind two names to `*it`, which there is an `L2LevelInfo` with three
  members (`level_info.h:5-9`). Nothing in the repository calls them on that book. `canFullyFill` calls
  them (`book_l3.hpp:101`, `:110`), so no L3 book compiles its `addOrder` with a vector based L2
  book inside.
* In a `std::set` book a FillOrKill sell can be filled in part and rest: two buys of 5 at one price
  and with one creation time are 10 in the L2 book and 5 in the level, so a FillOrKill sell of 8 at
  that price is admitted, trades 5 and leaves 3 in the book. `FillOrKillAllOrNothing` holds for the
  list of `OrderBookL3` because `L2MatchesL3` does.

## 5. Proofs

All theorems hold for every value of the constants under the named assumptions in the modules
(positive bounds, order types among the known ones, markers outside the sets they mark, slabs of
at least two objects). Every invariant and action property a passing run checks is a
theorem, except `L2DriftsByTwinsOnly`, and so are all four implementations. Few of the invariants are inductive by themselves; what is added
to each, and why, is below. Every module has one lemma per action or kind of step.

`OrderBookL3_proofs`, about the engine with the map based book:

* `TypeCorrect`, `BookStaysConsistent`, `NeverLeftCrossed`, `KillsAreComplete`,
  `IncomingTrades`, `OnlyIncomingKilled` rest on `BookInv`, which adds to the properties
  `CallInv` (what `pc` says of `incoming`), `NaNOnlyMarket` (a market order is the only one with
  the invalid price, and it is not in the book), `NoMarketRests` (market orders were converted)
  and two that carry the matching: `OnlyIncomingCrosses` (while a call runs, of any two orders
  that cross one is the incoming order, so only it can trade, and when nothing crosses the book
  is fit for the next call) and `FillAndKillLeads` (a FillAndKill in the book is the incoming
  order, alone in its level, and that level is the best of its side, until its side was checked:
  why looking at the best order of each side is enough and never hits another).
* `L2ShowsL3`: the L2 book shows the sum of what the orders of each level have left. A sum over
  a sequence is a recursive function, which the provers cannot unfold by induction. The proof
  goes by its table of partial sums instead (`Sums`): there is at most one, since two would
  differ at a least place, and every operation says how the old table becomes the new one.
* `FillOrKillIsAllOrNothing`: `FillOrKillInv` says that a FillOrKill in the book is a sell order
  being matched at the price of the best bid level, and that this level still has all the order
  lacks. With `L2ShowsL3` that level's orders can give it, so matching cannot stop in between.
* `EngineKeepsPriority`: the engine implements `PriceTimeBook`. One lemma per kind of step:
  `Accept` admits, `Match` trades (the front of the best level is first, and what leaves a queue
  leaves the sets of those behind), cancelling and killing withdraw, all else stutters.

`VectorBookL3_proofs`, about the vector based book with each of the three containers:

* The first part is about vectors alone: strictly sorted and without empty levels but the best.
  Then the search splits the vector, only the place it returns can have the level of the price,
  and inserting, erasing or changing a level there changes the line of orders at that price and
  no other.
* `VectorBookTypes`, `VectorBookConsistent`, `OnlySetsComeApart` rest on `IInv`: the vectors are
  so (`VectorsOK`), the maps are typed (`MapsOK`), whatever waits is what its own id leads to
  and waits once (`LinesIndexed`), an iterator that does not dangle points at an order that
  waits at its own side and price (`IteratorsWait`), and an id that leads to another order does
  so in a `std::set` and to one of the same side, price and creation time (`TwinsAlike`).
  `cancelOrderImpl` and a round of matching are dealt with together: some orders leave
  (`DepartStep`).
* `VectorBookKeepsPriority`: the book implements `PriceTimeBook`. `TimesInv` is needed besides:
  every line is in the order of creation times (which for a list are all 0). Only then do the
  orders a set puts before the new one agree with those of no higher rank.

`VectorL2OrderBook_proofs`: `VectorTypes`, `VectorsStaySorted`, `VectorImplementsMap`. The invariant is that both vectors are strictly sorted with positive
quantities; the mapping to the map based book follows one line at a time.

`LevelSearch_proofs`: `SearchStaysInside`, `SearchIsCorrect`. The invariant `SearchInv` says
that what a search has left of the vector encloses the lower bound; the branchless step rests on
the larger half being at most one longer than the smaller.

`SPSCQueue_proofs`: `QueueTypes`, `ViewsStayInOrder`, `ObjectsAccounted`, `QueueIsFifo`. The
invariant adds where each thread stands to `ViewsInOrder` and `ObjectsExact`; its core is
arithmetic of distances around the ring. For `BoundedFifo` the slots from the consumer's place
to the tail are read as a sequence (`Ring`): the store of the tail appends to it, moving the
object out takes its head, and nothing else that either thread or the memory does shows.

`MPMCQueue_proofs`: `SlotsAreExclusive`, `PopsMatchEmplaces`, `ObjectsSurvive`, for any number
of threads. The invariant says that tickets in use are distinct (`TicketsUnique`), that a thread
in its slot has the stamp of its turn (`TurnHeld`, and since a stamp is the turn of one ticket
and one side only, two threads cannot), and what the stamp tells of the content of the slot,
unless the thread whose turn it is has changed the one and not yet the other (`SlotsKept`,
`SlotsChanged`).

`SlabAllocator_proofs`: `SlabTypes`, `SlabsWhereTheyBelong`, `OneHolderPerObject`,
`ObjectsAccounted`, `SlabsAreLastResort`. The properties together are inductive once it is added
that slabs are created in order and those to come are whole (`CreatedInOrder`), and that a
slab's free list holds its own objects once. `Spliced` takes a slab out of its list by its
position, as an iterator does.

`ObjectPool_proofs`: `PoolTypes`, `OneHolder`, `BlockAccounted`, `HeapIsLastResort`. The three
invariants are inductive together.

What TLC alone checks: liveness (`CallReturns`, `Settles`, `EveryObjectTaken`, `TurnsCome`,
`SearchReturns`), as fairness is out of the prover's reach; and `L2DriftsByTwinsOnly`, which
speaks of sums over the orders of a level.

## 6. Not modelled, and why

`modifyOrder` (does not compile), `print`, the concepts (compile-time), `std::deque` as level
container (the concepts admit it, no code uses it), the singleton (static initialisation), failing
`mmap` (the pool throws before it exists, the slab allocator uses the null page unchecked),
`size()` of the MPMC queue and unlocked list sizes (used by tests only), overflow of 64-bit
counters and quantities, `volume_` of the L2 levels (no code of the book reads it, only two tests do, `book_l2_test.cpp:104` and
`:303`), the walks over the vector based L2 book (they do not compile, section 4). What
`canFullyFill` makes of an L2 book that shows too much in a `std::set` book is described in section 4
and not modelled: in `VectorBookL3` the engine admits any order, which includes those.

## 7. Plan

1. Done: the map based and the vector based L3 book with all level containers in use, the
   abstract book and the proofs listed above; the L2 books; the searches; the queues; the
   allocators; the string pool.
2. Done: theorems for all implementations and, but for one, all invariants and action properties
   the runs check.
3. Left: `L2DriftsByTwinsOnly` as a theorem, by partial sums as for `L2ShowsL3`; the measures behind the liveness properties, as theorems about steps (what a
   round of matching uses up, what each round of a search leaves), so that only the fairness argument
   itself rests on TLC.
