----------------------------- MODULE LevelSearch -----------------------------
(***************************************************************************)
(* The searches of level_searcher.hpp over the sorted vector of levels of  *)
(* one side: std::lower_bound, the branchless binary search and the linear *)
(* search from the best level (the back of the vector) to the worst.  One  *)
(* action is one round of a search's loop.  Iterators are offsets from     *)
(* levels.begin().                                                         *)
(***************************************************************************)
EXTENDS Naturals, Sequences

CONSTANTS
  Prices,    \* the prices levels can have
  MaxDepth   \* bound: levels of a side

ASSUME SearchAssumption == Prices \subseteq Nat /\ MaxDepth \in Nat

Searchers == {"Binary", "Branchless", "Linear"}
Sides     == {"Buy", "Sell"}

VARIABLES
  side, levels, price,  \* the arguments: the side stands for its comparison
  searcher,
  first,                \* first, or it of the linear search
  length,               \* length; the linear search does not use it
  found                 \* the search has returned first

vars == <<side, levels, price, searcher, first, length, found>>

\* The comparison the books pass: std::less for bids, std::greater for asks.
cmp(p, r) == IF side = "Buy" THEN p < r ELSE p > r

At(offset) == levels[offset + 1]

\* A mutant: the test holds for an equal price, too.
NotBehind(offset) == ~cmp(price, At(offset))

\* The loops' test of the level at an offset.
Before(offset) == cmp(At(offset), price)

\* The result: the first levels compare before the price, the others do not.
IsLowerBound ==
  \A i \in DOMAIN levels : cmp(levels[i], price) <=> i <= first

-----------------------------------------------------------------------------
Sorted == \A i, j \in DOMAIN levels : i < j => cmp(levels[i], levels[j])

\* The vectors of a book: every price has one level.
Init ==
  /\ side \in Sides
  /\ \E n \in 0..MaxDepth : levels \in [1..n -> Prices]
  /\ Sorted
  /\ price \in Prices
  /\ searcher \in Searchers
  /\ first = IF searcher = "Linear" THEN Len(levels) ELSE 0
  /\ length = Len(levels)
  /\ found = FALSE

Goes(newFirst, newLength) ==
  /\ first' = newFirst
  /\ length' = newLength
  /\ UNCHANGED <<side, levels, price, searcher, found>>

Half == length \div 2

\* A mutant: the middle stays in what is left.
BinaryKeepsMiddle ==
  /\ searcher = "Binary" /\ ~found
  /\ length > 0
  /\ IF Before(first + Half)
       THEN Goes(first + Half, length - Half)
       ELSE Goes(first, Half)

\* A round of std::lower_bound.
BinaryStep ==
  /\ searcher = "Binary" /\ ~found
  /\ length > 0
  /\ IF Before(first + Half)
       THEN Goes(first + Half + 1, length - Half - 1)
       ELSE Goes(first, Half)

\* A mutant: first skips a level more.
SkipsOneMore == length - Half + 1

\* How far a round of the branchless search moves first when the middle is before the price.
Skip == length - Half

BranchlessStep ==
  /\ searcher = "Branchless" /\ ~found
  /\ length > 0
  /\ Goes(IF Before(first + Half) THEN first + Skip ELSE first, Half)

LinearStep ==
  /\ searcher = "Linear" /\ ~found
  /\ first > 0
  /\ ~Before(first - 1)
  /\ Goes(first - 1, length)

\* The loop's condition fails, or the linear search breaks behind a level before the price.
Ends == IF searcher = "Linear" THEN first > 0 => Before(first - 1) ELSE length = 0

Return ==
  /\ ~found
  /\ Ends
  /\ found' = TRUE
  /\ UNCHANGED <<side, levels, price, searcher, first, length>>

Next == BinaryStep \/ BranchlessStep \/ LinearStep \/ Return

Spec == Init /\ [][Next]_vars /\ WF_vars(Next)

-----------------------------------------------------------------------------
\* Properties.

\* Every variable stays in its domain; a search never leaves the vector.
TypeOK ==
  /\ side \in Sides
  /\ levels \in Seq(Prices) /\ Sorted
  /\ price \in Prices
  /\ searcher \in Searchers
  /\ first \in 0..Len(levels) /\ length \in 0..Len(levels)
  /\ found \in BOOLEAN

\* All three searchers return the same place: the level of the price if there is one, and
\* else the place to insert it at, also for an empty vector and a price beyond both ends.
ReturnsLowerBound == found => IsLowerBound

\* What is left of the vector holds the place: levels in front of it are before the price,
\* those behind it are not.
SearchInv ==
  IF searcher = "Linear"
    THEN \A offset \in 0..(Len(levels) - 1) : offset >= first => ~Before(offset)
    ELSE /\ first + length <= Len(levels)
         /\ \A offset \in 0..(Len(levels) - 1) :
              /\ offset < first => Before(offset)
              /\ offset >= first + length => ~Before(offset)

\* Every search returns.
SearchReturns == <>found
=============================================================================
