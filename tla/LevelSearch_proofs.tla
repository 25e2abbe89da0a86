-------------------------- MODULE LevelSearch_proofs --------------------------
(***************************************************************************)
(* The three searches of level_searcher.hpp return the lower bound of the  *)
(* price, for a sorted vector of any length and any prices.  The inductive *)
(* invariant is SearchInv: what a search has left of the vector always     *)
(* encloses the lower bound, and it stops when nothing is left.            *)
(***************************************************************************)
EXTENDS LevelSearch, SequenceTheorems, TLAPS

\* A search returns where its loop ends.
StoppedAtEnd == found => Ends

IInv == TypeOK /\ SearchInv /\ StoppedAtEnd

Offsets == 0..(Len(levels) - 1)

-----------------------------------------------------------------------------
\* Halving: for a length above zero the half is smaller than the rest.
LEMMA Halving ==
  ASSUME NEW n \in Nat, n > 0
  PROVE  /\ n \div 2 \in Nat /\ n \div 2 < n
         /\ n \div 2 <= n - (n \div 2) /\ n - (n \div 2) <= (n \div 2) + 1
         /\ n - (n \div 2) \in Nat /\ n - (n \div 2) > 0
  OBVIOUS

\* In a sorted vector a level in front of one before the price is before it, and a level
\* behind one that is not before the price is not.
LEMMA SortedSplits ==
  ASSUME TypeOK, NEW k \in Offsets, NEW m \in Offsets, k <= m
  PROVE  Before(m) => Before(k)
<1>1. /\ levels \in Seq(Prices) /\ Sorted /\ price \in Prices
      /\ k \in Nat /\ m \in Nat /\ k + 1 \in 1..Len(levels) /\ m + 1 \in 1..Len(levels)
  BY DEF TypeOK, Offsets
<1>2. /\ levels[k + 1] \in Nat /\ levels[m + 1] \in Nat /\ price \in Nat
  <2>1. levels[k + 1] \in Prices /\ levels[m + 1] \in Prices
    BY <1>1, ElementOfSeq
  <2> QED
    BY <1>1, <2>1, SearchAssumption
<1>3. CASE k = m
  BY <1>3
<1>4. CASE k < m
  <2>1. cmp(levels[k + 1], levels[m + 1])
    BY <1>1, <1>4 DEF Sorted
  <2> QED
    BY <2>1, <1>2 DEF cmp, Before, At
<1> QED
  BY <1>1, <1>3, <1>4

-----------------------------------------------------------------------------
LEMMA InitIInv ==
  Init => IInv
<1> SUFFICES ASSUME Init PROVE IInv
  OBVIOUS
<1>1. PICK n \in 0..MaxDepth : levels \in [1..n -> Prices]
  BY DEF Init
<1>2. n \in Nat
  BY <1>1, SearchAssumption
<1>3. levels \in Seq(Prices) /\ Len(levels) = n
  BY <1>1, <1>2
<1>4. TypeOK
  <2>1. first \in {0, n} /\ length = n
    BY <1>3 DEF Init
  <2>2. first \in 0..Len(levels) /\ length \in 0..Len(levels)
    BY <2>1, <1>2, <1>3
  <2>3. side \in Sides /\ Sorted /\ price \in Prices /\ searcher \in Searchers /\ found \in BOOLEAN
    BY DEF Init
  <2> QED
    BY <2>2, <2>3, <1>3 DEF TypeOK
<1>5. SearchInv
  BY <1>2, <1>3 DEF Init, SearchInv
<1> QED
  BY <1>4, <1>5 DEF IInv, Init, StoppedAtEnd

\* A round of std::lower_bound.
LEMMA BinaryKeeps ==
  ASSUME IInv, BinaryStep
  PROVE  IInv'
<1>1. /\ first \in Nat /\ length \in Nat /\ Len(levels) \in Nat /\ length > 0
      /\ first + length <= Len(levels)
      /\ searcher = "Binary" /\ ~found
  BY DEF IInv, TypeOK, SearchInv, BinaryStep
<1> DEFINE h == length \div 2
<1>2. h \in Nat /\ h < length /\ Half = h
  BY <1>1, Halving DEF Half
<1>3. first + h \in Offsets
  BY <1>1, <1>2 DEF Offsets
<1> HIDE DEF h
<1>4. UNCHANGED <<side, levels, price, searcher, found>>
  BY DEF BinaryStep, Goes
<1>5. CASE Before(first + h)
  <2>1. first' = first + h + 1 /\ length' = length - h - 1
    BY <1>2, <1>5 DEF BinaryStep, Goes
  <2>2. \A k \in Offsets : k < first' => Before(k)
    BY <2>1, <1>1, <1>2, <1>3, <1>5, SortedSplits DEF IInv, Offsets
  <2>3. \A k \in Offsets : k >= first' + length' => ~Before(k)
    BY <2>1, <1>1, <1>2 DEF IInv, SearchInv, Offsets
  <2>4. first' \in 0..Len(levels) /\ length' \in 0..Len(levels) /\ first' + length' <= Len(levels)
    BY <2>1, <1>1, <1>2
  <2> QED
    BY <2>2, <2>3, <2>4, <1>1, <1>4 DEF IInv, TypeOK, SearchInv, StoppedAtEnd, Sorted, Before, At, cmp, Offsets
<1>6. CASE ~Before(first + h)
  <2>1. first' = first /\ length' = h
    BY <1>2, <1>6 DEF BinaryStep, Goes
  <2>2. \A k \in Offsets : k < first' => Before(k)
    BY <2>1, <1>1 DEF IInv, SearchInv, Offsets
  <2>3. \A k \in Offsets : k >= first' + length' => ~Before(k)
    BY <2>1, <1>1, <1>2, <1>3, <1>6, SortedSplits DEF IInv, Offsets
  <2>4. first' \in 0..Len(levels) /\ length' \in 0..Len(levels) /\ first' + length' <= Len(levels)
    BY <2>1, <1>1, <1>2
  <2> QED
    BY <2>2, <2>3, <2>4, <1>1, <1>4 DEF IInv, TypeOK, SearchInv, StoppedAtEnd, Sorted, Before, At, cmp, Offsets
<1> QED
  BY <1>5, <1>6

\* A round of the branchless search: first skips the larger part of what is left, which is
\* at most one level more than the middle.
LEMMA BranchlessKeeps ==
  ASSUME IInv, BranchlessStep
  PROVE  IInv'
<1>1. /\ first \in Nat /\ length \in Nat /\ Len(levels) \in Nat /\ length > 0
      /\ first + length <= Len(levels)
      /\ searcher = "Branchless" /\ ~found
  BY DEF IInv, TypeOK, SearchInv, BranchlessStep
<1> DEFINE h == length \div 2
<1>2. /\ h \in Nat /\ h < length /\ h <= length - h /\ length - h <= h + 1
      /\ Half = h /\ Skip = length - h
  BY <1>1, Halving DEF Half, Skip
<1>3. first + h \in Offsets
  BY <1>1, <1>2 DEF Offsets
<1> HIDE DEF h
<1>4. UNCHANGED <<side, levels, price, searcher, found>> /\ length' = h
  BY <1>2 DEF BranchlessStep, Goes
<1>5. CASE Before(first + h)
  <2>1. first' = first + (length - h)
    BY <1>2, <1>5 DEF BranchlessStep, Goes
  <2>2. \A k \in Offsets : k < first' => Before(k)
    BY <2>1, <1>1, <1>2, <1>3, <1>5, SortedSplits DEF IInv, Offsets
  <2>3. \A k \in Offsets : k >= first' + length' => ~Before(k)
    BY <2>1, <1>1, <1>2, <1>4 DEF IInv, SearchInv, Offsets
  <2>4. first' \in 0..Len(levels) /\ length' \in 0..Len(levels) /\ first' + length' <= Len(levels)
    BY <2>1, <1>1, <1>2, <1>4
  <2> QED
    BY <2>2, <2>3, <2>4, <1>1, <1>4 DEF IInv, TypeOK, SearchInv, StoppedAtEnd, Sorted, Before, At, cmp, Offsets
<1>6. CASE ~Before(first + h)
  <2>1. first' = first
    BY <1>2, <1>6 DEF BranchlessStep, Goes
  <2>2. \A k \in Offsets : k < first' => Before(k)
    BY <2>1, <1>1 DEF IInv, SearchInv, Offsets
  <2>3. \A k \in Offsets : k >= first' + length' => ~Before(k)
    BY <2>1, <1>1, <1>2, <1>3, <1>4, <1>6, SortedSplits DEF IInv, Offsets
  <2>4. first' \in 0..Len(levels) /\ length' \in 0..Len(levels) /\ first' + length' <= Len(levels)
    BY <2>1, <1>1, <1>2, <1>4
  <2> QED
    BY <2>2, <2>3, <2>4, <1>1, <1>4 DEF IInv, TypeOK, SearchInv, StoppedAtEnd, Sorted, Before, At, cmp, Offsets
<1> QED
  BY <1>5, <1>6

\* A round of the linear search.
LEMMA LinearKeeps ==
  ASSUME IInv, LinearStep
  PROVE  IInv'
<1>1. /\ first \in Nat /\ first > 0 /\ first <= Len(levels) /\ Len(levels) \in Nat
      /\ searcher = "Linear" /\ ~found /\ ~Before(first - 1)
      /\ first' = first - 1 /\ length' = length
      /\ UNCHANGED <<side, levels, price, searcher, found>>
  BY DEF IInv, TypeOK, LinearStep, Goes
<1>2. \A k \in Offsets : k >= first' => ~Before(k)
  BY <1>1 DEF IInv, SearchInv, Offsets
<1>3. first' \in 0..Len(levels)
  BY <1>1
<1> QED
  BY <1>1, <1>2, <1>3 DEF IInv, TypeOK, SearchInv, StoppedAtEnd, Sorted, Before, At, cmp, Offsets

LEMMA ReturnKeeps ==
  ASSUME IInv, Return
  PROVE  IInv'
BY DEF IInv, Return, TypeOK, SearchInv, StoppedAtEnd, Ends, Sorted, Before, At, cmp

-----------------------------------------------------------------------------
LEMMA StutterKeeps ==
  ASSUME IInv, UNCHANGED vars
  PROVE  IInv'
BY DEF vars, IInv, TypeOK, SearchInv, StoppedAtEnd, Ends, Sorted, Before, At, cmp

LEMMA SearchInvariant == Spec => []IInv
<1>1. IInv /\ [Next]_vars => IInv'
  BY BinaryKeeps, BranchlessKeeps, LinearKeeps, ReturnKeeps, StutterKeeps DEF Next
<1> QED
  BY <1>1, InitIInv, PTL DEF Spec

\* A search never leaves the vector (level_searcher.hpp reads without a bounds check).
THEOREM SearchStaysInside == Spec => []TypeOK
BY SearchInvariant, PTL DEF IInv

\* Each of the three searches of level_searcher.hpp returns the lower bound of the price.
THEOREM SearchIsCorrect == Spec => []ReturnsLowerBound
<1>1. IInv => ReturnsLowerBound
  <2> SUFFICES ASSUME IInv, found PROVE IsLowerBound
    BY DEF ReturnsLowerBound
  <2>1. /\ first \in Nat /\ length \in Nat /\ Len(levels) \in Nat /\ first <= Len(levels)
        /\ SearchInv /\ Ends
    BY DEF IInv, TypeOK, StoppedAtEnd
  <2>2. ASSUME searcher = "Linear" PROVE \A k \in Offsets : Before(k) <=> k < first
    <3>1. \A k \in Offsets : k >= first => ~Before(k)
      BY <2>1, <2>2 DEF SearchInv, Offsets
    <3>2. \A k \in Offsets : k < first => Before(k)
      <4> SUFFICES ASSUME NEW k \in Offsets, k < first PROVE Before(k)
        OBVIOUS
      <4>1. first > 0 /\ first - 1 \in Offsets /\ k <= first - 1 /\ Before(first - 1)
        BY <2>1, <2>2 DEF Ends, Offsets
      <4> QED
        BY <4>1, SortedSplits DEF IInv
    <3> QED
      BY <3>1, <3>2, <2>1 DEF Offsets
  <2>3. ASSUME searcher # "Linear" PROVE \A k \in Offsets : Before(k) <=> k < first
    <3>1. length = 0
      BY <2>1, <2>3 DEF Ends
    <3> QED
      BY <2>1, <2>3, <3>1 DEF SearchInv, Offsets
  <2>4. \A k \in Offsets : Before(k) <=> k < first
    BY <2>2, <2>3
  <2> SUFFICES ASSUME NEW i \in DOMAIN levels PROVE cmp(levels[i], price) <=> i <= first
    BY DEF IsLowerBound
  <2>5. i \in Nat /\ i - 1 \in Offsets /\ (i - 1) + 1 = i
    BY <2>1 DEF IInv, TypeOK, Offsets
  <2>6. Before(i - 1) <=> i - 1 < first
    BY <2>4, <2>5
  <2> QED
    BY <2>1, <2>5, <2>6 DEF Before, At
<1> QED
  BY <1>1, SearchInvariant, PTL
=============================================================================
