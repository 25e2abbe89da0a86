----------------------------- MODULE MCObjectPool -----------------------------
(* Small instances of ObjectPool for TLC. *)
EXTENDS ObjectPool, TLC

Symmetry == Permutations(Clients) \cup Permutations(HeapPlaces)
=============================================================================
