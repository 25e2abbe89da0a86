--------------------------- MODULE MCSlabAllocator ---------------------------
(* Small instances of SlabAllocator for TLC. *)
EXTENDS SlabAllocator, TLC

Symmetry == Permutations(Clients)
=============================================================================
