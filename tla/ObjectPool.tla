------------------------------ MODULE ObjectPool ------------------------------
(***************************************************************************)
(* ObjectPool of include/util/objectpool.hpp: BlockSize places mapped at   *)
(* construction, handed out last in first out, and objects from new when   *)
(* they are used up.  Every call holds the pool's mutex from its first to  *)
(* its last line, so a call is one step.                                   *)
(***************************************************************************)
EXTENDS Naturals, Sequences, SequencesExt

CONSTANTS
  BlockSize,  \* BLOCK_SIZE
  HeapPlaces, \* bound: the addresses operator new gives out
  Clients     \* threads that hold objects

Block  == 1..BlockSize
Places == Block \cup HeapPlaces

ASSUME PoolAssumption ==
  BlockSize \in Nat \ {0} /\ Block \cap HeapPlaces = {}

VARIABLES
  objList,     \* objList_: free places of the block, handed out from the back
  unreturned,  \* unreturned_
  held,        \* held[c]: what client c got and has not returned
  lost,        \* history: the places of the block whose constructor threw
  alive        \* the pool's destructor has not run

vars == <<objList, unreturned, held, lost, alive>>

\* What operator new can return: an address that is not in use.
FreshPlaces == HeapPlaces \ unreturned

FromPool(p) == objList # <<>> /\ p = Last(objList) /\ objList' = Front(objList)

\* A mutant: the last place of the block is kept back.
FromHeapEarly(p) == Len(objList) < 2 /\ p \in FreshPlaces /\ UNCHANGED objList

FromHeap(p) == objList = <<>> /\ p \in FreshPlaces /\ UNCHANGED objList

allocate(c, p) ==
  /\ alive
  /\ FromPool(p) \/ FromHeap(p)
  /\ unreturned' = unreturned \cup {p}
  /\ held' = [held EXCEPT ![c] = @ \cup {p}]
  /\ UNCHANGED <<lost, alive>>

\* The constructor throws: a place of the block has left the list and is lost, memory from
\* new is given back by the new expression.
AllocateThrows(p) ==
  /\ alive
  /\ FromPool(p)
  /\ lost' = lost \cup {p}
  /\ UNCHANGED <<unreturned, held, alive>>

\* A mutant: any address is taken back.
KnownPlace(p) == p \in Places

Known(p) == p \in unreturned

\* A mutant: places of the heap are pooled, too.
PooledAlways(p) == Append(objList, p)

\* A mutant: an object of the block is destroyed and its place forgotten.
PooledNever(p) == objList

\* A place of the block goes back to the list; other objects are deleted.
Pooled(p) == IF p \in Block THEN Append(objList, p) ELSE objList

\* A client returns what it holds, or what nobody holds (it was returned before).
deallocate(c, p) ==
  /\ alive
  /\ \A d \in Clients \ {c} : p \notin held[d]
  /\ Known(p)
  /\ unreturned' = unreturned \ {p}
  /\ objList' = Pooled(p)
  /\ held' = [held EXCEPT ![c] = @ \ {p}]
  /\ UNCHANGED <<lost, alive>>

\* An address that is not in unreturned_ is ignored.
DeallocateUnknown(p) ==
  /\ alive
  /\ ~Known(p)
  /\ UNCHANGED vars

\* At exit: every object that was not returned is destroyed and the block unmapped.
Destruct ==
  /\ alive
  /\ alive' = FALSE
  /\ unreturned' = {} /\ objList' = <<>>
  /\ held' = [c \in Clients |-> {}]
  /\ UNCHANGED lost

Init ==
  /\ objList = [k \in Block |-> k]
  /\ unreturned = {}
  /\ held = [c \in Clients |-> {}]
  /\ lost = {}
  /\ alive = TRUE

Next ==
  \/ \E p \in Places :
       \/ \E c \in Clients : allocate(c, p) \/ deallocate(c, p)
       \/ AllocateThrows(p)
       \/ DeallocateUnknown(p)
  \/ Destruct

Spec == Init /\ [][Next]_vars

-----------------------------------------------------------------------------
\* Properties.

\* Every variable stays in its domain: no place of the heap gets into the block's list.
TypeOK ==
  /\ objList    \in Seq(Block)
  /\ unreturned \in SUBSET Places
  /\ held       \in [Clients -> SUBSET Places]
  /\ lost       \in SUBSET Block
  /\ alive      \in BOOLEAN

\* Nobody holds what another client holds or what can still be handed out, also when
\* objects are returned twice.
HeldByOne ==
  /\ unreturned = UNION {held[c] : c \in Clients}
  /\ \A c, d \in Clients : c # d => held[c] \cap held[d] = {}
  /\ IsInjective(objList) /\ ToSet(objList) \cap unreturned = {}

\* Every place of the block can be handed out or is held, whatever was allocated from the
\* heap in between, except those whose constructor threw: nothing puts them back.
NothingElseLost == alive => lost = Block \ (ToSet(objList) \cup unreturned)

\* The heap is used only while clients hold all of the block that was not lost.
HeapOnlyWhenExhausted ==
  [][(unreturned' \ unreturned) \cap HeapPlaces # {} => Block \ lost \subseteq unreturned]_vars
=============================================================================
