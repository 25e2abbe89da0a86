---------------------------- MODULE SlabAllocator ----------------------------
(***************************************************************************)
(* SlabAllocator of include/util/slaballocator.hpp.  Slabs of SlabSize     *)
(* objects sit in three lists, by how many of their objects are free, and  *)
(* move between the lists as objects are handed out and returned.  Every   *)
(* call holds the one mutex from its first to its last line, so a call is  *)
(* one step.  An object is a pair of a slab and a place in it.             *)
(***************************************************************************)
EXTENDS Naturals, FiniteSets, Sequences, SequencesExt

CONSTANTS
  SlabSize,   \* SLAB_SIZE, at least 2 (static_assert)
  MaxSlabs,   \* bound: slabs the allocator creates
  Clients     \* threads that hold objects

ASSUME SlabAssumption ==
  SlabSize \in Nat /\ SlabSize > 1 /\ MaxSlabs \in Nat \ {0}

Slabs   == 1..MaxSlabs
Objects == Slabs \X (1..SlabSize)
Lists   == {"partial", "free", "full"}

VARIABLES
  list,     \* list[l]: partial_list_, free_list_ and full_list_, front first
  objs,     \* objs[s]: the free objects of slab s (objs_), handed out from the back
  mapped,   \* the keys of obj_2_lst_map_; their iterators lead to the objects' slabs
  held,     \* held[c]: the objects client c got and has not returned
  lost,     \* history: the objects whose constructor threw
  alive     \* FALSE once the allocator was destroyed at exit

vars == <<list, objs, mapped, held, lost, alive>>

Created == UNION {ToSet(list[l]) : l \in Lists}

is_full(free) == free = <<>>
is_free(free) == Len(free) = SlabSize

\* The slab's one node moves to the front of another list.
Spliced(l, s, from, to) ==
  [l EXCEPT ![to] = <<s>> \o @, ![from] = RemoveAt(@, CHOOSE k \in DOMAIN @ : @[k] = s)]

-----------------------------------------------------------------------------
\* allocate

NewSlab == [list EXCEPT !["free"] = <<Cardinality(Created) + 1>>]

\* A mutant: a slab is added whenever no slab is wholly free.
WithFreeSlab == IF list["free"] = <<>> THEN NewSlab ELSE list

\* The lists when an object is taken: a slab is added only if none has a free object.
WithSlab == IF list["partial"] = <<>> /\ list["free"] = <<>> THEN NewSlab ELSE list

\* A mutant: a slab that has handed out its last object stays where it is.
StaysPartial(source, free) == "partial"

\* The list a slab belongs to when it has handed out an object and has these left.
Target(source, free) == IF source = "partial" /\ is_full(free) THEN "full" ELSE "partial"

\* An object leaves its slab: a partial slab's if there is one, else a free slab's.
HandOut(o) ==
  LET l      == WithSlab
      source == IF l["partial"] # <<>> THEN "partial" ELSE "free"
      s      == Head(l[source])
      free   == Front(objs[s])
      target == Target(source, free)
  IN /\ alive
     /\ Cardinality(Created) < MaxSlabs \/ l = list
     /\ o = Last(objs[s])
     /\ objs' = [objs EXCEPT ![s] = free]
     /\ list' = IF source = target THEN l ELSE Spliced(l, s, source, target)

allocate(c, o) ==
  /\ HandOut(o)
  /\ mapped' = mapped \cup {o}
  /\ held' = [held EXCEPT ![c] = @ \cup {o}]
  /\ UNCHANGED <<lost, alive>>

\* The constructor throws: the slab has given the object away and nobody has it.
AllocateThrows(o) ==
  /\ HandOut(o)
  /\ lost' = lost \cup {o}
  /\ UNCHANGED <<mapped, held, alive>>

-----------------------------------------------------------------------------
\* deallocate

\* A mutant: the object is not looked up.
KnownSlab(o) == o[1] \in Created

Known(o) == o \in mapped

\* A mutant: the object stays in the map.
StillMapped(o) == mapped

Unmapped(o) == mapped \ {o}

\* A mutant: the slab moves but does not get its object.
ReturnForgotten(o) ==
  /\ UNCHANGED objs
  /\ list' = IF is_full(objs[o[1]]) THEN Spliced(list, o[1], "full", "partial") ELSE list

Return(o) ==
  LET s    == o[1]
      free == Append(objs[s], o)
  IN /\ objs' = [objs EXCEPT ![s] = free]
     /\ list' = IF is_full(objs[s]) THEN Spliced(list, s, "full", "partial")
                ELSE IF is_free(free) THEN Spliced(list, s, "partial", "free")
                ELSE list

\* A client returns an object it holds, or one that nobody holds (it was returned before).
deallocate(c, o) ==
  /\ alive
  /\ o[1] \in Created
  /\ \A d \in Clients \ {c} : o \notin held[d]
  /\ Known(o)
  /\ Return(o)
  /\ mapped' = Unmapped(o)
  /\ held' = [held EXCEPT ![c] = @ \ {o}]
  /\ UNCHANGED <<lost, alive>>

\* An object that is not in the map is ignored.
DeallocateUnknown(o) ==
  /\ alive
  /\ o[1] \in Created
  /\ ~Known(o)
  /\ UNCHANGED vars

\* At exit every object in the map is destroyed, also those a client still holds, and the
\* pages are unmapped.
Destruct ==
  /\ alive
  /\ alive' = FALSE
  /\ mapped' = {}
  /\ held' = [c \in Clients |-> {}]
  /\ UNCHANGED <<list, objs, lost>>

-----------------------------------------------------------------------------
Init ==
  /\ list = [l \in Lists |-> IF l = "free" THEN <<1>> ELSE <<>>]
  /\ objs = [s \in Slabs |-> [k \in 1..SlabSize |-> <<s, k>>]]
  /\ mapped = {}
  /\ held = [c \in Clients |-> {}]
  /\ lost = {}
  /\ alive = TRUE

Call ==
  \E o \in Objects :
    \/ \E c \in Clients : allocate(c, o) \/ deallocate(c, o)
    \/ AllocateThrows(o)
    \/ DeallocateUnknown(o)

Next == Call \/ Destruct

Spec == Init /\ [][Next]_vars

-----------------------------------------------------------------------------
\* Properties.

\* Every variable stays in its domain, and no slab has more free objects than places.
TypeOK ==
  /\ list   \in [Lists -> Seq(Slabs)]
  /\ objs   \in [Slabs -> Seq(Objects)] /\ \A s \in Slabs : Len(objs[s]) <= SlabSize
  /\ mapped \in SUBSET Objects
  /\ held   \in [Clients -> SUBSET Objects]
  /\ lost   \in SUBSET Objects
  /\ alive  \in BOOLEAN

OneListPerSlab ==
  /\ \A l \in Lists : IsInjective(list[l])
  /\ \A l, m \in Lists : l # m => ToSet(list[l]) \cap ToSet(list[m]) = {}

ListsFitSlabs ==
  \A s \in Created :
    /\ s \in ToSet(list["full"]) <=> is_full(objs[s])
    /\ s \in ToSet(list["free"]) <=> is_free(objs[s])

\* However often a slab went round the three lists it is in one of them, once, and that one
\* tells how many free objects it has: allocate never looks into an empty slab, and no free
\* object hides in a list that allocate does not look at.
ListsExact == OneListPerSlab /\ ListsFitSlabs

\* Nobody holds what another client holds or what can still be handed out, also when
\* objects are returned twice.
HeldByOne ==
  /\ mapped = UNION {held[c] : c \in Clients}
  /\ \A c, d \in Clients : c # d => held[c] \cap held[d] = {}
  /\ \A s \in Slabs : IsInjective(objs[s]) /\ ToSet(objs[s]) \cap mapped = {}

\* Every object can be handed out or is held, except those whose constructor threw: they
\* are gone for good, as nothing puts them back.
NothingElseLost ==
  /\ alive => lost = Objects \ (mapped \cup UNION {ToSet(objs[s]) : s \in Slabs})
  /\ \A s \in Slabs : \A o \in ToSet(objs[s]) : o[1] = s

\* A slab is mapped into memory only when every other slab is exhausted.
GrowsOnlyWhenFull ==
  [][\A s \in Created : Created' # Created => is_full(objs[s])]_vars
=============================================================================
