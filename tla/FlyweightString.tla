---------------------------- MODULE FlyweightString ----------------------------
(***************************************************************************)
(* FlyweightString of include/util: equal strings share one object, found  *)
(* by its text in a pool that only grows.  The pool's mutex is held for a  *)
(* whole lookup, so a construction is one step whichever thread does it.   *)
(* String objects are numbered in the order in which they entered.         *)
(***************************************************************************)
EXTENDS Naturals, Sequences

CONSTANTS
  Strings,  \* texts
  Empty,    \* the empty text, which a std::string has after it was moved from
  Handles   \* FlyweightString objects

VARIABLES
  pool,   \* pool: a function from keys to string objects
  text,   \* text[n]: what the n-th string object says
  value,  \* value[h]: the string object of a handle, 0 before its construction
  given   \* history: the text each handle was constructed from

vars == <<pool, text, value, given>>

Found(str) == str \in DOMAIN pool

\* The key is built from what the argument says by then; emplace changes nothing and drops
\* the new object when there is such a key.
Emplace(h, key, str) ==
  IF key \in DOMAIN pool
    THEN value' = [value EXCEPT ![h] = pool[key]] /\ UNCHANGED <<pool, text>>
    ELSE LET n == Len(text) + 1
         IN /\ text'  = Append(text, str)
            /\ pool'  = [k \in DOMAIN pool \cup {key} |-> IF k = key THEN n ELSE pool[k]]
            /\ value' = [value EXCEPT ![h] = n]

\* getOrAdd, whose emplace sees the argument say "left".
GetOrAdd(h, str, left) ==
  /\ value[h] = 0
  /\ IF Found(str)
       THEN value' = [value EXCEPT ![h] = pool[str]] /\ UNCHANGED <<pool, text>>
       ELSE Emplace(h, left, str)
  /\ given' = [given EXCEPT ![h] = str]

ConstructFromCopy(h, str) == GetOrAdd(h, str, str)

\* For an rvalue, make_shared moves the text out of the argument before emplace builds the
\* key from it (flyweightstring.cpp:20).
ConstructFromMove(h, str) == GetOrAdd(h, str, Empty)

Copy(h, other) ==
  /\ value[h] = 0 /\ value[other] # 0
  /\ value' = [value EXCEPT ![h] = value[other]]
  /\ given' = [given EXCEPT ![h] = given[other]]
  /\ UNCHANGED <<pool, text>>

\* The string objects live as long as the pool.
Destroy(h) ==
  /\ value[h] # 0
  /\ value' = [value EXCEPT ![h] = 0]
  /\ given' = [given EXCEPT ![h] = Empty]
  /\ UNCHANGED <<pool, text>>

Init ==
  /\ pool  = [k \in {} |-> 0]
  /\ text  = <<>>
  /\ value = [h \in Handles |-> 0]
  /\ given = [h \in Handles |-> Empty]

Next ==
  \E h \in Handles :
    \/ \E str \in Strings : ConstructFromCopy(h, str) \/ ConstructFromMove(h, str)
    \/ \E other \in Handles : Copy(h, other)
    \/ Destroy(h)

Spec == Init /\ [][Next]_vars

-----------------------------------------------------------------------------
\* Properties.

\* flyweightstring.h:37 says of getOrAdd: "get or add a string to the pool".  A handle holds
\* the string it was constructed from, whichever strings were pooled before, and not
\* another one.
HoldsItsString == \A h \in Handles : value[h] # 0 => text[value[h]] = given[h]
=============================================================================
