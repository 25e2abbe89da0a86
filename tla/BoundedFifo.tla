----------------------------- MODULE BoundedFifo -----------------------------
(***************************************************************************)
(* What a bounded queue between one producer and one consumer promises:    *)
(* values come out in the order they went in, each once, and at most Bound *)
(* of them wait.  Closing the queue drops what waits.                      *)
(***************************************************************************)
EXTENDS Naturals, Sequences

CONSTANTS Values, Bound, Nothing

VARIABLES
  items,   \* the waiting values, oldest first
  out      \* the value the consumer got last

Init == items = <<>> /\ out = Nothing

Put(v) ==
  /\ Len(items) < Bound
  /\ items' = Append(items, v)
  /\ UNCHANGED out

Take ==
  /\ items # <<>>
  /\ out' = Head(items)
  /\ items' = Tail(items)

Close == items' = <<>> /\ UNCHANGED out

Next == (\E v \in Values : Put(v)) \/ Take \/ Close

Spec == Init /\ [][Next]_<<items, out>>
=============================================================================
