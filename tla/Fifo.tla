--------------------------------- MODULE Fifo ---------------------------------
(***************************************************************************)
(* What a queue promises: the items put in come out once each, in the      *)
(* order they went in, those of one Put next to each other.                *)
(***************************************************************************)
EXTENDS Sequences

VARIABLES
  items,  \* the items put in and not yet out
  in,     \* what the last step put in, a sequence
  out     \* what the last step took out, at most one item

Put ==
  /\ in' # <<>> /\ out' = <<>>
  /\ items' = items \o in'

Take ==
  /\ items # <<>>
  /\ in' = <<>> /\ out' = <<Head(items)>>
  /\ items' = Tail(items)

Idle == in' = <<>> /\ out' = <<>> /\ UNCHANGED items

Init == items = <<>>
Next == Put \/ Take \/ Idle
Spec == Init /\ [][Next]_<<items, in, out>>
=============================================================================
