------------------------------ MODULE Registry ------------------------------
(***************************************************************************)
(* What a name server with a bounded table promises: it knows the names    *)
(* that were registered, up to Size of them, oldest first.  One name more  *)
(* takes the place of the oldest, and a name that is registered again      *)
(* keeps its place.  A lookup finds the task that registered the name last.*)
(***************************************************************************)
EXTENDS Integers, Sequences

CONSTANTS Names, Tids, Size, NotFound

VARIABLES
    known,      \* a sequence of [name, tid]
    answer      \* what the last step answered

Has(name) == \E i \in 1 .. Len(known) : known[i].name = name

Again(name, tid) ==
    /\ Has(name)
    /\ known' = [i \in 1 .. Len(known) |->
                    IF known[i].name = name THEN [name |-> name, tid |-> tid] ELSE known[i]]

New(name, tid) ==
    /\ ~ Has(name)
    /\ known' = Append(IF Len(known) = Size THEN Tail(known) ELSE known,
                       [name |-> name, tid |-> tid])

Register == \E name \in Names, tid \in Tids :
    /\ Again(name, tid) \/ New(name, tid)
    /\ answer' = [to |-> tid, result |-> 0]

WhoIs == \E name \in Names, tid \in Tids :
    /\ UNCHANGED known
    /\ \/ ~ Has(name) /\ answer' = [to |-> tid, result |-> NotFound]
       \/ \E i \in 1 .. Len(known) :
             known[i].name = name /\ answer' = [to |-> tid, result |-> known[i].tid]

Init == known = << >>
Next == Register \/ WhoIs
=============================================================================
