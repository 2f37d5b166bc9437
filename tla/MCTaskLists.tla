----------------------------- MODULE MCTaskLists -----------------------------
(* An instance of Kernel on the lists in memory, for TLC. *)
EXTENDS TaskLists

BothUarts == {1, 2}
AllEvents == Events
=============================================================================
