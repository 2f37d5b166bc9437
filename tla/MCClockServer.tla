---------------------------- MODULE MCClockServer ----------------------------
(* Instances of ClockServer for TLC. *)
EXTENDS ClockServer, TLC

ClientSymmetry == Permutations(Clients)
=============================================================================
