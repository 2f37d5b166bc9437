---------------------------- MODULE MCTrainSpeed ----------------------------
(* An instance of TrainSpeed for TLC. *)
EXTENDS TrainSpeed
=============================================================================
