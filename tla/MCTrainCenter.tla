--------------------------- MODULE MCTrainCenter ---------------------------
(* Instances of TrainCenter for TLC. *)
EXTENDS TrainCenter
=============================================================================
