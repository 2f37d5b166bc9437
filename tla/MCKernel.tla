------------------------------ MODULE MCKernel ------------------------------
(* Instances of Kernel for TLC. *)
EXTENDS Kernel

NoUarts    == {}
TimerEvent == {EVENT_TIME_ELAP}
=============================================================================
