----------------------------- MODULE MCComServer -----------------------------
(* Instances of ComServer for TLC. *)
EXTENDS ComServer, TLC

CONSTANT x  \* another character

OneChar  == {<<BACKSPACE>>}
OneOrTwo == {<<x>>, <<BACKSPACE, x>>}

ClientSymmetry == Permutations(Clients)
=============================================================================
