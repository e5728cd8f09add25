------------------------------ MODULE MCRelay ------------------------------
(* One instance of Relay: the values of its structured constants. *)
EXTENDS Relay, TLC

SoldLimits == {2}
Cycles == {"MONTH"}

Handlers == Permutations(Handler)
=============================================================================
