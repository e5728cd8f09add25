------------------------------ MODULE MCEngine ------------------------------
(* One instance of Engine: the values of its structured constants. *)
EXTENDS EngineClaims, EngineInvariant, TLC

SoldLimits == {2}
TwoPacks == {2, 3}
Cycles == {"MONTH"}

\* the handlers of webhooks are alike
Handlers == Permutations(Handler)
=============================================================================
