--------------------------- MODULE MCDecisionTable ---------------------------
(* One instance of DecisionTable: the values of its structured constants. *)
EXTENDS DecisionTable

Cycles == {"MONTH"}
=============================================================================
