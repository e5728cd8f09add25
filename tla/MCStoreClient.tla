---------------------------- MODULE MCStoreClient ----------------------------
(* Rows are write counters up to MaxVersion, so that a lost update shows. *)
EXTENDS StoreClient, Naturals

CONSTANT MaxVersion

Version == 0..MaxVersion
One == [n \in Version |-> IF n < MaxVersion THEN n + 1 ELSE n]
Same == [n \in Version |-> n]
Fns == {One, Same}
=============================================================================
