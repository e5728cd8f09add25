-------------------------------- MODULE Meter --------------------------------
(***************************************************************************)
(* What the metering of the basic nodes promises a user, with no nodes, no *)
(* reports, no marks and no crashes: his counter only takes bytes he has   *)
(* sent and that no reset has forgiven, he is cut only at his limit, only  *)
(* a reset ends the cut, and the limit he was entered with is his for      *)
(* good.  How much of what he sent the counter takes, and when, is open.   *)
(***************************************************************************)
EXTENDS Naturals

CONSTANTS User, Absent, Limits   \* Limits: those a row can be created with

VARIABLES
    sent,      \* bytes the user has sent
    rows,      \* [User -> row or Absent]
    forgiven   \* bytes resets have taken off his counter

vars == <<sent, rows, forgiven>>

Init ==
    /\ sent = [u \in User |-> 0] /\ forgiven = [u \in User |-> 0]
    /\ rows = [u \in User |-> Absent]

Send(u) ==
    /\ sent' = [sent EXCEPT ![u] = @ + 1]
    /\ UNCHANGED <<rows, forgiven>>

Enter(u) ==
    /\ rows[u] = Absent
    /\ \E limit \in Limits :
          rows' = [rows EXCEPT ![u] = [used |-> 0, limit |-> limit, basic |-> "active"]]
    /\ UNCHANGED <<sent, forgiven>>

Bill(u) ==
    /\ rows[u] # Absent
    /\ \E bytes \in 1..sent[u] :
          /\ rows[u].used + bytes + forgiven[u] <= sent[u]
          /\ rows' = [rows EXCEPT ![u].used = @ + bytes]
    /\ UNCHANGED <<sent, forgiven>>

Cut(u) ==
    /\ rows[u] # Absent /\ rows[u].limit > 0 /\ rows[u].used >= rows[u].limit
    /\ rows' = [rows EXCEPT ![u].basic = "blocked"]
    /\ UNCHANGED <<sent, forgiven>>

Forgive(u) ==
    /\ rows[u] # Absent
    /\ rows' = [rows EXCEPT ![u].used = 0, ![u].basic = "active"]
    /\ forgiven' = [forgiven EXCEPT ![u] = @ + rows[u].used]
    /\ UNCHANGED sent

Next == \E u \in User : Send(u) \/ Enter(u) \/ Bill(u) \/ Cut(u) \/ Forgive(u)

Spec == Init /\ [][Next]_vars
=============================================================================
