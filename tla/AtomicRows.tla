----------------------------- MODULE AtomicRows -----------------------------
(***************************************************************************)
(* What the store promises its callers ("Update runs fn inside a           *)
(* transaction with the row locked; commits on success"): a table of rows  *)
(* in which every update is one step that applies the caller's function to *)
(* the row as it is at that step, creating the row first if there is none. *)
(***************************************************************************)
CONSTANTS
    User, Absent,
    Default,    \* the row an INSERT with only defaults creates
    Fn,         \* the functions callers pass to Update
    Bump        \* what AddBasicUsage does to a row

VARIABLE rows

Init == rows = [u \in User |-> Absent]

Create(u) ==
    /\ rows[u] = Absent
    /\ rows' = [rows EXCEPT ![u] = Default]

Update(u) ==
    \E f \in Fn :
        rows' = [rows EXCEPT ![u] = f[IF rows[u] = Absent THEN Default ELSE rows[u]]]

Add(u) ==
    /\ rows[u] # Absent
    /\ rows' = [rows EXCEPT ![u] = Bump[rows[u]]]

Next == \E u \in User : Create(u) \/ Update(u) \/ Add(u)

Spec == Init /\ [][Next]_rows
=============================================================================
