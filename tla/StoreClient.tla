----------------------------- MODULE StoreClient -----------------------------
(***************************************************************************)
(* The store under arbitrary callers: any number of goroutines that update *)
(* rows, read them, add usage and walk the table, in any order.            *)
(* It implements AtomicRows, the table with atomic updates.                *)
(***************************************************************************)
EXTENDS Store

CONSTANTS RowValue, Default, Fn, Bump

ASSUME ClientAssumption ==
    /\ Default \in RowValue /\ Absent \notin RowValue
    /\ Fn \subseteq [RowValue -> RowValue]
    /\ Bump \in [RowValue -> RowValue]

BeginUpdate(p, u) == Begin(p, u, Default)

CommitUpdate(p) == \E f \in Fn : InTx(p) /\ Commit(p, f[tx[p].row])

GetRow(u) == Get(u, Default)

AddRowUsage(u) == AddUsage(u, Bump[rows[u]])

Next ==
    \/ \E p \in Proc, u \in User : BeginUpdate(p, u) \/ Fetch(p, u)
    \/ \E p \in Proc : CommitUpdate(p) \/ Rollback(p) \/ OpenCursor(p) \/ CloseCursor(p)
    \/ \E u \in User : GetRow(u) \/ AddRowUsage(u)
    \/ Reopen

Init == StoreInit([u \in User |-> Absent])

Spec == Init /\ [][Next]_store

-----------------------------------------------------------------------------
(* The values the variables range over. *)
TypeOK ==
    /\ rows \in [User -> RowValue \cup {Absent}]
    /\ conn \in Proc \cup {Free}
    /\ tx \in [Proc -> [user : User, row : RowValue] \cup {NoTx}]
    /\ cursor \in SUBSET User

(* Whoever has a transaction open has the pool's only connection, so there  *)
(* is at most one transaction and none while a cursor is open (the comment  *)
(* "effectively serialized against other writers" in Update).               *)
Serialized == \A p \in Proc : InTx(p) => conn = p /\ cursor = {}

(* From load to commit the row under an open transaction stays what the     *)
(* transaction loaded: nobody's write lands between the SELECT and the      *)
(* UPDATE of Update.                                                        *)
Isolated == \A p \in Proc : InTx(p) => tx[p].row = Loaded(tx[p].user, Default)

(* An iteration sees one table: while a cursor is open no committed row     *)
(* changes, whatever the callbacks and the other goroutines do.             *)
PassSeesOneTable == [][cursor # {} /\ cursor' # {} => rows' = rows]_store

(* Every update, of whichever caller, takes effect at once on the current   *)
(* row: no update is lost, a rolled back one leaves nothing behind.         *)
Atomic == INSTANCE AtomicRows WITH rows <- rows
ImplementsAtomicRows == Atomic!Spec
=============================================================================
