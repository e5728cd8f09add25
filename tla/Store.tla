-------------------------------- MODULE Store --------------------------------
(***************************************************************************)
(* The SQLite store (internal/state): the table user_state behind a        *)
(* database/sql pool of exactly one connection (SetMaxOpenConns(1)).       *)
(*                                                                         *)
(* Whoever needs the database waits for that connection.  A transaction    *)
(* (Update) keeps it from BeginTx to Commit or Rollback, so also while its *)
(* callback talks to the panel; an iteration (IterWLUsers) keeps it until  *)
(* the cursor is closed, so also while its callback runs.  Every other     *)
(* statement takes it, runs and gives it back in one step.                 *)
(*                                                                         *)
(* This module holds the variables and the actions; StoreClient closes     *)
(* them into a specification with arbitrary callers, Engine composes them  *)
(* with the handlers.                                                      *)
(***************************************************************************)
CONSTANTS
    User,     \* user uuids
    Proc,     \* goroutines that use the store
    Absent,   \* no row for the user yet
    Free      \* the connection is in the pool

ASSUME StoreAssumption == Free \notin Proc /\ Absent \notin User

VARIABLES
    rows,     \* [User -> row or Absent], what is committed
    conn,     \* the process that holds the connection, or Free
    tx,       \* [Proc -> its open transaction: the user and the working copy of the row]
    cursor    \* users the open iteration has not visited yet

store == <<rows, conn, tx, cursor>>

NoTx == [user |-> Absent, row |-> Absent]

StoreInit(table) ==
    /\ rows = table
    /\ conn = Free
    /\ tx = [p \in Proc |-> NoTx]
    /\ cursor = {}

InTx(p) == tx[p] # NoTx
Iterating(p) == conn = p /\ ~InTx(p)

\* Faulty variants stand in front of the definition they are a mistake in: a lost
\* guard, a lost reset.  No specification uses them; each is noticed by a property.
Loaded_NoInsert(u, default) == rows[u]

\* the row the INSERT ... ON CONFLICT DO NOTHING and the SELECT leave the caller with
Loaded(u, default) == IF rows[u] = Absent THEN default ELSE rows[u]

-----------------------------------------------------------------------------
(* Update: BeginTx, load, callback, then commit or roll back *)

\* a pool of more than one connection
Begin_ManyConnections(p, u, default) ==
    /\ ~InTx(p)
    /\ conn' = p
    /\ tx' = [tx EXCEPT ![p] = [user |-> u, row |-> Loaded(u, default)]]
    /\ UNCHANGED <<rows, cursor>>

Begin(p, u, default) ==
    /\ conn = Free
    /\ conn' = p
    /\ tx' = [tx EXCEPT ![p] = [user |-> u, row |-> Loaded(u, default)]]
    /\ UNCHANGED <<rows, cursor>>

\* the callback writes to its *UserState
Edit(p, row) ==
    /\ InTx(p)
    /\ tx' = [tx EXCEPT ![p].row = row]
    /\ UNCHANGED <<rows, conn, cursor>>

Commit(p, row) ==
    /\ InTx(p)
    /\ rows' = [rows EXCEPT ![tx[p].user] = row]
    /\ conn' = Free
    /\ tx' = [tx EXCEPT ![p] = NoTx]
    /\ UNCHANGED cursor

\* also undoes the INSERT of a first contact
Rollback(p) ==
    /\ InTx(p)
    /\ conn' = Free
    /\ tx' = [tx EXCEPT ![p] = NoTx]
    /\ UNCHANGED <<rows, cursor>>

-----------------------------------------------------------------------------
(* Single statements *)

Get_OtherConnection(u, default) ==
    /\ rows' = [rows EXCEPT ![u] = Loaded(u, default)]
    /\ UNCHANGED <<conn, tx, cursor>>

Get(u, default) ==
    /\ conn = Free
    /\ rows' = [rows EXCEPT ![u] = Loaded(u, default)]
    /\ UNCHANGED <<conn, tx, cursor>>

AddUsage_OtherConnection(u, row) ==
    /\ rows' = IF rows[u] = Absent THEN rows ELSE [rows EXCEPT ![u] = row]
    /\ UNCHANGED <<conn, tx, cursor>>

\* AddBasicUsage: an UPDATE that matches no row is not an error
AddUsage(u, row) ==
    /\ conn = Free
    /\ rows' = IF rows[u] = Absent THEN rows ELSE [rows EXCEPT ![u] = row]
    /\ UNCHANGED <<conn, tx, cursor>>

-----------------------------------------------------------------------------
(* IterWLUsers: one cursor over the whole table *)

OpenCursor_Buffered(p) ==
    /\ conn = Free
    /\ cursor' = {u \in User : rows[u] # Absent}
    /\ UNCHANGED <<rows, conn, tx>>

OpenCursor(p) ==
    /\ conn = Free
    /\ conn' = p
    /\ cursor' = {u \in User : rows[u] # Absent}
    /\ UNCHANGED <<rows, tx>>

Fetch(p, u) ==
    /\ Iterating(p)
    /\ u \in cursor
    /\ cursor' = cursor \ {u}
    /\ UNCHANGED <<rows, conn, tx>>

\* the end of the rows, or an error of the callback
CloseCursor(p) ==
    /\ Iterating(p)
    /\ conn' = Free
    /\ cursor' = {}
    /\ UNCHANGED <<rows, tx>>

\* the process dies: SQLite rolls the open transaction back
Reopen ==
    /\ conn' = Free
    /\ tx' = [p \in Proc |-> NoTx]
    /\ cursor' = {}
    /\ UNCHANGED rows
=============================================================================
