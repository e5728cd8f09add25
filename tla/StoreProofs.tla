----------------------------- MODULE StoreProofs -----------------------------
(***************************************************************************)
(* The store under arbitrary callers implements the table with atomic      *)
(* updates, for every set of users, goroutines, rows and callbacks.        *)
(* The inductive invariant: a transaction has the only connection          *)
(* (Serialized), so nothing can change the row it has loaded (Isolated).   *)
(***************************************************************************)
EXTENDS StoreClient, TLAPS

\* a connection in the pool has no cursor
Returned == conn = Free => cursor = {}

Inv == TypeOK /\ Serialized /\ Returned /\ Isolated

(* An open transaction is not the absence of one. *)
LEMMA NoTxIsNone == NoTx \notin [user : User, row : RowValue]
BY StoreAssumption DEF NoTx

(* What Update loads is a row. *)
LEMMA LoadedType ==
    ASSUME TypeOK, NEW u \in User
    PROVE  Loaded(u, Default) \in RowValue
BY ClientAssumption DEF TypeOK, Loaded

(* The store starts with no transaction open. *)
LEMMA InvInit == Init => Inv
BY ClientAssumption, StoreAssumption
   DEF Init, StoreInit, Inv, TypeOK, Serialized, Returned, Isolated, InTx

(* A transaction begins on a free connection, on the row as it is. *)
LEMMA BeginKeeps ==
    ASSUME Inv, NEW p \in Proc, NEW u \in User, BeginUpdate(p, u)
    PROVE  Inv'
<1>1. Loaded(u, Default) \in RowValue
  BY LoadedType DEF Inv
<1>2. /\ conn = Free /\ conn' = p /\ rows' = rows /\ cursor' = cursor
      /\ tx' = [tx EXCEPT ![p] = [user |-> u, row |-> Loaded(u, Default)]]
  BY DEF BeginUpdate, Begin
<1>3. \A q \in Proc : ~InTx(q)
  BY <1>2, StoreAssumption DEF Inv, Serialized
<1>4. \A q \in Proc : InTx(q)' => q = p /\ tx'[q] = [user |-> u, row |-> Loaded(u, Default)]
  BY <1>2, <1>3 DEF Inv, TypeOK, InTx
<1>5. TypeOK'
  BY <1>1, <1>2 DEF Inv, TypeOK
<1>6. Serialized' /\ Returned'
  BY <1>2, <1>4, StoreAssumption DEF Inv, Serialized, Returned
<1>7. Isolated'
  BY <1>2, <1>4 DEF Isolated, Loaded
<1> QED
  BY <1>5, <1>6, <1>7 DEF Inv

(* The end of p's transaction leaves no transaction at all, so the new row     *)
(* disturbs nobody.                                                            *)
LEMMA EndKeeps ==
    ASSUME Inv, NEW p \in Proc, InTx(p),
           rows' \in [User -> RowValue \cup {Absent}],
           conn' = Free, tx' = [tx EXCEPT ![p] = NoTx], cursor' = cursor
    PROVE  Inv'
<1>1. conn = p /\ cursor = {}
  BY DEF Inv, Serialized
<1>2. \A q \in Proc : ~InTx(q)'
  BY <1>1 DEF Inv, TypeOK, Serialized, InTx
<1>3. TypeOK'
  BY DEF Inv, TypeOK
<1> QED
  BY <1>1, <1>2, <1>3 DEF Inv, Serialized, Returned, Isolated

(* The row a commit writes is a row. *)
LEMMA CommitKeeps ==
    ASSUME Inv, NEW p \in Proc, CommitUpdate(p)
    PROVE  Inv'
<1>1. PICK f \in Fn : InTx(p) /\ Commit(p, f[tx[p].row])
  BY DEF CommitUpdate
<1>2. tx[p] \in [user : User, row : RowValue]
  BY <1>1 DEF Inv, TypeOK, InTx
<1>3. f[tx[p].row] \in RowValue
  BY <1>2, ClientAssumption
<1>4. rows' \in [User -> RowValue \cup {Absent}]
  BY <1>1, <1>2, <1>3 DEF Commit, Inv, TypeOK
<1> QED
  BY <1>1, <1>4, EndKeeps DEF Commit

(* A rollback writes nothing. *)
LEMMA RollbackKeeps ==
    ASSUME Inv, NEW p \in Proc, Rollback(p)
    PROVE  Inv'
BY EndKeeps DEF Rollback, Inv, TypeOK

(* A single statement runs while no transaction is open. *)
LEMMA StatementKeeps ==
    ASSUME Inv, NEW u \in User, GetRow(u) \/ AddRowUsage(u)
    PROVE  Inv'
<1>1. conn = Free /\ UNCHANGED <<conn, tx, cursor>>
  BY DEF GetRow, Get, AddRowUsage, AddUsage
<1>2. \A q \in Proc : ~InTx(q) /\ ~InTx(q)'
  BY <1>1, StoreAssumption DEF Inv, Serialized, InTx
<1>3. rows' \in [User -> RowValue \cup {Absent}]
  <2>1. CASE GetRow(u)
    BY <2>1, LoadedType DEF GetRow, Get, Inv, TypeOK
  <2>2. CASE AddRowUsage(u)
    BY <2>2, ClientAssumption DEF AddRowUsage, AddUsage, Inv, TypeOK
  <2> QED
    BY <2>1, <2>2
<1> QED
  BY <1>1, <1>2, <1>3 DEF Inv, TypeOK, Serialized, Returned, Isolated

(* A cursor is opened on a free connection and keeps it. *)
LEMMA CursorKeeps ==
    ASSUME Inv, NEW p \in Proc,
           OpenCursor(p) \/ CloseCursor(p) \/ \E u \in User : Fetch(p, u)
    PROVE  Inv'
<1>1. rows' = rows /\ tx' = tx
  BY DEF OpenCursor, CloseCursor, Fetch
<1>2. \A q \in Proc : ~InTx(q) /\ ~InTx(q)'
  <2>1. \A q \in Proc : InTx(q) => conn = q
    BY DEF Inv, Serialized
  <2>2. conn = Free \/ (conn = p /\ ~InTx(p))
    BY DEF OpenCursor, CloseCursor, Fetch, Iterating
  <2> QED
    BY <2>1, <2>2, <1>1, StoreAssumption DEF InTx
<1>3. TypeOK' /\ Returned'
  BY <1>1, StoreAssumption
     DEF OpenCursor, CloseCursor, Fetch, Iterating, Inv, TypeOK, Returned
<1> QED
  BY <1>2, <1>3 DEF Inv, Serialized, Isolated

(* Every step of every caller, and a restart, keep the invariant. *)
LEMMA InvStep == Inv /\ [Next]_store => Inv'
<1> SUFFICES ASSUME Inv, [Next]_store PROVE Inv'
  OBVIOUS
<1>1. CASE Reopen
  BY <1>1 DEF Reopen, Inv, TypeOK, Serialized, Returned, Isolated, InTx
<1>2. CASE UNCHANGED store
  BY <1>2 DEF store, Inv, TypeOK, Serialized, Returned, Isolated, InTx, Loaded
<1> QED
  BY <1>1, <1>2, BeginKeeps, CommitKeeps, RollbackKeeps, StatementKeeps, CursorKeeps
     DEF Next

(* The invariant holds in every reachable state. *)
THEOREM StoreInvariant == Spec => []Inv
BY InvInit, InvStep, PTL DEF Spec

(* The store's types, with however many goroutines. *)
THEOREM StoreTypes == Spec => []TypeOK
BY StoreInvariant, PTL DEF Inv

(* At most one transaction, and none while a cursor is open.                     *)
THEOREM StoreSerialized == Spec => []Serialized
BY StoreInvariant, PTL DEF Inv

(* No write lands between the load and the commit of an Update, whatever the     *)
(* number of goroutines.                                                         *)
THEOREM StoreIsolated == Spec => []Isolated
BY StoreInvariant, PTL DEF Inv

(* A pass over the table sees one table. *)
THEOREM PassIsStable == Spec => PassSeesOneTable
<1>1. Inv /\ [Next]_store => [cursor # {} /\ cursor' # {} => rows' = rows]_store
  <2> SUFFICES ASSUME Inv, Next, cursor # {}, cursor' # {} PROVE rows' = rows
    BY DEF store
  <2>1. conn # Free /\ \A p \in Proc : ~InTx(p)
    BY DEF Inv, Serialized, Returned
  <2> QED
    BY <2>1 DEF Next, BeginUpdate, Begin, CommitUpdate, Rollback, OpenCursor, CloseCursor,
                Fetch, GetRow, Get, AddRowUsage, AddUsage, Reopen
<1> QED
  BY <1>1, StoreInvariant, PTL DEF Spec, PassSeesOneTable

(* Every step of the store is an atomic update of the current row, or changes    *)
(* no row: the store implements AtomicRows.                                      *)
THEOREM StoreIsAtomic == Spec => ImplementsAtomicRows
<1>1. Init => Atomic!Init
  BY DEF Init, StoreInit, Atomic!Init
<1>2. Inv /\ [Next]_store => [Atomic!Next]_rows
  <2> SUFFICES ASSUME Inv, Next PROVE Atomic!Next \/ rows' = rows
    BY DEF store
  <2>1. ASSUME NEW p \in Proc, CommitUpdate(p) PROVE Atomic!Next
    <3>1. PICK f \in Fn : InTx(p) /\ Commit(p, f[tx[p].row])
      BY <2>1 DEF CommitUpdate
    <3>2. tx[p].user \in User /\ tx[p].row = Loaded(tx[p].user, Default)
      BY <3>1 DEF Inv, TypeOK, InTx, Isolated
    <3>3. Atomic!Update(tx[p].user)
      BY <3>1, <3>2 DEF Commit, Loaded, Atomic!Update
    <3> QED
      BY <3>2, <3>3 DEF Atomic!Next
  <2>2. ASSUME NEW u \in User, GetRow(u) PROVE Atomic!Next \/ rows' = rows
    <3>1. CASE rows[u] = Absent
      BY <3>1, <2>2 DEF GetRow, Get, Loaded, Atomic!Next, Atomic!Create
    <3>2. CASE rows[u] # Absent
      BY <3>2, <2>2 DEF GetRow, Get, Loaded, Inv, TypeOK
    <3> QED
      BY <3>1, <3>2
  <2>3. ASSUME NEW u \in User, AddRowUsage(u) PROVE Atomic!Next \/ rows' = rows
    BY <2>3 DEF AddRowUsage, AddUsage, Atomic!Next, Atomic!Add
  <2>4. ASSUME NEW p \in Proc,
               \/ \E u \in User : BeginUpdate(p, u) \/ Fetch(p, u)
               \/ Rollback(p) \/ OpenCursor(p) \/ CloseCursor(p)
        PROVE  rows' = rows
    BY <2>4 DEF BeginUpdate, Begin, Fetch, Rollback, OpenCursor, CloseCursor
  <2>5. CASE Reopen
    BY <2>5 DEF Reopen
  <2> QED
    BY <2>1, <2>2, <2>3, <2>4, <2>5 DEF Next
<1> QED
  BY <1>1, <1>2, StoreInvariant, PTL DEF Spec, ImplementsAtomicRows, Atomic!Spec
=============================================================================
