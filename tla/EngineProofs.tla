---------------------------- MODULE EngineProofs ----------------------------
(***************************************************************************)
(* The theorems of Engine.  Types and control come first (a job is in a    *)
(* transaction exactly when its program counter says so, alone, under its  *)
(* user's mutex), then what every path out of a job gives back; the panel  *)
(* against the store, from the inductive invariant IInv of                 *)
(* EngineInvariant; how a row leaves blocked; and the invariants that      *)
(* follow a snapshot through a job: the squads (Squads), the strategy of   *)
(* the plan (Plans), the paid limit (Paying) and the notices of purchases  *)
(* (Cuts).  One lemma per group of actions with the same frame.            *)
(***************************************************************************)
EXTENDS EngineInvariant, DecisionProofs

Safe == TypeOK /\ Control

-----------------------------------------------------------------------------
(* Facts about states *)

(* An open transaction is not the absence of one. *)
LEMMA NoTxIsNone == NoTx \notin [user : User, row : Row]
BY StoreAssumption DEF NoTx

(* Whoever is in a transaction is the only one. *)
LEMMA Alone ==
    ASSUME Safe, NEW p \in Proc, InTx(p), NEW q \in Proc, q # p
    PROVE  ~InTx(q)
BY DEF Safe, Control, ControlOf

(* What Update loads is a row. *)
LEMMA LoadedType ==
    ASSUME TypeOK, NEW u \in User
    PROVE  Loaded(u, DefaultRow) \in Row
BY DefaultRowType DEF TypeOK, Loaded

(* Inside a transaction a job has a user, a kind and a working copy of the row. *)
LEMMA Inside ==
    ASSUME Safe, NEW p \in Proc, task[p].pc \in TxPc
    PROVE  /\ InTx(p) /\ conn = p /\ UserOf(p) \in User /\ task[p].kind \in HandlerKind
           /\ tx[p] \in [user : User, row : Row] /\ tx[p].user = UserOf(p)
           /\ tx[p].row \in Row /\ lock[UserOf(p)] = p
<1>1. InTx(p) /\ ControlOf(p) /\ task[p].pc \notin {"idle", "visit"}
  BY DEF Safe, Control, ControlOf, TxPc
<1>2. tx[p] \in [user : User, row : Row]
  BY <1>1 DEF Safe, TypeOK, InTx
<1> QED
  BY <1>1, <1>2 DEF ControlOf

(* The PATCH of a job and the row it leaves are well formed. *)
LEMMA OutcomeType ==
    ASSUME Safe, NEW p \in Proc, task[p].pc \in {"patch", "zero", "commit"}
    PROVE  /\ PatchOf(task[p], tx[p].row) \in Patch
           /\ RowOf(task[p], tx[p].row) \in Row
<1>1. task[p].seen \in PanelUser /\ tx[p].row \in Row
  BY Inside DEF Safe, Control, ControlOf, TxPc
<1>2. Preserve(tx[p].row, task[p].seen) \in Row
  BY <1>1, CaptureType
<1>3. PatchOf(task[p], tx[p].row) \in Patch
  BY <1>1, PatchType DEF PatchOf
<1>4. RowOf(task[p], tx[p].row) \in Row
  BY <1>1, <1>2, RowType DEF RowOf
<1> QED
  BY <1>3, <1>4

(* A fresh job and a finished one are tasks. *)
LEMMA TaskType ==
    /\ Idle \in Task
    /\ \A p \in Proc : Done(p) \in Task
    /\ \A u \in User, k \in HandlerKind : Job(k, u) \in Task
BY DEF Idle, Done, Job, Task, Kind, HandlerKind, Webhook

-----------------------------------------------------------------------------
(* Frames *)

(* A job outside the transaction of p does not notice what p does in it, nor     *)
(* that p gives its mutex back.                                                  *)
LEMMA OthersKeepControl ==
    ASSUME Safe, NEW p \in Proc, InTx(p), NEW q \in Proc, q # p,
           task'[q] = task[q], tx'[q] = tx[q],
           lock' = lock \/ lock' = [lock EXCEPT ![UserOf(p)] = Nobody]
    PROVE  ControlOf(q)'
<1>1. ~InTx(q) /\ task[q].pc \notin TxPc
  BY Alone DEF Safe, Control, ControlOf
<1>2. ControlOf(q) /\ ControlOf(p) /\ lock[UserOf(p)] = p
  BY Inside DEF Safe, Control, ControlOf
<1>3. task[q].pc = "begin" => lock'[UserOf(q)] = q
  BY <1>2 DEF ControlOf, Safe, TypeOK
<1> QED
  BY <1>1, <1>2, <1>3 DEF ControlOf, InTx, UserOf, At, TxPc

(* A job that stays in its transaction, moving its program counter. *)
LEMMA StayInside ==
    ASSUME Safe, NEW p \in Proc, InTx(p),
           NEW t \in Task, task' = [task EXCEPT ![p] = t],
           NEW r \in Row, tx' = [tx EXCEPT ![p] = [user |-> UserOf(p), row |-> r]],
           UNCHANGED <<rows, conn, cursor, lock>>,
           t.user = UserOf(p), t.kind = task[p].kind, t.pc \in TxPc,
           t.patched => t.pc \in {"patch", "zero", "commit"},
           t.pc \in {"patch", "zero", "commit"} => t.seen \in PanelUser,
           t.pc = "reread" => t.kind = "limited",
           t.pc = "zero" => t.kind = "reset",
           t.pc = "skip" => t.kind # "limited",
           t.kind # "limited" => r = tx[p].row
    PROVE  /\ Control'
           /\ task' \in [Proc -> Task]
           /\ tx' \in [Proc -> [user : User, row : Row] \cup {NoTx}]
<1>1. /\ ControlOf(p) /\ UserOf(p) \in User /\ task[p].kind \in HandlerKind /\ conn = p
      /\ lock[UserOf(p)] = p
  BY Inside DEF Safe, Control, ControlOf
<1>2. task'[p] = t /\ tx'[p] = [user |-> UserOf(p), row |-> r]
  BY DEF Safe, TypeOK
<1>3. tx'[p] # NoTx
  BY <1>1, <1>2, NoTxIsNone
<1>4. ControlOf(p)'
  BY <1>1, <1>2, <1>3 DEF ControlOf, InTx, UserOf, At, TxPc, Loaded
<1>5. \A q \in Proc : q # p => ControlOf(q)'
  BY OthersKeepControl DEF Safe, TypeOK
<1>6. /\ task' \in [Proc -> Task]
      /\ tx' \in [Proc -> [user : User, row : Row] \cup {NoTx}]
  BY <1>1 DEF Safe, TypeOK
<1> QED
  BY <1>4, <1>5, <1>6 DEF Control

(* A job that leaves its transaction and gives the mutex back. *)
LEMMA LeaveInside ==
    ASSUME Safe, NEW p \in Proc, InTx(p), Unlock(p),
           conn' = Free, tx' = [tx EXCEPT ![p] = NoTx]
    PROVE  /\ Control'
           /\ task' \in [Proc -> Task]
           /\ lock' \in [User -> Proc \cup {Nobody}]
           /\ tx' \in [Proc -> [user : User, row : Row] \cup {NoTx}]
           /\ conn' \in Proc \cup {Free}
<1>1. task'[p] = Done(p) /\ tx'[p] = NoTx
  BY DEF Safe, TypeOK, Unlock
<1>2. ControlOf(p)'
  BY <1>1 DEF ControlOf, InTx, UserOf, At, TxPc, Done, Idle
<1>3. \A q \in Proc : q # p => ControlOf(q)'
  BY OthersKeepControl DEF Safe, TypeOK, Unlock
<1> QED
  BY <1>2, <1>3, TaskType DEF Control, Unlock, Safe, TypeOK

(* A step that leaves the jobs, the mutexes and the store alone. *)
LEMMA OutsideKeepsControl ==
    ASSUME Safe, UNCHANGED <<task, lock, rows, conn, tx, cursor>>
    PROVE  Control'
BY DEF Safe, Control, ControlOf, InTx, UserOf, At, Loaded

-----------------------------------------------------------------------------
(* Steps *)

(* A job is started: it waits for its mutex and holds nothing. *)
LEMMA StartKeepsControl ==
    ASSUME Safe, NEW p \in Proc, NEW u \in User, NEW k \in HandlerKind,
           At(p, "idle"), task' = [task EXCEPT ![p] = Job(k, u)],
           UNCHANGED <<lock, conn, tx>>, rows' = rows \/ conn = Free
    PROVE  Control' /\ task' \in [Proc -> Task]
<1>1. task'[p] = Job(k, u) /\ ~InTx(p)
  BY DEF Safe, TypeOK, Control, ControlOf, At, TxPc
<1>2. ControlOf(p)'
  BY <1>1 DEF ControlOf, InTx, UserOf, At, TxPc, Job
<1>3. ASSUME NEW q \in Proc, q # p PROVE ControlOf(q)'
  <2>1. ControlOf(q) /\ task'[q] = task[q] /\ (InTx(q) => rows' = rows)
    BY <1>3, StoreAssumption DEF Safe, TypeOK, Control, ControlOf
  <2> QED
    BY <2>1 DEF ControlOf, InTx, UserOf, At, Loaded
<1> QED
  BY <1>2, <1>3, TaskType DEF Control, Safe, TypeOK

(* Webhooks, repay requests and the poller start jobs. *)
LEMMA StartKeeps ==
    ASSUME Safe, NEW p \in Proc, NEW u \in User,
           \/ Repay(p, u) \/ (p = Poller /\ Poll(u))
           \/ \E k \in Webhook : Receive(p, u, k) \/ Redeliver(p, u, k)
    PROVE  Safe'
<1> USE DEF Safe, TypeOK
<1>1. ASSUME NEW k \in Webhook, Receive(p, u, k) PROVE Safe'
  BY <1>1, StartKeepsControl DEF Receive, store, ghosts, HandlerKind
<1>2. ASSUME NEW k \in Webhook, Redeliver(p, u, k) PROVE Safe'
  <2>1. Control' /\ task' \in [Proc -> Task]
    BY <1>2, StartKeepsControl DEF Redeliver, store, HandlerKind
  <2> QED
    BY <1>2, <2>1 DEF Redeliver, Fault, store, world
<1>3. CASE Repay(p, u)
  <2>1. Control' /\ task' \in [Proc -> Task]
    BY <1>3, StartKeepsControl DEF Repay, store, HandlerKind, Webhook
  <2> QED
    BY <1>3, <2>1 DEF Repay, store, ghosts
<1>4. CASE p = Poller /\ Poll(u)
  <2>1. PICK over \in BOOLEAN : AddUsage(u, [rows[u] EXCEPT !.over = @ \/ over])
    BY <1>4 DEF Poll
  <2>2. rows' \in [User -> Row \cup {Absent}] /\ conn = Free /\ UNCHANGED <<conn, tx, cursor>>
    BY <2>1 DEF AddUsage, Row
  <2>3. Control' /\ task' \in [Proc -> Task]
    BY <1>4, <2>2, StartKeepsControl DEF Poll, HandlerKind
  <2> QED
    BY <1>4, <2>2, <2>3 DEF Poll, world, ghosts
<1> QED
  BY <1>1, <1>2, <1>3, <1>4

(* A read of the state, which may create the row. *)
LEMMA ReadStateKeeps ==
    ASSUME Safe, NEW u \in User, ReadState(u)
    PROVE  Safe'
<1>1. /\ rows' = [rows EXCEPT ![u] = Loaded(u, DefaultRow)]
      /\ conn = Free /\ UNCHANGED <<conn, tx, cursor, world, task, lock, ghosts>>
  BY DEF ReadState, Get
<1>2. rows' \in [User -> Row \cup {Absent}]
  BY <1>1, DefaultRowType DEF Loaded, Safe, TypeOK
<1>3. ASSUME NEW q \in Proc PROVE ControlOf(q)'
  <2>1. ControlOf(q) /\ ~InTx(q)
    BY <1>1, StoreAssumption DEF Safe, Control, ControlOf
  <2> QED
    BY <1>1, <2>1 DEF ControlOf, InTx, UserOf, At
<1> QED
  BY <1>1, <1>2, <1>3 DEF Safe, TypeOK, Control, world, ghosts

(* Taking the mutex. *)
LEMMA LockKeeps ==
    ASSUME Safe, NEW p \in Proc, Lock(p)
    PROVE  Safe'
<1>1. /\ task' = [task EXCEPT ![p].pc = "begin"] /\ UserOf(p) \in User
      /\ lock' = [lock EXCEPT ![UserOf(p)] = p] /\ lock[UserOf(p)] = Nobody
      /\ task[p].pc = "lock" /\ UNCHANGED <<store, world, ghosts>>
  BY DEF Lock, Goto, At, Safe, Control, ControlOf
<1>2. task' \in [Proc -> Task] /\ lock' \in [User -> Proc \cup {Nobody}]
  BY <1>1 DEF Safe, TypeOK, Task
<1>3. ControlOf(p)'
  BY <1>1 DEF Safe, TypeOK, Control, ControlOf, InTx, UserOf, At, TxPc, Task, store
<1>4. ASSUME NEW q \in Proc, q # p PROVE ControlOf(q)'
  <2>1. ControlOf(q) /\ task'[q] = task[q]
    BY <1>1, <1>4 DEF Safe, TypeOK, Control
  <2>2. task[q].pc \in TxPc \cup {"begin"} => lock'[UserOf(q)] = q
    <3>1. lock[UserOf(q)] = q => UserOf(q) # UserOf(p)
      BY <1>1, EngineAssumption
    <3>2. task[q].pc \in TxPc \cup {"begin"} => UserOf(q) \in User
      BY <2>1 DEF ControlOf, TxPc
    <3> QED
      BY <2>1, <1>1, <3>1, <3>2 DEF ControlOf, Safe, TypeOK
  <2> QED
    BY <2>1, <2>2, <1>1 DEF ControlOf, InTx, UserOf, At, Loaded, store
<1> QED
  BY <1>1, <1>2, <1>3, <1>4 DEF Safe, TypeOK, Control, store, world, ghosts

(* BeginTx: the mutex is held, the connection is free, the row is loaded. *)
LEMMA BeginKeeps ==
    ASSUME Safe, NEW p \in Proc, BeginTx(p)
    PROVE  Safe'
<1> DEFINE r == Loaded(UserOf(p), DefaultRow)
           pc == IF NothingToDo(task[p].kind, r) THEN "skip"
                 ELSE IF task[p].kind \in {"restore", "repair"} THEN "patch" ELSE "read"
<1>1. /\ task[p].pc = "begin" /\ UserOf(p) \in User /\ task[p].kind \in HandlerKind
      /\ lock[UserOf(p)] = p /\ ~task[p].patched
  BY DEF BeginTx, At, Safe, Control, ControlOf
<1>2. /\ conn = Free /\ conn' = p /\ UNCHANGED <<rows, cursor, world, lock, ghosts>>
      /\ tx' = [tx EXCEPT ![p] = [user |-> UserOf(p), row |-> r]]
      /\ task' = [task EXCEPT ![p].pc = pc]
  BY DEF BeginTx, Begin, Goto
<1>3. r \in Row /\ pc \in {"skip", "read"} /\ (pc = "skip" => task[p].kind # "limited")
  <2>1. task[p].kind \notin {"restore", "repair"}
    BY <1>1 DEF HandlerKind, Webhook
  <2> QED
    BY <1>1, <2>1, LoadedType DEF Safe, NothingToDo
<1> HIDE DEF r, pc
<1>4. /\ task' \in [Proc -> Task]
      /\ tx' \in [Proc -> [user : User, row : Row] \cup {NoTx}]
  BY <1>1, <1>2, <1>3 DEF Safe, TypeOK, Task
<1>5. /\ task'[p] = [task[p] EXCEPT !.pc = pc]
      /\ tx'[p] = [user |-> UserOf(p), row |-> r] /\ tx'[p] # NoTx
  BY <1>1, <1>2, <1>3, NoTxIsNone DEF Safe, TypeOK
<1>6. /\ task'[p].user = task[p].user /\ task'[p].kind = task[p].kind /\ task'[p].pc = pc
      /\ task'[p].patched = task[p].patched /\ task'[p].seen = task[p].seen
  BY <1>5 DEF Safe, TypeOK, Task
<1>7. r = Loaded(UserOf(p), DefaultRow)'
  BY <1>2, <1>6 DEF r, Loaded, UserOf
<1>8. ControlOf(p)'
  BY <1>1, <1>2, <1>3, <1>5, <1>6, <1>7 DEF ControlOf, InTx, UserOf, At, TxPc
<1>9. ASSUME NEW q \in Proc, q # p PROVE ControlOf(q)'
  <2>1. ControlOf(q) /\ task'[q] = task[q] /\ tx'[q] = tx[q] /\ conn # q
    BY <1>2, <1>9, StoreAssumption DEF Safe, TypeOK, Control
  <2> QED
    BY <2>1, <1>2 DEF ControlOf, InTx, UserOf, At
<1> QED
  BY <1>2, <1>4, <1>8, <1>9 DEF Safe, TypeOK, Control, world, ghosts

(* A job that gives up before its transaction has begun. *)
LEMMA BeginFailsKeeps ==
    ASSUME Safe, NEW p \in Proc, BeginFails(p)
    PROVE  Safe'
<1>1. /\ task[p].pc = "begin" /\ UserOf(p) \in User /\ lock[UserOf(p)] = p /\ ~InTx(p)
  BY DEF BeginFails, At, Safe, Control, ControlOf, TxPc
<1>2. /\ task' = [task EXCEPT ![p] = Done(p)]
      /\ lock' = [lock EXCEPT ![UserOf(p)] = Nobody]
      /\ missed' \in SUBSET User /\ torn' \in SUBSET User
      /\ faults' \in Nat /\ UNCHANGED <<store, world>>
  BY <1>1 DEF BeginFails, Unlock, Abandoned, Fault, Safe, TypeOK
<1>3. ControlOf(p)'
  BY <1>1, <1>2 DEF Safe, TypeOK, ControlOf, InTx, UserOf, At, TxPc, Done, Idle, store
<1>4. ASSUME NEW q \in Proc, q # p PROVE ControlOf(q)'
  <2>1. ControlOf(q) /\ task'[q] = task[q] /\ UNCHANGED <<rows, conn, tx>>
    BY <1>2, <1>4 DEF Safe, TypeOK, Control, store
  <2>2. task[q].pc \in TxPc \cup {"begin"} => lock'[UserOf(q)] = q
    <3>1. task[q].pc \in TxPc \cup {"begin"} => UserOf(q) \in User
      BY <2>1 DEF ControlOf, TxPc
    <3> QED
      BY <2>1, <3>1, <1>1, <1>2, <1>4 DEF ControlOf, Safe, TypeOK
  <2> QED
    BY <2>1, <2>2 DEF ControlOf, InTx, UserOf, At, Loaded
<1> QED
  BY <1>2, <1>3, <1>4, TaskType DEF Safe, TypeOK, Control, store, world

(* GetUser answers. *)
LEMMA ReadKeeps ==
    ASSUME Safe, NEW p \in Proc, Read(p)
    PROVE  Safe'
<1> DEFINE u == UserOf(p)
           r == IF task[p].kind = "limited" /\ tx[p].row.wl = "active"
                THEN Capture(tx[p].row, panel[u]) ELSE tx[p].row
           pc == IF task[p].kind = "modified" /\ ~ShouldRestoreWhitelist(r, panel[u])
                 THEN "skip" ELSE "patch"
           t == [task[p] EXCEPT !.seen = panel[u], !.pc = pc]
<1>1. /\ task[p].pc = "read" /\ InTx(p) /\ u \in User /\ tx[p].row \in Row
      /\ tx[p] \in [user : User, row : Row] /\ tx[p].user = u /\ panel[u] \in PanelUser
      /\ task[p] \in Task
  BY Inside DEF Read, At, TxPc, Safe, TypeOK
<1>2. r \in Row
  BY <1>1, CaptureType
<1>3. pc \in {"skip", "patch"} /\ (pc = "skip" => task[p].kind # "limited")
  OBVIOUS
<1>4. /\ task' = [task EXCEPT ![p] = t]
      /\ tx' = [tx EXCEPT ![p] = [user |-> u, row |-> r]]
      /\ UNCHANGED <<rows, conn, cursor, lock, world, ghosts>>
  <2>1. task' = [task EXCEPT ![p] = t] /\ Edit(p, r) /\ UNCHANGED <<world, lock, ghosts>>
    BY DEF Read
  <2>2. [tx[p] EXCEPT !.row = r] = [user |-> u, row |-> r]
    BY <1>1
  <2> QED
    BY <2>1, <2>2 DEF Edit
<1> HIDE DEF pc
<1>5. /\ t \in Task /\ t.user = task[p].user /\ t.kind = task[p].kind /\ t.pc = pc
      /\ t.seen = panel[u] /\ t.patched = task[p].patched /\ ~t.patched
  BY <1>1, <1>3 DEF Task, Safe, Control, ControlOf
<1>6. t.kind # "limited" => r = tx[p].row
  BY <1>5
<1> HIDE DEF r, t
<1>7. Control' /\ task' \in [Proc -> Task]
      /\ tx' \in [Proc -> [user : User, row : Row] \cup {NoTx}]
  BY <1>1, <1>2, <1>3, <1>4, <1>5, <1>6, StayInside DEF UserOf, TxPc
<1> QED
  BY <1>4, <1>7 DEF Safe, TypeOK, world, ghosts

(* The second GetUser of blockWhitelist answers. *)
LEMMA RereadKeeps ==
    ASSUME Safe, NEW p \in Proc, Reread(p)
    PROVE  Safe'
<1> DEFINE u == UserOf(p)
           t == [task[p] EXCEPT !.seen = panel[u], !.pc = "patch"]
<1>1. /\ task[p].pc = "reread" /\ InTx(p) /\ u \in User /\ tx[p].row \in Row
      /\ tx[p] = [user |-> u, row |-> tx[p].row] /\ panel[u] \in PanelUser
      /\ task[p] \in Task
  BY Inside DEF Reread, At, TxPc, Safe, TypeOK
<1>2. /\ task' = [task EXCEPT ![p] = t]
      /\ tx' = [tx EXCEPT ![p] = [user |-> u, row |-> tx[p].row]]
      /\ UNCHANGED <<store, lock, world, ghosts>>
  BY <1>1 DEF Reread, store, Safe, TypeOK
<1>3. /\ t \in Task /\ t.user = task[p].user /\ t.kind = task[p].kind /\ t.pc = "patch"
      /\ t.seen = panel[u] /\ ~t.patched
  BY <1>1 DEF Task, Safe, Control, ControlOf
<1> HIDE DEF t
<1>4. Control' /\ task' \in [Proc -> Task]
  BY <1>1, <1>2, <1>3, StayInside DEF UserOf, TxPc, store
<1> QED
  BY <1>2, <1>4 DEF Safe, TypeOK, world, ghosts, store

(* A job that stays in its transaction and does not touch the row. *)
LEMMA StayOnRow ==
    ASSUME Safe, NEW p \in Proc, task[p].pc \in TxPc,
           NEW t \in Task, task' = [task EXCEPT ![p] = t],
           UNCHANGED <<store, lock>>,
           t.user = task[p].user, t.kind = task[p].kind,
           t.pc \in {"reread", "patch", "zero", "commit"},
           t.patched => t.pc \in {"patch", "zero", "commit"},
           t.pc \in {"patch", "zero", "commit"} => t.seen \in PanelUser,
           t.pc = "reread" => t.kind = "limited",
           t.pc = "zero" => t.kind = "reset"
    PROVE  Control' /\ task' \in [Proc -> Task]
<1>1. /\ InTx(p) /\ tx[p].row \in Row /\ tx[p] = [user |-> UserOf(p), row |-> tx[p].row]
  BY Inside
<1>2. tx' = [tx EXCEPT ![p] = [user |-> UserOf(p), row |-> tx[p].row]]
  BY <1>1 DEF store, Safe, TypeOK
<1> QED
  BY <1>1, <1>2, StayInside DEF UserOf, TxPc, store

(* The panel user a PATCH leaves is one, and the notice of it is a webhook. *)
LEMMA ApplyType ==
    ASSUME Safe, NEW p \in Proc, At(p, "patch"), Apply(p)
    PROVE  panel' \in [User -> PanelUser] /\ wire' \in [User -> SUBSET Webhook]
<1>1. UserOf(p) \in User /\ PatchOf(task[p], tx[p].row) \in Patch
  BY Inside, OutcomeType DEF At, TxPc
<1>2. Patched(panel[UserOf(p)], PatchOf(task[p], tx[p].row)) \in PanelUser
  BY <1>1, PatchedType DEF Safe, TypeOK
<1> QED
  BY <1>1, <1>2 DEF Apply, Send, Webhook, Safe, TypeOK

(* The panel acknowledges the PATCH. *)
LEMMA PatchOkKeeps ==
    ASSUME Safe, NEW p \in Proc, PatchOk(p)
    PROVE  Safe'
<1> DEFINE pc == IF task[p].kind = "reset" THEN "zero" ELSE "commit"
           t == [task[p] EXCEPT !.patched = TRUE, !.pc = pc]
<1>1. task[p].pc = "patch" /\ task[p] \in Task /\ task[p].seen \in PanelUser
  BY DEF PatchOk, At, Safe, TypeOK, Control, ControlOf
<1>2. task' = [task EXCEPT ![p] = t] /\ UNCHANGED <<store, lock, paid, resets, ghosts>>
  BY DEF PatchOk
<1>3. /\ t \in Task /\ t.user = task[p].user /\ t.kind = task[p].kind /\ t.pc = pc
      /\ t.seen = task[p].seen
  BY <1>1 DEF Task
<1>4. Control' /\ task' \in [Proc -> Task]
  <2>1. pc \in {"zero", "commit"} /\ (pc = "zero" => task[p].kind = "reset")
    OBVIOUS
  <2> HIDE DEF t, pc
  <2> QED
    BY <1>1, <1>2, <1>3, <2>1, StayOnRow DEF TxPc
<1>5. panel' \in [User -> PanelUser] /\ wire' \in [User -> SUBSET Webhook]
  BY ApplyType DEF PatchOk
<1> QED
  BY <1>2, <1>4, <1>5 DEF Safe, TypeOK, ghosts, store

(* The PATCH is tried again. *)
LEMMA PatchRetriesKeeps ==
    ASSUME Safe, NEW p \in Proc, PatchRetries(p)
    PROVE  Safe'
<1>1. /\ task[p].pc = "patch" /\ task[p] \in Task /\ task[p].seen \in PanelUser
      /\ UNCHANGED <<store, paid, resets, lock, torn, missed>> /\ faults' \in Nat
  BY DEF PatchRetries, Fault, At, Safe, TypeOK, Control, ControlOf
<1>2. ASSUME NEW patched \in BOOLEAN,
             task' = [task EXCEPT ![p] = [task[p] EXCEPT !.tries = @ + 1, !.patched = patched]]
      PROVE  Control' /\ task' \in [Proc -> Task]
  <2> DEFINE t == [task[p] EXCEPT !.tries = @ + 1, !.patched = patched]
  <2>1. task[p].tries + 1 \in Nat
    BY <1>1 DEF Task
  <2>2. /\ t \in Task /\ t.user = task[p].user /\ t.kind = task[p].kind /\ t.pc = "patch"
        /\ t.seen = task[p].seen
    BY <1>1, <2>1 DEF Task
  <2> HIDE DEF t
  <2>3. task' = [task EXCEPT ![p] = t]
    BY <1>2 DEF t
  <2> QED
    BY <1>1, <2>2, <2>3, StayOnRow DEF TxPc
<1>3. CASE Apply(p) /\ task' = [task EXCEPT ![p].tries = @ + 1, ![p].patched = TRUE]
  <2>1. Control' /\ task' \in [Proc -> Task]
    BY <1>3, <1>2
  <2>2. panel' \in [User -> PanelUser] /\ wire' \in [User -> SUBSET Webhook]
    BY <1>1, <1>3, ApplyType DEF At
  <2> QED
    BY <1>1, <2>1, <2>2 DEF Safe, TypeOK, store
<1>4. CASE task' = [task EXCEPT ![p].tries = @ + 1] /\ UNCHANGED <<panel, wire>>
  <2>1. [task[p] EXCEPT !.tries = @ + 1, !.patched = task[p].patched]
        = [task[p] EXCEPT !.tries = @ + 1] /\ task[p].patched \in BOOLEAN
    BY <1>1 DEF Task
  <2>2. Control' /\ task' \in [Proc -> Task]
    BY <1>4, <1>2, <2>1
  <2> QED
    BY <1>1, <1>4, <2>2 DEF Safe, TypeOK, store
<1> QED
  BY <1>3, <1>4 DEF PatchRetries

(* reset-traffic, done or given up. *)
LEMMA ZeroKeeps ==
    ASSUME Safe, NEW p \in Proc, Zero(p) \/ ZeroFails(p)
    PROVE  Safe'
<1> DEFINE t == [task[p] EXCEPT !.pc = "commit"]
<1>1. /\ task[p].pc = "zero" /\ task[p] \in Task /\ task[p].seen \in PanelUser
      /\ UserOf(p) \in User
  BY DEF Zero, ZeroFails, At, Safe, TypeOK, Control, ControlOf
<1>2. task' = [task EXCEPT ![p] = t] /\ UNCHANGED <<store, lock, paid, resets, torn, missed>>
  BY DEF Zero, ZeroFails, Goto, world, ghosts
<1>3. /\ t \in Task /\ t.user = task[p].user /\ t.kind = task[p].kind /\ t.pc = "commit"
      /\ t.seen = task[p].seen
  BY <1>1 DEF Task
<1>4. Control' /\ task' \in [Proc -> Task]
  BY <1>1, <1>2, <1>3, StayOnRow DEF TxPc
<1>5. panel' \in [User -> PanelUser] /\ wire' \in [User -> SUBSET Webhook]
  <2>1. CASE Zero(p)
    <3>1. [panel[UserOf(p)] EXCEPT !.used = 0] \in PanelUser
      BY <1>1 DEF Safe, TypeOK, PanelUser
    <3> QED
      BY <1>1, <2>1, <3>1 DEF Zero, Send, Webhook, Safe, TypeOK
  <2>2. CASE ZeroFails(p)
    BY <2>2 DEF ZeroFails, world, Safe, TypeOK
  <2> QED
    BY <2>1, <2>2
<1>6. faults' \in Nat
  BY DEF Zero, ZeroFails, Fault, ghosts, Safe, TypeOK
<1> QED
  BY <1>2, <1>4, <1>5, <1>6 DEF Safe, TypeOK, store

(* The error paths out of a transaction, and the first read of user.limited. *)
LEMMA FailureKeeps ==
    ASSUME Safe, NEW p \in Proc,
           ReadFails(p) \/ RereadFails(p) \/ PatchFails(p) \/ FinishFails(p)
    PROVE  Safe'
<1>1. task[p].pc \in TxPc
  BY DEF ReadFails, RereadFails, PatchFails, FinishFails, At, TxPc
<1>2. InTx(p) /\ UserOf(p) \in User /\ tx[p].row \in Row /\ faults' \in Nat
  <2>1. Fault \/ UNCHANGED faults
    BY DEF ReadFails, RereadFails, PatchFails, FinishFails
  <2>2. faults' \in Nat
    BY <2>1 DEF Fault, Safe, TypeOK
  <2> QED
    BY <1>1, <2>2, Inside
<1>3. ASSUME Rollback(p), Unlock(p), Abandoned(p, TRUE) \/ Abandoned(p, FALSE),
             UNCHANGED <<paid, resets>>,
             panel' \in [User -> PanelUser], wire' \in [User -> SUBSET Webhook]
      PROVE  Safe'
  <2>1. torn' \in SUBSET User /\ missed' \in SUBSET User
    BY <1>2, <1>3 DEF Abandoned, Safe, TypeOK
  <2> QED
    BY <1>2, <1>3, <2>1, LeaveInside DEF Rollback, Safe, TypeOK
<1>4. CASE RereadFails(p)
  BY <1>3, <1>4 DEF RereadFails, world, Safe, TypeOK
<1>5. CASE FinishFails(p)
  <2>1. Abandoned(p, TRUE) \/ Abandoned(p, FALSE)
    BY <1>5 DEF FinishFails, At, Abandoned
  <2> QED
    BY <1>3, <1>5, <2>1 DEF FinishFails, world, Safe, TypeOK
<1>6. CASE PatchFails(p)
  <2>1. Abandoned(p, TRUE) \/ Abandoned(p, FALSE)
    BY <1>6 DEF PatchFails, Abandoned
  <2>2. panel' \in [User -> PanelUser] /\ wire' \in [User -> SUBSET Webhook]
    BY <1>6, ApplyType DEF PatchFails, Safe, TypeOK
  <2> QED
    BY <1>3, <1>6, <2>1, <2>2 DEF PatchFails
<1>7. CASE ReadFails(p) /\ task[p].kind # "limited"
  BY <1>3, <1>7 DEF ReadFails, world, Safe, TypeOK
<1>8. CASE ReadFails(p) /\ task[p].kind = "limited"
  <2> DEFINE t == [task[p] EXCEPT !.pc = "reread"]
             r == IF tx[p].row.wl = "active" THEN Capture(tx[p].row, None) ELSE tx[p].row
  <2>1. /\ task[p].pc = "read" /\ task[p] \in Task /\ ~task[p].patched
        /\ panel[UserOf(p)] \in PanelUser
    BY <1>2, <1>8 DEF ReadFails, At, Safe, TypeOK, Control, ControlOf
  <2>2. r \in Row
    BY <1>2, <2>1, CaptureType
  <2>3. /\ task' = [task EXCEPT ![p] = t]
        /\ tx' = [tx EXCEPT ![p] = [tx[p] EXCEPT !.row = r]]
        /\ UNCHANGED <<rows, conn, cursor, lock, world, torn, missed>>
    BY <1>8 DEF ReadFails, Edit, Goto
  <2>4. [tx[p] EXCEPT !.row = r] = [user |-> UserOf(p), row |-> r]
    BY <1>1, Inside
  <2>5. /\ t \in Task /\ t.user = task[p].user /\ t.kind = "limited" /\ t.pc = "reread"
        /\ ~t.patched
    BY <2>1, <1>8 DEF Task
  <2> HIDE DEF r, t
  <2>6. /\ Control' /\ task' \in [Proc -> Task]
        /\ tx' \in [Proc -> [user : User, row : Row] \cup {NoTx}]
    <3>1. tx' = [tx EXCEPT ![p] = [user |-> UserOf(p), row |-> r]]
      BY <2>3, <2>4
    <3>2. t.user = UserOf(p) /\ t.kind = task[p].kind
      BY <1>8, <2>5 DEF UserOf
    <3> QED
      BY <1>2, <1>8, <2>2, <2>3, <2>5, <3>1, <3>2, StayInside DEF TxPc
  <2> QED
    BY <1>2, <2>3, <2>6 DEF Safe, TypeOK, world
<1> QED
  BY <1>4, <1>5, <1>6, <1>7, <1>8

(* The commit. *)
LEMMA FinishKeeps ==
    ASSUME Safe, NEW p \in Proc, Finish(p)
    PROVE  Safe'
<1> DEFINE r == IF At(p, "commit") THEN RowOf(task[p], tx[p].row) ELSE tx[p].row
<1>1. task[p].pc \in TxPc
  BY DEF Finish, At, TxPc
<1>2. InTx(p) /\ UserOf(p) \in User /\ tx[p].row \in Row /\ tx[p].user = UserOf(p)
  BY <1>1, Inside
<1>3. r \in Row
  BY <1>2, OutcomeType DEF At
<1> HIDE DEF r
<1>4. Commit(p, r) /\ Unlock(p) /\ UNCHANGED <<world, ghosts>>
  BY DEF Finish, r
<1> QED
  BY <1>2, <1>3, <1>4, LeaveInside DEF Commit, Safe, TypeOK, world, ghosts

(* The panel, the bot and the network do not touch the engine's state. *)
LEMMA ExternalKeeps ==
    ASSUME Safe, External
    PROVE  Safe'
<1>1. PICK u \in User :
        \/ Consume(u) \/ PanelLimits(u) \/ TrafficReset(u)
        \/ \E l \in Limits : TopUp(u, l)
        \/ \E k \in Webhook : Lose(u, k)
  BY DEF External
<1>2. UNCHANGED <<store, task, lock, torn>>
  BY <1>1 DEF Consume, PanelLimits, TrafficReset, TopUp, Lose, ghosts
<1>3. Control'
  BY <1>2, OutsideKeepsControl DEF store
<1>4. panel' \in [User -> PanelUser]
  <2>1. panel[u] \in PanelUser /\ panel \in [User -> PanelUser]
    BY DEF Safe, TypeOK
  <2>2. CASE Consume(u)
    <3>1. panel[u].used + 1 \in Nat
      BY <2>1 DEF PanelUser
    <3>2. [panel[u] EXCEPT !.used = panel[u].used + 1] \in PanelUser
      BY <2>1, <3>1 DEF PanelUser
    <3> QED
      BY <2>1, <2>2, <3>2 DEF Consume
  <2>3. CASE PanelLimits(u)
    BY <2>1, <2>3 DEF PanelLimits, PanelUser
  <2>4. CASE TrafficReset(u)
    BY <2>1, <2>4 DEF TrafficReset, PanelUser
  <2>5. ASSUME NEW l \in Limits, TopUp(u, l) PROVE panel' \in [User -> PanelUser]
    <3>1. l \in Nat
      BY EngineAssumption
    <3>2. PICK squads \in {{Whitelist}, panel[u].squads \cup {Whitelist}} :
             panel' = [panel EXCEPT ![u].limit = l, ![u].squads = squads, ![u].status = "ACTIVE"]
      BY <2>5 DEF TopUp
    <3>3. squads \in SUBSET Squad
      BY <2>1, SquadAssumption DEF PanelUser
    <3> QED
      BY <2>1, <3>1, <3>2, <3>3 DEF PanelUser
  <2>6. ASSUME NEW k \in Webhook, Lose(u, k) PROVE panel' \in [User -> PanelUser]
    BY <2>1, <2>6 DEF Lose
  <2> QED
    BY <1>1, <2>2, <2>3, <2>4, <2>5, <2>6
<1>5. wire' \in [User -> SUBSET Webhook]
  <2>1. ASSUME NEW k \in Webhook, Send(u, k) PROVE wire' \in [User -> SUBSET Webhook]
    BY <2>1 DEF Send, Safe, TypeOK
  <2>2. ASSUME NEW k \in Webhook, Lose(u, k) PROVE wire' \in [User -> SUBSET Webhook]
    BY <2>2 DEF Lose, Safe, TypeOK
  <2>3. CASE Consume(u)
    BY <2>3 DEF Consume, Safe, TypeOK
  <2> QED
    BY <1>1, <2>1, <2>2, <2>3 DEF PanelLimits, TrafficReset, TopUp, Webhook
<1>6. /\ paid' \in [User -> Nat] /\ missed' \in SUBSET User /\ faults' \in Nat
      /\ resets' \in Nat
  <2>1. CASE Consume(u) \/ PanelLimits(u)
    BY <2>1 DEF Consume, PanelLimits, ghosts, Safe, TypeOK
  <2>2. CASE TrafficReset(u)
    BY <2>2 DEF TrafficReset, ghosts, Safe, TypeOK
  <2>3. ASSUME NEW l \in Limits, TopUp(u, l)
        PROVE  /\ paid' \in [User -> Nat] /\ missed' \in SUBSET User /\ faults' \in Nat
               /\ resets' \in Nat
    BY <2>3, EngineAssumption DEF TopUp, ghosts, Safe, TypeOK
  <2>4. ASSUME NEW k \in Webhook, Lose(u, k)
        PROVE  /\ paid' \in [User -> Nat] /\ missed' \in SUBSET User /\ faults' \in Nat
               /\ resets' \in Nat
    BY <2>4 DEF Lose, Fault, Safe, TypeOK
  <2> QED
    BY <1>1, <2>1, <2>2, <2>3, <2>4
<1> QED
  BY <1>2, <1>3, <1>4, <1>5, <1>6 DEF Safe, TypeOK, store

(* A crash leaves the rows, the panel and what is in flight. *)
LEMMA CrashKeeps ==
    ASSUME Safe, Crash
    PROVE  Safe'
<1>1. /\ task' = [p \in Proc |-> Idle] /\ lock' = [u \in User |-> Nobody]
      /\ conn' = Free /\ tx' = [p \in Proc |-> NoTx] /\ cursor' = {}
      /\ UNCHANGED <<rows, world>> /\ faults' \in Nat
  BY DEF Crash, Reopen, Fault, Safe, TypeOK
<1>2. \A p \in Proc : UserOf(p) \in User \cup {Absent}
  BY DEF Safe, TypeOK, Task, UserOf
<1>3. \A p \in Proc : task[p].patched => UserOf(p) \in User
  BY DEF Safe, Control, ControlOf
<1>4. missed' \in SUBSET User /\ torn' \in SUBSET User
  BY <1>2, <1>3 DEF Crash, Safe, TypeOK
<1>5. Control'
  BY <1>1 DEF Control, ControlOf, InTx, UserOf, At, TxPc, Idle
<1> QED
  BY <1>1, <1>4, <1>5, TaskType DEF Safe, TypeOK, world

-----------------------------------------------------------------------------
(* The engine starts idle, on rows of an older version or none. *)
LEMMA SafeInit == Init => Safe
<1> SUFFICES ASSUME Init PROVE Safe
  OBVIOUS
<1>1. LegacyRow \in Row
  BY DefaultRowType, EngineAssumption DEF LegacyRow, Row, AnyStrategy
<1>2. panel \in [User -> PanelUser]
  BY SquadAssumption, EngineAssumption, CeilingAssumption DEF Init, PanelUser, AnyStrategy
<1>3. TypeOK
  BY <1>1, <1>2, TaskType, EngineAssumption DEF Init, StoreInit, TypeOK
<1>4. Control
  BY DEF Init, StoreInit, Control, ControlOf, InTx, UserOf, At, TxPc, Idle
<1> QED
  BY <1>3, <1>4 DEF Safe

(* Every step keeps the types and the control facts. *)
LEMMA SafeStep == Safe /\ [Next]_vars => Safe'
<1> SUFFICES ASSUME Safe, [Next]_vars PROVE Safe'
  OBVIOUS
<1>1. ASSUME NEW p \in Proc, Work(p) PROVE Safe'
  BY <1>1, LockKeeps, BeginKeeps, ReadKeeps, RereadKeeps, PatchOkKeeps, ZeroKeeps, FinishKeeps
     DEF Work
<1>2. ASSUME NEW p \in Proc, WorkFails(p) PROVE Safe'
  BY <1>2, BeginFailsKeeps, FailureKeeps, PatchRetriesKeeps, ZeroKeeps DEF WorkFails
<1>3. ASSUME NEW u \in User, Poll(u) PROVE Safe'
  BY <1>3, StartKeeps, EngineAssumption
<1>4. CASE UNCHANGED vars
  <2>1. Control'
    BY <1>4, OutsideKeepsControl DEF vars, store
  <2> QED
    BY <1>4, <2>1 DEF vars, store, world, ghosts, Safe, TypeOK
<1> QED
  BY <1>1, <1>2, <1>3, <1>4, StartKeeps, ReadStateKeeps, ExternalKeeps, CrashKeeps
     DEF Next, Internal

(* The variables keep their types and every job is where its program counter    *)
(* says, for any number of users, handlers, faults and resets.                   *)
THEOREM EngineTypes == Spec => [](TypeOK /\ Control)
BY SafeInit, SafeStep, PTL DEF Spec, Safe

(* At most one transaction is open, by the holder of the user's mutex, on the    *)
(* row as it is committed.                                                       *)
THEOREM EngineOneWriter == Spec => []OneWriter
<1>1. Safe => OneWriter
  <2> SUFFICES ASSUME Safe, NEW p \in Proc, InTx(p)
               PROVE  /\ conn = p /\ lock[UserOf(p)] = p /\ tx[p].user = UserOf(p)
                      /\ At(p, "skip") => tx[p].row = Loaded(UserOf(p), DefaultRow)
    BY DEF OneWriter
  <2>1. ControlOf(p)
    BY DEF Safe, Control
  <2> QED
    BY <2>1 DEF ControlOf, At
<1> QED
  BY <1>1, SafeInit, SafeStep, PTL DEF Spec

-----------------------------------------------------------------------------
(* Mutexes and the connection *)

(* A job that goes on keeps what it has, and its user. *)
LEMMA GoOnHeld ==
    ASSUME Safe, NothingLeaks, NEW p \in Proc, NEW t, task' = [task EXCEPT ![p] = t],
           lock' = lock, conn' \in {conn, p},
           t.user = UserOf(p), t.pc \notin {"idle", "visit", "lock"},
           conn' = p => t.pc # "begin"
    PROVE  NothingLeaks'
<1>1. task'[p] = t /\ \A q \in Proc : q # p => task'[q] = task[q]
  BY DEF Safe, TypeOK
<1>2. conn' # Free => task'[conn'].pc \notin {"idle", "visit", "lock", "begin"}
  BY <1>1 DEF Safe, TypeOK, NothingLeaks
<1>3. ASSUME NEW u \in User, lock[u] # Nobody
      PROVE  task'[lock[u]].user = u /\ task'[lock[u]].pc \notin {"idle", "visit", "lock"}
  BY <1>1, <1>3 DEF Safe, TypeOK, NothingLeaks, UserOf
<1> QED
  BY <1>2, <1>3 DEF NothingLeaks, UserOf

(* A job that ends, well or in an error, gives both back. *)
LEMMA EndHeld ==
    ASSUME Safe, NothingLeaks, NEW p \in Proc, Unlock(p), UserOf(p) \in User,
           conn' = Free \/ (conn' = conn /\ conn # p)
    PROVE  NothingLeaks'
<1>1. /\ \A q \in Proc : q # p => task'[q] = task[q]
      /\ \A u \in User : lock'[u] = IF u = UserOf(p) THEN Nobody ELSE lock[u]
  BY DEF Safe, TypeOK, Unlock
<1>2. ASSUME NEW u \in User, lock'[u] # Nobody
      PROVE  /\ task'[lock'[u]].user = u
             /\ task'[lock'[u]].pc \notin {"idle", "visit", "lock"}
  <2>1. lock'[u] = lock[u] /\ u # UserOf(p) /\ lock[u] \in Proc
    BY <1>1, <1>2 DEF Safe, TypeOK
  <2>2. task[lock[u]].user = u /\ task[lock[u]].pc \notin {"idle", "visit", "lock"}
    BY <1>2, <2>1 DEF NothingLeaks, UserOf
  <2> QED
    BY <1>1, <2>1, <2>2 DEF UserOf
<1>3. conn' # Free => task'[conn'].pc \notin {"idle", "visit", "lock", "begin"}
  <2>1. conn \in Proc \cup {Free}
    BY DEF Safe, TypeOK
  <2> QED
    BY <1>1, <2>1 DEF NothingLeaks
<1> QED
  BY <1>2, <1>3 DEF NothingLeaks, UserOf

(* A job takes the place of an idle one, which has nothing. *)
LEMMA StartHeld ==
    ASSUME Safe, NothingLeaks, NEW p \in Proc, NEW t, task' = [task EXCEPT ![p] = t],
           At(p, "idle"), UNCHANGED <<lock, conn>>
    PROVE  NothingLeaks'
<1>1. \A q \in Proc : q # p => task'[q] = task[q]
  BY DEF Safe, TypeOK
<1>2. conn # p /\ \A u \in User : lock[u] # p
  BY EngineAssumption, StoreAssumption DEF NothingLeaks, At
<1> QED
  BY <1>1, <1>2 DEF Safe, TypeOK, NothingLeaks, UserOf

(* Taking the mutex and the connection. *)
LEMMA TakeHeld ==
    ASSUME Safe, NothingLeaks, NEW p \in Proc, Lock(p) \/ BeginTx(p)
    PROVE  NothingLeaks'
<1>0. task[p] \in Task
  BY DEF Safe, TypeOK
<1>1. CASE Lock(p)
  <2> DEFINE t == [task[p] EXCEPT !.pc = "begin"]
  <2>1. task' = [task EXCEPT ![p] = t] /\ t.pc = "begin" /\ t.user = UserOf(p)
    BY <1>0, <1>1 DEF Lock, Goto, Task, UserOf
  <2>2. UserOf(p) \in User /\ task[p].pc = "lock" /\ lock[UserOf(p)] = Nobody /\ conn' = conn
    BY <1>1 DEF Lock, At, Safe, Control, ControlOf, store
  <2>3. /\ task'[p] = t /\ \A q \in Proc : q # p => task'[q] = task[q]
        /\ \A u \in User : lock'[u] = IF u = UserOf(p) THEN p ELSE lock[u]
    BY <1>1, <2>1 DEF Safe, TypeOK, Lock
  <2> HIDE DEF t
  <2>4. conn # p /\ \A u \in User : lock[u] # p
    BY <2>2, EngineAssumption, StoreAssumption DEF NothingLeaks
  <2>5. conn' # Free => task'[conn'].pc \notin {"idle", "visit", "lock", "begin"}
    BY <2>2, <2>3, <2>4 DEF Safe, TypeOK, NothingLeaks
  <2>6. ASSUME NEW u \in User, lock'[u] # Nobody
        PROVE  /\ task'[lock'[u]].user = u
               /\ task'[lock'[u]].pc \notin {"idle", "visit", "lock"}
    BY <2>1, <2>3, <2>4, <2>6 DEF Safe, TypeOK, NothingLeaks, UserOf
  <2> QED
    BY <2>5, <2>6 DEF NothingLeaks, UserOf
<1>2. CASE BeginTx(p)
  <2> DEFINE pc == IF NothingToDo(task[p].kind, Loaded(UserOf(p), DefaultRow)) THEN "skip"
                   ELSE IF task[p].kind \in {"restore", "repair"} THEN "patch" ELSE "read"
             t == [task[p] EXCEPT !.pc = pc]
  <2>1. /\ task' = [task EXCEPT ![p] = t] /\ t.pc \in {"skip", "patch", "read"}
        /\ t.user = UserOf(p)
    BY <1>0, <1>2 DEF BeginTx, Goto, Task, UserOf
  <2>2. conn' = p /\ lock' = lock
    BY <1>2 DEF BeginTx, Begin
  <2> HIDE DEF t
  <2> QED
    BY <2>1, <2>2, GoOnHeld
<1> QED
  BY <1>1, <1>2

(* Inside the transaction both stay where they are. *)
LEMMA InsideHeld ==
    ASSUME Safe, NothingLeaks, NEW p \in Proc, NEW t, task' = [task EXCEPT ![p] = t],
           UNCHANGED <<lock, conn>>, t.user = UserOf(p), t.pc \in TxPc
    PROVE  NothingLeaks'
BY GoOnHeld DEF TxPc

(* The steps of a callback that lead to another statement of it. *)
LEMMA CallbackHeld ==
    ASSUME Safe, NothingLeaks, NEW p \in Proc,
           Read(p) \/ ReadFails(p) \/ Reread(p) \/ PatchOk(p) \/ PatchRetries(p)
           \/ Zero(p) \/ ZeroFails(p)
    PROVE  NothingLeaks'
<1>0. task[p] \in Task
  BY DEF Safe, TypeOK
<1>1. ASSUME NEW pc, Goto(p, pc), pc \in TxPc, UNCHANGED <<lock, conn>> PROVE NothingLeaks'
  <2> DEFINE t == [task[p] EXCEPT !.pc = pc]
  <2>1. task' = [task EXCEPT ![p] = t] /\ t.pc = pc /\ t.user = UserOf(p)
    BY <1>0, <1>1 DEF Goto, Task, UserOf
  <2> HIDE DEF t
  <2> QED
    BY <1>1, <2>1, InsideHeld
<1>2. ASSUME NEW seen, NEW pc, task' = [task EXCEPT ![p].seen = seen, ![p].pc = pc],
             pc \in TxPc, UNCHANGED <<lock, conn>>
      PROVE  NothingLeaks'
  <2> DEFINE t == [task[p] EXCEPT !.seen = seen, !.pc = pc]
  <2>1. task' = [task EXCEPT ![p] = t] /\ t.pc = pc /\ t.user = UserOf(p)
    BY <1>0, <1>2 DEF Task, UserOf, Safe, TypeOK
  <2> HIDE DEF t
  <2> QED
    BY <1>2, <2>1, InsideHeld
<1>3. CASE Read(p) \/ Reread(p)
  <2>1. UNCHANGED <<lock, conn>>
    BY <1>3 DEF Read, Reread, Edit, store
  <2>2. PICK seen, pc : /\ task' = [task EXCEPT ![p].seen = seen, ![p].pc = pc]
                        /\ pc \in {"skip", "patch"}
    BY <1>3 DEF Read, Reread
  <2> QED
    BY <1>2, <2>1, <2>2 DEF TxPc
<1>4. CASE ReadFails(p)
  <2>1. CASE Goto(p, "reread") /\ UNCHANGED <<lock, conn>>
    BY <1>1, <2>1 DEF TxPc
  <2>2. CASE Unlock(p) /\ Rollback(p)
    <3>1. UserOf(p) \in User /\ conn' = Free
      BY <1>4, <2>2, Inside DEF ReadFails, At, TxPc, Rollback
    <3> QED
      BY <2>2, <3>1, EndHeld
  <2> QED
    BY <1>4, <2>1, <2>2 DEF ReadFails, Edit
<1>5. CASE PatchOk(p)
  <2> DEFINE pc == IF task[p].kind = "reset" THEN "zero" ELSE "commit"
             t == [task[p] EXCEPT !.patched = TRUE, !.pc = pc]
  <2>1. task' = [task EXCEPT ![p] = t] /\ t.pc \in TxPc /\ t.user = UserOf(p)
    BY <1>0, <1>5 DEF PatchOk, Safe, TypeOK, Task, TxPc, UserOf
  <2>2. UNCHANGED <<lock, conn>>
    BY <1>5 DEF PatchOk, store
  <2> HIDE DEF t
  <2> QED
    BY <2>1, <2>2, InsideHeld
<1>6. CASE PatchRetries(p)
  <2>1. task[p].pc = "patch" /\ UNCHANGED <<lock, conn>>
    BY <1>6 DEF PatchRetries, At, store
  <2>2. PICK tries, patched : task' = [task EXCEPT ![p].tries = tries, ![p].patched = patched]
    <3>1. ASSUME NEW tries, task' = [task EXCEPT ![p].tries = tries]
          PROVE  task' = [task EXCEPT ![p].tries = tries, ![p].patched = task[p].patched]
      BY <1>0, <3>1 DEF Safe, TypeOK, Task
    <3> QED
      BY <1>6, <3>1 DEF PatchRetries
  <2> DEFINE t == [task[p] EXCEPT !.tries = tries, !.patched = patched]
  <2>3. task' = [task EXCEPT ![p] = t] /\ t.pc \in TxPc /\ t.user = UserOf(p)
    BY <1>0, <2>1, <2>2 DEF Safe, TypeOK, Task, TxPc, UserOf
  <2> HIDE DEF t
  <2> QED
    BY <2>1, <2>3, InsideHeld
<1>7. CASE Zero(p) \/ ZeroFails(p)
  BY <1>1, <1>7 DEF Zero, ZeroFails, TxPc, store
<1> QED
  BY <1>3, <1>4, <1>5, <1>6, <1>7

(* The ways out of a job. *)
LEMMA OutHeld ==
    ASSUME Safe, NothingLeaks, NEW p \in Proc,
           Finish(p) \/ BeginFails(p) \/ RereadFails(p) \/ PatchFails(p) \/ FinishFails(p)
    PROVE  NothingLeaks'
<1>1. Unlock(p)
  BY DEF Finish, BeginFails, RereadFails, PatchFails, FinishFails
<1>2. conn' = Free \/ (conn' = conn /\ conn # p)
  <2>1. CASE BeginFails(p)
    BY <2>1, StoreAssumption DEF BeginFails, At, NothingLeaks, store
  <2>2. CASE ~BeginFails(p)
    BY <2>2 DEF Finish, RereadFails, PatchFails, FinishFails, Commit, Rollback
  <2> QED
    BY <2>1, <2>2
<1>3. task[p].pc \notin {"idle", "visit"}
  BY DEF Finish, BeginFails, RereadFails, PatchFails, FinishFails, At
<1>4. UserOf(p) \in User
  BY <1>3 DEF Safe, Control, ControlOf
<1> QED
  BY <1>1, <1>2, <1>4, EndHeld

(* Every step keeps it. *)
LEMMA HeldStep ==
    ASSUME Safe, NothingLeaks, [Next]_vars
    PROVE  NothingLeaks'
<1>1. ASSUME NEW p \in Proc, Work(p) \/ WorkFails(p) PROVE NothingLeaks'
  BY <1>1, TakeHeld, CallbackHeld, OutHeld DEF Work, WorkFails
<1>2. ASSUME NEW p \in Proc, NEW u \in User,
             \/ Repay(p, u) \/ (p = Poller /\ Poll(u))
             \/ \E k \in Webhook : Receive(p, u, k) \/ Redeliver(p, u, k)
      PROVE  NothingLeaks'
  <2>1. UNCHANGED <<lock, conn>> /\ At(p, "idle")
    BY <1>2 DEF Repay, Poll, Receive, Redeliver, AddUsage, store
  <2>2. PICK k : task' = [task EXCEPT ![p] = Job(k, u)]
    <3>1. CASE Repay(p, u)
      BY <3>1 DEF Repay
    <3>2. CASE p = Poller /\ Poll(u)
      <4>1. task' = [task EXCEPT ![p] = Job("basic", u)]
        BY <3>2 DEF Poll
      <4> QED
        BY <4>1
    <3>3. CASE \E k \in Webhook : Receive(p, u, k) \/ Redeliver(p, u, k)
      BY <3>3 DEF Receive, Redeliver
    <3> QED
      BY <1>2, <3>1, <3>2, <3>3
  <2> QED
    BY <2>1, <2>2, StartHeld
<1>3. CASE Crash
  BY <1>3 DEF Crash, Reopen, NothingLeaks
<1>4. ASSUME UNCHANGED <<task, lock, conn>> PROVE NothingLeaks'
  BY <1>4 DEF NothingLeaks, UserOf
<1>5. ASSUME NEW u \in User, ReadState(u) PROVE NothingLeaks'
  BY <1>4, <1>5 DEF ReadState, Get
<1>6. CASE External
  <2>1. PICK u \in User :
           \/ Consume(u) \/ PanelLimits(u) \/ TrafficReset(u)
           \/ \E l \in Limits : TopUp(u, l)
           \/ \E k \in Webhook : Lose(u, k)
    BY <1>6 DEF External
  <2>2. CASE Consume(u) \/ PanelLimits(u) \/ TrafficReset(u)
    BY <1>4, <2>2 DEF Consume, PanelLimits, TrafficReset, store
  <2>3. CASE \E l \in Limits : TopUp(u, l)
    BY <1>4, <2>3 DEF TopUp, store
  <2>4. CASE \E k \in Webhook : Lose(u, k)
    BY <1>4, <2>4 DEF Lose, store
  <2> QED
    BY <2>1, <2>2, <2>3, <2>4
<1>7. CASE UNCHANGED vars
  BY <1>4, <1>7 DEF vars, store
<1>8. ASSUME NEW u \in User, Poll(u) PROVE NothingLeaks'
  BY <1>2, <1>8, EngineAssumption
<1> QED
  BY <1>1, <1>2, <1>3, <1>5, <1>6, <1>7, <1>8 DEF Next, Internal

(* No path out of a job leaves a mutex or the connection behind, whichever call *)
(* fails in it, and whoever holds the connection has its user's mutex already:  *)
(* jobs of webhooks, repays and the poller cannot wait for one another in a     *)
(* circle.  The reconciler, which takes the connection first, is not in Spec.   *)
THEOREM NothingIsLeaked == Spec => []NothingLeaks
<1>1. Init => Safe /\ NothingLeaks
  BY SafeInit DEF Init, StoreInit, NothingLeaks
<1>2. Safe /\ NothingLeaks /\ [Next]_vars => (Safe /\ NothingLeaks)'
  BY SafeStep, HeldStep
<1> QED
  BY <1>1, <1>2, PTL DEF Spec

-----------------------------------------------------------------------------
(* Frames *)

(* Whoever is cutting a user off is the process in the transaction. *)
LEMMA CuttingAlone ==
    ASSUME Safe, NEW p \in Proc, InTx(p), NEW q \in Proc, NEW u, Cutting(q, u)
    PROVE  q = p
BY Alone DEF Cutting

(* A step of the process in the transaction: the other users do not change. *)
LEMMA InsideKeepsCore ==
    ASSUME Safe, Core, NEW p \in Proc, InTx(p), NEW u \in User, UserOf(p) = u,
           torn \subseteq torn',
           \A q \in Proc : q # p => tx'[q] = tx[q],
           \A v \in User : v # u => rows'[v] = rows[v] /\ panel'[v] = panel[v],
           u \notin torn' => UserSafe(u)',
           InTx(p)' => UserOf(p)' = u,
           InTx(p)' /\ u \notin torn' => JobKnows(p)'
    PROVE  Core'
<1>1. \A q \in Proc : q # p => ~InTx(q)'
  BY Alone DEF InTx
<1>2. ASSUME NEW v \in User \ torn', v # u PROVE UserSafe(v)'
  <2>1. UserSafe(v) /\ rows'[v] = rows[v] /\ panel'[v] = panel[v]
    BY <1>2 DEF Core
  <2>2. \A q \in Proc : ~Cutting(q, v)
    BY <1>2, CuttingAlone DEF Cutting
  <2>3. /\ Whitelist \in panel[v].squads => panel[v].limit > 0
        /\ panel[v].limit = 0 => rows[v] # Absent /\ Knows(rows[v])
        /\ Blocked(v) => Knows(rows[v])
    BY <2>1, <2>2 DEF UserSafe, ZeroIsRemembered
  <2>4. /\ Whitelist \in panel'[v].squads => panel'[v].limit > 0
        /\ panel'[v].limit = 0 => rows'[v] # Absent /\ Knows(rows'[v])
        /\ Blocked(v)' => Knows(rows'[v])
    BY <2>1, <2>3, Zenon DEF Blocked
  <2> QED
    BY <2>4, Zenon DEF UserSafe, ZeroIsRemembered, Knows
<1> QED
  BY <1>1, <1>2 DEF Core

(* A step outside the transactions: of every row the paid limit and the status   *)
(* of the whitelist are kept (a new row is the default one), of every panel user *)
(* the limit and the squads, or the limit is set.                                *)
LEMMA OutsideKeepsCore ==
    ASSUME Safe, Core, UNCHANGED <<tx, torn>>,
           \A q \in Proc : InTx(q) => task'[q] = task[q],
           \A v \in User : /\ rows[v] = Absent => rows'[v] \in {Absent, DefaultRow}
                           /\ rows[v] # Absent =>
                                /\ rows'[v] # Absent
                                /\ rows'[v].orig = rows[v].orig /\ rows'[v].wl = rows[v].wl,
           \A v \in User : \/ /\ panel'[v].limit = panel[v].limit
                              /\ panel'[v].squads = panel[v].squads
                           \/ panel'[v].limit > 0
    PROVE  Core'
<1>1. ASSUME NEW q \in Proc, InTx(q)', UserOf(q)' \notin torn' PROVE JobKnows(q)'
  <2>1. InTx(q) /\ UserOf(q) \in User /\ task'[q] = task[q]
    BY <1>1 DEF InTx, Safe, Control, ControlOf, TxPc
  <2>2. JobKnows(q) /\ UserOf(q)' = UserOf(q) /\ tx'[q] = tx[q]
    BY <1>1, <2>1 DEF Core, UserOf
  <2> QED
    BY <2>1, <2>2 DEF JobKnows, Knows, At, DefaultRow
<1>2. ASSUME NEW v \in User \ torn' PROVE UserSafe(v)'
  <2>1. UserSafe(v)
    BY <1>2 DEF Core
  <2>2. \A q \in Proc : Cutting(q, v) => Cutting(q, v)'
    BY DEF Cutting, InTx, UserOf
  <2>3. panel'[v].limit > 0 => panel'[v].limit # 0
    OBVIOUS
  <2> QED
    BY <2>1, <2>2, <2>3 DEF UserSafe, ZeroIsRemembered, Blocked, Knows, DefaultRow
<1> QED
  BY <1>1, <1>2 DEF Core

-----------------------------------------------------------------------------
(* Steps *)

(* Jobs start, wait and give up without a trace. *)
LEMMA StartKeepsCore ==
    ASSUME Safe, Core, NEW p \in Proc, NEW u \in User,
           \/ Repay(p, u) \/ Lock(p) \/ BeginFails(p)
           \/ \E k \in Webhook : Receive(p, u, k) \/ Redeliver(p, u, k)
    PROVE  Core'
<1>1. ~InTx(p)
  BY DEF Repay, Lock, BeginFails, Receive, Redeliver, At, Safe, Control, ControlOf, TxPc
<1>2. UNCHANGED <<rows, tx, panel, torn>>
  BY DEF Repay, Lock, BeginFails, Receive, Redeliver, Abandoned, store, world, ghosts
<1>3. \A q \in Proc : q # p => task'[q] = task[q]
  BY DEF Repay, Lock, BeginFails, Receive, Redeliver, Goto, Unlock, Safe, TypeOK
<1> QED
  BY <1>1, <1>2, <1>3, OutsideKeepsCore

(* The poller's AddBasicUsage does not touch the paid limit. *)
LEMMA PollKeepsCore ==
    ASSUME Safe, Core, NEW u \in User, Poll(u)
    PROVE  Core'
<1>1. PICK over \in BOOLEAN : AddUsage(u, [rows[u] EXCEPT !.over = @ \/ over])
  BY DEF Poll
<1>2. UNCHANGED <<tx, panel, torn>>
  BY <1>1 DEF Poll, AddUsage, world, ghosts
<1>3. \A q \in Proc : ~InTx(q)
  BY <1>1, StoreAssumption DEF AddUsage, Safe, Control, ControlOf
<1>4. rows[u] # Absent =>
         /\ [rows[u] EXCEPT !.over = @ \/ over] \in Row
         /\ [rows[u] EXCEPT !.over = @ \/ over].orig = rows[u].orig
         /\ [rows[u] EXCEPT !.over = @ \/ over].wl = rows[u].wl
  BY DEF Row, Safe, TypeOK
<1>5. \A v \in User : /\ rows[v] = Absent => rows'[v] = Absent
                      /\ rows[v] # Absent =>
                           /\ rows'[v] # Absent
                           /\ rows'[v].orig = rows[v].orig /\ rows'[v].wl = rows[v].wl
  BY <1>1, <1>4, AbsentAssumption DEF AddUsage, Safe, TypeOK
<1> QED
  BY <1>2, <1>3, <1>5, OutsideKeepsCore

(* A row that Get creates knows nothing and says nothing. *)
LEMMA ReadStateKeepsCore ==
    ASSUME Safe, Core, NEW u \in User, ReadState(u)
    PROVE  Core'
<1>1. UNCHANGED <<tx, panel, torn, task>>
  BY DEF ReadState, Get, world, ghosts
<1>2. \A v \in User : /\ rows[v] = Absent => rows'[v] \in {Absent, DefaultRow}
                      /\ rows[v] # Absent => rows'[v] = rows[v]
  BY DEF ReadState, Get, Loaded, Safe, TypeOK
<1> QED
  BY <1>1, <1>2, OutsideKeepsCore

(* The panel, the bot and the network: whoever changes a limit sets it above 0. *)
LEMMA ExternalKeepsCore ==
    ASSUME Safe, Core, External
    PROVE  Core'
<1>1. PICK u \in User :
        \/ Consume(u) \/ PanelLimits(u) \/ TrafficReset(u)
        \/ \E l \in Limits : TopUp(u, l)
        \/ \E k \in Webhook : Lose(u, k)
  BY DEF External
<1>2. UNCHANGED <<rows, tx, task, torn>>
  BY <1>1 DEF Consume, PanelLimits, TrafficReset, TopUp, Lose, store, ghosts
<1>3. \A v \in User : \/ /\ panel'[v].limit = panel[v].limit
                         /\ panel'[v].squads = panel[v].squads
                      \/ panel'[v].limit > 0
  <2>1. panel \in [User -> PanelUser]
    BY DEF Safe, TypeOK
  <2>2. CASE Consume(u) \/ PanelLimits(u) \/ TrafficReset(u)
    BY <2>1, <2>2 DEF Consume, PanelLimits, TrafficReset, PanelUser
  <2>3. ASSUME NEW l \in Limits, TopUp(u, l)
        PROVE  \A v \in User : panel'[v] = panel[v] \/ panel'[v].limit > 0
    <3>1. l > 0
      BY EngineAssumption
    <3>2. PICK squads : panel' = [panel EXCEPT ![u].limit = l, ![u].squads = squads,
                                               ![u].status = "ACTIVE"]
      BY <2>3 DEF TopUp
    <3>3. panel'[u].limit = l
      BY <2>1, <3>2 DEF PanelUser
    <3> QED
      BY <2>1, <3>1, <3>2, <3>3
  <2>4. ASSUME NEW k \in Webhook, Lose(u, k) PROVE panel' = panel
    BY <2>4 DEF Lose
  <2> QED
    BY <1>1, <2>2, <2>3, <2>4
<1> QED
  BY <1>2, <1>3, OutsideKeepsCore

(* What Update loads knows what the row knows. *)
LEMMA BeginKeepsCore ==
    ASSUME Safe, Core, NEW p \in Proc, BeginTx(p)
    PROVE  Core'
<1> DEFINE u == UserOf(p)
           r == Loaded(u, DefaultRow)
           pc == IF NothingToDo(task[p].kind, r) THEN "skip"
                 ELSE IF task[p].kind \in {"restore", "repair"} THEN "patch" ELSE "read"
<1>1. /\ task[p].pc = "begin" /\ u \in User /\ task[p].kind \in HandlerKind
      /\ ~task[p].patched /\ task[p] \in Task
  BY DEF BeginTx, At, Safe, TypeOK, Control, ControlOf
<1>2. /\ conn = Free /\ UNCHANGED <<rows, panel, torn>>
      /\ tx' = [tx EXCEPT ![p] = [user |-> u, row |-> r]]
      /\ task' = [task EXCEPT ![p] = [task[p] EXCEPT !.pc = pc]]
  BY <1>1 DEF BeginTx, Begin, Goto, world, ghosts, Safe, TypeOK
<1>3. pc \in {"skip", "read"}
  BY <1>1 DEF HandlerKind, Webhook
<1> HIDE DEF pc
<1>4. /\ tx'[p].row = r /\ UserOf(p)' = u /\ task'[p].pc = pc
      /\ task'[p].kind = task[p].kind /\ ~task'[p].patched
  BY <1>1, <1>2 DEF Safe, TypeOK, Task, UserOf
<1>5. \A q \in Proc : ~InTx(q)
  BY <1>2, StoreAssumption DEF Safe, Control, ControlOf
<1>6. \A q \in Proc : q # p => ~InTx(q)'
  BY <1>2, <1>5 DEF InTx, Safe, TypeOK
<1>7. ASSUME NEW v \in User \ torn' PROVE UserSafe(v)'
  <2>1. UserSafe(v) /\ \A q \in Proc : ~Cutting(q, v)
    BY <1>2, <1>5, <1>7 DEF Core, Cutting
  <2> QED
    BY <2>1, <1>2 DEF UserSafe, ZeroIsRemembered, Blocked
<1>8. ASSUME u \notin torn' PROVE JobKnows(p)'
  <2>1. Blocked(u) => Knows(rows[u])
    BY <1>1, <1>2, <1>8 DEF Core, UserSafe
  <2>2. r.wl = "blocked" => Knows(r)
    BY <2>1 DEF Loaded, Blocked, DefaultRow
  <2>3. rows[u] # Absent /\ Knows(rows[u]) => Knows(r)
    BY DEF Loaded
  <2> HIDE DEF r
  <2> QED
    BY <2>2, <2>3, <1>2, <1>3, <1>4 DEF JobKnows, At, Knows
<1> QED
  BY <1>4, <1>6, <1>7, <1>8 DEF Core

(* What a job knows once it has seen the panel user. *)
LEMMA SeenKeepsCore ==
    ASSUME Safe, Core, NEW p \in Proc, task[p].pc \in {"read", "reread"},
           NEW r \in Row, tx' = [tx EXCEPT ![p] = [user |-> UserOf(p), row |-> r]],
           UNCHANGED <<rows, panel, torn>>,
           NEW t \in Task, task' = [task EXCEPT ![p] = t],
           t.user = task[p].user, t.kind = task[p].kind, t.patched = task[p].patched,
           Knows(tx[p].row) => Knows(r),
           r.wl = "blocked" => r.wl = tx[p].row.wl,
           t.pc \in {"reread", "skip", "patch"},
           t.pc = "patch" => t.seen = panel[UserOf(p)],
           t.pc = "patch" /\ t.kind = "modified" => Knows(r)
    PROVE  Core'
<1>0. PICK u \in User : UserOf(p) = u
  BY Inside DEF TxPc
<1>1. InTx(p) /\ ~task[p].patched /\ panel[u] \in PanelUser
  BY Inside DEF TxPc, Safe, TypeOK, Control, ControlOf
<1>2. tx'[p].row = r /\ task'[p] = t /\ UserOf(p)' = u
  BY <1>0 DEF Safe, TypeOK, UserOf
<1>3. ~Cutting(p, u) /\ \A q \in Proc : ~Cutting(q, u)
  BY <1>1, CuttingAlone DEF Cutting
<1>4. ASSUME u \notin torn' PROVE UserSafe(u)'
  <2>1. UserSafe(u)
    BY <1>1, <1>4 DEF Core
  <2> QED
    BY <2>1, <1>2, <1>3 DEF UserSafe, ZeroIsRemembered, Blocked, Knows
<1>5. ASSUME u \notin torn' PROVE JobKnows(p)'
  <2>1. UserSafe(u) /\ JobKnows(p)
    BY <1>0, <1>1, <1>5 DEF Core
  <2>2. panel[u].limit = 0 => rows[u] # Absent /\ Knows(rows[u])
    BY <2>1, <1>3 DEF UserSafe, ZeroIsRemembered
  <2>3. panel[u].limit \in Nat
    BY <1>1 DEF PanelUser
  <2>4. Knows(r) \/ panel[u].limit > 0
    BY <2>1, <2>2, <2>3, <1>0 DEF JobKnows
  <2>5. /\ rows[u] # Absent /\ Knows(rows[u]) => Knows(r)
        /\ r.wl = "blocked" => Knows(r)
    BY <2>1, <1>0 DEF JobKnows
  <2> QED
    BY <2>1, <2>4, <2>5, <1>0, <1>2 DEF JobKnows, At, UserSafe, Knows
<1>6. \A q \in Proc : q # p => tx'[q] = tx[q]
  BY DEF Safe, TypeOK
<1> QED
  BY <1>0, <1>1, <1>2, <1>4, <1>5, <1>6, InsideKeepsCore

(* GetUser answers, or does not: of the handlers, user.limited keeps going.      *)
LEMMA ReadKeepsCore ==
    ASSUME Safe, Core, NEW p \in Proc,
           Read(p) \/ (ReadFails(p) /\ task[p].kind = "limited")
    PROVE  Core'
<1> DEFINE u == UserOf(p)
<1>1. /\ task[p].pc = "read" /\ u \in User /\ tx[p].row \in Row /\ task[p] \in Task
      /\ tx[p] = [user |-> u, row |-> tx[p].row] /\ panel[u] \in PanelUser
  BY Inside DEF Read, ReadFails, At, TxPc, Safe, TypeOK
<1>2. ASSUME NEW pu \in PanelUser \cup {None}
      PROVE  /\ Capture(tx[p].row, pu) \in Row
             /\ Knows(tx[p].row) => Knows(Capture(tx[p].row, pu))
             /\ Capture(tx[p].row, pu).wl = tx[p].row.wl
  <2>1. tx[p].row.orig \in Nat \cup {None} /\ pu # None => pu.limit \in Nat
    BY <1>2 DEF PanelUser
  <2>2. Capture(tx[p].row, pu) \in Row
    BY <1>1, <1>2, CaptureType
  <2>3. Capture(tx[p].row, pu).wl = tx[p].row.wl
    BY <1>1 DEF Capture, Row
  <2>4. Knows(tx[p].row) => Knows(Capture(tx[p].row, pu))
    <3>1. CASE pu = None
      BY <1>1, <3>1 DEF Capture, Row, Knows
    <3>2. CASE pu # None
      BY <1>1, <1>2, <3>2, NoneAssumption DEF Capture, Row, Knows, PanelUser
    <3> QED
      BY <3>1, <3>2
  <2> QED
    BY <2>2, <2>3, <2>4
<1>3. CASE Read(p)
  <2> DEFINE r == IF task[p].kind = "limited" /\ tx[p].row.wl = "active"
                  THEN Capture(tx[p].row, panel[u]) ELSE tx[p].row
             pc == IF task[p].kind = "modified" /\ ~ShouldRestoreWhitelist(r, panel[u])
                   THEN "skip" ELSE "patch"
             t == [task[p] EXCEPT !.seen = panel[u], !.pc = pc]
  <2>1. /\ r \in Row /\ (Knows(tx[p].row) => Knows(r))
        /\ r.wl = "blocked" => r.wl = tx[p].row.wl
    BY <1>1, <1>2
  <2>2. pc = "patch" /\ task[p].kind = "modified" => Knows(r)
    <3>1. ShouldRestoreWhitelist(r, panel[u]) => OrigOf(r) > 0
      BY DEF ShouldRestoreWhitelist, LimitGrew, UsedDropped, LimitReturned
    <3>2. OrigOf(r) > 0 => Knows(r)
      BY DEF OrigOf, Knows
    <3> QED
      BY <3>1, <3>2
  <2>3. pc \in {"skip", "patch"}
    OBVIOUS
  <2>4. /\ task' = [task EXCEPT ![p] = t] /\ UNCHANGED <<rows, panel, torn>>
        /\ tx' = [tx EXCEPT ![p] = [user |-> u, row |-> r]]
    <3>1. task' = [task EXCEPT ![p] = t] /\ Edit(p, r) /\ UNCHANGED <<panel, torn>>
      BY <1>3 DEF Read, world, ghosts
    <3>2. [tx[p] EXCEPT !.row = r] = [user |-> u, row |-> r]
      BY <1>1
    <3> QED
      BY <3>1, <3>2 DEF Edit
  <2> HIDE DEF r, pc
  <2>5. /\ t \in Task /\ t.user = task[p].user /\ t.kind = task[p].kind /\ t.pc = pc
        /\ t.seen = panel[u] /\ t.patched = task[p].patched
    BY <1>1, <2>3 DEF Task
  <2> HIDE DEF t
  <2> QED
    BY <1>1, <2>1, <2>2, <2>3, <2>4, <2>5, SeenKeepsCore
<1>4. CASE ReadFails(p) /\ task[p].kind = "limited"
  <2> DEFINE r == IF tx[p].row.wl = "active" THEN Capture(tx[p].row, None) ELSE tx[p].row
             t == [task[p] EXCEPT !.pc = "reread"]
  <2>1. /\ r \in Row /\ (Knows(tx[p].row) => Knows(r))
        /\ r.wl = "blocked" => r.wl = tx[p].row.wl
    BY <1>1, <1>2
  <2>2. /\ task' = [task EXCEPT ![p] = t] /\ UNCHANGED <<rows, panel, torn>>
        /\ tx' = [tx EXCEPT ![p] = [user |-> u, row |-> r]]
    <3>1. task' = [task EXCEPT ![p] = t] /\ Edit(p, r) /\ UNCHANGED <<panel, torn>>
      BY <1>1, <1>4 DEF ReadFails, Goto, world, Safe, TypeOK
    <3>2. [tx[p] EXCEPT !.row = r] = [user |-> u, row |-> r]
      BY <1>1
    <3> QED
      BY <3>1, <3>2 DEF Edit
  <2> HIDE DEF r
  <2>3. /\ t \in Task /\ t.user = task[p].user /\ t.kind = task[p].kind /\ t.pc = "reread"
        /\ t.patched = task[p].patched
    BY <1>1 DEF Task
  <2> HIDE DEF t
  <2> QED
    BY <1>1, <2>1, <2>2, <2>3, SeenKeepsCore
<1> QED
  BY <1>3, <1>4

(* The second read of user.limited. *)
LEMMA RereadKeepsCore ==
    ASSUME Safe, Core, NEW p \in Proc, Reread(p)
    PROVE  Core'
<1> DEFINE t == [task[p] EXCEPT !.seen = panel[UserOf(p)], !.pc = "patch"]
<1>1. /\ task[p].pc = "reread" /\ task[p] \in Task /\ task[p].kind = "limited"
      /\ tx[p].row \in Row /\ tx[p] = [user |-> UserOf(p), row |-> tx[p].row]
      /\ panel[UserOf(p)] \in PanelUser
  BY Inside DEF Reread, At, TxPc, Safe, TypeOK, Control, ControlOf
<1>2. /\ task' = [task EXCEPT ![p] = t] /\ UNCHANGED <<rows, panel, torn>>
      /\ tx' = [tx EXCEPT ![p] = [user |-> UserOf(p), row |-> tx[p].row]]
  BY <1>1 DEF Reread, store, world, ghosts, Safe, TypeOK
<1>3. /\ t \in Task /\ t.user = task[p].user /\ t.kind = task[p].kind /\ t.pc = "patch"
      /\ t.patched = task[p].patched /\ t.seen = panel[UserOf(p)]
  BY <1>1 DEF Task
<1> HIDE DEF t
<1> QED
  BY <1>1, <1>2, <1>3, SeenKeepsCore

(* The PATCH of a job meets what its user needs; the block is still to be written.*)
LEMMA ApplyIsSafe ==
    ASSUME Safe, Core, NEW p \in Proc, NEW u \in User, UserOf(p) = u, At(p, "patch"),
           Apply(p), u \notin torn
    PROVE  /\ Whitelist \in panel'[u].squads => panel'[u].limit > 0
           /\ panel'[u].limit = 0 =>
                \/ rows[u] # Absent /\ Knows(rows[u])
                \/ task[p].kind = "limited"
           /\ task[p].kind = "basic" => panel'[u].limit = panel[u].limit
<1> DEFINE row == tx[p].row
           pu == task[p].seen
           patch == PatchOf(task[p], row)
<1>1. /\ InTx(p) /\ row \in Row /\ pu \in PanelUser /\ task[p].kind \in HandlerKind
      /\ panel[u] \in PanelUser /\ JobKnows(p) /\ UserSafe(u)
  BY Inside DEF At, TxPc, Safe, TypeOK, Control, ControlOf, Core
<1>2. panel'[u] = Patched(panel[u], patch)
  BY DEF Apply, Safe, TypeOK
<1>3. /\ panel'[u].squads = patch.squads
      /\ panel'[u].limit = IF patch.limit = None THEN panel[u].limit ELSE patch.limit
  BY <1>1, <1>2 DEF Patched, PanelUser
<1>4. \A q \in Proc : Cutting(q, u) => task[p].kind = "limited"
  BY <1>1, CuttingAlone DEF Cutting
<1>5. CASE task[p].kind = "limited"
  <2>1. patch = BlockPatch(pu)
    BY <1>5 DEF PatchOf, BlockKind
  <2>2. Whitelist \notin patch.squads
    BY <2>1, SquadAssumption DEF BlockPatch, EnsureSquads, DropSquads
  <2> QED
    BY <1>3, <1>5, <2>2
<1>6. CASE task[p].kind = "modified"
  <2>1. patch = RestorePatch(row, pu) /\ Knows(row)
    BY <1>1, <1>6 DEF PatchOf, BlockKind, JobKnows
  <2>2. patch.limit \in Nat /\ patch.limit > 0
    <3>1. row.orig \in Nat /\ row.orig > 0 /\ pu.limit \in Nat
      BY <1>1, <2>1 DEF Row, Knows, PanelUser
    <3>2. RestoredLimit(row, pu) \in Nat /\ RestoredLimit(row, pu) > 0
      BY <2>1, <3>1 DEF RestoredLimit, Knows
    <3> QED
      BY <2>1, <3>2 DEF RestorePatch
  <2>3. panel'[u].limit > 0
    BY <1>3, <2>2, NoneAssumption
  <2> QED
    BY <1>6, <2>3
<1>7. CASE task[p].kind = "reset"
  <2>1. patch.limit = row.orig
    BY <1>7 DEF PatchOf, BlockKind, ResetPatch
  <2>2. CASE Knows(row)
    <3>1. row.orig \in Nat /\ row.orig > 0 /\ row.orig # None
      BY <1>1, <2>2 DEF Row, Knows
    <3> QED
      BY <1>3, <1>7, <2>1, <3>1
  <2>3. CASE ~Knows(row)
    <3>1. ~(rows[u] # Absent /\ Knows(rows[u]))
      BY <1>1, <2>3 DEF JobKnows
    <3>2. panel[u].limit # 0 /\ panel[u].limit \in Nat
      BY <1>1, <1>4, <1>7, <3>1 DEF UserSafe, ZeroIsRemembered, PanelUser
    <3>3. panel'[u].limit = panel[u].limit
      BY <1>3, <2>1, <2>3 DEF Knows
    <3> QED
      BY <1>7, <3>2, <3>3
  <2> QED
    BY <2>2, <2>3
<1>8. CASE task[p].kind = "basic"
  <2>1. patch = BasicPatch(pu)
    BY <1>8 DEF PatchOf, BlockKind
  <2>2. panel'[u].limit = panel[u].limit /\ panel'[u].squads \subseteq pu.squads
    BY <1>3, <2>1 DEF BasicPatch, DropSquads
  <2>3. Whitelist \in pu.squads => panel[u].limit > 0
    BY <1>1, <1>8 DEF JobKnows, At
  <2>4. panel[u].limit = 0 => rows[u] # Absent /\ Knows(rows[u])
    BY <1>1, <1>4, <1>8 DEF UserSafe, ZeroIsRemembered
  <2> QED
    BY <2>2, <2>3, <2>4
<1> QED
  BY <1>1, <1>5, <1>6, <1>7, <1>8 DEF HandlerKind, Webhook

(* The transaction of p ends without a commit: if the panel has been cut off,     *)
(* the user is torn.                                                              *)
LEMMA RollbackKeepsCore ==
    ASSUME Safe, Core, NEW p \in Proc,
           \/ ReadFails(p) /\ task[p].kind # "limited"
           \/ RereadFails(p) \/ PatchFails(p) \/ FinishFails(p)
    PROVE  Core'
<1>1. InTx(p) /\ UserOf(p) \in User /\ task[p].pc \in TxPc
  BY Inside DEF ReadFails, RereadFails, PatchFails, FinishFails, At, TxPc
<1>2. PICK u \in User : UserOf(p) = u
  BY <1>1
<1>3. Rollback(p)
  BY DEF ReadFails, RereadFails, PatchFails, FinishFails
<1>4. torn \subseteq torn'
  BY DEF ReadFails, RereadFails, PatchFails, FinishFails, Abandoned
<1>5. ~InTx(p)' /\ \A q \in Proc : q # p => tx'[q] = tx[q]
  BY <1>3 DEF Rollback, InTx, Safe, TypeOK
<1>6. panel' = panel \/ (PatchFails(p) /\ Apply(p) /\ Abandoned(p, TRUE))
  BY DEF ReadFails, RereadFails, PatchFails, FinishFails, world
<1>7. rows' = rows /\ \A v \in User : v # u => panel'[v] = panel[v]
  BY <1>2, <1>3, <1>6 DEF Rollback, Apply, Safe, TypeOK
<1>8. ASSUME u \notin torn' PROVE ~Cutting(p, u)
  <2>1. CASE RereadFails(p) \/ (ReadFails(p) /\ task[p].kind # "limited")
    BY <2>1 DEF ReadFails, RereadFails, At, Cutting, Safe, Control, ControlOf
  <2>2. CASE PatchFails(p)
    BY <1>2, <1>8, <2>2 DEF PatchFails, Abandoned, Cutting, BlockKind
  <2>3. CASE FinishFails(p)
    BY <1>2, <1>8, <2>3
       DEF FinishFails, Abandoned, At, Cutting, BlockKind, Safe, Control, ControlOf
  <2> QED
    BY <2>1, <2>2, <2>3
<1>9. ASSUME u \notin torn' PROVE UserSafe(u)'
  <2>1. UserSafe(u) /\ u \notin torn /\ \A q \in Proc : ~Cutting(q, u)
    BY <1>1, <1>4, <1>8, <1>9, CuttingAlone DEF Core
  <2>2. CASE panel' = panel
    BY <2>1, <2>2, <1>7 DEF UserSafe, ZeroIsRemembered, Blocked, Knows
  <2>3. CASE PatchFails(p) /\ Apply(p) /\ Abandoned(p, TRUE)
    <3>1. At(p, "patch") /\ task[p].kind # "limited"
      BY <2>3, <1>2, <1>9 DEF PatchFails, Abandoned, BlockKind
    <3>2. /\ Whitelist \in panel'[u].squads => panel'[u].limit > 0
          /\ panel'[u].limit = 0 => rows[u] # Absent /\ Knows(rows[u])
      BY <1>2, <2>1, <2>3, <3>1, ApplyIsSafe
    <3> QED
      BY <2>1, <1>7, <3>2 DEF UserSafe, ZeroIsRemembered, Blocked, Knows
  <2> QED
    BY <1>6, <2>2, <2>3
<1> QED
  BY <1>1, <1>2, <1>4, <1>5, <1>7, <1>9, InsideKeepsCore

(* The panel takes the PATCH, or is asked again, or resets the counter: the job   *)
(* of p stays in its transaction with the row and the panel user it has seen.     *)
LEMMA StayKeepsCore ==
    ASSUME Safe, Core, NEW p \in Proc, task[p].pc \in {"patch", "zero"},
           NEW u \in User, UserOf(p) = u, UNCHANGED <<rows, tx, torn>>,
           NEW t \in Task, task' = [task EXCEPT ![p] = t],
           t.user = u, t.kind = task[p].kind, t.seen = task[p].seen,
           t.pc \in {"patch", "zero", "commit"}, t.pc = "patch" => At(p, "patch"),
           t.pc = "commit" /\ t.kind = "limited" => At(p, "patch"),
           task[p].patched => t.patched,
           \A v \in User : v # u => panel'[v] = panel[v],
           \/ /\ panel'[u].limit = panel[u].limit
              /\ panel'[u].squads = panel[u].squads
           \/ At(p, "patch") /\ Apply(p) /\ t.patched
    PROVE  Core'
<1>1. InTx(p) /\ InTx(p)' /\ task'[p] = t /\ UserOf(p)' = u
  BY Inside DEF TxPc, InTx, Safe, TypeOK, UserOf
<1>2. ASSUME u \notin torn' PROVE JobKnows(p)'
  <2>1. JobKnows(p) /\ u \notin torn
    BY <1>1, <1>2 DEF Core
  <2>2. t.pc = "patch" /\ t.kind = "basic" => panel'[u].limit = panel[u].limit
    BY <2>1, ApplyIsSafe
  <2> QED
    BY <1>1, <2>1, <2>2 DEF JobKnows, At, Knows
<1>3. ASSUME u \notin torn' PROVE UserSafe(u)'
  <2>1. UserSafe(u) /\ u \notin torn
    BY <1>3 DEF Core
  <2>2. t.patched /\ task[p].kind = "limited" => Cutting(p, u)'
    BY <1>1 DEF Cutting
  <2>3. CASE /\ panel'[u].limit = panel[u].limit
             /\ panel'[u].squads = panel[u].squads
    <3>1. ASSUME NEW q \in Proc, Cutting(q, u) PROVE Cutting(p, u)'
      <4>1. q = p
        BY <1>1, <3>1, CuttingAlone
      <4> QED
        BY <2>2, <3>1, <4>1 DEF Cutting
    <3>2. panel[u].limit = 0 =>
             \/ rows[u] # Absent /\ Knows(rows[u])
             \/ Cutting(p, u)'
      BY <2>1, <3>1 DEF UserSafe, ZeroIsRemembered
    <3> QED
      BY <2>1, <2>3, <3>2 DEF UserSafe, ZeroIsRemembered, Blocked, Knows
  <2>4. CASE At(p, "patch") /\ Apply(p) /\ t.patched
    <3>1. /\ Whitelist \in panel'[u].squads => panel'[u].limit > 0
          /\ panel'[u].limit = 0 =>
               \/ rows[u] # Absent /\ Knows(rows[u])
               \/ Cutting(p, u)'
      BY <2>1, <2>2, <2>4, ApplyIsSafe
    <3> QED
      BY <2>1, <3>1 DEF UserSafe, ZeroIsRemembered, Blocked, Knows
  <2> QED
    BY <2>3, <2>4
<1> QED
  BY <1>1, <1>2, <1>3, InsideKeepsCore

(* The panel acknowledges the PATCH of p, or p asks again. *)
LEMMA PatchKeepsCore ==
    ASSUME Safe, Core, NEW p \in Proc, PatchOk(p) \/ PatchRetries(p)
    PROVE  Core'
<1>1. /\ task[p].pc = "patch" /\ task[p] \in Task /\ UserOf(p) \in User
      /\ UNCHANGED <<rows, tx, torn>>
  BY Inside DEF PatchOk, PatchRetries, At, TxPc, store, ghosts, Safe, TypeOK
<1>2. PICK u \in User : UserOf(p) = u
  BY <1>1
<1>3. ASSUME NEW t \in Task, task' = [task EXCEPT ![p] = t],
             t.user = u, t.kind = task[p].kind, t.seen = task[p].seen,
             t.pc \in {"patch", "zero", "commit"}, task[p].patched => t.patched,
             panel' = panel \/ (Apply(p) /\ t.patched)
      PROVE  Core'
  <2>1. \A v \in User : v # u => panel'[v] = panel[v]
    BY <1>2, <1>3 DEF Apply, Safe, TypeOK
  <2> QED
    BY <1>1, <1>2, <1>3, <2>1, StayKeepsCore DEF At
<1>4. CASE PatchOk(p)
  <2> DEFINE pc == IF task[p].kind = "reset" THEN "zero" ELSE "commit"
             t == [task[p] EXCEPT !.patched = TRUE, !.pc = pc]
  <2>1. /\ t \in Task /\ t.user = u /\ t.kind = task[p].kind /\ t.seen = task[p].seen
        /\ t.pc \in {"patch", "zero", "commit"} /\ t.patched
    BY <1>1, <1>2 DEF Task, UserOf
  <2>2. task' = [task EXCEPT ![p] = t] /\ Apply(p)
    BY <1>4 DEF PatchOk
  <2> HIDE DEF t
  <2> QED
    BY <1>3, <2>1, <2>2
<1>5. CASE PatchRetries(p)
  <2>1. PICK patched \in BOOLEAN :
          /\ task' = [task EXCEPT ![p] =
                        [task[p] EXCEPT !.tries = @ + 1, !.patched = patched]]
          /\ task[p].patched => patched
          /\ panel' = panel \/ (Apply(p) /\ patched)
    <3>1. CASE Apply(p) /\ task' = [task EXCEPT ![p].tries = @ + 1, ![p].patched = TRUE]
      BY <3>1
    <3>2. CASE task' = [task EXCEPT ![p].tries = @ + 1] /\ UNCHANGED <<panel, wire>>
      <4>1. [task[p] EXCEPT !.tries = @ + 1, !.patched = task[p].patched]
            = [task[p] EXCEPT !.tries = @ + 1] /\ task[p].patched \in BOOLEAN
        BY <1>1 DEF Task
      <4> QED
        BY <3>2, <4>1
    <3> QED
      BY <1>5, <3>1, <3>2 DEF PatchRetries
  <2> DEFINE t == [task[p] EXCEPT !.tries = @ + 1, !.patched = patched]
  <2>2. task[p].tries + 1 \in Nat
    BY <1>1 DEF Task
  <2>3. /\ t \in Task /\ t.user = u /\ t.kind = task[p].kind /\ t.seen = task[p].seen
        /\ t.pc = "patch" /\ t.patched = patched
    BY <1>1, <1>2, <2>2 DEF Task, UserOf
  <2>4. task' = [task EXCEPT ![p] = t]
    BY <2>1
  <2> HIDE DEF t
  <2> QED
    BY <1>3, <2>1, <2>3, <2>4
<1> QED
  BY <1>4, <1>5

(* reset-traffic, done or given up, does not touch the limit. *)
LEMMA ZeroKeepsCore ==
    ASSUME Safe, Core, NEW p \in Proc, Zero(p) \/ ZeroFails(p)
    PROVE  Core'
<1> DEFINE t == [task[p] EXCEPT !.pc = "commit"]
<1>1. /\ task[p].pc = "zero" /\ task[p].kind = "reset" /\ task[p] \in Task
      /\ UserOf(p) \in User /\ UNCHANGED <<rows, tx, torn>>
  BY Inside DEF Zero, ZeroFails, At, TxPc, store, ghosts, Safe, TypeOK, Control, ControlOf
<1>2. PICK u \in User : UserOf(p) = u
  BY <1>1
<1>3. /\ t \in Task /\ t.user = u /\ t.kind = "reset" /\ t.seen = task[p].seen
      /\ t.pc = "commit" /\ t.patched = task[p].patched
  BY <1>1, <1>2 DEF Task, UserOf
<1>4. task' = [task EXCEPT ![p] = t]
  BY DEF Zero, ZeroFails, Goto
<1>5. /\ \A v \in User : v # u => panel'[v] = panel[v]
      /\ panel'[u].limit = panel[u].limit /\ panel'[u].squads = panel[u].squads
  <2>1. panel \in [User -> PanelUser] /\ panel[u] \in PanelUser
    BY DEF Safe, TypeOK
  <2>2. CASE Zero(p)
    BY <1>2, <2>1, <2>2 DEF Zero, PanelUser
  <2>3. CASE ZeroFails(p)
    BY <2>3 DEF ZeroFails, world
  <2> QED
    BY <2>2, <2>3
<1> HIDE DEF t
<1> QED
  BY <1>1, <1>2, <1>3, <1>4, <1>5, StayKeepsCore

(* What the callback leaves knows what the transaction knew. *)
LEMMA OutcomeKnows ==
    ASSUME Safe, Core, NEW p \in Proc, At(p, "commit") \/ At(p, "skip"),
           UserOf(p) \notin torn,
           NEW r, r = IF At(p, "commit") THEN RowOf(task[p], tx[p].row) ELSE tx[p].row
    PROVE  /\ rows[UserOf(p)] # Absent /\ Knows(rows[UserOf(p)]) => Knows(r)
           /\ r.wl = "blocked" => Knows(r)
           /\ task[p].kind = "limited" => Knows(r)
<1> DEFINE row == tx[p].row
<1>1. /\ row \in Row /\ task[p].kind \in HandlerKind /\ JobKnows(p)
      /\ At(p, "commit") => task[p].seen \in PanelUser
      /\ task[p].kind = "limited" => At(p, "commit")
  BY Inside DEF At, TxPc, Safe, Control, ControlOf, Core
<1>2. CASE At(p, "skip")
  <2>1. r = row /\ task[p].kind # "limited"
    BY <1>1, <1>2 DEF At
  <2> QED
    BY <1>1, <2>1 DEF JobKnows
<1>3. CASE At(p, "commit") /\ task[p].kind = "limited"
  <2> DEFINE pu == task[p].seen
  <2>1. r = BlockedRow(Preserve(row, pu))
    BY <1>3 DEF RowOf, BlockKind
  <2>2. r.orig = IF row.orig = None /\ pu.limit > 0 THEN pu.limit ELSE row.orig
    BY <1>1, <2>1 DEF BlockedRow, Preserve, Row
  <2>3. Knows(row) \/ pu.limit > 0
    BY <1>1, <1>3 DEF JobKnows, At
  <2>4. pu.limit # None
    BY <1>1, <1>3, NoneAssumption DEF PanelUser
  <2>5. Knows(r)
    BY <2>2, <2>3, <2>4 DEF Knows
  <2> QED
    BY <2>5
<1>4. CASE At(p, "commit") /\ task[p].kind # "limited"
  <2>1. r \in {RestoredRow(row), ResetRow(row), BasicRow(row)}
    BY <1>1, <1>4 DEF RowOf, BlockKind, HandlerKind, Webhook
  <2>2. r.orig = row.orig /\ (r.wl = "blocked" => row.wl = "blocked")
    BY <1>1, <2>1 DEF RestoredRow, ResetRow, BasicRow, Row
  <2> QED
    BY <1>1, <1>4, <2>2 DEF JobKnows, Knows
<1> QED
  BY <1>2, <1>3, <1>4

(* The commit. *)
LEMMA FinishKeepsCore ==
    ASSUME Safe, Core, NEW p \in Proc, Finish(p)
    PROVE  Core'
<1> DEFINE r == IF At(p, "commit") THEN RowOf(task[p], tx[p].row) ELSE tx[p].row
<1>1. /\ InTx(p) /\ UserOf(p) \in User /\ tx[p].user = UserOf(p) /\ r \in Row
      /\ At(p, "commit") \/ At(p, "skip")
  <2>1. At(p, "commit") \/ At(p, "skip")
    BY DEF Finish
  <2> QED
    BY <2>1, Inside, OutcomeType DEF At, TxPc
<1>2. PICK u \in User : UserOf(p) = u
  BY <1>1
<1>3. UserOf(p) \notin torn =>
         /\ rows[UserOf(p)] # Absent /\ Knows(rows[UserOf(p)]) => Knows(r)
         /\ r.wl = "blocked" => Knows(r)
         /\ task[p].kind = "limited" => Knows(r)
  BY <1>1, OutcomeKnows
<1>4. Commit(p, r) /\ UNCHANGED <<panel, torn>>
  BY DEF Finish, world, ghosts
<1> HIDE DEF r
<1>5. /\ rows' = [rows EXCEPT ![u] = r] /\ rows'[u] = r /\ r # Absent
      /\ tx' = [tx EXCEPT ![p] = NoTx]
  BY <1>1, <1>2, <1>4, AbsentAssumption DEF Commit, Safe, TypeOK
<1>6. ~InTx(p)' /\ \A q \in Proc : q # p => tx'[q] = tx[q]
  BY <1>5 DEF InTx, Safe, TypeOK
<1>7. ASSUME u \notin torn' PROVE UserSafe(u)'
  <2>1. UserSafe(u) /\ u \notin torn
    BY <1>4, <1>7 DEF Core
  <2>2. panel[u].limit = 0 => Knows(r)
    <3>1. ASSUME NEW q \in Proc, Cutting(q, u) PROVE Knows(r)
      <4>1. q = p
        BY <1>1, <3>1, CuttingAlone
      <4> QED
        BY <1>2, <1>3, <2>1, <3>1, <4>1 DEF Cutting
    <3> QED
      BY <1>2, <1>3, <2>1, <3>1 DEF UserSafe, ZeroIsRemembered
  <2>3. r.wl = "blocked" => Knows(r)
    BY <1>2, <1>3, <2>1
  <2> QED
    BY <2>1, <2>2, <2>3, <1>4, <1>5 DEF UserSafe, ZeroIsRemembered, Blocked, Knows
<1>8. \A v \in User : v # u => rows'[v] = rows[v] /\ panel'[v] = panel[v]
  BY <1>4, <1>5 DEF Safe, TypeOK
<1> QED
  BY <1>1, <1>2, <1>4, <1>6, <1>7, <1>8, InsideKeepsCore

(* A crash in the middle of a block tears the user. *)
LEMMA CrashKeepsCore ==
    ASSUME Safe, Core, Crash
    PROVE  Core'
<1>1. /\ tx' = [p \in Proc |-> NoTx] /\ UNCHANGED <<rows, panel>> /\ torn \subseteq torn'
      /\ \A p \in Proc : task[p].patched /\ task[p].kind \in BlockKind => UserOf(p) \in torn'
  BY DEF Crash, Reopen, world
<1>2. \A p \in Proc : ~InTx(p)'
  BY <1>1 DEF InTx
<1>3. ASSUME NEW u \in User \ torn' PROVE UserSafe(u)'
  <2>1. UserSafe(u) /\ \A p \in Proc : ~Cutting(p, u)
    BY <1>1, <1>3 DEF Core, Cutting, BlockKind
  <2> QED
    BY <1>1, <2>1 DEF UserSafe, ZeroIsRemembered, Blocked, Knows
<1> QED
  BY <1>2, <1>3 DEF Core

-----------------------------------------------------------------------------
(* A fresh user pays a limit, a user of an older version has it in his row. *)
LEMMA CoreInit == Init => Core
<1> SUFFICES ASSUME Init PROVE Core
  OBVIOUS
<1>1. \A p \in Proc : ~InTx(p)
  BY DEF Init, StoreInit, InTx
<1>2. ASSUME NEW u \in User PROVE UserSafe(u)
  <2>1. Plan > 0 /\ Ceiling > 0 /\ Plan # None
    BY EngineAssumption, CeilingAssumption, NoneAssumption
  <2>2. panel[u].limit \in {Plan, Ceiling}
    BY DEF Init
  <2>3. panel[u].limit > 0 /\ panel[u].limit # 0
    BY <2>1, <2>2, EngineAssumption, CeilingAssumption
  <2>4. Blocked(u) => Knows(rows[u])
    BY <2>1 DEF Init, StoreInit, Blocked, LegacyRow, DefaultRow, Knows
  <2> QED
    BY <2>3, <2>4 DEF UserSafe, ZeroIsRemembered
<1> QED
  BY <1>1, <1>2 DEF Core

(* Every step keeps what the panel's limit, the rows and the jobs know. *)
LEMMA CoreStep == Safe /\ Core /\ [Next]_vars => Core'
<1> SUFFICES ASSUME Safe, Core, [Next]_vars PROVE Core'
  OBVIOUS
<1>1. ASSUME NEW p \in Proc, Work(p) PROVE Core'
  <2>1. CASE Lock(p)
    <3>1. UserOf(p) \in User
      BY <2>1 DEF Lock, At, Safe, Control, ControlOf
    <3> QED
      BY <2>1, <3>1, StartKeepsCore
  <2> QED
    BY <1>1, <2>1, BeginKeepsCore, ReadKeepsCore, RereadKeepsCore, PatchKeepsCore,
       ZeroKeepsCore, FinishKeepsCore DEF Work
<1>2. ASSUME NEW p \in Proc, WorkFails(p) PROVE Core'
  <2>1. CASE BeginFails(p)
    <3>1. UserOf(p) \in User
      BY <2>1 DEF BeginFails, At, Safe, Control, ControlOf
    <3> QED
      BY <2>1, <3>1, StartKeepsCore
  <2>2. CASE ReadFails(p)
    BY <2>2, ReadKeepsCore, RollbackKeepsCore
  <2> QED
    BY <1>2, <2>1, <2>2, PatchKeepsCore, ZeroKeepsCore, RollbackKeepsCore DEF WorkFails
<1>3. CASE UNCHANGED vars
  BY <1>3, OutsideKeepsCore DEF vars, store, world, ghosts
<1> QED
  BY <1>1, <1>2, <1>3, StartKeepsCore, PollKeepsCore, ReadStateKeepsCore,
     ExternalKeepsCore, CrashKeepsCore DEF Next, Internal

(* The inductive invariant. *)
THEOREM EngineInvariantHolds == Spec => []IInv
<1>1. Init => Safe /\ Core
  BY SafeInit, CoreInit
<1>2. Safe /\ Core /\ [Next]_vars => (Safe /\ Core)'
  BY SafeStep, CoreStep
<1>3. Safe /\ Core => IInv
  BY DEF Safe, IInv
<1> QED
  BY <1>1, <1>2, <1>3, PTL DEF Spec

(* No user who is not torn has the whitelist squad and an unlimited limit at     *)
(* once, whatever jobs, purchases, resets, retries and crashes interleave.       *)
THEOREM NoUnmetered == Spec => []NoUnmeteredWhitelist
<1>1. IInv => NoUnmeteredWhitelist
  <2> SUFFICES ASSUME IInv, NEW u \in User \ torn, Whitelist \in panel[u].squads
               PROVE  panel[u].limit # 0
    BY DEF NoUnmeteredWhitelist
  <2>1. panel[u].limit > 0
    BY DEF IInv, Core, UserSafe
  <2> QED
    BY <2>1
<1> QED
  BY <1>1, EngineInvariantHolds, PTL

(* Whoever is blocked and not torn can be restored: his row has the paid limit.  *)
THEOREM BlockedRemembers == Spec => []BlockedRemembersOriginal
<1>1. IInv => BlockedRemembersOriginal
  BY DEF IInv, Core, UserSafe, Knows, BlockedRemembersOriginal
<1> QED
  BY <1>1, EngineInvariantHolds, PTL

-----------------------------------------------------------------------------
(* Unblocking *)

\* past its PATCH a job has one that the panel took
Acked == \A p \in Proc : task[p].pc \in {"zero", "commit"} => task[p].patched

(* A step that changes one job, or none, keeps Acked if that job does.           *)
LEMMA OneJob ==
    ASSUME Safe, Acked, NEW p \in Proc, NEW t, task' = [task EXCEPT ![p] = t],
           t.pc \in {"zero", "commit"} => t.patched
    PROVE  Acked'
BY DEF Safe, TypeOK, Acked

(* Jobs between their start and their PATCH. *)
LEMMA EarlyKeeps ==
    ASSUME Safe, Acked, NEW p \in Proc,
           Lock(p) \/ BeginTx(p) \/ Read(p) \/ Reread(p) \/ ReadFails(p)
    PROVE  Acked'
<1>0. task[p] \in Task
  BY DEF Safe, TypeOK
<1>1. CASE Lock(p)
  <2> DEFINE t == [task[p] EXCEPT !.pc = "begin"]
  <2>1. task' = [task EXCEPT ![p] = t] /\ t.pc = "begin"
    BY <1>0, <1>1 DEF Lock, Goto, Task
  <2> QED
    BY <2>1, OneJob
<1>2. CASE BeginTx(p)
  <2> DEFINE pc == IF NothingToDo(task[p].kind, Loaded(UserOf(p), DefaultRow)) THEN "skip"
                   ELSE IF task[p].kind \in {"restore", "repair"} THEN "patch" ELSE "read"
             t == [task[p] EXCEPT !.pc = pc]
  <2>1. task' = [task EXCEPT ![p] = t] /\ t.pc \in {"skip", "patch", "read"}
    BY <1>0, <1>2 DEF BeginTx, Goto, Task
  <2> QED
    BY <2>1, OneJob
<1>3. CASE Read(p)
  <2>1. PICK seen, pc : /\ task' = [task EXCEPT ![p].seen = seen, ![p].pc = pc]
                        /\ pc \in {"skip", "patch"}
    BY <1>3 DEF Read
  <2> DEFINE t == [task[p] EXCEPT !.seen = seen, !.pc = pc]
  <2>2. task' = [task EXCEPT ![p] = t] /\ t.pc = pc
    BY <1>0, <2>1 DEF Safe, TypeOK, Task
  <2> QED
    BY <2>1, <2>2, OneJob
<1>4. CASE Reread(p)
  <2> DEFINE t == [task[p] EXCEPT !.seen = panel[UserOf(p)], !.pc = "patch"]
  <2>1. task' = [task EXCEPT ![p] = t] /\ t.pc = "patch"
    BY <1>0, <1>4 DEF Reread, Safe, TypeOK, Task
  <2> QED
    BY <2>1, OneJob
<1>5. CASE ReadFails(p)
  <2>1. CASE Goto(p, "reread")
    <3> DEFINE t == [task[p] EXCEPT !.pc = "reread"]
    <3>1. task' = [task EXCEPT ![p] = t] /\ t.pc = "reread"
      BY <1>0, <2>1 DEF Goto, Task
    <3> QED
      BY <3>1, OneJob
  <2>2. CASE Unlock(p)
    <3>1. task' = [task EXCEPT ![p] = Done(p)] /\ Done(p).pc \in {"visit", "idle"}
      BY <2>2 DEF Unlock, Done, Idle
    <3> QED
      BY <3>1, OneJob
  <2> QED
    BY <1>5, <2>1, <2>2 DEF ReadFails
<1> QED
  BY <1>1, <1>2, <1>3, <1>4, <1>5

(* The PATCH, its retries and what follows it. *)
LEMMA LateKeeps ==
    ASSUME Safe, Acked, NEW p \in Proc,
           PatchOk(p) \/ PatchRetries(p) \/ Zero(p) \/ ZeroFails(p)
    PROVE  Acked'
<1>0. task[p] \in Task
  BY DEF Safe, TypeOK
<1>1. CASE PatchOk(p)
  <2> DEFINE pc == IF task[p].kind = "reset" THEN "zero" ELSE "commit"
             t == [task[p] EXCEPT !.patched = TRUE, !.pc = pc]
  <2>1. task' = [task EXCEPT ![p] = t] /\ t.patched
    BY <1>0, <1>1 DEF PatchOk, Safe, TypeOK, Task
  <2> QED
    BY <2>1, OneJob
<1>2. CASE PatchRetries(p)
  <2>1. task[p].pc = "patch"
    BY <1>2 DEF PatchRetries, At
  <2>2. PICK tries, patched : task' = [task EXCEPT ![p].tries = tries, ![p].patched = patched]
    <3>1. ASSUME NEW tries, task' = [task EXCEPT ![p].tries = tries]
          PROVE  task' = [task EXCEPT ![p].tries = tries, ![p].patched = task[p].patched]
      BY <1>0, <3>1 DEF Safe, TypeOK, Task
    <3> QED
      BY <1>2, <3>1 DEF PatchRetries
  <2> DEFINE t == [task[p] EXCEPT !.tries = tries, !.patched = patched]
  <2>3. task' = [task EXCEPT ![p] = t] /\ t.pc = "patch"
    BY <1>0, <2>1, <2>2 DEF Safe, TypeOK, Task
  <2> QED
    BY <2>3, OneJob
<1>3. CASE Zero(p) \/ ZeroFails(p)
  <2> DEFINE t == [task[p] EXCEPT !.pc = "commit"]
  <2>1. task' = [task EXCEPT ![p] = t] /\ task[p].pc = "zero"
    BY <1>3 DEF Zero, ZeroFails, Goto, At
  <2>2. t.patched = task[p].patched
    BY <1>0 DEF Task
  <2> QED
    BY <2>1, <2>2, OneJob DEF Acked
<1> QED
  BY <1>1, <1>2, <1>3

(* A job that ends, and one that starts. *)
LEMMA EndKeeps ==
    ASSUME Safe, Acked, NEW p \in Proc,
           Finish(p) \/ BeginFails(p) \/ RereadFails(p) \/ PatchFails(p) \/ FinishFails(p)
    PROVE  Acked'
<1>1. Done(p).pc \in {"visit", "idle"}
  BY DEF Done, Idle
<1> QED
  BY <1>1, OneJob DEF Finish, BeginFails, RereadFails, PatchFails, FinishFails, Unlock

LEMMA StartAcked ==
    ASSUME Safe, Acked, NEW p \in Proc, NEW u \in User,
           \/ Repay(p, u) \/ (p = Poller /\ Poll(u))
           \/ \E k \in Webhook : Receive(p, u, k) \/ Redeliver(p, u, k)
    PROVE  Acked'
<1>1. \A k : Job(k, u).pc = "lock"
  BY DEF Job
<1> QED
  BY <1>1, OneJob DEF Repay, Poll, Receive, Redeliver

(* Every step keeps it. *)
LEMMA AckedStep ==
    ASSUME Safe, Acked, [Next]_vars
    PROVE  Acked'
<1>1. ASSUME NEW p \in Proc, Work(p) \/ WorkFails(p) PROVE Acked'
  BY <1>1, EarlyKeeps, LateKeeps, EndKeeps DEF Work, WorkFails
<1>2. ASSUME NEW u \in User, Poll(u) PROVE Acked'
  BY <1>2, StartAcked, EngineAssumption
<1>3. ASSUME NEW u \in User, NEW p \in Proc,
             Repay(p, u) \/ \E k \in Webhook : Receive(p, u, k) \/ Redeliver(p, u, k)
      PROVE  Acked'
  BY <1>3, StartAcked
<1>4. CASE Crash
  BY <1>4 DEF Crash, Acked, Idle
<1>5. ASSUME task' = task PROVE Acked'
  BY <1>5 DEF Acked
<1>6. ASSUME NEW u \in User, ReadState(u) PROVE Acked'
  BY <1>5, <1>6 DEF ReadState
<1>7. CASE External
  BY <1>5, <1>7 DEF External, Consume, PanelLimits, TrafficReset, TopUp, Lose
<1>8. CASE UNCHANGED vars
  BY <1>5, <1>8 DEF vars
<1> QED
  BY <1>1, <1>2, <1>3, <1>4, <1>6, <1>7, <1>8 DEF Next, Internal

-----------------------------------------------------------------------------
(* Which step unblocks *)

\* the step of UnblockIsAcknowledged
Acknowledged(u) ==
    \E p \in Proc : /\ At(p, "commit") /\ task[p].patched /\ UserOf(p) = u
                    /\ task[p].kind \in {"reset", "modified"}

(* A commit that unblocks is one of a restore or a reset. *)
LEMMA CommitUnblocks ==
    ASSUME Safe, Acked, NEW p \in Proc, Finish(p), NEW u \in User, Blocked(u), ~Blocked(u)'
    PROVE  Acknowledged(u)
<1> DEFINE r == IF At(p, "commit") THEN RowOf(task[p], tx[p].row) ELSE tx[p].row
<1>1. task[p].pc \in TxPc /\ (At(p, "commit") \/ At(p, "skip"))
  BY DEF Finish, At, TxPc
<1>2. /\ UserOf(p) \in User /\ task[p].kind \in HandlerKind /\ tx[p].user = UserOf(p)
      /\ tx[p].row \in Row /\ ControlOf(p) /\ InTx(p)
  BY <1>1, Inside DEF Safe, Control
<1>3. rows' = [rows EXCEPT ![UserOf(p)] = r]
  BY <1>2 DEF Finish, Commit
<1>4. UserOf(p) = u /\ r.wl # "blocked"
  <2>1. rows'[u] = IF UserOf(p) = u THEN r ELSE rows[u]
    BY <1>2, <1>3 DEF Safe, TypeOK
  <2>2. r # Absent
    BY <1>1, <1>2, OutcomeType, AbsentAssumption DEF At
  <2> QED
    BY <2>1, <2>2 DEF Blocked
<1>5. task[p].kind # "limited" => tx[p].row.wl = "blocked"
  <2>1. task[p].kind # "limited" => tx[p].row = Loaded(u, DefaultRow)
    BY <1>2, <1>4 DEF ControlOf
  <2> QED
    BY <2>1 DEF Blocked, Loaded
<1>6. At(p, "commit")
  <2>1. CASE At(p, "skip")
    BY <1>2, <1>4, <1>5, <2>1 DEF ControlOf, At
  <2> QED
    BY <1>1, <2>1
<1>7. task[p].kind # "limited"
  <2>1. CASE task[p].kind = "limited"
    <3>1. r = BlockedRow(Preserve(tx[p].row, task[p].seen))
      BY <1>6, <2>1 DEF RowOf, BlockKind
    <3>2. Preserve(tx[p].row, task[p].seen) \in Row
      BY <1>2, <1>6, CaptureType DEF ControlOf, At
    <3> QED
      BY <1>4, <3>1, <3>2 DEF BlockedRow, Row
  <2> QED
    BY <2>1
<1>8. task[p].kind # "basic"
  <2>1. CASE task[p].kind = "basic"
    <3>1. r = BasicRow(tx[p].row)
      BY <1>6, <2>1 DEF RowOf, BlockKind
    <3> QED
      BY <1>2, <1>4, <1>5, <1>7, <3>1 DEF BasicRow, Row
  <2> QED
    BY <2>1
<1> QED
  BY <1>2, <1>4, <1>6, <1>7, <1>8 DEF Acknowledged, Acked, HandlerKind, Webhook, At

(* No other step changes whether a row is blocked. *)
LEMMA OthersKeepBlocked ==
    ASSUME Safe, [Next]_vars, ~\E p \in Proc : Finish(p), NEW u \in User, Blocked(u)
    PROVE  Blocked(u)'
<1>1. ASSUME rows' = rows PROVE Blocked(u)'
  BY <1>1 DEF Blocked
<1>2. ASSUME NEW p \in Proc, Work(p) \/ WorkFails(p) PROVE Blocked(u)'
  BY <1>1, <1>2
     DEF Work, WorkFails, Lock, BeginTx, Begin, Read, Edit, Reread, PatchOk, Zero, BeginFails,
         ReadFails, RereadFails, PatchRetries, PatchFails, ZeroFails, FinishFails, Rollback, store
<1>3. ASSUME NEW v \in User, Poll(v) PROVE Blocked(u)'
  <2>1. PICK over \in BOOLEAN : AddUsage(v, [rows[v] EXCEPT !.over = @ \/ over])
    BY <1>3 DEF Poll
  <2> DEFINE r == [rows[v] EXCEPT !.over = @ \/ over]
  <2>2. rows' = IF rows[v] = Absent THEN rows ELSE [rows EXCEPT ![v] = r]
    BY <2>1 DEF AddUsage
  <2>3. rows[v] # Absent => r \in Row /\ r.wl = rows[v].wl
    BY DEF Safe, TypeOK, Row
  <2> HIDE DEF r
  <2> QED
    BY <2>2, <2>3, AbsentAssumption DEF Blocked, Safe, TypeOK
<1>4. ASSUME NEW v \in User, ReadState(v) PROVE Blocked(u)'
  BY <1>4 DEF ReadState, Get, Loaded, Blocked, Safe, TypeOK
<1>5. ASSUME NEW v \in User, NEW p \in Proc,
             Repay(p, v) \/ \E k \in Webhook : Receive(p, v, k) \/ Redeliver(p, v, k)
      PROVE  Blocked(u)'
  BY <1>1, <1>5 DEF Repay, Receive, Redeliver, store
<1>6. CASE Crash
  BY <1>1, <1>6 DEF Crash, Reopen
<1>7. CASE External
  BY <1>1, <1>7 DEF External, Consume, PanelLimits, TrafficReset, TopUp, Lose, store
<1>8. CASE UNCHANGED vars
  BY <1>1, <1>8 DEF vars, store
<1> QED
  BY <1>2, <1>3, <1>4, <1>5, <1>6, <1>7, <1>8 DEF Next, Internal

(* A row leaves blocked only when a restore or a reset commits whose PATCH the   *)
(* panel has acknowledged: nobody gets the whitelist back in the store alone.    *)
THEOREM UnblockAcknowledged == Spec => UnblockIsAcknowledged
<1>1. Init => Safe /\ Acked
  BY SafeInit DEF Init, Acked, Idle
<1>2. Safe /\ Acked /\ [Next]_vars => (Safe /\ Acked)'
  BY SafeStep, AckedStep
<1>3. Safe /\ Acked /\ [Next]_vars =>
        [\A u \in User : Blocked(u) /\ ~Blocked(u)' =>
          \E p \in Proc : /\ At(p, "commit") /\ task[p].patched /\ UserOf(p) = u
                          /\ task[p].kind \in {"reset", "modified"}]_vars
  BY CommitUnblocks, OthersKeepBlocked DEF Acknowledged
<1> QED
  BY <1>1, <1>2, <1>3, PTL DEF Spec, UnblockIsAcknowledged

-----------------------------------------------------------------------------
(* Active users keep the squad *)

HasSquad(u) == Whitelist \in panel[u].squads

\* u has the squad, or is blocked, or his block is about to be committed
Served(u) == HasSquad(u) \/ Blocked(u) \/ \E p \in Proc : Cutting(p, u)

(* What a job on a user that is not torn knows of his squads: a basic cut was     *)
(* read from a user with the squad or from one who is blocked, and a restore or   *)
(* reset past its PATCH has given the squad back.                                 *)
SquadKnown(p) ==
    /\ task[p].kind = "basic" /\ At(p, "patch") /\ Whitelist \notin task[p].seen.squads =>
          Blocked(UserOf(p))
    /\ task[p].kind \in {"modified", "reset"} /\ task[p].pc \in {"zero", "commit"} =>
          HasSquad(UserOf(p))

Squads ==
    /\ \A p \in Proc : InTx(p) /\ UserOf(p) \notin torn => SquadKnown(p)
    /\ \A u \in User \ torn : Served(u)

(* A step of the process in the transaction: the other users do not change. *)
LEMMA InsideKeepsSquads ==
    ASSUME Safe, Squads, NEW p \in Proc, InTx(p), NEW u \in User, UserOf(p) = u,
           torn \subseteq torn',
           \A q \in Proc : q # p => tx'[q] = tx[q],
           \A v \in User : v # u => rows'[v] = rows[v] /\ panel'[v] = panel[v],
           u \notin torn' => Served(u)',
           InTx(p)' => UserOf(p)' = u,
           InTx(p)' /\ u \notin torn' => SquadKnown(p)'
    PROVE  Squads'
<1>1. \A q \in Proc : q # p => ~InTx(q)'
  BY Alone DEF InTx
<1>2. ASSUME NEW v \in User \ torn', v # u PROVE Served(v)'
  <2>1. Served(v) /\ rows'[v] = rows[v] /\ panel'[v] = panel[v]
    BY <1>2 DEF Squads
  <2>2. \A q \in Proc : ~Cutting(q, v)
    BY <1>2, CuttingAlone DEF Cutting
  <2>3. HasSquad(v)' \/ Blocked(v)'
    BY <2>1, <2>2, Zenon DEF Served, HasSquad, Blocked
  <2> QED
    BY <2>3, Zenon DEF Served
<1> QED
  BY <1>1, <1>2 DEF Squads

(* A step outside the transactions: no row is blocked or unblocked, no squad is   *)
(* taken away.                                                                    *)
LEMMA OutsideKeepsSquads ==
    ASSUME Safe, Squads, UNCHANGED <<tx, torn>>,
           \A q \in Proc : InTx(q) => task'[q] = task[q],
           \A v \in User : (Blocked(v) => Blocked(v)') /\ (HasSquad(v) => HasSquad(v)')
    PROVE  Squads'
<1>1. ASSUME NEW q \in Proc, InTx(q)', UserOf(q)' \notin torn' PROVE SquadKnown(q)'
  <2>1. InTx(q) /\ UserOf(q) \in User /\ task'[q] = task[q]
    BY <1>1 DEF InTx, Safe, Control, ControlOf, TxPc
  <2>2. SquadKnown(q) /\ UserOf(q)' = UserOf(q)
    BY <1>1, <2>1 DEF Squads, UserOf
  <2>3. /\ Blocked(UserOf(q)) => Blocked(UserOf(q))'
        /\ HasSquad(UserOf(q)) => HasSquad(UserOf(q))'
    <3>1. PICK v \in User : UserOf(q) = v
      BY <2>1
    <3>2. (Blocked(v) => Blocked(v)') /\ (HasSquad(v) => HasSquad(v)')
      OBVIOUS
    <3> QED
      BY <2>2, <3>1, <3>2 DEF Blocked, HasSquad
  <2> QED
    BY <2>1, <2>2, <2>3 DEF SquadKnown, At
<1>2. ASSUME NEW v \in User \ torn' PROVE Served(v)'
  <2>1. Served(v)
    BY <1>2 DEF Squads
  <2>2. \A q \in Proc : Cutting(q, v) => Cutting(q, v)'
    BY DEF Cutting, InTx, UserOf
  <2> QED
    BY <2>1, <2>2 DEF Served
<1> QED
  BY <1>1, <1>2 DEF Squads

(* Jobs start, the poller counts, rows are created, the panel and the bot go on. *)
LEMMA OthersKeepSquads ==
    ASSUME Safe, Squads, [Next]_vars,
           ~\E p \in Proc : \/ BeginTx(p) \/ Read(p) \/ Reread(p) \/ PatchOk(p) \/ Zero(p)
                            \/ Finish(p) \/ (WorkFails(p) /\ ~BeginFails(p)),
           ~Crash
    PROVE  Squads'
<1>1. \A v \in User : Blocked(v) => Blocked(v)'
  BY OthersKeepBlocked
<1>2. /\ UNCHANGED <<tx, torn>>
      /\ External \/ panel' = panel
  BY DEF Next, Internal, Work, WorkFails, Lock, BeginFails, Abandoned, Repay, Receive, Redeliver,
         Poll, AddUsage, ReadState, Get, External, Consume, PanelLimits, TrafficReset, TopUp, Lose,
         vars, store, world, ghosts
<1>3. \A q \in Proc : InTx(q) => task'[q] = task[q]
  <2>1. \/ task' = task
        \/ \E p \in Proc : \E t : /\ task' = [task EXCEPT ![p] = t]
                                   /\ task[p].pc \in {"idle", "lock", "begin"}
    BY EngineAssumption
       DEF Next, Internal, Work, WorkFails, Lock, Goto, BeginFails, Unlock, Repay, Receive,
           Redeliver, Poll, ReadState, External, Consume, PanelLimits, TrafficReset, TopUp, Lose,
           vars, At
  <2> QED
    BY <2>1 DEF Safe, TypeOK, Control, ControlOf, TxPc
<1>4. \A v \in User : HasSquad(v) => HasSquad(v)'
  <2>1. CASE panel' = panel
    BY <2>1 DEF HasSquad
  <2>2. CASE External
    <3>1. panel \in [User -> PanelUser]
      BY DEF Safe, TypeOK
    <3>2. PICK u \in User :
            \/ Consume(u) \/ PanelLimits(u) \/ TrafficReset(u)
            \/ \E l \in Limits : TopUp(u, l)
            \/ \E k \in Webhook : Lose(u, k)
      BY <2>2 DEF External
    <3>3. CASE Consume(u) \/ PanelLimits(u) \/ TrafficReset(u)
      BY <3>1, <3>3 DEF Consume, PanelLimits, TrafficReset, HasSquad, PanelUser
    <3>4. CASE \E l \in Limits : TopUp(u, l)
      <4>1. PICK l, squads :
              /\ panel' = [panel EXCEPT ![u].limit = l, ![u].squads = squads,
                                        ![u].status = "ACTIVE"]
              /\ Whitelist \in squads
        BY <3>4 DEF TopUp
      <4>2. panel'[u].squads = squads /\ \A v \in User : v # u => panel'[v] = panel[v]
        BY <3>1, <4>1 DEF PanelUser
      <4> QED
        BY <4>1, <4>2 DEF HasSquad
    <3>5. CASE \E k \in Webhook : Lose(u, k)
      BY <3>5 DEF Lose, HasSquad
    <3> QED
      BY <3>2, <3>3, <3>4, <3>5
  <2> QED
    BY <1>2, <2>1, <2>2
<1> QED
  BY <1>1, <1>2, <1>3, <1>4, OutsideKeepsSquads

(* A job that has begun knows nothing yet. *)
LEMMA BeginKeepsSquads ==
    ASSUME Safe, Squads, NEW p \in Proc, BeginTx(p)
    PROVE  Squads'
<1> DEFINE pc == IF NothingToDo(task[p].kind, Loaded(UserOf(p), DefaultRow)) THEN "skip"
                 ELSE IF task[p].kind \in {"restore", "repair"} THEN "patch" ELSE "read"
<1>1. /\ UserOf(p) \in User /\ task[p].kind \in HandlerKind /\ task[p] \in Task
  BY DEF BeginTx, At, Safe, TypeOK, Control, ControlOf
<1>2. /\ conn = Free /\ UNCHANGED <<rows, panel, torn>>
      /\ \A q \in Proc : q # p => tx'[q] = tx[q]
      /\ task' = [task EXCEPT ![p] = [task[p] EXCEPT !.pc = pc]]
  BY <1>1 DEF BeginTx, Begin, Goto, world, ghosts, Safe, TypeOK
<1>3. pc \in {"skip", "read"}
  BY <1>1 DEF HandlerKind, Webhook
<1> HIDE DEF pc
<1>4. task'[p].pc = pc
  BY <1>1, <1>2 DEF Safe, TypeOK, Task
<1>5. \A q \in Proc : ~InTx(q)
  BY <1>2, StoreAssumption DEF Safe, Control, ControlOf
<1>6. \A q \in Proc : q # p => ~InTx(q)'
  BY <1>2, <1>5 DEF InTx
<1>7. SquadKnown(p)'
  BY <1>3, <1>4 DEF SquadKnown, At
<1>8. ASSUME NEW v \in User \ torn' PROVE Served(v)'
  <2>1. HasSquad(v) \/ Blocked(v)
    BY <1>2, <1>5, <1>8 DEF Squads, Served, Cutting
  <2> QED
    BY <1>2, <2>1 DEF Served, HasSquad, Blocked
<1> QED
  BY <1>6, <1>7, <1>8 DEF Squads

(* What a job knows of the squads once it has seen the panel user. *)
LEMMA SeenKeepsSquads ==
    ASSUME Safe, Squads, NEW p \in Proc,
           Read(p) \/ Reread(p) \/ (ReadFails(p) /\ task[p].kind = "limited")
    PROVE  Squads'
<1>0. PICK u \in User : UserOf(p) = u
  BY Inside DEF Read, Reread, ReadFails, At, TxPc
<1>1. /\ task[p].pc \in {"read", "reread"} /\ InTx(p) /\ ~task[p].patched /\ task[p] \in Task
      /\ UNCHANGED <<rows, panel, torn>>
  BY Inside DEF Read, Reread, ReadFails, Edit, At, TxPc, store, world, ghosts, Safe, TypeOK,
                Control, ControlOf
<1>2. \A q \in Proc : q # p => tx'[q] = tx[q]
  BY DEF Read, Reread, ReadFails, Edit, store, Safe, TypeOK
<1>3. PICK seen, pc : /\ task' = [task EXCEPT ![p] = [task[p] EXCEPT !.seen = seen, !.pc = pc]]
                      /\ pc \in {"reread", "skip", "patch"}
                      /\ pc = "patch" => seen = panel[u]
  <2>1. CASE Read(p)
    BY <1>0, <2>1 DEF Read, Safe, TypeOK
  <2>2. CASE Reread(p)
    BY <1>0, <2>2 DEF Reread, Safe, TypeOK
  <2>3. CASE ReadFails(p) /\ task[p].kind = "limited"
    <3>1. [task[p] EXCEPT !.seen = task[p].seen, !.pc = "reread"]
            = [task[p] EXCEPT !.pc = "reread"]
      BY <1>1 DEF Task
    <3>2. task' = [task EXCEPT ![p] = [task[p] EXCEPT !.pc = "reread"]]
      BY <2>3 DEF ReadFails, Goto, Safe, TypeOK
    <3> QED
      BY <3>1, <3>2
  <2> QED
    BY <2>1, <2>2, <2>3
<1> DEFINE t == [task[p] EXCEPT !.seen = seen, !.pc = pc]
<1>4. t.user = task[p].user /\ t.kind = task[p].kind /\ t.pc = pc /\ t.seen = seen
  BY <1>1 DEF Task
<1> HIDE DEF t
<1>5. task'[p] = t /\ UserOf(p)' = u
  BY <1>0, <1>3, <1>4 DEF t, UserOf, Safe, TypeOK
<1>6. \A q \in Proc : ~Cutting(q, u)
  BY <1>1, CuttingAlone DEF Cutting
<1>7. ASSUME u \notin torn' PROVE Served(u) /\ (HasSquad(u) \/ Blocked(u))
  BY <1>1, <1>6, <1>7 DEF Squads, Served
<1>8. ASSUME u \notin torn' PROVE Served(u)'
  BY <1>1, <1>7, <1>8 DEF Served, HasSquad, Blocked
<1>9. ASSUME u \notin torn' PROVE SquadKnown(p)'
  <2>1. pc = "patch" => seen = panel[u]
    BY <1>3
  <2>2. HasSquad(u) \/ Blocked(u)
    BY <1>7, <1>9
  <2> QED
    BY <2>1, <2>2, <1>1, <1>3, <1>4, <1>5 DEF SquadKnown, At, HasSquad, Blocked
<1> QED
  BY <1>0, <1>1, <1>2, <1>5, <1>8, <1>9, InsideKeepsSquads

(* What the PATCH of a job does to the squads. *)
LEMMA ApplySquads ==
    ASSUME Safe, Squads, NEW p \in Proc, NEW u \in User, UserOf(p) = u, At(p, "patch"),
           Apply(p), u \notin torn
    PROVE  /\ task[p].kind \in {"modified", "reset"} => HasSquad(u)'
           /\ task[p].kind = "basic" => HasSquad(u)' \/ Blocked(u)
<1> DEFINE row == tx[p].row
           pu == task[p].seen
           patch == PatchOf(task[p], row)
<1>1. InTx(p) /\ panel[u] \in PanelUser /\ SquadKnown(p)
  BY Inside DEF At, TxPc, Safe, TypeOK, Squads
<1>2. panel'[u] = Patched(panel[u], patch)
  BY DEF Apply, Safe, TypeOK
<1>3. panel'[u].squads = patch.squads
  BY <1>1, <1>2 DEF Patched, PanelUser
<1>4. CASE task[p].kind \in {"modified", "reset"}
  <2>1. patch = RestorePatch(row, pu) \/ patch = ResetPatch(row, pu)
    BY <1>4 DEF PatchOf, BlockKind
  <2>2. Whitelist \in patch.squads
    BY <2>1 DEF RestorePatch, ResetPatch, EnsureSquads
  <2> QED
    BY <1>3, <1>4, <2>2 DEF HasSquad
<1>5. CASE task[p].kind = "basic"
  <2>1. patch = BasicPatch(pu)
    BY <1>5 DEF PatchOf, BlockKind
  <2>2. Whitelist \in pu.squads => Whitelist \in patch.squads
    BY <2>1, SquadAssumption DEF BasicPatch, DropSquads
  <2> QED
    BY <1>1, <1>3, <1>5, <2>2 DEF HasSquad, SquadKnown, At
<1> QED
  BY <1>4, <1>5

(* The transaction of p ends without a commit. *)
LEMMA RollbackKeepsSquads ==
    ASSUME Safe, Squads, NEW p \in Proc,
           \/ ReadFails(p) /\ task[p].kind # "limited"
           \/ RereadFails(p) \/ PatchFails(p) \/ FinishFails(p)
    PROVE  Squads'
<1>1. InTx(p) /\ UserOf(p) \in User /\ task[p].pc \in TxPc /\ task[p].kind \in HandlerKind
  BY Inside DEF ReadFails, RereadFails, PatchFails, FinishFails, At, TxPc
<1>2. PICK u \in User : UserOf(p) = u
  BY <1>1
<1>3. Rollback(p)
  BY DEF ReadFails, RereadFails, PatchFails, FinishFails
<1>4. torn \subseteq torn'
  BY DEF ReadFails, RereadFails, PatchFails, FinishFails, Abandoned
<1>5. ~InTx(p)' /\ \A q \in Proc : q # p => tx'[q] = tx[q]
  BY <1>3 DEF Rollback, InTx, Safe, TypeOK
<1>6. panel' = panel \/ (PatchFails(p) /\ Apply(p) /\ Abandoned(p, TRUE))
  BY DEF ReadFails, RereadFails, PatchFails, FinishFails, world
<1>7. rows' = rows /\ \A v \in User : v # u => panel'[v] = panel[v]
  BY <1>2, <1>3, <1>6 DEF Rollback, Apply, Safe, TypeOK
<1>8. ASSUME u \notin torn' PROVE ~Cutting(p, u)
  <2>1. CASE RereadFails(p) \/ (ReadFails(p) /\ task[p].kind # "limited")
    BY <2>1 DEF ReadFails, RereadFails, At, Cutting, Safe, Control, ControlOf
  <2>2. CASE PatchFails(p)
    BY <1>2, <1>8, <2>2 DEF PatchFails, Abandoned, Cutting, BlockKind
  <2>3. CASE FinishFails(p)
    BY <1>2, <1>8, <2>3
       DEF FinishFails, Abandoned, At, Cutting, BlockKind, Safe, Control, ControlOf
  <2> QED
    BY <2>1, <2>2, <2>3
<1>9. ASSUME u \notin torn' PROVE Served(u)'
  <2>1. (HasSquad(u) \/ Blocked(u)) /\ u \notin torn
    BY <1>1, <1>4, <1>8, <1>9, CuttingAlone DEF Squads, Served
  <2>2. Blocked(u) => Blocked(u)'
    BY <1>7 DEF Blocked
  <2>3. CASE panel' = panel
    BY <2>1, <2>2, <2>3 DEF Served, HasSquad
  <2>4. CASE PatchFails(p) /\ Apply(p) /\ Abandoned(p, TRUE)
    <3>1. At(p, "patch") /\ task[p].kind # "limited"
      BY <2>4, <1>2, <1>9 DEF PatchFails, Abandoned, BlockKind
    <3>2. HasSquad(u)' \/ Blocked(u)
      BY <1>1, <1>2, <2>1, <2>4, <3>1, ApplySquads DEF HandlerKind, Webhook
    <3> QED
      BY <2>2, <3>2 DEF Served
  <2> QED
    BY <1>6, <2>3, <2>4
<1> QED
  BY <1>1, <1>2, <1>4, <1>5, <1>7, <1>9, InsideKeepsSquads

(* The PATCH, its retries and what follows it: the job of p stays where it is. *)
LEMMA StayKeepsSquads ==
    ASSUME Safe, Squads, NEW p \in Proc,
           PatchOk(p) \/ PatchRetries(p) \/ Zero(p) \/ ZeroFails(p)
    PROVE  Squads'
<1>1. /\ task[p].pc \in {"patch", "zero"} /\ task[p] \in Task /\ UserOf(p) \in User
      /\ UNCHANGED <<rows, tx, torn>> /\ InTx(p) /\ task[p].kind \in HandlerKind
  BY Inside DEF PatchOk, PatchRetries, Zero, ZeroFails, At, TxPc, store, world, ghosts,
                Safe, TypeOK
<1>2. PICK u \in User : UserOf(p) = u
  BY <1>1
<1>3. PICK pc, patched, tries :
        /\ task' = [task EXCEPT ![p] =
                      [task[p] EXCEPT !.pc = pc, !.patched = patched, !.tries = tries]]
        /\ pc \in {"patch", "zero", "commit"} /\ (pc = "patch" => task[p].pc = "patch")
        /\ patched \in BOOLEAN /\ (task[p].patched => patched)
        /\ \/ /\ panel'[u].squads = panel[u].squads
              /\ pc # "patch" => task[p].pc = "zero"
           \/ At(p, "patch") /\ Apply(p) /\ patched
        /\ \A v \in User : v # u => panel'[v] = panel[v]
  <2>0. panel \in [User -> PanelUser] /\ panel[u] \in PanelUser /\ task[p].patched \in BOOLEAN
    BY <1>1 DEF Safe, TypeOK, Task
  <2>1. \A v \in User : v # u => panel'[v] = panel[v]
    BY <1>2, <2>0 DEF PatchOk, PatchRetries, Zero, ZeroFails, Apply, world
  <2>2. CASE PatchOk(p)
    <3> DEFINE pc == IF task[p].kind = "reset" THEN "zero" ELSE "commit"
    <3>1. task' = [task EXCEPT ![p] = [task[p] EXCEPT !.patched = TRUE, !.pc = pc]]
      BY <2>2 DEF PatchOk, Safe, TypeOK
    <3>2. [task[p] EXCEPT !.pc = pc, !.patched = TRUE, !.tries = task[p].tries]
            = [task[p] EXCEPT !.patched = TRUE, !.pc = pc]
      BY <1>1 DEF Task
    <3>3. Apply(p) /\ At(p, "patch") /\ pc \in {"zero", "commit"}
      BY <2>2 DEF PatchOk
    <3> HIDE DEF pc
    <3> QED
      BY <2>1, <3>1, <3>2, <3>3
  <2>3. CASE PatchRetries(p)
    <3>1. At(p, "patch")
      BY <2>3 DEF PatchRetries
    <3>2. CASE Apply(p) /\ task' = [task EXCEPT ![p].tries = @ + 1, ![p].patched = TRUE]
      <4>1. [task[p] EXCEPT !.pc = "patch", !.patched = TRUE, !.tries = task[p].tries + 1]
              = [task[p] EXCEPT !.tries = task[p].tries + 1, !.patched = TRUE]
        BY <1>1, <3>1 DEF Task, At
      <4>2. task' = [task EXCEPT ![p] =
                       [task[p] EXCEPT !.tries = task[p].tries + 1, !.patched = TRUE]]
        BY <3>2 DEF Safe, TypeOK
      <4> WITNESS "patch", TRUE, task[p].tries + 1
      <4> QED
        BY <2>1, <3>1, <3>2, <4>1, <4>2 DEF At
    <3>3. CASE task' = [task EXCEPT ![p].tries = @ + 1] /\ UNCHANGED <<panel, wire>>
      <4>1. [task[p] EXCEPT !.pc = "patch", !.patched = task[p].patched,
                            !.tries = task[p].tries + 1]
              = [task[p] EXCEPT !.tries = task[p].tries + 1]
        BY <1>1, <3>1 DEF Task, At
      <4>2. task' = [task EXCEPT ![p] = [task[p] EXCEPT !.tries = task[p].tries + 1]]
        BY <3>3 DEF Safe, TypeOK
      <4> QED
        BY <2>0, <2>1, <3>1, <3>3, <4>1, <4>2 DEF At
    <3> QED
      BY <2>3, <3>2, <3>3 DEF PatchRetries
  <2>4. CASE Zero(p) \/ ZeroFails(p)
    <3>1. task' = [task EXCEPT ![p] = [task[p] EXCEPT !.pc = "commit"]] /\ task[p].pc = "zero"
      BY <2>4 DEF Zero, ZeroFails, Goto, At, Safe, TypeOK
    <3>2. [task[p] EXCEPT !.pc = "commit", !.patched = task[p].patched, !.tries = task[p].tries]
            = [task[p] EXCEPT !.pc = "commit"]
      BY <1>1 DEF Task
    <3>3. panel'[u].squads = panel[u].squads
      BY <1>2, <2>0, <2>4 DEF Zero, ZeroFails, world, PanelUser
    <3> QED
      BY <2>0, <2>1, <3>1, <3>2, <3>3
  <2> QED
    BY <2>2, <2>3, <2>4
<1> DEFINE t == [task[p] EXCEPT !.pc = pc, !.patched = patched, !.tries = tries]
<1>4. /\ t.user = task[p].user /\ t.kind = task[p].kind /\ t.pc = pc
      /\ t.seen = task[p].seen /\ t.patched = patched
  BY <1>1 DEF Task
<1> HIDE DEF t
<1>5. task'[p] = t /\ UserOf(p)' = u /\ InTx(p)'
  BY <1>1, <1>2, <1>3, <1>4 DEF t, UserOf, InTx, Safe, TypeOK
<1>6. ASSUME u \notin torn'
      PROVE  /\ u \notin torn /\ SquadKnown(p) /\ Served(u) /\ (Blocked(u)' <=> Blocked(u))
             /\ \/ HasSquad(u)' <=> HasSquad(u)
                \/ At(p, "patch") /\ Apply(p) /\ patched
  BY <1>1, <1>2, <1>3, <1>6 DEF Squads, Blocked, HasSquad
<1>7. ASSUME u \notin torn' PROVE SquadKnown(p)'
  <2>1. task[p].kind = "basic" /\ pc = "patch" /\ Whitelist \notin task[p].seen.squads =>
           Blocked(u)'
    BY <1>2, <1>3, <1>6, <1>7 DEF SquadKnown, At
  <2>2. task[p].kind \in {"modified", "reset"} /\ pc \in {"zero", "commit"} => HasSquad(u)'
    <3>1. CASE At(p, "patch") /\ Apply(p)
      BY <1>2, <1>6, <1>7, <3>1, ApplySquads
    <3>2. CASE panel'[u].squads = panel[u].squads /\ (pc # "patch" => task[p].pc = "zero")
      BY <1>2, <1>6, <1>7, <3>2 DEF SquadKnown, HasSquad
    <3> QED
      BY <1>3, <3>1, <3>2
  <2> QED
    BY <1>4, <1>5, <2>1, <2>2 DEF SquadKnown, At
<1>8. ASSUME u \notin torn' PROVE Served(u)'
  <2>1. task[p].kind = "limited" /\ patched => Cutting(p, u)'
    BY <1>4, <1>5 DEF Cutting
  <2>2. CASE At(p, "patch") /\ Apply(p) /\ patched
    <3>1. HasSquad(u)' \/ Blocked(u) \/ task[p].kind = "limited"
      BY <1>1, <1>2, <1>6, <1>8, <2>2, ApplySquads DEF HandlerKind, Webhook
    <3> QED
      BY <1>6, <1>8, <2>1, <2>2, <3>1 DEF Served
  <2>3. CASE HasSquad(u)' <=> HasSquad(u)
    <3>1. (\E q \in Proc : Cutting(q, u)) => Cutting(p, u)'
      BY <1>1, <1>3, <2>1, CuttingAlone DEF Cutting
    <3> QED
      BY <1>6, <1>8, <2>3, <3>1 DEF Served
  <2> QED
    BY <1>6, <1>8, <2>2, <2>3
<1> QED
  BY <1>1, <1>2, <1>3, <1>5, <1>7, <1>8, InsideKeepsSquads

(* The commit: a block makes the row blocked, a restore or reset has given the    *)
(* squad back, whatever else leaves it alone.                                     *)
LEMMA FinishKeepsSquads ==
    ASSUME Safe, Squads, NEW p \in Proc, Finish(p)
    PROVE  Squads'
<1> DEFINE r == IF At(p, "commit") THEN RowOf(task[p], tx[p].row) ELSE tx[p].row
<1>1. task[p].pc \in TxPc /\ (At(p, "commit") \/ At(p, "skip"))
  BY DEF Finish, At, TxPc
<1>2. /\ InTx(p) /\ UserOf(p) \in User /\ tx[p].user = UserOf(p) /\ tx[p].row \in Row
      /\ task[p].kind \in HandlerKind /\ ControlOf(p)
  BY <1>1, Inside DEF Safe, Control
<1>3. PICK u \in User : UserOf(p) = u
  BY <1>2
<1>4. r \in Row
  BY <1>1, <1>2, OutcomeType DEF At
<1>5. At(p, "commit") /\ task[p].kind = "limited" => r.wl = "blocked"
  <2> SUFFICES ASSUME At(p, "commit"), task[p].kind = "limited" PROVE r.wl = "blocked"
    OBVIOUS
  <2>1. r = BlockedRow(Preserve(tx[p].row, task[p].seen))
    BY DEF RowOf, BlockKind
  <2>2. Preserve(tx[p].row, task[p].seen) \in Row
    BY <1>2, CaptureType DEF ControlOf, At
  <2> QED
    BY <2>1, <2>2 DEF BlockedRow, Row
<1>6. Blocked(u) /\ (At(p, "skip") \/ task[p].kind = "basic") => r.wl = "blocked"
  <2> SUFFICES ASSUME Blocked(u), At(p, "skip") \/ task[p].kind = "basic"
               PROVE  r.wl = "blocked"
    OBVIOUS
  <2>1. tx[p].row = Loaded(u, DefaultRow)
    BY <1>2, <1>3 DEF ControlOf
  <2>2. tx[p].row.wl = "blocked"
    BY <2>1 DEF Loaded, Blocked
  <2>3. r = tx[p].row \/ r = BasicRow(tx[p].row)
    BY <1>1 DEF RowOf, BlockKind, At
  <2> QED
    BY <1>2, <2>2, <2>3 DEF BasicRow, Row
<1>7. Commit(p, r) /\ UNCHANGED <<panel, torn>>
  BY DEF Finish, world, ghosts
<1> HIDE DEF r
<1>8. /\ rows' = [rows EXCEPT ![u] = r] /\ rows'[u] = r /\ r # Absent
      /\ tx' = [tx EXCEPT ![p] = NoTx]
  BY <1>2, <1>3, <1>4, <1>7, AbsentAssumption DEF Commit, Safe, TypeOK
<1>9. ~InTx(p)' /\ \A q \in Proc : q # p => tx'[q] = tx[q]
  BY <1>8 DEF InTx, Safe, TypeOK
<1>10. ASSUME u \notin torn' PROVE Served(u)'
  <2>1. Served(u) /\ SquadKnown(p)
    BY <1>2, <1>3, <1>7, <1>10 DEF Squads
  <2>2. HasSquad(u)' <=> HasSquad(u)
    BY <1>7 DEF HasSquad
  <2>3. r.wl = "blocked" => Blocked(u)'
    BY <1>8 DEF Blocked
  <2>4. CASE At(p, "commit") /\ task[p].kind = "limited"
    BY <1>5, <2>3, <2>4 DEF Served
  <2>5. CASE At(p, "commit") /\ task[p].kind \in {"modified", "reset"}
    BY <1>3, <2>1, <2>2, <2>5 DEF Served, SquadKnown, At
  <2>6. CASE At(p, "skip") \/ task[p].kind = "basic"
    <3>1. \A q \in Proc : ~Cutting(q, u)
      BY <1>2, <2>6, CuttingAlone DEF Cutting, ControlOf, At
    <3> QED
      BY <1>6, <2>1, <2>2, <2>3, <2>6, <3>1 DEF Served
  <2> QED
    BY <1>1, <1>2, <2>4, <2>5, <2>6 DEF HandlerKind, Webhook
<1>11. \A v \in User : v # u => rows'[v] = rows[v] /\ panel'[v] = panel[v]
  BY <1>7, <1>8 DEF Safe, TypeOK
<1> QED
  BY <1>2, <1>3, <1>7, <1>9, <1>10, <1>11, InsideKeepsSquads

(* Every step. *)
LEMMA SquadsStep ==
    ASSUME Safe, Squads, [Next]_vars
    PROVE  Squads'
<1>1. CASE Crash
  <2>1. /\ tx' = [p \in Proc |-> NoTx] /\ UNCHANGED <<rows, panel>> /\ torn \subseteq torn'
        /\ \A p \in Proc : task[p].patched /\ task[p].kind \in BlockKind => UserOf(p) \in torn'
    BY <1>1 DEF Crash, Reopen, world
  <2>2. \A p \in Proc : ~InTx(p)'
    BY <2>1 DEF InTx
  <2>3. ASSUME NEW u \in User \ torn' PROVE Served(u)'
    <3>1. Served(u) /\ \A p \in Proc : ~Cutting(p, u)
      BY <2>1, <2>3 DEF Squads, Cutting, BlockKind
    <3> QED
      BY <2>1, <3>1 DEF Served, HasSquad, Blocked
  <2> QED
    BY <2>2, <2>3 DEF Squads
<1> QED
  BY <1>1, OthersKeepSquads, BeginKeepsSquads, SeenKeepsSquads, StayKeepsSquads,
     RollbackKeepsSquads, FinishKeepsSquads DEF WorkFails

(* Between jobs a user whose row is not blocked has the whitelist squad at the    *)
(* panel, unless a block of his was torn: no stale snapshot takes it away.        *)
THEOREM ActiveKeepsWhitelist == Spec => []ActiveHasWhitelist
<1>1. Init => Safe /\ Squads
  <2>1. Init => Squads
    <3>0. Init => \A p \in Proc : ~InTx(p)
      BY DEF Init, StoreInit, InTx
    <3> SUFFICES ASSUME Init, NEW u \in User PROVE Served(u)
      BY <3>0 DEF Squads
    <3>1. LegacyRow \in Row /\ LegacyRow.wl = "blocked"
      BY EngineAssumption DEF LegacyRow, DefaultRow, Row, AnyStrategy
    <3>2. CASE u \in Legacy
      <4>1. rows[u] = LegacyRow
        BY <3>2 DEF Init, StoreInit
      <4> QED
        BY <3>1, <4>1, AbsentAssumption DEF Served, Blocked
    <3>3. CASE u \notin Legacy
      <4>1. panel[u].squads = {Basic, Whitelist}
        BY <3>3 DEF Init
      <4> QED
        BY <4>1 DEF Served, HasSquad
    <3> QED
      BY <3>2, <3>3
  <2> QED
    BY <2>1, SafeInit
<1>2. Safe /\ Squads /\ [Next]_vars => (Safe /\ Squads)'
  BY SafeStep, SquadsStep
<1>3. Safe /\ Squads => ActiveHasWhitelist
  <2> SUFFICES ASSUME Safe, Squads, NEW u \in User \ torn, Unlocked(u), ~Blocked(u)
               PROVE  HasSquad(u)
    BY DEF ActiveHasWhitelist, HasSquad
  <2>1. \A p \in Proc : ~Cutting(p, u)
    BY EngineAssumption DEF Cutting, Unlocked, Safe, Control, ControlOf
  <2> QED
    BY <2>1 DEF Squads, Served
<1> QED
  BY <1>1, <1>2, <1>3, PTL DEF Spec

-----------------------------------------------------------------------------
(* Blocked users keep the strategy of their plan *)

\* a row that, if it is blocked, knows the strategy of the plan
PlanRow(row) ==
    /\ row.strategy \in {None, Cycle} /\ row.wl # "grace"
    /\ row.wl = "blocked" => row.strategy = Cycle

\* the panel has the strategy of the plan, or a row does, or is about to
PlanKept(u) ==
    panel[u].strategy = Cycle \/ Blocked(u) \/ \E p \in Proc : Cutting(p, u)

(* What a job knows of the strategy as long as nothing has failed: a block has    *)
(* read it before its PATCH, a restore has it in its row, and past the PATCH of a *)
(* restore or a reset the panel has it again.                                     *)
JobKnowsPlan(p) ==
    /\ PlanRow(tx[p].row)
    /\ ~At(p, "reread")
    /\ At(p, "read") => (tx[p].row.wl = "blocked" <=> Blocked(UserOf(p)))
    /\ task[p].kind = "limited" /\ task[p].pc \in {"patch", "commit"} =>
          tx[p].row.strategy = Cycle
    /\ task[p].kind = "modified" /\ task[p].pc \in {"read", "patch"} =>
          tx[p].row.wl = "blocked"
    /\ task[p].kind \in {"modified", "reset"} /\ task[p].pc \in {"zero", "commit"} =>
          panel[UserOf(p)].strategy = Cycle

Plans ==
    /\ \A p \in Proc : InTx(p) => JobKnowsPlan(p)
    /\ \A u \in User : PlanKept(u) /\ (rows[u] # Absent => PlanRow(rows[u]))

(* A step of the process in the transaction: the other users do not change. *)
LEMMA InsideKeepsPlans ==
    ASSUME Safe, Plans, NEW p \in Proc, InTx(p), NEW u \in User, UserOf(p) = u,
           \A q \in Proc : q # p => tx'[q] = tx[q],
           \A v \in User : v # u => rows'[v] = rows[v] /\ panel'[v] = panel[v],
           PlanKept(u)', rows'[u] # Absent => PlanRow(rows'[u]),
           InTx(p)' => JobKnowsPlan(p)'
    PROVE  Plans'
<1>1. \A q \in Proc : q # p => ~InTx(q)'
  BY Alone DEF InTx
<1>2. ASSUME NEW v \in User, v # u PROVE PlanKept(v)'
  <2>1. PlanKept(v) /\ rows'[v] = rows[v] /\ panel'[v] = panel[v]
    BY <1>2 DEF Plans
  <2>2. \A q \in Proc : ~Cutting(q, v)
    BY <1>2, CuttingAlone DEF Cutting
  <2>3. panel'[v].strategy = Cycle \/ Blocked(v)'
    BY <2>1, <2>2, Zenon DEF PlanKept, Blocked
  <2> QED
    BY <2>3, Zenon DEF PlanKept
<1>3. ASSUME NEW v \in User, v # u, rows'[v] # Absent PROVE PlanRow(rows'[v])
  <2>1. rows'[v] = rows[v]
    BY <1>3
  <2> QED
    BY <1>3, <2>1 DEF Plans
<1>4. \A v \in User : PlanKept(v)'
  BY <1>2
<1>5. \A v \in User : rows'[v] # Absent => PlanRow(rows'[v])
  BY <1>3
<1>6. (\A v \in User : rows[v] # Absent => PlanRow(rows[v]))'
  BY <1>5 DEF PlanRow
<1> QED
  BY <1>1, <1>4, <1>6 DEF Plans

(* A step outside the transactions: no row is blocked or unblocked, no strategy   *)
(* changes at the panel, and rows change only while nobody is in a transaction.   *)
LEMMA OutsideKeepsPlans ==
    ASSUME Safe, Plans, UNCHANGED tx,
           \A q \in Proc : InTx(q) => task'[q] = task[q],
           rows' = rows \/ (\A q \in Proc : ~InTx(q)),
           \A v \in User : /\ Blocked(v) => Blocked(v)'
                           /\ rows'[v] # Absent => PlanRow(rows'[v])
                           /\ panel'[v].strategy = panel[v].strategy
    PROVE  Plans'
<1>1. ASSUME NEW q \in Proc, InTx(q)' PROVE JobKnowsPlan(q)'
  <2>1. InTx(q) /\ UserOf(q) \in User /\ task'[q] = task[q] /\ rows' = rows
    BY <1>1 DEF InTx, Safe, Control, ControlOf, TxPc
  <2>2. JobKnowsPlan(q) /\ UserOf(q)' = UserOf(q)
    BY <2>1 DEF Plans, UserOf
  <2>3. Blocked(UserOf(q))' <=> Blocked(UserOf(q))
    BY <2>1, <2>2 DEF Blocked
  <2>4. panel'[UserOf(q)].strategy = panel[UserOf(q)].strategy
    BY <2>1
  <2> QED
    BY <2>1, <2>2, <2>3, <2>4 DEF JobKnowsPlan, PlanRow, At
<1>2. ASSUME NEW v \in User PROVE PlanKept(v)'
  <2>1. PlanKept(v)
    BY DEF Plans
  <2>2. \A q \in Proc : Cutting(q, v) => Cutting(q, v)'
    BY DEF Cutting, InTx, UserOf
  <2> QED
    BY <2>1, <2>2 DEF PlanKept
<1>3. (\A v \in User : rows[v] # Absent => PlanRow(rows[v]))'
  BY DEF PlanRow
<1> QED
  BY <1>1, <1>2, <1>3 DEF Plans

(* Jobs start, the poller counts, rows are created, the panel and the bot go on. *)
LEMMA OthersKeepPlans ==
    ASSUME Safe, Plans, [Next]_vars,
           ~\E p \in Proc : \/ BeginTx(p) \/ Read(p) \/ Reread(p) \/ PatchOk(p) \/ Zero(p)
                            \/ Finish(p) \/ WorkFails(p),
           ~Crash
    PROVE  Plans'
<1>1. \A v \in User : Blocked(v) => Blocked(v)'
  BY OthersKeepBlocked
<1>2. /\ UNCHANGED tx
      /\ External \/ panel' = panel
      /\ \/ rows' = rows
         \/ \E v \in User : Poll(v) \/ ReadState(v)
  BY DEF Next, Internal, Work, Lock, Repay, Receive, Redeliver,
         Poll, AddUsage, ReadState, Get, External, Consume, PanelLimits, TrafficReset, TopUp, Lose,
         vars, store, world, ghosts
<1>3. \A q \in Proc : InTx(q) => task'[q] = task[q]
  <2>1. \/ task' = task
        \/ \E p \in Proc : \E t : /\ task' = [task EXCEPT ![p] = t]
                                   /\ task[p].pc \in {"idle", "lock"}
    BY EngineAssumption
       DEF Next, Internal, Work, Lock, Goto, Repay, Receive,
           Redeliver, Poll, ReadState, External, Consume, PanelLimits, TrafficReset, TopUp, Lose,
           vars, At
  <2> QED
    BY <2>1 DEF Safe, TypeOK, Control, ControlOf, TxPc
<1>4. ASSUME NEW v \in User PROVE panel'[v].strategy = panel[v].strategy
  <2>1. CASE External
    <3>1. panel \in [User -> PanelUser]
      BY DEF Safe, TypeOK
    <3>2. PICK w \in User :
            \/ Consume(w) \/ PanelLimits(w) \/ TrafficReset(w)
            \/ \E l \in Limits : TopUp(w, l)
            \/ \E k \in Webhook : Lose(w, k)
      BY <2>1 DEF External
    <3>3. CASE Consume(w) \/ PanelLimits(w) \/ TrafficReset(w)
      BY <3>1, <3>3 DEF Consume, PanelLimits, TrafficReset, PanelUser
    <3>4. CASE \E l \in Limits : TopUp(w, l)
      <4>1. PICK l, squads : panel' = [panel EXCEPT ![w].limit = l, ![w].squads = squads,
                                                    ![w].status = "ACTIVE"]
        BY <3>4 DEF TopUp
      <4> QED
        BY <3>1, <4>1 DEF PanelUser
    <3>5. CASE \E k \in Webhook : Lose(w, k)
      BY <3>5 DEF Lose
    <3> QED
      BY <3>2, <3>3, <3>4, <3>5
  <2> QED
    BY <1>2, <2>1
<1>5. rows' = rows \/ \A q \in Proc : ~InTx(q)
  <2>1. CASE \E v \in User : Poll(v) \/ ReadState(v)
    BY <2>1, StoreAssumption DEF Poll, AddUsage, ReadState, Get, Safe, Control, ControlOf
  <2> QED
    BY <1>2, <2>1
<1>6. ASSUME NEW u \in User, rows'[u] # Absent PROVE PlanRow(rows'[u])
  <2>0. rows[u] # Absent => PlanRow(rows[u])
    BY DEF Plans
  <2>1. CASE rows' = rows
    BY <1>6, <2>0, <2>1
  <2>2. ASSUME NEW v \in User, Poll(v) PROVE PlanRow(rows'[u])
    <3>1. PICK over \in BOOLEAN : AddUsage(v, [rows[v] EXCEPT !.over = @ \/ over])
      BY <2>2 DEF Poll
    <3> DEFINE r == [rows[v] EXCEPT !.over = @ \/ over]
    <3>2. rows' = IF rows[v] = Absent THEN rows ELSE [rows EXCEPT ![v] = r]
      BY <3>1 DEF AddUsage
    <3>3. rows[v] # Absent => r.wl = rows[v].wl /\ r.strategy = rows[v].strategy
      BY DEF Safe, TypeOK, Row
    <3> HIDE DEF r
    <3>4. CASE rows'[u] = rows[u]
      BY <1>6, <2>0, <3>4
    <3>5. CASE rows'[u] = r /\ u = v /\ rows[u] # Absent
      BY <2>0, <3>3, <3>5 DEF PlanRow
    <3> QED
      BY <3>2, <3>4, <3>5 DEF Safe, TypeOK
  <2>3. ASSUME NEW v \in User, ReadState(v) PROVE PlanRow(rows'[u])
    <3>1. PlanRow(DefaultRow)
      BY DEF PlanRow, DefaultRow
    <3>2. rows'[u] \in {rows[u], DefaultRow}
      BY <2>3 DEF ReadState, Get, Loaded, Safe, TypeOK
    <3> QED
      BY <1>6, <2>0, <3>1, <3>2
  <2> QED
    BY <1>2, <2>1, <2>2, <2>3
<1> QED
  BY <1>1, <1>2, <1>3, <1>4, <1>5, <1>6, OutsideKeepsPlans

\* a user nobody is cutting
LEMMA NobodyCuts ==
    ASSUME Safe, Plans, NEW p \in Proc, InTx(p), NEW u \in User, UserOf(p) = u, ~Cutting(p, u)
    PROVE  panel[u].strategy = Cycle \/ Blocked(u)
BY CuttingAlone DEF Plans, PlanKept

(* A job that has begun has the row as it was committed. *)
LEMMA BeginKeepsPlans ==
    ASSUME Safe, Plans, NEW p \in Proc, BeginTx(p)
    PROVE  Plans'
<1> DEFINE row == Loaded(UserOf(p), DefaultRow)
           pc == IF NothingToDo(task[p].kind, row) THEN "skip"
                 ELSE IF task[p].kind \in {"restore", "repair"} THEN "patch" ELSE "read"
<1>1. /\ UserOf(p) \in User /\ task[p].kind \in HandlerKind /\ task[p] \in Task
  BY DEF BeginTx, At, Safe, TypeOK, Control, ControlOf
<1>2. PICK u \in User : UserOf(p) = u
  BY <1>1
<1>3. /\ conn = Free /\ UNCHANGED <<rows, panel>>
      /\ tx' = [tx EXCEPT ![p] = [user |-> u, row |-> row]]
      /\ task' = [task EXCEPT ![p] = [task[p] EXCEPT !.pc = pc]]
  BY <1>1, <1>2 DEF BeginTx, Begin, Goto, world, Safe, TypeOK
<1>4. PlanRow(row) /\ (row.wl = "blocked" <=> Blocked(u))
  <2>1. PlanRow(DefaultRow) /\ DefaultRow.wl = "active"
    BY DEF PlanRow, DefaultRow
  <2>2. row = IF rows[u] = Absent THEN DefaultRow ELSE rows[u]
    BY <1>2 DEF Loaded
  <2>3. rows[u] # Absent => PlanRow(rows[u])
    BY DEF Plans
  <2> HIDE DEF row
  <2> QED
    BY <2>1, <2>2, <2>3 DEF Blocked
<1>5. /\ pc \in {"skip", "read"}
      /\ task[p].kind = "modified" /\ pc = "read" => row.wl = "blocked"
  <2>1. task[p].kind \notin {"restore", "repair"}
    BY <1>1 DEF HandlerKind, Webhook
  <2>2. row.wl # "grace"
    BY <1>4 DEF PlanRow
  <2> HIDE DEF row
  <2> QED
    BY <2>1, <2>2 DEF NothingToDo, CutOff
<1> HIDE DEF row, pc
<1>6. task'[p].pc = pc /\ task'[p].kind = task[p].kind /\ UserOf(p)' = u /\ tx'[p].row = row
  BY <1>1, <1>2, <1>3 DEF Safe, TypeOK, Task, UserOf
<1>7. \A q \in Proc : ~InTx(q)
  BY <1>3, StoreAssumption DEF Safe, Control, ControlOf
<1>8. \A q \in Proc : q # p => ~InTx(q)'
  BY <1>3, <1>7 DEF InTx
<1>9. JobKnowsPlan(p)'
  <2>1. PlanRow(tx[p].row)'
    BY <1>4, <1>6 DEF PlanRow
  <2>2. (row.wl = "blocked" <=> Blocked(UserOf(p))')
    BY <1>3, <1>4, <1>6 DEF Blocked
  <2> QED
    BY <1>5, <1>6, <2>1, <2>2 DEF JobKnowsPlan, At
<1>10. ASSUME NEW v \in User PROVE PlanKept(v)'
  <2>1. panel[v].strategy = Cycle \/ Blocked(v)
    BY <1>7 DEF Plans, PlanKept, Cutting
  <2> QED
    BY <1>3, <2>1 DEF PlanKept, Blocked
<1>11. (\A v \in User : rows[v] # Absent => PlanRow(rows[v]))'
  BY <1>3 DEF Plans, PlanRow
<1> QED
  BY <1>8, <1>9, <1>10, <1>11 DEF Plans

(* A block captures the strategy of the plan, the other jobs leave their row. *)
LEMMA ReadKeepsPlans ==
    ASSUME Safe, Plans, NEW p \in Proc, Read(p)
    PROVE  Plans'
<1>0. PICK u \in User : UserOf(p) = u
  BY Inside DEF Read, At, TxPc
<1> DEFINE old == tx[p].row
           row == IF task[p].kind = "limited" /\ old.wl = "active"
                  THEN Capture(old, panel[u]) ELSE old
           pc == IF task[p].kind = "modified" /\ ~ShouldRestoreWhitelist(row, panel[u])
                 THEN "skip" ELSE "patch"
           t == [task[p] EXCEPT !.seen = panel[u], !.pc = pc]
<1>1. /\ At(p, "read") /\ InTx(p) /\ ~task[p].patched /\ task[p] \in Task
      /\ old \in Row /\ panel[u] \in PanelUser /\ task[p].kind \in HandlerKind
      /\ UNCHANGED <<rows, panel>> /\ ControlOf(p)
  BY Inside DEF Read, Edit, At, TxPc, world, Safe, TypeOK, Control, ControlOf
<1>2. tx' = [tx EXCEPT ![p].row = row] /\ task' = [task EXCEPT ![p] = t]
  BY <1>0 DEF Read, Edit, Safe, TypeOK
<1>3. JobKnowsPlan(p) /\ panel[u] # None
  BY <1>1, AbsentAssumption DEF Plans
<1>4. panel[u].strategy = Cycle \/ Blocked(u)
  BY <1>0, <1>1, NobodyCuts DEF Cutting
<1>5. PlanRow(row) /\ (row.wl = old.wl) /\ (task[p].kind = "limited" => row.strategy = Cycle)
  <2>1. PlanRow(old) /\ (old.wl = "blocked" <=> Blocked(u))
    BY <1>0, <1>1, <1>3 DEF JobKnowsPlan
  <2>2. CASE task[p].kind = "limited" /\ old.wl = "active"
    <3>1. panel[u].strategy = Cycle
      BY <1>4, <2>1, <2>2
    <3>2. row = [old EXCEPT !.orig = IF panel[u].limit > 0 THEN panel[u].limit ELSE @,
                            !.strategy = panel[u].strategy]
      BY <1>3, <2>2 DEF Capture
    <3>3. row.wl = old.wl /\ row.strategy = Cycle
      BY <1>1, <3>1, <3>2 DEF Row
    <3> QED
      BY <2>2, <3>3 DEF PlanRow
  <2>3. CASE task[p].kind = "limited" /\ old.wl # "active"
    <3>1. old.wl = "blocked" /\ row = old
      BY <1>1, <2>1, <2>3 DEF PlanRow, Row
    <3> QED
      BY <2>1, <3>1 DEF PlanRow
  <2>4. CASE task[p].kind # "limited"
    BY <2>1, <2>4
  <2> QED
    BY <2>2, <2>3, <2>4
<1>6. t.kind = task[p].kind /\ t.pc = pc /\ t.user = task[p].user
  BY <1>1 DEF Task
<1>7. pc \in {"skip", "patch"}
  OBVIOUS
<1> HIDE DEF row, pc, t
<1>8. tx'[p].row = row /\ task'[p] = t /\ UserOf(p)' = u
      /\ \A q \in Proc : q # p => tx'[q] = tx[q]
  <2>1. tx[p] \in [user : User, row : Row]
    BY <1>1, Inside DEF At, TxPc
  <2> QED
    BY <1>0, <1>2, <1>6, <2>1 DEF Safe, TypeOK, UserOf
<1>9. JobKnowsPlan(p)'
  <2>1. PlanRow(tx[p].row)'
    BY <1>5, <1>8 DEF PlanRow
  <2>2. task[p].kind = "modified" => row.wl = "blocked"
    BY <1>1, <1>3, <1>5 DEF JobKnowsPlan, At
  <2> QED
    BY <1>5, <1>6, <1>7, <1>8, <2>1, <2>2 DEF JobKnowsPlan, At
<1>10. PlanKept(u)'
  BY <1>1, <1>4 DEF PlanKept, Blocked
<1>11. rows'[u] # Absent => PlanRow(rows'[u])
  <2>1. rows[u] # Absent => PlanRow(rows[u])
    BY DEF Plans
  <2> QED
    BY <1>1, <2>1
<1> QED
  BY <1>0, <1>1, <1>8, <1>9, <1>10, <1>11, InsideKeepsPlans

(* The PATCH: a block is about to be committed, a restore or a reset gives the    *)
(* panel the strategy of the plan.                                                *)
LEMMA PatchKeepsPlans ==
    ASSUME Safe, Plans, NEW p \in Proc, PatchOk(p)
    PROVE  Plans'
<1>0. PICK u \in User : UserOf(p) = u
  BY Inside DEF PatchOk, At, TxPc
<1> DEFINE row == tx[p].row
           pu == task[p].seen
           patch == PatchOf(task[p], row)
           pc == IF task[p].kind = "reset" THEN "zero" ELSE "commit"
           t == [task[p] EXCEPT !.patched = TRUE, !.pc = pc]
<1>1. /\ At(p, "patch") /\ InTx(p) /\ task[p] \in Task /\ row \in Row
      /\ panel[u] \in PanelUser /\ task[p].kind \in HandlerKind /\ ControlOf(p)
      /\ UNCHANGED <<rows, tx>>
  BY Inside DEF PatchOk, At, TxPc, store, Safe, TypeOK, Control
<1>2. /\ panel' = [panel EXCEPT ![u] = Patched(panel[u], patch)]
      /\ task' = [task EXCEPT ![p] = t]
  BY <1>0 DEF PatchOk, Apply, Safe, TypeOK
<1>3. JobKnowsPlan(p)
  BY <1>1 DEF Plans
<1>4. /\ panel'[u].strategy = IF patch.strategy = None THEN panel[u].strategy ELSE patch.strategy
      /\ \A v \in User : v # u => panel'[v] = panel[v]
  BY <1>1, <1>2 DEF Patched, PanelUser, Safe, TypeOK
<1>5. t.kind = task[p].kind /\ t.pc = pc /\ t.user = task[p].user /\ t.patched
  BY <1>1 DEF Task
<1> HIDE DEF t, patch
<1>6. task'[p] = t /\ UserOf(p)' = u /\ InTx(p)'
  BY <1>0, <1>1, <1>2, <1>5 DEF Safe, TypeOK, UserOf, InTx
<1>7. Cycle # None
  BY EngineAssumption, NoneAssumption
<1>8. task[p].kind \in {"modified", "reset"} => panel'[u].strategy = Cycle
  <2>1. CASE task[p].kind = "modified"
    <3>1. patch = RestorePatch(row, pu)
      BY <2>1 DEF patch, PatchOf, BlockKind
    <3>2. patch.strategy = row.strategy
      BY <3>1 DEF RestorePatch
    <3>3. row.strategy = Cycle
      BY <1>1, <1>3, <2>1 DEF JobKnowsPlan, PlanRow, At
    <3> QED
      BY <1>4, <1>7, <3>2, <3>3
  <2>2. CASE task[p].kind = "reset"
    <3>1. patch = ResetPatch(row, pu)
      BY <2>2 DEF patch, PatchOf, BlockKind
    <3>2. patch.strategy = row.strategy
      BY <3>1 DEF ResetPatch
    <3>3. row.strategy = None => ~Blocked(u)
      <4>1. row = Loaded(u, DefaultRow)
        BY <1>0, <1>1, <2>2 DEF ControlOf
      <4> QED
        BY <1>3, <1>7, <4>1 DEF Loaded, Blocked, JobKnowsPlan, PlanRow
    <3>4. panel[u].strategy = Cycle \/ Blocked(u)
      BY <1>0, <1>1, <2>2, NobodyCuts DEF Cutting
    <3>5. row.strategy \in {None, Cycle}
      BY <1>3 DEF JobKnowsPlan, PlanRow
    <3> QED
      BY <1>4, <3>2, <3>3, <3>4, <3>5
  <2> QED
    BY <2>1, <2>2
<1>9. JobKnowsPlan(p)'
  <2>1. PlanRow(tx[p].row)'
    BY <1>1, <1>3 DEF JobKnowsPlan, PlanRow
  <2>2. pc \in {"zero", "commit"} /\ (task[p].kind = "limited" => pc = "commit")
    OBVIOUS
  <2>3. task[p].kind = "limited" => tx'[p].row.strategy = Cycle
    BY <1>1, <1>3 DEF JobKnowsPlan, At
  <2> HIDE DEF pc
  <2> QED
    BY <1>5, <1>6, <1>8, <2>1, <2>2, <2>3 DEF JobKnowsPlan, At
<1>10. PlanKept(u)'
  <2>1. CASE task[p].kind = "limited"
    BY <1>5, <1>6, <2>1 DEF PlanKept, Cutting
  <2>2. CASE task[p].kind \in {"modified", "reset"}
    BY <1>8, <2>2 DEF PlanKept
  <2>3. CASE task[p].kind = "basic"
    <3>1. patch = BasicPatch(pu)
      BY <2>3 DEF patch, PatchOf, BlockKind
    <3>2. patch.strategy = None
      BY <3>1 DEF BasicPatch
    <3>3. panel[u].strategy = Cycle \/ Blocked(u)
      BY <1>0, <1>1, <2>3, NobodyCuts DEF Cutting
    <3> QED
      BY <1>1, <1>4, <3>2, <3>3 DEF PlanKept, Blocked
  <2> QED
    BY <1>1, <2>1, <2>2, <2>3 DEF HandlerKind, Webhook
<1>11. rows'[u] # Absent => PlanRow(rows'[u])
  <2>1. rows[u] # Absent => PlanRow(rows[u])
    BY DEF Plans
  <2> QED
    BY <1>1, <2>1
<1> QED
  BY <1>0, <1>1, <1>4, <1>6, <1>9, <1>10, <1>11, InsideKeepsPlans

(* reset-traffic does not touch the strategy. *)
LEMMA ZeroKeepsPlans ==
    ASSUME Safe, Plans, NEW p \in Proc, Zero(p)
    PROVE  Plans'
<1>0. PICK u \in User : UserOf(p) = u
  BY Inside DEF Zero, At, TxPc
<1> DEFINE t == [task[p] EXCEPT !.pc = "commit"]
<1>1. /\ At(p, "zero") /\ InTx(p) /\ task[p] \in Task /\ task[p].kind = "reset"
      /\ panel[u] \in PanelUser /\ UNCHANGED <<rows, tx>>
  BY Inside DEF Zero, At, TxPc, store, Safe, TypeOK, Control, ControlOf
<1>2. panel' = [panel EXCEPT ![u].used = 0] /\ task' = [task EXCEPT ![p] = t]
  BY <1>0 DEF Zero, Goto, Safe, TypeOK
<1>3. JobKnowsPlan(p)
  BY <1>1 DEF Plans
<1>4. panel'[u].strategy = panel[u].strategy /\ \A v \in User : v # u => panel'[v] = panel[v]
  BY <1>1, <1>2 DEF PanelUser, Safe, TypeOK
<1>5. t.kind = "reset" /\ t.pc = "commit" /\ t.user = task[p].user
  BY <1>1 DEF Task
<1> HIDE DEF t
<1>6. task'[p] = t /\ UserOf(p)' = u /\ InTx(p)'
  BY <1>0, <1>1, <1>2, <1>5 DEF Safe, TypeOK, UserOf, InTx
<1>7. panel'[u].strategy = Cycle
  BY <1>0, <1>1, <1>3, <1>4 DEF JobKnowsPlan, At
<1>8. PlanRow(tx[p].row)'
  BY <1>1, <1>3 DEF JobKnowsPlan, PlanRow
<1>9. JobKnowsPlan(p)'
  BY <1>5, <1>6, <1>7, <1>8 DEF JobKnowsPlan, At
<1>10. PlanKept(u)'
  BY <1>7 DEF PlanKept
<1>11. rows'[u] # Absent => PlanRow(rows'[u])
  <2>1. rows[u] # Absent => PlanRow(rows[u])
    BY DEF Plans
  <2> QED
    BY <1>1, <2>1
<1> QED
  BY <1>0, <1>1, <1>4, <1>6, <1>9, <1>10, <1>11, InsideKeepsPlans

(* The commit: a block stores the strategy with the mark, whatever unblocks has   *)
(* given it to the panel.                                                         *)
LEMMA FinishKeepsPlans ==
    ASSUME Safe, Plans, NEW p \in Proc, Finish(p)
    PROVE  Plans'
<1> DEFINE old == tx[p].row
           r == IF At(p, "commit") THEN RowOf(task[p], old) ELSE old
<1>1. task[p].pc \in TxPc /\ (At(p, "commit") \/ At(p, "skip"))
  BY DEF Finish, At, TxPc
<1>2. /\ InTx(p) /\ UserOf(p) \in User /\ tx[p].user = UserOf(p) /\ old \in Row
      /\ task[p].kind \in HandlerKind /\ ControlOf(p) /\ JobKnowsPlan(p)
  BY <1>1, Inside DEF Safe, Control, Plans
<1>3. PICK u \in User : UserOf(p) = u
  BY <1>2
<1>4. r \in Row
  BY <1>1, <1>2, OutcomeType DEF At
<1>5. UNCHANGED panel /\ Commit(p, r)
  BY DEF Finish, world
<1>6. PlanRow(old)
  BY <1>2 DEF JobKnowsPlan
<1>7. PlanRow(r) /\ (r.wl = "blocked" \/ panel[u].strategy = Cycle)
  <2>1. CASE At(p, "commit") /\ task[p].kind = "limited"
    <3>1. r = BlockedRow(Preserve(old, task[p].seen)) /\ old.strategy = Cycle /\ Cycle # None
      BY <1>2, <2>1, EngineAssumption, NoneAssumption DEF RowOf, BlockKind, JobKnowsPlan, At
    <3>2. Preserve(old, task[p].seen) \in Row
      BY <1>2, <2>1, CaptureType DEF ControlOf, At
    <3>3. Preserve(old, task[p].seen).strategy = Cycle
      BY <1>2, <3>1 DEF Preserve, Row
    <3>4. r.wl = "blocked" /\ r.strategy = Cycle
      BY <3>1, <3>2, <3>3 DEF BlockedRow, Row
    <3> QED
      BY <3>4 DEF PlanRow
  <2>2. CASE At(p, "commit") /\ task[p].kind \in {"modified", "reset"}
    <3>1. r = RestoredRow(old) \/ r = ResetRow(old)
      BY <2>2 DEF RowOf, BlockKind
    <3>2. r.wl = "active" /\ r.strategy = old.strategy
      BY <1>2, <3>1 DEF RestoredRow, ResetRow, Row
    <3>3. panel[u].strategy = Cycle
      BY <1>2, <1>3, <2>2 DEF JobKnowsPlan, At
    <3> QED
      BY <1>6, <3>2, <3>3 DEF PlanRow
  <2>3. CASE At(p, "skip") \/ task[p].kind = "basic"
    <3>1. r = old \/ r = BasicRow(old)
      BY <1>1, <2>3 DEF RowOf, BlockKind, At
    <3>2. r.wl = old.wl /\ r.strategy = old.strategy
      BY <1>2, <3>1 DEF BasicRow, Row
    <3>3. task[p].kind # "limited"
      BY <1>2, <2>3 DEF ControlOf
    <3>4. old = Loaded(u, DefaultRow) /\ (panel[u].strategy = Cycle \/ Blocked(u))
      BY <1>2, <1>3, <3>3, NobodyCuts DEF ControlOf, Cutting
    <3>5. Blocked(u) => old.wl = "blocked"
      BY <3>4 DEF Loaded, Blocked
    <3> QED
      BY <1>6, <3>2, <3>4, <3>5 DEF PlanRow
  <2> QED
    BY <1>1, <1>2, <2>1, <2>2, <2>3 DEF HandlerKind, Webhook
<1> HIDE DEF r
<1>8. /\ rows' = [rows EXCEPT ![u] = r] /\ rows'[u] = r /\ r # Absent
      /\ tx' = [tx EXCEPT ![p] = NoTx]
  BY <1>2, <1>3, <1>4, <1>5, AbsentAssumption DEF Commit, Safe, TypeOK
<1>9. ~InTx(p)' /\ \A q \in Proc : q # p => tx'[q] = tx[q]
  BY <1>8 DEF InTx, Safe, TypeOK
<1>10. PlanKept(u)'
  BY <1>5, <1>7, <1>8 DEF PlanKept, Blocked
<1>11. \A v \in User : v # u => rows'[v] = rows[v] /\ panel'[v] = panel[v]
  BY <1>5, <1>8 DEF Safe, TypeOK
<1> QED
  BY <1>2, <1>3, <1>7, <1>8, <1>9, <1>10, <1>11, InsideKeepsPlans

(* Every step of a run without faults. *)
LEMMA PlansStep ==
    ASSUME Safe, faults = 0 => Plans, [Next]_vars, faults' = 0
    PROVE  Plans'
<1>1. faults = 0
  <2>0. faults \in Nat
    BY DEF Safe, TypeOK
  <2>1. ASSUME NEW p \in Proc, Work(p) PROVE faults' = faults
    BY <2>1 DEF Work, Lock, BeginTx, Read, Reread, PatchOk, Zero, Finish, ghosts
  <2>2. ASSUME NEW p \in Proc, WorkFails(p) PROVE faults' = faults \/ Fault
    BY <2>2 DEF WorkFails, BeginFails, ReadFails, RereadFails, PatchRetries, PatchFails,
                ZeroFails, FinishFails
  <2>3. ASSUME NEW p \in Proc, NEW u \in User,
               Repay(p, u) \/ \E k \in Webhook : Receive(p, u, k) \/ Redeliver(p, u, k)
        PROVE  faults' = faults \/ Fault
    BY <2>3 DEF Repay, Receive, Redeliver, ghosts
  <2>4. ASSUME NEW u \in User, Poll(u) \/ ReadState(u) PROVE faults' = faults
    BY <2>4 DEF Poll, ReadState, ghosts
  <2>5. CASE Crash
    BY <2>0, <2>5 DEF Crash, Fault
  <2>6. ASSUME External PROVE faults' = faults \/ Fault
    BY <2>6 DEF External, Consume, PanelLimits, TrafficReset, TopUp, Lose, ghosts
  <2>7. CASE UNCHANGED vars
    BY <2>7 DEF vars, ghosts
  <2>8. faults' = faults \/ faults' = faults + 1
    BY <2>1, <2>2, <2>3, <2>4, <2>5, <2>6, <2>7 DEF Next, Internal, Crash, Fault
  <2> QED
    BY <2>0, <2>8
<1>2. Plans /\ ~Fault
  BY <1>1 DEF Fault
<1>3. ~Crash /\ \A p \in Proc : ~WorkFails(p)
  <2>1. ASSUME NEW p \in Proc PROVE ~RereadFails(p)
    <3>1. At(p, "reread") => InTx(p)
      BY Inside DEF At, TxPc
    <3> QED
      BY <1>2, <3>1 DEF RereadFails, Plans, JobKnowsPlan
  <2> QED
    BY <1>2, <2>1 DEF Crash, WorkFails, BeginFails, ReadFails, PatchRetries, PatchFails,
                      ZeroFails, FinishFails
<1>4. \A p \in Proc : ~Reread(p)
  <2>1. \A p \in Proc : At(p, "reread") => InTx(p)
    BY Inside DEF At, TxPc
  <2> QED
    BY <1>2, <2>1 DEF Reread, Plans, JobKnowsPlan
<1> QED
  BY <1>2, <1>3, <1>4, OthersKeepPlans, BeginKeepsPlans, ReadKeepsPlans, PatchKeepsPlans,
     ZeroKeepsPlans, FinishKeepsPlans

(* As long as nothing has failed, the row of a blocked user holds the strategy of *)
(* his plan, however blocks, purchases, resets and basic cuts interleave.         *)
THEOREM BlockedKeepsStrategy == Spec => []StrategyRemembered
<1> DEFINE Known == faults = 0 => Plans
<1>1. Init => Safe /\ Known
  <2> SUFFICES ASSUME Init PROVE Plans
    BY SafeInit
  <2>1. \A p \in Proc : ~InTx(p)
    BY DEF Init, StoreInit, InTx
  <2>2. ASSUME NEW u \in User
        PROVE  PlanKept(u) /\ (rows[u] # Absent => PlanRow(rows[u]))
    <3>1. LegacyRow \in Row /\ LegacyRow.wl = "blocked" /\ LegacyRow.strategy = Cycle
      BY EngineAssumption DEF LegacyRow, DefaultRow, Row, AnyStrategy
    <3>2. CASE u \in Legacy
      <4>1. rows[u] = LegacyRow
        BY <3>2 DEF Init, StoreInit
      <4> QED
        BY <3>1, <4>1, AbsentAssumption DEF PlanKept, Blocked, PlanRow
    <3>3. CASE u \notin Legacy
      <4>1. panel[u].strategy = Cycle /\ rows[u] = Absent
        BY <3>3 DEF Init, StoreInit
      <4> QED
        BY <4>1 DEF PlanKept
    <3> QED
      BY <3>2, <3>3
  <2> QED
    BY <2>1, <2>2 DEF Plans
<1>2. Safe /\ Known /\ [Next]_vars => (Safe /\ Known)'
  BY SafeStep, PlansStep
<1>3. Known => StrategyRemembered
  BY DEF StrategyRemembered, Plans, PlanRow, Blocked
<1> QED
  BY <1>1, <1>2, <1>3, PTL DEF Spec

-----------------------------------------------------------------------------
(* Served as paid *)

\* what the row takes for the paid limit has been paid
Within(row, u) == row.orig # None => row.orig <= paid[u]

\* so has the panel's limit, but for a legacy user's, who is cut off
LimitPaid(u) ==
    \/ panel[u].limit <= paid[u]
    \/ panel[u].limit >= Ceiling /\ Blocked(u) /\ ~HasSquad(u)

(* What a job on a user that is not torn knows: its copy of the row and the panel *)
(* user it saw hold limits that were paid; past the PATCH of a restore or a reset *)
(* so does the panel; a basic cut gives nobody the squad.                         *)
JobPays(p, u) ==
    /\ Within(tx[p].row, u)
    /\ task[p].kind = "limited" => (tx[p].row.wl = "blocked" <=> Blocked(u))
    /\ task[p].pc \in {"patch", "zero", "commit"} =>
          \/ task[p].seen.limit <= paid[u]
          \/ task[p].seen.limit >= Ceiling /\ (task[p].kind = "limited" => Blocked(u))
    /\ task[p].kind \in {"modified", "reset"} /\ task[p].pc \in {"zero", "commit"} =>
          panel[u].limit <= paid[u]
    /\ task[p].kind = "basic" /\ At(p, "patch") /\ Whitelist \in task[p].seen.squads =>
          HasSquad(u)

UserPays(u) ==
    /\ rows[u] # Absent => Within(rows[u], u)
    /\ LimitPaid(u)

Paying ==
    /\ \A p \in Proc : InTx(p) /\ UserOf(p) \notin torn => JobPays(p, UserOf(p))
    /\ \A u \in User \ torn : UserPays(u)

(* A step of the process in the transaction: the other users do not change.       *)
LEMMA InsideKeepsPaying ==
    ASSUME Safe, Paying, NEW p \in Proc, InTx(p), NEW u \in User, UserOf(p) = u,
           torn \subseteq torn', paid' = paid,
           \A q \in Proc : q # p => tx'[q] = tx[q] /\ task'[q] = task[q],
           \A v \in User : v # u => rows'[v] = rows[v] /\ panel'[v] = panel[v],
           u \notin torn' => UserPays(u)',
           InTx(p)' => UserOf(p)' = u,
           InTx(p)' /\ u \notin torn' => JobPays(p, u)'
    PROVE  Paying'
<1>1. \A q \in Proc : q # p => ~InTx(q)'
  BY Alone DEF InTx
<1>2. ASSUME NEW q \in Proc, InTx(q)', UserOf(q)' \notin torn'
      PROVE  JobPays(q, UserOf(q))'
  <2>1. q = p /\ UserOf(p)' = u
    BY <1>1, <1>2
  <2>2. JobPays(p, u)'
    BY <1>2, <2>1
  <2> QED
    BY <2>1, <2>2
<1>3. ASSUME NEW v \in User \ torn', v # u PROVE UserPays(v)'
  <2>1. UserPays(v) /\ rows'[v] = rows[v] /\ panel'[v] = panel[v]
    BY <1>3 DEF Paying
  <2> QED
    BY <2>1 DEF UserPays, LimitPaid, Within, Blocked, HasSquad
<1>4. \A v \in User \ torn' : UserPays(v)'
  BY <1>3
<1> QED
  BY <1>2, <1>4 DEF Paying

(* A step outside the transactions: of every row the paid limit and the status of *)
(* the whitelist are kept, and of a panel user the limit and the squads, or the   *)
(* bot has sold more.                                                             *)
LEMMA OutsideKeepsPaying ==
    ASSUME Safe, Paying, UNCHANGED <<tx, torn>>, paid' \in [User -> Nat],
           \A q \in Proc : InTx(q) => task'[q] = task[q],
           \A v \in User : /\ rows[v] = Absent => rows'[v] \in {Absent, DefaultRow}
                           /\ rows[v] # Absent =>
                                /\ rows'[v] # Absent
                                /\ rows'[v].orig = rows[v].orig /\ rows'[v].wl = rows[v].wl,
           \A v \in User : \/ /\ panel'[v].limit = panel[v].limit
                              /\ panel'[v].squads = panel[v].squads
                              /\ paid'[v] = paid[v]
                           \/ /\ paid'[v] > paid[v]
                              /\ panel'[v].limit = paid'[v]
                              /\ Whitelist \in panel'[v].squads
    PROVE  Paying'
<1>0. /\ paid \in [User -> Nat] /\ Ceiling \in Nat
      /\ \A v \in User : panel[v] \in PanelUser /\ panel[v].limit \in Nat
      /\ \A v \in User : rows[v] = Absent \/ rows[v] \in Row
  BY CeilingAssumption DEF Safe, TypeOK, PanelUser
<1>1. \A v \in User : Blocked(v)' <=> Blocked(v)
  BY DEF Blocked, DefaultRow
<1>2. ASSUME NEW q \in Proc, InTx(q)', UserOf(q)' \notin torn'
      PROVE  JobPays(q, UserOf(q))'
  <2>1. InTx(q) /\ UserOf(q) \in User /\ task'[q] = task[q] /\ tx'[q] = tx[q]
        /\ task[q].pc \in TxPc
    BY <1>2 DEF InTx, Safe, Control, ControlOf, TxPc
  <2>2. PICK v \in User : UserOf(q) = v
    BY <2>1
  <2>3. UserOf(q)' = v /\ v \notin torn
    BY <1>2, <2>1, <2>2 DEF UserOf
  <2>4. JobPays(q, v)
    BY <2>1, <2>2, <2>3 DEF Paying
  <2>5. paid[v] \in Nat /\ paid'[v] \in Nat /\ paid'[v] >= paid[v]
    BY <1>0
  <2>6. Within(tx[q].row, v)'
    <3>1. tx[q].row \in Row
      BY <2>1, Inside
    <3>2. tx[q].row.orig # None => tx[q].row.orig \in Nat
      BY <3>1 DEF Row
    <3> QED
      BY <2>1, <2>4, <2>5, <3>2 DEF JobPays, Within
  <2>7. task[q].pc \in {"patch", "zero", "commit"} =>
           \/ task[q].seen.limit <= paid'[v]
           \/ task[q].seen.limit >= Ceiling /\ (task[q].kind = "limited" => Blocked(v)')
    <3>1. task[q].pc \in {"patch", "zero", "commit"} => task[q].seen.limit \in Nat
      BY DEF Safe, Control, ControlOf, PanelUser
    <3> QED
      BY <1>1, <2>4, <2>5, <3>1 DEF JobPays
  <2>8. task[q].kind \in {"modified", "reset"} /\ task[q].pc \in {"zero", "commit"} =>
           panel'[v].limit <= paid'[v]
    BY <1>0, <2>4, <2>5 DEF JobPays
  <2>9. HasSquad(v) => HasSquad(v)'
    BY DEF HasSquad
  <2>10. JobPays(q, v)'
    BY <1>1, <2>1, <2>4, <2>6, <2>7, <2>8, <2>9 DEF JobPays, At
  <2> QED
    BY <2>2, <2>3, <2>10
<1>3. ASSUME NEW v \in User \ torn' PROVE UserPays(v)'
  <2>1. UserPays(v)
    BY <1>3 DEF Paying
  <2>2. paid[v] \in Nat /\ paid'[v] \in Nat /\ paid'[v] >= paid[v]
    BY <1>0
  <2>3. (rows[v] # Absent => Within(rows[v], v))'
    BY <1>0, <2>1, <2>2 DEF UserPays, Within, Row, DefaultRow
  <2>4. LimitPaid(v)'
    BY <1>0, <1>1, <2>1, <2>2 DEF UserPays, LimitPaid, HasSquad
  <2> QED
    BY <2>3, <2>4 DEF UserPays
<1>4. \A v \in User \ torn' : UserPays(v)'
  BY <1>3
<1> QED
  BY <1>2, <1>4 DEF Paying

(* Jobs start, wait for the mutex and give up. *)
LEMMA StartKeepsPaying ==
    ASSUME Safe, Paying, NEW p \in Proc, NEW u \in User,
           \/ Lock(p) \/ BeginFails(p) \/ Repay(p, u)
           \/ \E k \in Webhook : Receive(p, u, k) \/ Redeliver(p, u, k)
    PROVE  Paying'
<1>1. /\ UNCHANGED <<rows, tx, panel, paid, torn>> /\ paid' \in [User -> Nat]
      /\ task[p].pc \in {"idle", "lock", "begin"}
  BY DEF Lock, BeginFails, Abandoned, Repay, Receive, Redeliver, store, world, ghosts, At,
         Safe, TypeOK
<1>2. \A q \in Proc : InTx(q) => q # p
  BY <1>1 DEF Safe, Control, ControlOf, TxPc
<1>3. \A q \in Proc : InTx(q) => task'[q] = task[q]
  BY <1>2 DEF Lock, BeginFails, Unlock, Goto, Repay, Receive, Redeliver, Safe, TypeOK
<1> QED
  BY <1>1, <1>3, OutsideKeepsPaying

\* what the poller and a first contact do to the rows
LEMMA PollRows ==
    ASSUME Safe, NEW u \in User, Poll(u) \/ ReadState(u)
    PROVE  \A v \in User : /\ rows[v] = Absent => rows'[v] \in {Absent, DefaultRow}
                           /\ rows[v] # Absent =>
                                /\ rows'[v] # Absent
                                /\ rows'[v].orig = rows[v].orig /\ rows'[v].wl = rows[v].wl
<1>1. CASE ReadState(u)
  BY <1>1 DEF ReadState, Get, Loaded, Safe, TypeOK
<1>2. CASE Poll(u)
  <2>1. PICK over \in BOOLEAN : AddUsage(u, [rows[u] EXCEPT !.over = @ \/ over])
    BY <1>2 DEF Poll
  <2> DEFINE r == [rows[u] EXCEPT !.over = @ \/ over]
  <2>2. rows' = IF rows[u] = Absent THEN rows ELSE [rows EXCEPT ![u] = r]
    BY <2>1 DEF AddUsage
  <2>3. rows[u] # Absent => r \in Row /\ r.wl = rows[u].wl /\ r.orig = rows[u].orig
    BY DEF Safe, TypeOK, Row
  <2> HIDE DEF r
  <2> QED
    BY <2>2, <2>3, AbsentAssumption DEF Safe, TypeOK
<1> QED
  BY <1>1, <1>2

(* The poller counts, and goes to look at the basic limit; a row is created. *)
LEMMA PollKeepsPaying ==
    ASSUME Safe, Paying, NEW u \in User, Poll(u) \/ ReadState(u)
    PROVE  Paying'
<1>1. /\ UNCHANGED <<tx, panel, paid, torn>> /\ paid' \in [User -> Nat]
  BY DEF Poll, AddUsage, ReadState, Get, world, ghosts, Safe, TypeOK
<1>2. \A q \in Proc : InTx(q) => task'[q] = task[q]
  <2>1. CASE ReadState(u)
    BY <2>1 DEF ReadState
  <2>2. CASE Poll(u)
    <3>1. Poller \in Proc /\ task[Poller].pc = "idle"
      BY <2>2, EngineAssumption DEF Poll, At
    <3>2. ~InTx(Poller)
      BY <3>1 DEF Safe, Control, ControlOf, TxPc
    <3> QED
      BY <2>2, <3>1, <3>2 DEF Poll, Safe, TypeOK
  <2> QED
    BY <2>1, <2>2
<1> QED
  BY <1>1, <1>2, PollRows, OutsideKeepsPaying

(* The panel, the bot and the network: a higher limit is a paid one. *)
LEMMA ExternalKeepsPaying ==
    ASSUME Safe, Paying, External
    PROVE  Paying'
<1>1. PICK u \in User :
        \/ Consume(u) \/ PanelLimits(u) \/ TrafficReset(u)
        \/ \E l \in Limits : TopUp(u, l)
        \/ \E k \in Webhook : Lose(u, k)
  BY DEF External
<1>2. /\ UNCHANGED <<rows, tx, task, torn>>
      /\ panel \in [User -> PanelUser] /\ paid \in [User -> Nat] /\ u \in User
  BY <1>1 DEF Consume, PanelLimits, TrafficReset, TopUp, Lose, store, ghosts, Safe, TypeOK
<1>3. CASE \E l \in Limits : TopUp(u, l)
  <2>1. PICK l, squads :
          /\ l \in Limits /\ l > paid[u] /\ paid' = [paid EXCEPT ![u] = l]
          /\ panel' = [panel EXCEPT ![u].limit = l, ![u].squads = squads, ![u].status = "ACTIVE"]
          /\ Whitelist \in squads /\ Send(u, "modified")
    BY <1>3 DEF TopUp
  <2>2. l \in Nat
    BY <2>1, EngineAssumption
  <2>3. paid' \in [User -> Nat] /\ paid'[u] = l
    BY <1>2, <2>1, <2>2
  <2>4. panel'[u].limit = l /\ panel'[u].squads = squads
    BY <1>2, <2>1 DEF PanelUser
  <2>5. \A v \in User : v # u => panel'[v] = panel[v] /\ paid'[v] = paid[v]
    BY <1>2, <2>1
  <2>6. \A v \in User : \/ /\ panel'[v].limit = panel[v].limit
                           /\ panel'[v].squads = panel[v].squads
                           /\ paid'[v] = paid[v]
                        \/ /\ paid'[v] > paid[v]
                           /\ panel'[v].limit = paid'[v]
                           /\ Whitelist \in panel'[v].squads
    BY <2>1, <2>3, <2>4, <2>5
  <2> QED
    BY <1>2, <2>3, <2>6, OutsideKeepsPaying
<1>4. CASE Consume(u) \/ PanelLimits(u) \/ TrafficReset(u) \/ \E k \in Webhook : Lose(u, k)
  <2>1. paid' = paid /\ \A v \in User : /\ panel'[v].limit = panel[v].limit
                                        /\ panel'[v].squads = panel[v].squads
    BY <1>2, <1>4 DEF Consume, PanelLimits, TrafficReset, Lose, PanelUser
  <2> QED
    BY <1>2, <2>1, OutsideKeepsPaying
<1> QED
  BY <1>1, <1>3, <1>4

(* A job that has begun holds the row as it is committed. *)
LEMMA BeginKeepsPaying ==
    ASSUME Safe, Paying, NEW p \in Proc, BeginTx(p)
    PROVE  Paying'
<1> DEFINE row == Loaded(UserOf(p), DefaultRow)
           pc == IF NothingToDo(task[p].kind, row) THEN "skip"
                 ELSE IF task[p].kind \in {"restore", "repair"} THEN "patch" ELSE "read"
           t == [task[p] EXCEPT !.pc = pc]
<1>1. /\ UserOf(p) \in User /\ task[p].kind \in HandlerKind /\ task[p] \in Task
  BY DEF BeginTx, At, Safe, TypeOK, Control, ControlOf
<1>2. PICK u \in User : UserOf(p) = u
  BY <1>1
<1>3. /\ conn = Free /\ UNCHANGED <<rows, panel, paid, torn>>
      /\ tx' = [tx EXCEPT ![p] = [user |-> u, row |-> row]]
      /\ task' = [task EXCEPT ![p] = t]
  BY <1>1, <1>2 DEF BeginTx, Begin, Goto, world, ghosts, Safe, TypeOK
<1>4. row = IF rows[u] = Absent THEN DefaultRow ELSE rows[u]
  BY <1>2 DEF Loaded
<1>5. pc \in {"skip", "read"}
  <2>1. task[p].kind \notin {"restore", "repair"}
    BY <1>1 DEF HandlerKind, Webhook
  <2> HIDE DEF row
  <2> QED
    BY <2>1
<1>6. t.kind = task[p].kind /\ t.pc = pc /\ t.user = task[p].user
  BY <1>1 DEF Task
<1> HIDE DEF row, pc, t
<1>7. task'[p] = t /\ UserOf(p)' = u /\ tx'[p].row = row
  BY <1>2, <1>3, <1>6 DEF Safe, TypeOK, UserOf
<1>8. \A q \in Proc : q # p => ~InTx(q)'
  BY <1>3, StoreAssumption DEF InTx, Safe, Control, ControlOf
<1>9. ASSUME u \notin torn' PROVE JobPays(p, u)'
  <2>1. rows[u] # Absent => Within(rows[u], u)
    BY <1>3, <1>9 DEF Paying, UserPays
  <2>2. Within(tx[p].row, u)'
    BY <1>3, <1>4, <1>7, <2>1 DEF Within, DefaultRow
  <2>3. tx'[p].row.wl = "blocked" <=> Blocked(u)'
    BY <1>3, <1>4, <1>7 DEF Blocked, DefaultRow
  <2> QED
    BY <1>5, <1>6, <1>7, <2>2, <2>3 DEF JobPays, At
<1>10. ASSUME NEW q \in Proc, InTx(q)', UserOf(q)' \notin torn'
       PROVE  JobPays(q, UserOf(q))'
  <2>1. q = p /\ UserOf(p)' = u
    BY <1>7, <1>8, <1>10
  <2>2. JobPays(p, u)'
    BY <1>9, <1>10, <2>1
  <2> QED
    BY <2>1, <2>2
<1>11. \A v \in User \ torn' : UserPays(v)'
  BY <1>3 DEF Paying, UserPays, Within, LimitPaid, Blocked, HasSquad
<1> QED
  BY <1>10, <1>11 DEF Paying

(* What a job knows once it has seen the panel user. *)
LEMMA SeenKeepsPaying ==
    ASSUME Safe, Paying, NEW p \in Proc, NEW u \in User, UserOf(p) = u,
           task[p].pc \in {"read", "reread"},
           NEW r \in Row, tx' = [tx EXCEPT ![p] = [user |-> u, row |-> r]],
           UNCHANGED <<rows, panel, paid, torn>>,
           NEW t \in Task, task' = [task EXCEPT ![p] = t],
           t.user = task[p].user, t.kind = task[p].kind,
           r.wl = tx[p].row.wl, u \notin torn => Within(r, u),
           t.pc \in {"reread", "skip", "patch"},
           t.pc = "patch" => t.seen = panel[u]
    PROVE  Paying'
<1>1. InTx(p)
  BY Inside DEF TxPc
<1>2. tx'[p].row = r /\ task'[p] = t /\ UserOf(p)' = u
  BY DEF Safe, TypeOK, UserOf
<1>3. Blocked(u)' <=> Blocked(u)
  BY DEF Blocked
<1>4. ASSUME u \notin torn' PROVE JobPays(p, u)'
  <2>1. JobPays(p, u) /\ LimitPaid(u)
    BY <1>1, <1>4 DEF Paying, UserPays
  <2>2. Within(tx[p].row, u)'
    BY <1>2, <1>4 DEF Within
  <2>3. t.kind = "limited" => (r.wl = "blocked" <=> Blocked(u)')
    BY <1>3, <2>1 DEF JobPays
  <2>4. t.pc = "patch" => \/ t.seen.limit <= paid[u]
                          \/ t.seen.limit >= Ceiling /\ Blocked(u)'
    BY <1>3, <2>1 DEF LimitPaid
  <2> QED
    BY <1>2, <2>2, <2>3, <2>4 DEF JobPays, At, HasSquad
<1>5. ASSUME u \notin torn' PROVE UserPays(u)'
  <2>1. UserPays(u)
    BY <1>5 DEF Paying
  <2> QED
    BY <2>1 DEF UserPays, Within, LimitPaid, Blocked, HasSquad
<1>6. \A q \in Proc : q # p => tx'[q] = tx[q] /\ task'[q] = task[q]
  BY DEF Safe, TypeOK
<1> QED
  BY <1>1, <1>2, <1>4, <1>5, <1>6, InsideKeepsPaying

\* what user.limited captures of the panel user, or of none, has been paid
LEMMA CapturePaid ==
    ASSUME Safe, Paying, NEW p \in Proc, NEW u \in User, UserOf(p) = u, task[p].pc = "read",
           tx[p].row.wl = "active", task[p].kind = "limited", NEW pu \in {panel[u], None}
    PROVE  /\ Capture(tx[p].row, pu) \in Row
           /\ Capture(tx[p].row, pu).wl = tx[p].row.wl
           /\ u \notin torn => Within(Capture(tx[p].row, pu), u)
<1>1. tx[p].row \in Row /\ panel[u] \in PanelUser /\ InTx(p)
  BY Inside DEF TxPc, Safe, TypeOK
<1>2. Capture(tx[p].row, pu) \in Row
  BY <1>1, CaptureType
<1>3. /\ Capture(tx[p].row, pu).wl = tx[p].row.wl
      /\ Capture(tx[p].row, pu).orig \in {tx[p].row.orig, panel[u].limit}
  BY <1>1 DEF Capture, Row
<1>4. ASSUME u \notin torn PROVE Within(tx[p].row, u) /\ panel[u].limit <= paid[u]
  <2>1. JobPays(p, u) /\ LimitPaid(u)
    BY <1>1, <1>4 DEF Paying, UserPays
  <2>2. ~Blocked(u)
    BY <2>1 DEF JobPays
  <2> QED
    BY <2>1, <2>2 DEF JobPays, LimitPaid
<1> QED
  BY <1>2, <1>3, <1>4 DEF Within

(* GetUser answers, or user.limited goes on without an answer. *)
LEMMA ReadKeepsPaying ==
    ASSUME Safe, Paying, NEW p \in Proc,
           Read(p) \/ (ReadFails(p) /\ task[p].kind = "limited")
    PROVE  Paying'
<1>0. PICK u \in User : UserOf(p) = u
  BY Inside DEF Read, ReadFails, At, TxPc
<1>1. /\ task[p].pc = "read" /\ InTx(p) /\ tx[p].row \in Row /\ task[p] \in Task
      /\ tx[p] = [user |-> u, row |-> tx[p].row] /\ panel[u] \in PanelUser
      /\ UNCHANGED <<rows, panel, paid>>
  BY <1>0, Inside DEF Read, ReadFails, Edit, At, TxPc, world, Safe, TypeOK
<1>2. u \notin torn => Within(tx[p].row, u)
  BY <1>0, <1>1 DEF Paying, JobPays
<1>3. CASE Read(p)
  <2> DEFINE r == IF task[p].kind = "limited" /\ tx[p].row.wl = "active"
                  THEN Capture(tx[p].row, panel[u]) ELSE tx[p].row
             pc == IF task[p].kind = "modified" /\ ~ShouldRestoreWhitelist(r, panel[u])
                   THEN "skip" ELSE "patch"
             t == [task[p] EXCEPT !.seen = panel[u], !.pc = pc]
  <2>1. r \in Row /\ r.wl = tx[p].row.wl /\ (u \notin torn => Within(r, u))
    BY <1>0, <1>1, <1>2, CapturePaid
  <2>2. pc \in {"skip", "patch"}
    OBVIOUS
  <2>3. /\ task' = [task EXCEPT ![p] = t] /\ torn' = torn
        /\ tx' = [tx EXCEPT ![p] = [user |-> u, row |-> r]]
    <3>1. task' = [task EXCEPT ![p] = t] /\ Edit(p, r) /\ torn' = torn
      BY <1>0, <1>3 DEF Read, ghosts
    <3>2. [tx[p] EXCEPT !.row = r] = [user |-> u, row |-> r]
      BY <1>1
    <3> QED
      BY <3>1, <3>2 DEF Edit
  <2> HIDE DEF r, pc
  <2>4. /\ t \in Task /\ t.user = task[p].user /\ t.kind = task[p].kind /\ t.pc = pc
        /\ t.seen = panel[u]
    BY <1>1, <2>2 DEF Task
  <2> HIDE DEF t
  <2> QED
    BY <1>0, <1>1, <2>1, <2>2, <2>3, <2>4, SeenKeepsPaying
<1>4. CASE ReadFails(p) /\ task[p].kind = "limited"
  <2> DEFINE r == IF tx[p].row.wl = "active" THEN Capture(tx[p].row, None) ELSE tx[p].row
             t == [task[p] EXCEPT !.pc = "reread"]
  <2>1. r \in Row /\ r.wl = tx[p].row.wl /\ (u \notin torn => Within(r, u))
    BY <1>0, <1>1, <1>2, <1>4, CapturePaid
  <2>2. /\ task' = [task EXCEPT ![p] = t] /\ torn' = torn
        /\ tx' = [tx EXCEPT ![p] = [user |-> u, row |-> r]]
    <3>1. task' = [task EXCEPT ![p] = t] /\ Edit(p, r) /\ torn' = torn
      BY <1>1, <1>4 DEF ReadFails, Goto, Safe, TypeOK
    <3>2. [tx[p] EXCEPT !.row = r] = [user |-> u, row |-> r]
      BY <1>1
    <3> QED
      BY <3>1, <3>2 DEF Edit
  <2> HIDE DEF r
  <2>3. t \in Task /\ t.user = task[p].user /\ t.kind = task[p].kind /\ t.pc = "reread"
    BY <1>1 DEF Task
  <2> HIDE DEF t
  <2> QED
    BY <1>0, <1>1, <2>1, <2>2, <2>3, SeenKeepsPaying
<1> QED
  BY <1>3, <1>4

(* The second read of user.limited. *)
LEMMA RereadKeepsPaying ==
    ASSUME Safe, Paying, NEW p \in Proc, Reread(p)
    PROVE  Paying'
<1>0. PICK u \in User : UserOf(p) = u
  BY Inside DEF Reread, At, TxPc
<1> DEFINE t == [task[p] EXCEPT !.seen = panel[u], !.pc = "patch"]
<1>1. /\ task[p].pc = "reread" /\ task[p] \in Task /\ InTx(p) /\ tx[p].row \in Row
      /\ tx[p] = [user |-> u, row |-> tx[p].row] /\ panel[u] \in PanelUser
  BY <1>0, Inside DEF Reread, At, TxPc, Safe, TypeOK
<1>2. /\ task' = [task EXCEPT ![p] = t] /\ UNCHANGED <<rows, panel, paid, torn>>
      /\ tx' = [tx EXCEPT ![p] = [user |-> u, row |-> tx[p].row]]
  BY <1>0, <1>1 DEF Reread, store, world, ghosts, Safe, TypeOK
<1>3. /\ t \in Task /\ t.user = task[p].user /\ t.kind = task[p].kind /\ t.pc = "patch"
      /\ t.seen = panel[u]
  BY <1>1 DEF Task
<1>4. u \notin torn => Within(tx[p].row, u)
  BY <1>0, <1>1 DEF Paying, JobPays
<1> HIDE DEF t
<1> QED
  BY <1>0, <1>1, <1>2, <1>3, <1>4, SeenKeepsPaying

(* What the PATCH of a job does to the limit and the squads. *)
LEMMA ApplyPays ==
    ASSUME Safe, Core, Paying, NEW p \in Proc, NEW u \in User, UserOf(p) = u, At(p, "patch"),
           Apply(p), u \notin torn
    PROVE  /\ task[p].kind = "limited" => ~HasSquad(u)' /\ panel'[u].limit <= paid[u]
           /\ task[p].kind \in {"modified", "reset"} => panel'[u].limit <= paid[u]
           /\ task[p].kind = "basic" => /\ panel'[u].limit = panel[u].limit
                                        /\ HasSquad(u)' => HasSquad(u)
                                        /\ HasSquad(u)' <=> Whitelist \in task[p].seen.squads
<1> DEFINE row == tx[p].row
           pu == task[p].seen
           patch == PatchOf(task[p], row)
<1>1. /\ InTx(p) /\ row \in Row /\ pu \in PanelUser /\ panel[u] \in PanelUser
      /\ paid[u] \in Nat /\ ControlOf(p)
  BY Inside DEF At, TxPc, Safe, TypeOK, Control, ControlOf
<1>2. JobPays(p, u) /\ JobKnows(p) /\ LimitPaid(u) /\ UserSafe(u)
  BY <1>1 DEF Paying, UserPays, Core
<1>3. panel'[u] = Patched(panel[u], patch)
  BY DEF Apply, Safe, TypeOK
<1>4. /\ panel'[u].squads = patch.squads
      /\ panel'[u].limit = IF patch.limit = None THEN panel[u].limit ELSE patch.limit
  BY <1>1, <1>3 DEF Patched, PanelUser
<1> HIDE DEF patch
<1>5. CASE task[p].kind = "limited"
  <2>1. patch = BlockPatch(pu)
    BY <1>5 DEF patch, PatchOf, BlockKind
  <2>2. Whitelist \notin patch.squads /\ patch.limit = 0
    BY <2>1, SquadAssumption DEF BlockPatch, EnsureSquads, DropSquads
  <2>3. ~HasSquad(u)' /\ panel'[u].limit = 0
    BY <1>4, <2>2, NoneAssumption DEF HasSquad
  <2> QED
    BY <1>1, <1>5, <2>3
<1>6. CASE task[p].kind = "modified"
  <2>1. patch.limit = RestoredLimit(row, pu)
    BY <1>6 DEF patch, PatchOf, BlockKind, RestorePatch
  <2>2. row.orig # None
    BY <1>2, <1>6 DEF JobKnows, Knows
  <2>3. row.orig \in Nat /\ row.orig <= paid[u]
    BY <1>1, <1>2, <2>2 DEF Row, JobPays, Within
  <2>4. pu.limit \in Nat /\ (pu.limit <= paid[u] \/ pu.limit >= Ceiling)
    BY <1>1, <1>2 DEF PanelUser, JobPays, At
  <2>5. patch.limit \in Nat /\ patch.limit <= paid[u]
    BY <1>1, <2>1, <2>2, <2>3, <2>4, CeilingAssumption DEF RestoredLimit
  <2> QED
    BY <1>4, <1>6, <2>5, NoneAssumption
<1>7. CASE task[p].kind = "reset"
  <2>1. patch.limit = row.orig
    BY <1>7 DEF patch, PatchOf, BlockKind, ResetPatch
  <2>2. row.orig # None => row.orig <= paid[u]
    BY <1>2 DEF JobPays, Within
  <2>3. row.orig = None => ~Blocked(u)
    <3>1. row = Loaded(u, DefaultRow)
      BY <1>1, <1>7 DEF ControlOf
    <3>2. Blocked(u) => row.wl = "blocked"
      BY <3>1 DEF Loaded, Blocked
    <3> QED
      BY <1>2, <3>2 DEF JobKnows, Knows
  <2> QED
    BY <1>2, <1>4, <1>7, <2>1, <2>2, <2>3 DEF LimitPaid
<1>8. CASE task[p].kind = "basic"
  <2>1. patch = BasicPatch(pu)
    BY <1>8 DEF patch, PatchOf, BlockKind
  <2>2. patch.limit = None /\ (Whitelist \in patch.squads <=> Whitelist \in pu.squads)
    BY <2>1, SquadAssumption DEF BasicPatch, DropSquads
  <2>3. Whitelist \in pu.squads => HasSquad(u)
    BY <1>2, <1>8 DEF JobPays
  <2> QED
    BY <1>4, <1>8, <2>2, <2>3 DEF HasSquad
<1> QED
  BY <1>5, <1>6, <1>7, <1>8

\* with any PATCH the panel's limit is one that was paid
LEMMA ApplyLimitPaid ==
    ASSUME Safe, Core, Paying, NEW p \in Proc, NEW u \in User, UserOf(p) = u, At(p, "patch"),
           Apply(p), u \notin torn, UNCHANGED <<rows, paid>>
    PROVE  LimitPaid(u)'
<1>1. LimitPaid(u) /\ task[p].kind \in HandlerKind
  BY Inside DEF At, TxPc, Paying, UserPays
<1>2. Blocked(u)' <=> Blocked(u)
  BY DEF Blocked
<1> QED
  BY <1>1, <1>2, ApplyPays DEF LimitPaid, HandlerKind, Webhook

(* The transaction of p ends without a commit, perhaps after its PATCH. *)
LEMMA RollbackKeepsPaying ==
    ASSUME Safe, Core, Paying, NEW p \in Proc,
           \/ ReadFails(p) /\ task[p].kind # "limited"
           \/ RereadFails(p) \/ PatchFails(p) \/ FinishFails(p)
    PROVE  Paying'
<1>1. PICK u \in User : UserOf(p) = u
  BY Inside DEF ReadFails, RereadFails, PatchFails, FinishFails, At, TxPc
<1>2. InTx(p)
  BY Inside DEF ReadFails, RereadFails, PatchFails, FinishFails, At, TxPc
<1>3. Rollback(p) /\ Unlock(p) /\ \E sent : Abandoned(p, sent)
  BY DEF ReadFails, RereadFails, PatchFails, FinishFails
<1>4. torn \subseteq torn'
  BY <1>3 DEF Abandoned
<1>5. ~InTx(p)' /\ \A q \in Proc : q # p => tx'[q] = tx[q] /\ task'[q] = task[q]
  BY <1>3 DEF Rollback, Unlock, InTx, Safe, TypeOK
<1>6. paid' = paid /\ rows' = rows /\ (panel' = panel \/ (At(p, "patch") /\ Apply(p)))
  BY <1>3 DEF ReadFails, RereadFails, PatchFails, FinishFails, world, Rollback
<1>7. \A v \in User : v # u => rows'[v] = rows[v] /\ panel'[v] = panel[v]
  BY <1>1, <1>6 DEF Apply, Safe, TypeOK
<1>8. ASSUME u \notin torn' PROVE UserPays(u)'
  <2>1. UserPays(u) /\ u \notin torn
    BY <1>4, <1>8 DEF Paying
  <2>2. (rows[u] # Absent => Within(rows[u], u))'
    BY <1>6, <2>1 DEF UserPays, Within
  <2>3. LimitPaid(u)'
    <3>1. CASE panel' = panel
      BY <1>6, <2>1, <3>1 DEF UserPays, LimitPaid, Blocked, HasSquad
    <3>2. CASE At(p, "patch") /\ Apply(p)
      BY <1>1, <1>6, <2>1, <3>2, ApplyLimitPaid
    <3> QED
      BY <1>6, <3>1, <3>2
  <2> QED
    BY <2>2, <2>3 DEF UserPays
<1> QED
  BY <1>1, <1>2, <1>4, <1>5, <1>6, <1>7, <1>8, InsideKeepsPaying

\* the PATCH, its retries and what follows it: the job goes on, and the panel has
\* taken a PATCH, or neither limit nor squads have changed
LEMMA StayShape ==
    ASSUME Safe, NEW p \in Proc, NEW u \in User, UserOf(p) = u,
           PatchOk(p) \/ PatchRetries(p) \/ Zero(p) \/ ZeroFails(p)
    PROVE  \E pc, patched, tries :
        /\ task' = [task EXCEPT ![p] =
                      [task[p] EXCEPT !.pc = pc, !.patched = patched, !.tries = tries]]
        /\ pc \in {"patch", "zero", "commit"} /\ (pc = "patch" => task[p].pc = "patch")
        /\ pc = "zero" => task[p].kind = "reset"
        /\ \/ /\ panel'[u].squads = panel[u].squads /\ panel'[u].limit = panel[u].limit
              /\ pc # "patch" => task[p].pc = "zero"
              /\ patched = task[p].patched
           \/ At(p, "patch") /\ Apply(p) /\ patched
<1>1. task[p] \in Task /\ panel[u] \in PanelUser /\ task[p].patched \in BOOLEAN
  BY DEF Safe, TypeOK, Task
<1>2. CASE PatchOk(p)
  <2> DEFINE pc == IF task[p].kind = "reset" THEN "zero" ELSE "commit"
  <2>1. task' = [task EXCEPT ![p] = [task[p] EXCEPT !.patched = TRUE, !.pc = pc]]
    BY <1>2 DEF PatchOk, Safe, TypeOK
  <2>2. [task[p] EXCEPT !.pc = pc, !.patched = TRUE, !.tries = task[p].tries]
          = [task[p] EXCEPT !.patched = TRUE, !.pc = pc]
    BY <1>1 DEF Task
  <2>3. Apply(p) /\ At(p, "patch") /\ pc \in {"zero", "commit"}
        /\ (pc = "zero" => task[p].kind = "reset")
    BY <1>2 DEF PatchOk
  <2> HIDE DEF pc
  <2> QED
    BY <2>1, <2>2, <2>3
<1>3. CASE PatchRetries(p)
  <2>1. At(p, "patch")
    BY <1>3 DEF PatchRetries
  <2>2. CASE Apply(p) /\ task' = [task EXCEPT ![p].tries = @ + 1, ![p].patched = TRUE]
    <3>1. [task[p] EXCEPT !.pc = "patch", !.patched = TRUE, !.tries = task[p].tries + 1]
            = [task[p] EXCEPT !.tries = task[p].tries + 1, !.patched = TRUE]
      BY <1>1, <2>1 DEF Task, At
    <3>2. task' = [task EXCEPT ![p] =
                     [task[p] EXCEPT !.tries = task[p].tries + 1, !.patched = TRUE]]
      BY <2>2 DEF Safe, TypeOK
    <3> WITNESS "patch", TRUE, task[p].tries + 1
    <3> QED
      BY <2>1, <2>2, <3>1, <3>2 DEF At
  <2>3. CASE task' = [task EXCEPT ![p].tries = @ + 1] /\ UNCHANGED <<panel, wire>>
    <3>1. [task[p] EXCEPT !.pc = "patch", !.patched = task[p].patched,
                          !.tries = task[p].tries + 1]
            = [task[p] EXCEPT !.tries = task[p].tries + 1]
      BY <1>1, <2>1 DEF Task, At
    <3>2. task' = [task EXCEPT ![p] = [task[p] EXCEPT !.tries = task[p].tries + 1]]
      BY <2>3 DEF Safe, TypeOK
    <3> WITNESS "patch", task[p].patched, task[p].tries + 1
    <3> QED
      BY <1>1, <2>1, <2>3, <3>1, <3>2 DEF At
  <2> QED
    BY <1>3, <2>2, <2>3 DEF PatchRetries
<1>4. CASE Zero(p) \/ ZeroFails(p)
  <2>1. task' = [task EXCEPT ![p] = [task[p] EXCEPT !.pc = "commit"]] /\ task[p].pc = "zero"
    BY <1>4 DEF Zero, ZeroFails, Goto, At, Safe, TypeOK
  <2>2. [task[p] EXCEPT !.pc = "commit", !.patched = task[p].patched, !.tries = task[p].tries]
          = [task[p] EXCEPT !.pc = "commit"]
    BY <1>1 DEF Task
  <2>3. panel'[u].squads = panel[u].squads /\ panel'[u].limit = panel[u].limit
    BY <1>1, <1>4 DEF Zero, ZeroFails, world, PanelUser, Safe, TypeOK
  <2> WITNESS "commit", task[p].patched, task[p].tries
  <2> QED
    BY <1>1, <2>1, <2>2, <2>3
<1> QED
  BY <1>2, <1>3, <1>4

(* The PATCH, its retries and what follows it: the job of p stays where it is. *)
LEMMA StayKeepsPaying ==
    ASSUME Safe, Core, Paying, NEW p \in Proc,
           PatchOk(p) \/ PatchRetries(p) \/ Zero(p) \/ ZeroFails(p)
    PROVE  Paying'
<1>1. /\ task[p].pc \in {"patch", "zero"} /\ task[p] \in Task /\ UserOf(p) \in User
      /\ UNCHANGED <<rows, tx, torn, paid>> /\ InTx(p)
  BY Inside DEF PatchOk, PatchRetries, Zero, ZeroFails, At, TxPc, store, world, ghosts,
                Safe, TypeOK, Control
<1>2. PICK u \in User : UserOf(p) = u
  BY <1>1
<1>3. PICK pc, patched, tries :
        /\ task' = [task EXCEPT ![p] =
                      [task[p] EXCEPT !.pc = pc, !.patched = patched, !.tries = tries]]
        /\ pc \in {"patch", "zero", "commit"} /\ (pc = "patch" => task[p].pc = "patch")
        /\ pc = "zero" => task[p].kind = "reset"
        /\ \/ /\ panel'[u].squads = panel[u].squads /\ panel'[u].limit = panel[u].limit
              /\ pc # "patch" => task[p].pc = "zero"
              /\ patched = task[p].patched
           \/ At(p, "patch") /\ Apply(p) /\ patched
  BY <1>2, StayShape
<1> DEFINE t == [task[p] EXCEPT !.pc = pc, !.patched = patched, !.tries = tries]
<1>4. t.user = task[p].user /\ t.kind = task[p].kind /\ t.pc = pc /\ t.seen = task[p].seen
  BY <1>1 DEF Task
<1> HIDE DEF t
<1>5. task'[p] = t /\ UserOf(p)' = u /\ task' = [task EXCEPT ![p] = t]
  BY <1>1, <1>2, <1>3, <1>4 DEF t, UserOf, Safe, TypeOK
<1>6. \A v \in User : v # u => panel'[v] = panel[v]
  BY <1>1, <1>2 DEF PatchOk, PatchRetries, Zero, ZeroFails, Apply, world, Safe, TypeOK
<1>7. ASSUME u \notin torn PROVE UserPays(u)'
  <2>1. UserPays(u)
    BY <1>7 DEF Paying
  <2>2. (rows[u] # Absent => Within(rows[u], u))'
    BY <1>1, <2>1 DEF UserPays, Within
  <2>3. LimitPaid(u)'
    <3>1. CASE At(p, "patch") /\ Apply(p)
      BY <1>1, <1>2, <1>7, <3>1, ApplyLimitPaid
    <3>2. CASE panel'[u].squads = panel[u].squads /\ panel'[u].limit = panel[u].limit
      BY <1>1, <2>1, <3>2 DEF UserPays, LimitPaid, Blocked, HasSquad
    <3> QED
      BY <1>3, <3>1, <3>2
  <2> QED
    BY <2>2, <2>3 DEF UserPays
<1>8. ASSUME u \notin torn PROVE JobPays(p, u)'
  <2>1. JobPays(p, u)
    BY <1>1, <1>2, <1>8 DEF Paying
  <2>2. Within(tx[p].row, u)' /\ (Blocked(u)' <=> Blocked(u))
    BY <1>1, <2>1 DEF JobPays, Within, Blocked
  <2>3. /\ task[p].kind \in {"modified", "reset"} /\ pc \in {"zero", "commit"} =>
             panel'[u].limit <= paid[u]
        /\ task[p].kind = "basic" /\ pc = "patch" /\ Whitelist \in task[p].seen.squads =>
             HasSquad(u)'
    <3>1. CASE At(p, "patch") /\ Apply(p)
      BY <1>2, <1>8, <3>1, ApplyPays
    <3>2. CASE /\ panel'[u].squads = panel[u].squads /\ panel'[u].limit = panel[u].limit
               /\ pc # "patch" => task[p].pc = "zero"
      BY <1>3, <2>1, <3>2 DEF JobPays, At, HasSquad
    <3> QED
      BY <1>3, <3>1, <3>2
  <2>4. /\ t.kind = "limited" => (tx[p].row.wl = "blocked" <=> Blocked(u))
        /\ \/ t.seen.limit <= paid[u]
           \/ t.seen.limit >= Ceiling /\ (t.kind = "limited" => Blocked(u))
    BY <1>1, <1>4, <2>1 DEF JobPays
  <2> QED
    BY <1>1, <1>4, <1>5, <2>2, <2>3, <2>4 DEF JobPays, At
<1>9. \A q \in Proc : q # p => tx'[q] = tx[q] /\ task'[q] = task[q]
  BY <1>1, <1>5 DEF Safe, TypeOK
<1> QED
  BY <1>1, <1>2, <1>5, <1>6, <1>7, <1>8, <1>9, InsideKeepsPaying

(* The row a block is about to commit. *)
LEMMA CutRow ==
    ASSUME Safe, Core, Paying, NEW p \in Proc, NEW u \in User, UserOf(p) = u, u \notin torn,
           task[p].kind = "limited", task[p].pc \in {"patch", "commit"}
    PROVE  /\ RowOf(task[p], tx[p].row) \in Row /\ RowOf(task[p], tx[p].row).wl = "blocked"
           /\ RowOf(task[p], tx[p].row).orig \in Nat \ {0}
           /\ RowOf(task[p], tx[p].row).orig <= paid[u]
<1> DEFINE old == tx[p].row
           pu == task[p].seen
           kept == Preserve(old, pu)
           r == RowOf(task[p], old)
<1>1. /\ InTx(p) /\ old \in Row /\ pu \in PanelUser /\ paid[u] \in Nat
      /\ JobPays(p, u) /\ JobKnows(p)
  BY Inside DEF TxPc, Safe, TypeOK, Control, ControlOf, Core, Paying
<1>2. kept \in Row /\ kept.orig = IF old.orig = None /\ pu.limit > 0 THEN pu.limit ELSE old.orig
  <2>1. kept \in Row
    BY <1>1, CaptureType
  <2> QED
    BY <1>1, <2>1 DEF Preserve, Row
<1>3. r = [kept EXCEPT !.wl = "blocked"]
  BY DEF RowOf, BlockKind, BlockedRow
<1> HIDE DEF kept, r
<1>4. r \in Row /\ r.wl = "blocked" /\ r.orig = kept.orig
  BY <1>2, <1>3 DEF Row
<1>5. CASE old.orig # None
  <2>1. old.orig \in Nat \ {0} /\ old.orig <= paid[u]
    BY <1>1, <1>5 DEF Row, JobPays, Within
  <2> QED
    BY <1>2, <1>4, <1>5, <2>1 DEF r
<1>6. CASE old.orig = None
  <2>1. ~Blocked(u) /\ pu.limit > 0
    BY <1>1, <1>6 DEF JobKnows, JobPays, Knows
  <2>2. pu.limit \in Nat \ {0} /\ pu.limit <= paid[u]
    BY <1>1, <2>1 DEF JobPays, PanelUser
  <2> QED
    BY <1>2, <1>4, <1>6, <2>1, <2>2 DEF r
<1> QED
  BY <1>5, <1>6

(* The commit: a row that leaves blocked has a panel user with a paid limit.      *)
LEMMA FinishKeepsPaying ==
    ASSUME Safe, Core, Paying, NEW p \in Proc, Finish(p)
    PROVE  Paying'
<1> DEFINE old == tx[p].row
           r == IF At(p, "commit") THEN RowOf(task[p], old) ELSE old
<1>1. task[p].pc \in TxPc /\ (At(p, "commit") \/ At(p, "skip"))
  BY DEF Finish, At, TxPc
<1>2. /\ InTx(p) /\ UserOf(p) \in User /\ tx[p].user = UserOf(p) /\ old \in Row
      /\ task[p].kind \in HandlerKind /\ ControlOf(p)
  BY <1>1, Inside DEF Safe, Control
<1>3. PICK u \in User : UserOf(p) = u
  BY <1>2
<1>4. r \in Row
  BY <1>1, <1>2, OutcomeType DEF At
<1>5. UNCHANGED <<panel, paid, torn>> /\ Commit(p, r) /\ Unlock(p)
  BY DEF Finish, world, ghosts
<1>6. ASSUME u \notin torn
      PROVE  JobPays(p, u) /\ Within(old, u) /\ LimitPaid(u)
  BY <1>2, <1>3, <1>6 DEF Paying, JobPays, UserPays
<1>7. ASSUME u \notin torn
      PROVE  /\ Within(r, u)
             /\ \/ panel[u].limit <= paid[u]
                \/ panel[u].limit >= Ceiling /\ r.wl = "blocked" /\ ~HasSquad(u)
  <2>1. CASE At(p, "commit") /\ task[p].kind = "limited"
    <3>1. r.wl = "blocked" /\ r.orig <= paid[u]
      BY <1>3, <1>7, <2>1, CutRow DEF At
    <3> QED
      BY <1>6, <1>7, <3>1 DEF Within, LimitPaid
  <2>2. CASE At(p, "commit") /\ task[p].kind \in {"modified", "reset"}
    <3>1. r = RestoredRow(old) \/ r = ResetRow(old)
      BY <2>2 DEF RowOf, BlockKind
    <3>2. r.orig = old.orig
      BY <1>2, <3>1 DEF RestoredRow, ResetRow, Row
    <3>3. panel[u].limit <= paid[u]
      BY <1>6, <1>7, <2>2 DEF JobPays, At
    <3> QED
      BY <1>6, <1>7, <3>2, <3>3 DEF Within
  <2>3. CASE At(p, "skip") \/ task[p].kind = "basic"
    <3>1. r = old \/ r = BasicRow(old)
      BY <1>1, <2>3 DEF RowOf, BlockKind, At
    <3>2. r.wl = old.wl /\ r.orig = old.orig
      BY <1>2, <3>1 DEF BasicRow, Row
    <3>3. old = Loaded(u, DefaultRow)
      BY <1>2, <1>3, <2>3 DEF ControlOf, At
    <3>4. old.wl = "blocked" <=> Blocked(u)
      BY <3>3 DEF Loaded, Blocked, DefaultRow
    <3> QED
      BY <1>6, <1>7, <3>2, <3>4 DEF Within, LimitPaid
  <2> QED
    BY <1>1, <1>2, <2>1, <2>2, <2>3 DEF HandlerKind, Webhook
<1> HIDE DEF r
<1>8. /\ rows' = [rows EXCEPT ![u] = r] /\ rows'[u] = r /\ r # Absent
      /\ tx' = [tx EXCEPT ![p] = NoTx] /\ task' = [task EXCEPT ![p] = Done(p)]
  BY <1>2, <1>3, <1>4, <1>5, AbsentAssumption DEF Commit, Unlock, Safe, TypeOK
<1>9. ~InTx(p)' /\ \A q \in Proc : q # p => tx'[q] = tx[q] /\ task'[q] = task[q]
  BY <1>8 DEF InTx, Safe, TypeOK
<1>10. ASSUME u \notin torn' PROVE UserPays(u)'
  <2>1. u \notin torn
    BY <1>5, <1>10
  <2>2. Blocked(u)' <=> r.wl = "blocked"
    BY <1>8 DEF Blocked
  <2> QED
    BY <1>5, <1>7, <1>8, <2>1, <2>2 DEF UserPays, Within, LimitPaid, HasSquad
<1>11. /\ \A v \in User : v # u => rows'[v] = rows[v] /\ panel'[v] = panel[v]
       /\ torn \subseteq torn' /\ paid' = paid
  BY <1>5, <1>8 DEF Safe, TypeOK
<1> QED
  BY <1>2, <1>3, <1>9, <1>10, <1>11, InsideKeepsPaying

(* Every step. *)
LEMMA PayingStep ==
    ASSUME Safe, Core, Paying, [Next]_vars
    PROVE  Paying'
<1>1. ASSUME NEW p \in Proc, Lock(p) \/ BeginFails(p) PROVE Paying'
  <2>1. PICK u \in User : UserOf(p) = u
    BY <1>1 DEF Lock, BeginFails, At, Safe, Control, ControlOf
  <2> QED
    BY <1>1, <2>1, StartKeepsPaying
<1>2. ASSUME NEW p \in Proc, Work(p) PROVE Paying'
  BY <1>1, <1>2, BeginKeepsPaying, ReadKeepsPaying, RereadKeepsPaying, StayKeepsPaying,
     FinishKeepsPaying DEF Work
<1>3. ASSUME NEW p \in Proc, WorkFails(p) PROVE Paying'
  BY <1>1, <1>3, ReadKeepsPaying, StayKeepsPaying, RollbackKeepsPaying DEF WorkFails
<1>4. CASE Crash
  <2>1. UNCHANGED <<rows, panel, paid>> /\ tx' = [p \in Proc |-> NoTx]
    BY <1>4 DEF Crash, Reopen, world
  <2>2. torn \subseteq torn'
    BY <1>4 DEF Crash
  <2>3. \A q \in Proc : ~InTx(q)'
    BY <2>1 DEF InTx
  <2> QED
    BY <2>1, <2>2, <2>3 DEF Paying, UserPays, Within, LimitPaid, Blocked, HasSquad
<1>5. CASE UNCHANGED vars
  <2>1. UNCHANGED <<rows, tx, task, panel, paid, torn>> /\ paid \in [User -> Nat]
    BY <1>5 DEF vars, store, world, ghosts, Safe, TypeOK
  <2> QED
    BY <2>1, OutsideKeepsPaying
<1> QED
  BY <1>2, <1>3, <1>4, <1>5, StartKeepsPaying, PollKeepsPaying, ExternalKeepsPaying
     DEF Next, Internal

LEMMA PayingInit == Init => Paying
<1> SUFFICES ASSUME Init PROVE Paying
  OBVIOUS
<1>1. \A p \in Proc : ~InTx(p)
  BY DEF Init, StoreInit, InTx
<1>2. /\ LegacyRow \in Row /\ LegacyRow.wl = "blocked" /\ LegacyRow.orig = Plan
      /\ Plan \in Nat /\ Ceiling \in Nat
  BY EngineAssumption, CeilingAssumption DEF LegacyRow, DefaultRow, Row, AnyStrategy
<1>3. ASSUME NEW u \in User PROVE UserPays(u)
  <2>1. paid[u] = Plan
    BY DEF Init
  <2>2. CASE u \in Legacy
    <3>1. rows[u] = LegacyRow /\ panel[u].limit = Ceiling /\ panel[u].squads = {Basic}
      BY <2>2 DEF Init, StoreInit
    <3>2. ~HasSquad(u) /\ Blocked(u)
      BY <1>2, <3>1, SquadAssumption, AbsentAssumption DEF HasSquad, Blocked
    <3> QED
      BY <1>2, <2>1, <3>1, <3>2 DEF UserPays, Within, LimitPaid
  <2>3. CASE u \notin Legacy
    <3>1. panel[u].limit = Plan /\ rows[u] = Absent
      BY <2>3 DEF Init, StoreInit
    <3> QED
      BY <1>2, <2>1, <3>1 DEF UserPays, LimitPaid
  <2> QED
    BY <2>2, <2>3
<1> QED
  BY <1>1, <1>3 DEF Paying

(* Whoever has the whitelist squad is metered by a limit he has paid for, however *)
(* blocks, restores, resets, basic cuts and purchases interleave and whichever    *)
(* of their calls fail, unless a block was taken by the panel and its row lost.   *)
THEOREM ServedAsPaid == Spec => []MeteredAsPaid
<1>1. Init => Safe /\ Core /\ Paying
  BY SafeInit, CoreInit, PayingInit
<1>2. Safe /\ Core /\ Paying /\ [Next]_vars => (Safe /\ Core /\ Paying)'
  BY SafeStep, CoreStep, PayingStep
<1>3. Safe /\ Core /\ Paying => MeteredAsPaid
  <2> SUFFICES ASSUME Safe, Core, Paying, NEW u \in User \ torn, HasSquad(u)
               PROVE  panel[u].limit \in 1..paid[u]
    BY DEF MeteredAsPaid, HasSquad
  <2>1. UserSafe(u) /\ LimitPaid(u)
    BY DEF Core, Paying, UserPays
  <2>2. panel[u].limit > 0 /\ panel[u].limit <= paid[u]
    BY <2>1 DEF UserSafe, LimitPaid, HasSquad
  <2>3. panel[u].limit \in Nat /\ paid[u] \in Nat
    BY DEF Safe, TypeOK, PanelUser
  <2> QED
    BY <2>2, <2>3
<1> QED
  BY <1>1, <1>2, <1>3, PTL DEF Spec

-----------------------------------------------------------------------------
(* Blocked users stay cut off *)

\* a user.modified that will read the panel user
Reading(t, u) == t.kind = "modified" /\ t.user = u /\ t.pc \in {"lock", "begin", "read"}
Notice(u) == "modified" \in wire[u] \/ \E p \in Proc : Reading(task[p], u)

\* p is going to unblock the user, or to drop the job
Restoring(p, u) ==
    /\ InTx(p) /\ UserOf(p) = u
    /\ \/ task[p].kind = "modified" /\ task[p].pc \in {"patch", "commit"}
       \/ task[p].kind = "reset" /\ task[p].patched

\* whoever is blocked and has the squad back has bought it, and it will be noticed
Expected(u) ==
    Blocked(u) /\ HasSquad(u) =>
        \/ \E p \in Proc : Restoring(p, u)
        \/ Notice(u) /\ LimitGrew(rows[u], panel[u])

\* so will be a user who buys while his block is about to be committed
JobExpects(p, u) ==
    Cutting(p, u) /\ HasSquad(u) =>
        Notice(u) /\ LimitGrew(RowOf(task[p], tx[p].row), panel[u])

(* What holds of the users nothing was missed of. *)
Cuts ==
    /\ torn \subseteq missed
    /\ \A p \in Proc : InTx(p) /\ UserOf(p) \notin missed => JobExpects(p, UserOf(p))
    /\ \A u \in User \ missed : Expected(u)

(* A step of the process in the transaction: the other users do not change, but   *)
(* for notices that are sent.                                                     *)
LEMMA InsideKeepsCuts ==
    ASSUME Safe, Cuts, NEW p \in Proc, InTx(p), NEW u \in User, UserOf(p) = u,
           torn' \subseteq missed', missed \subseteq missed',
           \A q \in Proc : q # p => tx'[q] = tx[q] /\ task'[q] = task[q],
           \A v \in User : v # u => rows'[v] = rows[v] /\ panel'[v] = panel[v],
           \A v \in User : "modified" \in wire[v] => "modified" \in wire'[v],
           u \notin missed' => Expected(u)',
           InTx(p)' => UserOf(p)' = u,
           InTx(p)' /\ u \notin missed' => JobExpects(p, u)'
    PROVE  Cuts'
<1>1. \A q \in Proc : q # p => ~InTx(q)'
  BY Alone DEF InTx
<1>2. ASSUME NEW q \in Proc, InTx(q)', UserOf(q)' \notin missed'
      PROVE  JobExpects(q, UserOf(q))'
  <2>1. q = p /\ UserOf(p)' = u
    BY <1>1, <1>2
  <2>2. JobExpects(p, u)'
    BY <1>2, <2>1
  <2> QED
    BY <2>1, <2>2
<1>3. ASSUME NEW v \in User \ missed', v # u PROVE Expected(v)'
  <2>1. Expected(v) /\ rows'[v] = rows[v] /\ panel'[v] = panel[v]
    BY <1>3 DEF Cuts
  <2>2. \A q \in Proc : ~Restoring(q, v)
    BY <1>3, Alone DEF Restoring
  <2>3. Notice(v) => Notice(v)'
    <3>1. \A q \in Proc : UserOf(q) = v => q # p
      BY <1>3
    <3> QED
      BY <3>1 DEF Notice, Reading, UserOf
  <2>4. Blocked(v) /\ HasSquad(v) => Notice(v) /\ LimitGrew(rows[v], panel[v])
    BY <2>1, <2>2 DEF Expected
  <2>5. (Blocked(v)' <=> Blocked(v)) /\ (HasSquad(v)' <=> HasSquad(v))
    BY <2>1 DEF Blocked, HasSquad
  <2>6. LimitGrew(rows[v], panel[v]) => LimitGrew(rows'[v], panel'[v])
    BY <2>1
  <2>7. LimitGrew(rows'[v], panel'[v]) <=> LimitGrew(rows[v], panel[v])'
    BY DEF LimitGrew, OrigOf
  <2> QED
    BY <2>3, <2>4, <2>5, <2>6, <2>7 DEF Expected
<1>4. \A v \in User \ missed' : Expected(v)'
  BY <1>3
<1> QED
  BY <1>2, <1>4 DEF Cuts

\* a limit above the paid one that the row knows has grown
LEMMA Grown ==
    ASSUME NEW row, NEW pu, row.orig \in Nat \ {0}, pu.limit > row.orig, pu.limit < Ceiling
    PROVE  LimitGrew(row, pu)
BY NoneAssumption DEF LimitGrew, OrigOf

(* A step outside the transactions: of every row the paid limit and the status of *)
(* the whitelist are kept, no notice is lost, and of a panel user the limit and   *)
(* the squads are kept, or the bot has sold more and said so.                     *)
LEMMA OutsideKeepsCuts ==
    ASSUME Safe, Core, Paying, Cuts, UNCHANGED <<tx, torn>>, missed \subseteq missed',
           paid' \in [User -> Nat],
           \A q \in Proc : InTx(q) => task'[q] = task[q],
           \A v \in User : v \notin missed' => (Notice(v) => Notice(v)'),
           \A v \in User : /\ rows[v] = Absent => rows'[v] \in {Absent, DefaultRow}
                           /\ rows[v] # Absent =>
                                /\ rows'[v] # Absent
                                /\ rows'[v].orig = rows[v].orig /\ rows'[v].wl = rows[v].wl,
           \A v \in User : \/ /\ panel'[v].limit = panel[v].limit
                              /\ panel'[v].squads = panel[v].squads
                              /\ paid'[v] = paid[v]
                           \/ /\ paid'[v] > paid[v] /\ paid'[v] < Ceiling
                              /\ panel'[v].limit = paid'[v]
                              /\ Whitelist \in panel'[v].squads /\ Notice(v)'
    PROVE  Cuts'
<1>0. /\ paid \in [User -> Nat] /\ Ceiling \in Nat
      /\ \A v \in User : rows[v] = Absent \/ rows[v] \in Row
  BY CeilingAssumption DEF Safe, TypeOK
<1>1. \A v \in User : Blocked(v)' <=> Blocked(v)
  BY DEF Blocked, DefaultRow
<1>2. ASSUME NEW q \in Proc, InTx(q)', UserOf(q)' \notin missed'
      PROVE  JobExpects(q, UserOf(q))'
  <2>1. InTx(q) /\ UserOf(q) \in User /\ task'[q] = task[q] /\ tx'[q] = tx[q]
    BY <1>2 DEF InTx, Safe, Control, ControlOf, TxPc
  <2>2. PICK v \in User : UserOf(q) = v
    BY <2>1
  <2>3. UserOf(q)' = v /\ v \notin missed' /\ v \notin missed /\ v \notin torn
    BY <1>2, <2>1, <2>2 DEF UserOf, Cuts
  <2>4. JobExpects(q, v)
    BY <2>1, <2>2, <2>3 DEF Cuts
  <2>5. ASSUME Cutting(q, v)', HasSquad(v)'
        PROVE  Notice(v)' /\ LimitGrew(RowOf(task[q], tx[q].row), panel'[v])
    <3>1. Cutting(q, v)
      BY <2>1, <2>5 DEF Cutting, InTx, UserOf
    <3>2. CASE panel'[v].limit = panel[v].limit /\ panel'[v].squads = panel[v].squads
      <4>1. HasSquad(v)
        BY <2>5, <3>2 DEF HasSquad
      <4>2. Notice(v) /\ LimitGrew(RowOf(task[q], tx[q].row), panel[v])
        BY <2>4, <3>1, <4>1 DEF JobExpects
      <4> QED
        BY <2>3, <3>2, <4>2 DEF LimitGrew
    <3>3. CASE /\ paid'[v] > paid[v] /\ paid'[v] < Ceiling
               /\ panel'[v].limit = paid'[v] /\ Notice(v)'
      <4>1. task[q].kind = "limited" /\ task[q].pc \in {"patch", "commit"}
        BY <3>1 DEF Cutting, Safe, Control, ControlOf, At
      <4>2. /\ RowOf(task[q], tx[q].row).orig \in Nat \ {0}
            /\ RowOf(task[q], tx[q].row).orig <= paid[v]
        BY <2>2, <2>3, <4>1, CutRow
      <4>3. panel'[v].limit > RowOf(task[q], tx[q].row).orig /\ panel'[v].limit < Ceiling
        BY <1>0, <3>3, <4>2
      <4> QED
        BY <3>3, <4>2, <4>3, Grown
    <3> QED
      BY <3>2, <3>3
  <2>6. LimitGrew(RowOf(task[q], tx[q].row), panel'[v]) =>
           LimitGrew(RowOf(task[q], tx[q].row), panel[v])'
    BY <2>1 DEF LimitGrew, OrigOf, RowOf, PatchOf, Preserve, BlockedRow, RestoredRow, ResetRow,
                BasicRow
  <2>7. JobExpects(q, v)'
    BY <2>5, <2>6 DEF JobExpects
  <2> QED
    BY <2>2, <2>3, <2>7
<1>3. ASSUME NEW v \in User \ missed' PROVE Expected(v)'
  <2>1. Expected(v) /\ v \notin torn /\ UserPays(v)
    BY <1>3 DEF Cuts, Paying
  <2> SUFFICES ASSUME Blocked(v)', HasSquad(v)'
               PROVE  \/ \E q \in Proc : Restoring(q, v)'
                      \/ Notice(v)' /\ LimitGrew(rows[v], panel[v])'
    BY DEF Expected
  <2>2. Blocked(v) /\ rows[v] \in Row /\ rows'[v].orig = rows[v].orig
    BY <1>0, <1>1 DEF Blocked
  <2>3. CASE panel'[v].limit = panel[v].limit /\ panel'[v].squads = panel[v].squads
    <3>1. HasSquad(v)
      BY <2>3 DEF HasSquad
    <3>2. (\E q \in Proc : Restoring(q, v)) \/ (Notice(v) /\ LimitGrew(rows[v], panel[v]))
      BY <2>1, <2>2, <3>1 DEF Expected
    <3>3. \A q \in Proc : Restoring(q, v) => Restoring(q, v)'
      BY DEF Restoring, InTx, UserOf
    <3>4. LimitGrew(rows[v], panel[v]) => LimitGrew(rows[v], panel[v])'
      BY <2>2, <2>3 DEF LimitGrew, OrigOf
    <3> QED
      BY <1>3, <3>2, <3>3, <3>4
  <2>4. CASE /\ paid'[v] > paid[v] /\ paid'[v] < Ceiling
             /\ panel'[v].limit = paid'[v] /\ Notice(v)'
    <3>1. rows[v].orig # None
      BY <2>1, <2>2, <1>3 DEF Core, UserSafe, Knows
    <3>2. rows[v].orig \in Nat \ {0} /\ rows[v].orig <= paid[v]
      BY <2>1, <2>2, <3>1 DEF UserPays, Within, Row, Blocked
    <3>3. LimitGrew(rows'[v], panel'[v])
      BY <1>0, <2>2, <2>4, <3>2, Grown
    <3>4. LimitGrew(rows'[v], panel'[v]) => LimitGrew(rows[v], panel[v])'
      BY DEF LimitGrew, OrigOf
    <3> QED
      BY <2>4, <3>3, <3>4
  <2> QED
    BY <2>3, <2>4
<1>4. \A v \in User \ missed' : Expected(v)'
  BY <1>3
<1>5. torn' \subseteq missed'
  BY DEF Cuts
<1> QED
  BY <1>2, <1>4, <1>5 DEF Cuts

\* a step that changes one job, or none, keeps the notices of a user if that job does
LEMMA NoticeKept ==
    ASSUME Safe, NEW p \in Proc, NEW t, task' = [task EXCEPT ![p] = t], NEW v \in User,
           "modified" \in wire[v] => "modified" \in wire'[v] \/ Reading(t, v),
           Reading(task[p], v) => Reading(t, v),
           Notice(v)
    PROVE  Notice(v)'
BY DEF Notice, Reading, Safe, TypeOK

(* Jobs start, wait for the mutex and give up. *)
LEMMA StartKeepsCuts ==
    ASSUME Safe, Core, Paying, Cuts, NEW p \in Proc, NEW u \in User,
           \/ Lock(p) \/ BeginFails(p) \/ Repay(p, u)
           \/ \E k \in Webhook : Receive(p, u, k) \/ Redeliver(p, u, k)
    PROVE  Cuts'
<1>1. /\ UNCHANGED <<rows, tx, panel, paid, torn>> /\ missed \subseteq missed'
      /\ paid' \in [User -> Nat] /\ task[p].pc \in {"idle", "lock", "begin"} /\ task[p] \in Task
  BY DEF Lock, BeginFails, Abandoned, Repay, Receive, Redeliver, store, world, ghosts, At,
         Safe, TypeOK
<1>2. \A q \in Proc : InTx(q) => q # p
  BY <1>1 DEF Safe, Control, ControlOf, TxPc
<1>3. \A q \in Proc : InTx(q) => task'[q] = task[q]
  BY <1>2 DEF Lock, BeginFails, Unlock, Goto, Repay, Receive, Redeliver, Safe, TypeOK
<1>4. ASSUME NEW v \in User, v \notin missed', Notice(v) PROVE Notice(v)'
  <2>1. CASE Lock(p)
    <3> DEFINE t == [task[p] EXCEPT !.pc = "begin"]
    <3>1. task' = [task EXCEPT ![p] = t] /\ wire' = wire
      BY <2>1 DEF Lock, Goto, world, Safe, TypeOK
    <3>2. Reading(task[p], v) => Reading(t, v)
      BY <1>1 DEF Reading, Task
    <3> HIDE DEF t
    <3> QED
      BY <1>4, <3>1, <3>2, NoticeKept
  <2>2. CASE BeginFails(p)
    <3>1. task' = [task EXCEPT ![p] = Done(p)] /\ wire' = wire /\ UserOf(p) \in missed'
      BY <2>2 DEF BeginFails, Unlock, Abandoned, world
    <3>2. ~Reading(task[p], v)
      BY <1>4, <3>1 DEF Reading, UserOf
    <3> QED
      BY <1>4, <3>1, <3>2, NoticeKept
  <2>3. CASE Repay(p, u)
    <3>1. task' = [task EXCEPT ![p] = Job("reset", u)] /\ wire' = wire /\ ~Reading(task[p], v)
      BY <2>3 DEF Repay, At, Reading
    <3> QED
      BY <1>4, <3>1, NoticeKept
  <2>4. ASSUME NEW k \in Webhook, Receive(p, u, k) \/ Redeliver(p, u, k) PROVE Notice(v)'
    <3>1. task' = [task EXCEPT ![p] = Job(k, u)] /\ ~Reading(task[p], v)
      BY <2>4 DEF Receive, Redeliver, At, Reading
    <3>2. "modified" \in wire[v] => "modified" \in wire'[v] \/ Reading(Job(k, u), v)
      BY <2>4 DEF Receive, Redeliver, world, Reading, Job, Safe, TypeOK
    <3> QED
      BY <1>4, <3>1, <3>2, NoticeKept
  <2> QED
    BY <2>1, <2>2, <2>3, <2>4
<1> QED
  BY <1>1, <1>3, <1>4, OutsideKeepsCuts

(* The poller counts, and goes to look at the basic limit; a row is created. *)
LEMMA PollKeepsCuts ==
    ASSUME Safe, Core, Paying, Cuts, NEW u \in User, Poll(u) \/ ReadState(u)
    PROVE  Cuts'
<1>1. /\ UNCHANGED <<tx, panel, wire, paid, torn, missed>> /\ paid' \in [User -> Nat]
  BY DEF Poll, AddUsage, ReadState, Get, world, ghosts, Safe, TypeOK
<1>2. /\ \A q \in Proc : InTx(q) => task'[q] = task[q]
      /\ \A v \in User : Notice(v) => Notice(v)'
  <2>1. CASE ReadState(u)
    BY <1>1, <2>1 DEF ReadState, Notice
  <2>2. CASE Poll(u)
    <3>1. /\ Poller \in Proc /\ task[Poller].pc = "idle"
          /\ task' = [task EXCEPT ![Poller] = Job("basic", u)]
      BY <2>2, EngineAssumption DEF Poll, At
    <3>2. \A v \in User : ~Reading(task[Poller], v)
      BY <3>1 DEF Reading
    <3>3. \A v \in User : Notice(v) => Notice(v)'
      BY <1>1, <3>1, <3>2, NoticeKept
    <3>4. ~InTx(Poller)
      BY <3>1 DEF Safe, Control, ControlOf, TxPc
    <3> QED
      BY <3>1, <3>3, <3>4 DEF Safe, TypeOK
  <2> QED
    BY <2>1, <2>2
<1> QED
  BY <1>1, <1>2, PollRows, OutsideKeepsCuts

(* The panel, the bot and the network. *)
LEMMA ExternalKeepsCuts ==
    ASSUME Safe, Core, Paying, Cuts, External
    PROVE  Cuts'
<1>1. PICK u \in User :
        \/ Consume(u) \/ PanelLimits(u) \/ TrafficReset(u)
        \/ \E l \in Limits : TopUp(u, l)
        \/ \E k \in Webhook : Lose(u, k)
  BY DEF External
<1>2. /\ UNCHANGED <<rows, tx, task, torn>> /\ missed \subseteq missed'
      /\ panel \in [User -> PanelUser] /\ paid \in [User -> Nat]
      /\ wire \in [User -> SUBSET Webhook] /\ u \in User
  BY <1>1 DEF Consume, PanelLimits, TrafficReset, TopUp, Lose, store, ghosts, Safe, TypeOK
<1>3. \A v \in User : v \notin missed' /\ "modified" \in wire[v] => "modified" \in wire'[v]
  <2>1. CASE \E k \in Webhook : Lose(u, k)
    BY <1>2, <2>1 DEF Lose
  <2>2. CASE Consume(u)
    BY <2>2 DEF Consume
  <2>3. ASSUME NEW k, Send(u, k) PROVE \A v \in User : wire[v] \subseteq wire'[v]
    BY <1>2, <2>3 DEF Send
  <2> QED
    BY <1>1, <2>1, <2>2, <2>3 DEF PanelLimits, TrafficReset, TopUp
<1>4. \A v \in User : v \notin missed' => (Notice(v) => Notice(v)')
  BY <1>2, <1>3 DEF Notice
<1>5. CASE \E l \in Limits : TopUp(u, l)
  <2>1. PICK l, squads :
          /\ l \in Limits /\ l > paid[u] /\ paid' = [paid EXCEPT ![u] = l]
          /\ panel' = [panel EXCEPT ![u].limit = l, ![u].squads = squads, ![u].status = "ACTIVE"]
          /\ Whitelist \in squads /\ Send(u, "modified")
    BY <1>5 DEF TopUp
  <2>2. l \in Nat /\ l < Ceiling
    BY <2>1, EngineAssumption
  <2>3. paid' \in [User -> Nat] /\ paid'[u] = l
    BY <1>2, <2>1, <2>2
  <2>4. panel'[u].limit = l /\ panel'[u].squads = squads /\ "modified" \in wire'[u]
    BY <1>2, <2>1 DEF PanelUser, Send
  <2>5. \A v \in User : v # u => panel'[v] = panel[v] /\ paid'[v] = paid[v]
    BY <1>2, <2>1
  <2>6. Notice(u)'
    BY <2>4 DEF Notice
  <2>7. \A v \in User : \/ /\ panel'[v].limit = panel[v].limit
                           /\ panel'[v].squads = panel[v].squads
                           /\ paid'[v] = paid[v]
                        \/ /\ paid'[v] > paid[v] /\ paid'[v] < Ceiling
                           /\ panel'[v].limit = paid'[v]
                           /\ Whitelist \in panel'[v].squads /\ Notice(v)'
    BY <2>1, <2>2, <2>3, <2>4, <2>5, <2>6
  <2> QED
    BY <1>2, <1>4, <2>3, <2>7, OutsideKeepsCuts
<1>6. CASE Consume(u) \/ PanelLimits(u) \/ TrafficReset(u) \/ \E k \in Webhook : Lose(u, k)
  <2>1. paid' = paid /\ \A v \in User : /\ panel'[v].limit = panel[v].limit
                                        /\ panel'[v].squads = panel[v].squads
    BY <1>2, <1>6 DEF Consume, PanelLimits, TrafficReset, Lose, PanelUser
  <2> QED
    BY <1>2, <1>4, <2>1, OutsideKeepsCuts
<1> QED
  BY <1>1, <1>5, <1>6

(* A job that has begun: who restores a blocked user goes on to read. *)
LEMMA BeginKeepsCuts ==
    ASSUME Safe, Cuts, NEW p \in Proc, BeginTx(p)
    PROVE  Cuts'
<1> DEFINE row == Loaded(UserOf(p), DefaultRow)
           pc == IF NothingToDo(task[p].kind, row) THEN "skip"
                 ELSE IF task[p].kind \in {"restore", "repair"} THEN "patch" ELSE "read"
           t == [task[p] EXCEPT !.pc = pc]
<1>1. /\ UserOf(p) \in User /\ task[p].kind \in HandlerKind /\ task[p] \in Task
      /\ task[p].pc = "begin" /\ ~task[p].patched
  BY DEF BeginTx, At, Safe, TypeOK, Control, ControlOf
<1>2. PICK u \in User : UserOf(p) = u
  BY <1>1
<1>3. /\ conn = Free /\ UNCHANGED <<rows, panel, wire, torn, missed>>
      /\ tx' = [tx EXCEPT ![p] = [user |-> u, row |-> row]]
      /\ task' = [task EXCEPT ![p] = t]
  BY <1>1, <1>2 DEF BeginTx, Begin, Goto, world, ghosts, Safe, TypeOK
<1>4. Blocked(u) => row.wl = "blocked"
  BY <1>2 DEF Loaded, Blocked
<1>5. pc \in {"skip", "read"} /\ (task[p].kind = "modified" /\ row.wl = "blocked" => pc = "read")
  <2>1. task[p].kind \notin {"restore", "repair"}
    BY <1>1 DEF HandlerKind, Webhook
  <2> HIDE DEF row
  <2> QED
    BY <2>1 DEF NothingToDo, CutOff
<1>6. t.kind = task[p].kind /\ t.pc = pc /\ t.user = task[p].user /\ ~t.patched
  BY <1>1 DEF Task
<1> HIDE DEF row, pc, t
<1>7. task'[p] = t /\ UserOf(p)' = u
  BY <1>2, <1>3, <1>6 DEF Safe, TypeOK, UserOf
<1>8. \A q \in Proc : ~InTx(q)
  BY <1>3, StoreAssumption DEF Safe, Control, ControlOf
<1>9. \A q \in Proc : q # p => ~InTx(q)'
  BY <1>3, <1>8 DEF InTx
<1>10. ASSUME NEW q \in Proc, InTx(q)' PROVE JobExpects(q, UserOf(q))'
  <2>1. q = p /\ ~task'[q].patched
    BY <1>6, <1>7, <1>9, <1>10
  <2> QED
    BY <2>1 DEF JobExpects, Cutting
<1>11. ASSUME NEW v \in User \ missed' PROVE Expected(v)'
  <2>1. Expected(v) /\ \A q \in Proc : ~Restoring(q, v)
    BY <1>3, <1>8, <1>11 DEF Cuts, Restoring
  <2>2. ASSUME Blocked(v), HasSquad(v) PROVE Notice(v)' /\ LimitGrew(rows[v], panel[v])
    <3>1. Notice(v) /\ LimitGrew(rows[v], panel[v])
      BY <2>1, <2>2 DEF Expected
    <3>2. Reading(task[p], v) => Reading(t, v)
      BY <1>2, <1>4, <1>5, <1>6, <2>2 DEF Reading, UserOf
    <3> QED
      BY <1>3, <3>1, <3>2, NoticeKept
  <2> QED
    BY <1>3, <2>2 DEF Expected, Blocked, HasSquad, LimitGrew, OrigOf
<1>12. \A v \in User \ missed' : Expected(v)'
  BY <1>11
<1>13. torn' \subseteq missed'
  BY <1>3 DEF Cuts
<1> QED
  BY <1>10, <1>12, <1>13 DEF Cuts

(* A restore that has seen the panel user of who bought more goes on to its PATCH. *)
LEMMA SeenKeepsCuts ==
    ASSUME Safe, Cuts, NEW p \in Proc, NEW u \in User, UserOf(p) = u,
           task[p].pc \in {"read", "reread"},
           NEW r \in Row, tx' = [tx EXCEPT ![p] = [user |-> u, row |-> r]],
           UNCHANGED <<rows, panel, wire, torn, missed>>,
           NEW t \in Task, task' = [task EXCEPT ![p] = t],
           t.user = task[p].user, t.kind = task[p].kind, t.patched = task[p].patched,
           task[p].kind # "limited" => r = tx[p].row,
           t.kind = "modified" /\ LimitGrew(r, panel[u]) => t.pc = "patch"
    PROVE  Cuts'
<1>1. InTx(p) /\ ~task[p].patched /\ ControlOf(p)
  BY Inside DEF TxPc, Safe, Control, ControlOf
<1>2. task'[p] = t /\ UserOf(p)' = u /\ InTx(p)'
  <2>1. tx'[p] = [user |-> u, row |-> r] /\ task'[p] = t
    BY DEF Safe, TypeOK
  <2>2. InTx(p)'
    BY <2>1, StoreAssumption DEF InTx, NoTx
  <2> QED
    BY <2>1, <2>2 DEF UserOf
<1>3. JobExpects(p, u)'
  BY <1>1, <1>2 DEF JobExpects, Cutting
<1>4. ASSUME u \notin missed' PROVE Expected(u)'
  <2>1. ASSUME Blocked(u), HasSquad(u)
        PROVE  Restoring(p, u)' \/ (Notice(u)' /\ LimitGrew(rows[u], panel[u]))
    <3>1. \A q \in Proc : ~Restoring(q, u)
      BY <1>1, Alone DEF Restoring
    <3>2. Notice(u) /\ LimitGrew(rows[u], panel[u])
      BY <1>4, <2>1, <3>1 DEF Cuts, Expected
    <3>3. CASE task[p].kind = "modified"
      <4>1. r = rows[u]
        BY <1>1, <2>1, <3>3 DEF ControlOf, Loaded, Blocked
      <4>2. t.pc = "patch"
        BY <3>2, <3>3, <4>1
      <4> QED
        BY <1>2, <3>3, <4>2 DEF Restoring
    <3>4. CASE task[p].kind # "modified"
      <4>1. ~Reading(task[p], u)
        BY <3>4 DEF Reading
      <4> QED
        BY <3>2, <4>1, NoticeKept
    <3> QED
      BY <3>3, <3>4
  <2>2. LimitGrew(rows[u], panel[u]) => LimitGrew(rows[u], panel[u])'
    BY DEF LimitGrew, OrigOf
  <2>3. Blocked(u)' <=> Blocked(u)
    BY DEF Blocked
  <2> QED
    BY <2>1, <2>2, <2>3 DEF Expected, HasSquad
<1>5. \A q \in Proc : q # p => tx'[q] = tx[q] /\ task'[q] = task[q]
  BY DEF Safe, TypeOK
<1>6. torn' \subseteq missed'
  BY DEF Cuts
<1> QED
  BY <1>1, <1>2, <1>3, <1>4, <1>5, <1>6, InsideKeepsCuts

(* GetUser answers, or user.limited goes on without an answer. *)
LEMMA ReadKeepsCuts ==
    ASSUME Safe, Paying, Cuts, NEW p \in Proc,
           Read(p) \/ (ReadFails(p) /\ task[p].kind = "limited")
    PROVE  Cuts'
<1>0. PICK u \in User : UserOf(p) = u
  BY Inside DEF Read, ReadFails, At, TxPc
<1>1. /\ task[p].pc = "read" /\ tx[p].row \in Row /\ task[p] \in Task
      /\ tx[p] = [user |-> u, row |-> tx[p].row] /\ panel[u] \in PanelUser
      /\ UNCHANGED <<rows, panel, wire>>
  BY <1>0, Inside DEF Read, ReadFails, Edit, At, TxPc, world, Safe, TypeOK
<1>2. CASE Read(p)
  <2> DEFINE r == IF task[p].kind = "limited" /\ tx[p].row.wl = "active"
                  THEN Capture(tx[p].row, panel[u]) ELSE tx[p].row
             pc == IF task[p].kind = "modified" /\ ~ShouldRestoreWhitelist(r, panel[u])
                   THEN "skip" ELSE "patch"
             t == [task[p] EXCEPT !.seen = panel[u], !.pc = pc]
  <2>1. r \in Row /\ (task[p].kind # "limited" => r = tx[p].row)
    BY <1>0, <1>1, CapturePaid
  <2>2. /\ pc \in {"skip", "patch"}
        /\ task[p].kind = "modified" /\ LimitGrew(r, panel[u]) => pc = "patch"
    BY DEF ShouldRestoreWhitelist
  <2>3. /\ task' = [task EXCEPT ![p] = t] /\ UNCHANGED <<torn, missed>>
        /\ tx' = [tx EXCEPT ![p] = [user |-> u, row |-> r]]
    <3>1. task' = [task EXCEPT ![p] = t] /\ Edit(p, r) /\ UNCHANGED <<torn, missed>>
      BY <1>0, <1>2 DEF Read, ghosts
    <3>2. [tx[p] EXCEPT !.row = r] = [user |-> u, row |-> r]
      BY <1>1
    <3> QED
      BY <3>1, <3>2 DEF Edit
  <2> HIDE DEF r, pc
  <2>4. /\ t \in Task /\ t.user = task[p].user /\ t.kind = task[p].kind /\ t.pc = pc
        /\ t.patched = task[p].patched
    BY <1>1, <2>2 DEF Task
  <2> HIDE DEF t
  <2> QED
    BY <1>0, <1>1, <2>1, <2>2, <2>3, <2>4, SeenKeepsCuts
<1>3. CASE ReadFails(p) /\ task[p].kind = "limited"
  <2> DEFINE r == IF tx[p].row.wl = "active" THEN Capture(tx[p].row, None) ELSE tx[p].row
             t == [task[p] EXCEPT !.pc = "reread"]
  <2>1. r \in Row
    BY <1>0, <1>1, <1>3, CapturePaid
  <2>2. /\ task' = [task EXCEPT ![p] = t] /\ UNCHANGED <<torn, missed>>
        /\ tx' = [tx EXCEPT ![p] = [user |-> u, row |-> r]]
    <3>1. task' = [task EXCEPT ![p] = t] /\ Edit(p, r) /\ UNCHANGED <<torn, missed>>
      BY <1>1, <1>3 DEF ReadFails, Goto, Safe, TypeOK
    <3>2. [tx[p] EXCEPT !.row = r] = [user |-> u, row |-> r]
      BY <1>1
    <3> QED
      BY <3>1, <3>2 DEF Edit
  <2> HIDE DEF r
  <2>3. /\ t \in Task /\ t.user = task[p].user /\ t.kind = task[p].kind
        /\ t.patched = task[p].patched
    BY <1>1 DEF Task
  <2> HIDE DEF t
  <2> QED
    BY <1>0, <1>1, <1>3, <2>1, <2>2, <2>3, SeenKeepsCuts
<1> QED
  BY <1>2, <1>3

(* The second read of user.limited. *)
LEMMA RereadKeepsCuts ==
    ASSUME Safe, Cuts, NEW p \in Proc, Reread(p)
    PROVE  Cuts'
<1>0. PICK u \in User : UserOf(p) = u
  BY Inside DEF Reread, At, TxPc
<1> DEFINE t == [task[p] EXCEPT !.seen = panel[u], !.pc = "patch"]
<1>1. /\ task[p].pc = "reread" /\ task[p] \in Task /\ task[p].kind = "limited"
      /\ tx[p].row \in Row /\ tx[p] = [user |-> u, row |-> tx[p].row]
      /\ panel[u] \in PanelUser
  BY <1>0, Inside DEF Reread, At, TxPc, Safe, TypeOK, Control, ControlOf
<1>2. /\ task' = [task EXCEPT ![p] = t]
      /\ UNCHANGED <<rows, panel, wire, torn, missed>>
      /\ tx' = [tx EXCEPT ![p] = [user |-> u, row |-> tx[p].row]]
  BY <1>0, <1>1 DEF Reread, store, world, ghosts, Safe, TypeOK
<1>3. /\ t \in Task /\ t.user = task[p].user /\ t.kind = task[p].kind /\ t.pc = "patch"
      /\ t.patched = task[p].patched
  BY <1>1 DEF Task
<1> HIDE DEF t
<1> QED
  BY <1>0, <1>1, <1>2, <1>3, SeenKeepsCuts

(* The transaction of p ends without a commit: its user has been missed. *)
LEMMA RollbackKeepsCuts ==
    ASSUME Safe, Cuts, NEW p \in Proc,
           \/ ReadFails(p) /\ task[p].kind # "limited"
           \/ RereadFails(p) \/ PatchFails(p) \/ FinishFails(p)
    PROVE  Cuts'
<1>1. PICK u \in User : UserOf(p) = u
  BY Inside DEF ReadFails, RereadFails, PatchFails, FinishFails, At, TxPc
<1>2. InTx(p)
  BY Inside DEF ReadFails, RereadFails, PatchFails, FinishFails, At, TxPc
<1>3. Rollback(p) /\ Unlock(p) /\ \E sent : Abandoned(p, sent)
  BY DEF ReadFails, RereadFails, PatchFails, FinishFails
<1>4. u \in missed' /\ missed \subseteq missed' /\ torn' \subseteq missed'
  BY <1>1, <1>3 DEF Abandoned, Cuts
<1>5. ~InTx(p)' /\ \A q \in Proc : q # p => tx'[q] = tx[q] /\ task'[q] = task[q]
  BY <1>3 DEF Rollback, Unlock, InTx, Safe, TypeOK
<1>6. UNCHANGED <<panel, wire>> \/ Apply(p)
  BY DEF ReadFails, RereadFails, PatchFails, FinishFails, world
<1>7. /\ \A v \in User : v # u => rows'[v] = rows[v] /\ panel'[v] = panel[v]
      /\ \A v \in User : "modified" \in wire[v] => "modified" \in wire'[v]
  BY <1>1, <1>3, <1>6 DEF Rollback, Apply, Send, Safe, TypeOK
<1> QED
  BY <1>1, <1>2, <1>4, <1>5, <1>7, InsideKeepsCuts

(* The PATCH, its retries and what follows it: the job of p stays where it is. *)
LEMMA StayKeepsCuts ==
    ASSUME Safe, Core, Paying, Cuts, NEW p \in Proc,
           PatchOk(p) \/ PatchRetries(p) \/ Zero(p) \/ ZeroFails(p)
    PROVE  Cuts'
<1>1. /\ task[p].pc \in {"patch", "zero"} /\ task[p] \in Task /\ UserOf(p) \in User
      /\ UNCHANGED <<rows, tx, torn, missed, paid>> /\ InTx(p) /\ task[p].kind \in HandlerKind
      /\ ControlOf(p)
  BY Inside DEF PatchOk, PatchRetries, Zero, ZeroFails, At, TxPc, store, world, ghosts,
                Safe, TypeOK, Control
<1>2. PICK u \in User : UserOf(p) = u
  BY <1>1
<1>3. PICK pc, patched, tries :
        /\ task' = [task EXCEPT ![p] =
                      [task[p] EXCEPT !.pc = pc, !.patched = patched, !.tries = tries]]
        /\ pc \in {"patch", "zero", "commit"} /\ (pc = "patch" => task[p].pc = "patch")
        /\ pc = "zero" => task[p].kind = "reset"
        /\ \/ /\ panel'[u].squads = panel[u].squads /\ panel'[u].limit = panel[u].limit
              /\ pc # "patch" => task[p].pc = "zero"
              /\ patched = task[p].patched
           \/ At(p, "patch") /\ Apply(p) /\ patched
  BY <1>2, StayShape
<1> DEFINE t == [task[p] EXCEPT !.pc = pc, !.patched = patched, !.tries = tries]
<1>4. /\ t.user = task[p].user /\ t.kind = task[p].kind /\ t.pc = pc
      /\ t.seen = task[p].seen /\ t.patched = patched
  BY <1>1 DEF Task
<1> HIDE DEF t
<1>5. task'[p] = t /\ UserOf(p)' = u /\ InTx(p)' /\ task' = [task EXCEPT ![p] = t]
  BY <1>1, <1>2, <1>3, <1>4 DEF t, UserOf, InTx, Safe, TypeOK
<1>6. /\ \A v \in User : v # u => panel'[v] = panel[v]
      /\ \A v \in User : "modified" \in wire[v] => "modified" \in wire'[v]
  BY <1>1, <1>2 DEF PatchOk, PatchRetries, Zero, ZeroFails, Apply, Send, world, Safe, TypeOK
<1>7. Notice(u) => Notice(u)'
  <2>1. ~Reading(task[p], u)
    BY <1>1 DEF Reading
  <2> QED
    BY <1>5, <1>6, <2>1, NoticeKept
<1>8. ASSUME u \notin missed
      PROVE  JobExpects(p, u) /\ Expected(u) /\ u \notin torn
  BY <1>1, <1>2, <1>8 DEF Cuts
<1>9. ASSUME u \notin missed, Blocked(u), HasSquad(u)'
       PROVE  Restoring(p, u)' \/ (Notice(u)' /\ LimitGrew(rows[u], panel'[u]))
  <2>1. \/ \E q \in Proc : Restoring(q, u)
        \/ Notice(u) /\ LimitGrew(rows[u], panel[u])
        \/ ~HasSquad(u)
    BY <1>8, <1>9 DEF Expected
  <2>2. \A q \in Proc : Restoring(q, u) => q = p
    BY <1>1, Alone DEF Restoring
  <2>3. CASE At(p, "patch") /\ Apply(p) /\ patched
    <3>1. CASE task[p].kind = "limited"
      BY <1>2, <1>8, <1>9, <2>3, <3>1, ApplyPays
    <3>2. CASE task[p].kind = "modified"
      BY <1>3, <1>4, <1>5, <3>2 DEF Restoring
    <3>3. CASE task[p].kind = "reset"
      BY <1>4, <1>5, <2>3, <3>3 DEF Restoring
    <3>4. CASE task[p].kind = "basic"
      <4>1. panel'[u].limit = panel[u].limit /\ HasSquad(u)
        BY <1>2, <1>8, <1>9, <2>3, <3>4, ApplyPays
      <4>2. ~Restoring(p, u)
        BY <3>4 DEF Restoring
      <4>3. Notice(u) /\ LimitGrew(rows[u], panel[u])
        BY <2>1, <2>2, <4>1, <4>2
      <4> QED
        BY <1>7, <4>1, <4>3 DEF LimitGrew
    <3> QED
      BY <1>1, <3>1, <3>2, <3>3, <3>4 DEF HandlerKind, Webhook
  <2>4. CASE /\ panel'[u].squads = panel[u].squads /\ panel'[u].limit = panel[u].limit
             /\ pc # "patch" => task[p].pc = "zero"
             /\ patched = task[p].patched
    <3>1. HasSquad(u)
      BY <1>9, <2>4 DEF HasSquad
    <3>2. Restoring(p, u) => Restoring(p, u)'
      <4>1. task[p].pc = "zero" => task[p].kind = "reset"
        BY <1>1 DEF ControlOf, At
      <4> QED
        BY <1>1, <1>3, <1>4, <1>5, <2>4, <4>1 DEF Restoring
    <3>3. LimitGrew(rows[u], panel[u]) => LimitGrew(rows[u], panel'[u])
      BY <2>4 DEF LimitGrew
    <3> QED
      BY <1>7, <2>1, <2>2, <3>1, <3>2, <3>3
  <2> QED
    BY <1>3, <2>3, <2>4
<1>10. ASSUME u \notin missed' PROVE Expected(u)'
  <2>1. LimitGrew(rows[u], panel'[u]) => LimitGrew(rows[u], panel[u])'
    BY <1>1 DEF LimitGrew, OrigOf
  <2>2. Blocked(u)' <=> Blocked(u)
    BY <1>1 DEF Blocked
  <2> QED
    BY <1>1, <1>9, <1>10, <2>1, <2>2 DEF Expected
<1>11. ASSUME u \notin missed' PROVE JobExpects(p, u)'
  <2>1. JobExpects(p, u) /\ u \notin missed /\ u \notin torn
    BY <1>1, <1>8, <1>11
  <2>2. ASSUME task[p].kind = "limited", patched, HasSquad(u)'
        PROVE  Notice(u)' /\ LimitGrew(RowOf(task[p], tx[p].row), panel'[u])
    <3>1. CASE At(p, "patch") /\ Apply(p)
      BY <1>2, <2>1, <2>2, <3>1, ApplyPays
    <3>2. CASE /\ panel'[u].squads = panel[u].squads /\ panel'[u].limit = panel[u].limit
               /\ patched = task[p].patched
      <4>1. Cutting(p, u) /\ HasSquad(u)
        BY <1>1, <1>2, <2>2, <3>2 DEF Cutting, HasSquad
      <4>2. Notice(u) /\ LimitGrew(RowOf(task[p], tx[p].row), panel[u])
        BY <2>1, <4>1 DEF JobExpects
      <4> QED
        BY <1>7, <3>2, <4>2 DEF LimitGrew
    <3> QED
      BY <1>3, <3>1, <3>2
  <2>3. Cutting(p, u)' => task[p].kind = "limited" /\ patched
    BY <1>4, <1>5 DEF Cutting
  <2>4. RowOf(task[p], tx[p].row)' = RowOf(task[p], tx[p].row)
    BY <1>1, <1>4, <1>5 DEF RowOf, Preserve, BlockedRow, RestoredRow, ResetRow, BasicRow
  <2>5. LimitGrew(RowOf(task[p], tx[p].row), panel'[u]) =>
           LimitGrew(RowOf(task[p], tx[p].row), panel[u])'
    BY <2>4 DEF LimitGrew, OrigOf
  <2> QED
    BY <2>2, <2>3, <2>5 DEF JobExpects
<1>12. \A q \in Proc : q # p => tx'[q] = tx[q] /\ task'[q] = task[q]
  BY <1>1, <1>5 DEF Safe, TypeOK
<1>13. torn' \subseteq missed'
  BY <1>1 DEF Cuts
<1> QED
  BY <1>1, <1>2, <1>5, <1>6, <1>10, <1>11, <1>12, <1>13, InsideKeepsCuts

(* The commit: a block whose user has bought more is told about it, a restore or  *)
(* reset unblocks, whatever else leaves the row alone.                            *)
LEMMA FinishKeepsCuts ==
    ASSUME Safe, Core, Acked, Cuts, NEW p \in Proc, Finish(p)
    PROVE  Cuts'
<1> DEFINE old == tx[p].row
           r == IF At(p, "commit") THEN RowOf(task[p], old) ELSE old
<1>1. task[p].pc \in TxPc /\ (At(p, "commit") \/ At(p, "skip"))
  BY DEF Finish, At, TxPc
<1>2. /\ InTx(p) /\ UserOf(p) \in User /\ tx[p].user = UserOf(p) /\ old \in Row
      /\ task[p].kind \in HandlerKind /\ ControlOf(p)
  BY <1>1, Inside DEF Safe, Control
<1>3. PICK u \in User : UserOf(p) = u
  BY <1>2
<1>4. r \in Row
  BY <1>1, <1>2, OutcomeType DEF At
<1>5. UNCHANGED <<panel, wire, torn, missed>> /\ Commit(p, r) /\ Unlock(p)
  BY DEF Finish, world, ghosts
<1>6. ASSUME u \notin missed PROVE JobExpects(p, u) /\ Expected(u)
  BY <1>2, <1>3, <1>6 DEF Cuts
<1>7. \A q \in Proc : Restoring(q, u) => q = p
  BY <1>2, Alone DEF Restoring
<1>8. ASSUME u \notin missed, r.wl = "blocked", HasSquad(u)
      PROVE  Notice(u) /\ LimitGrew(r, panel[u])
  <2>1. CASE At(p, "commit") /\ task[p].kind = "limited"
    <3>1. Cutting(p, u)
      BY <1>2, <1>3, <2>1 DEF Acked, Cutting, At
    <3> QED
      BY <1>6, <1>8, <2>1, <3>1 DEF JobExpects
  <2>2. CASE At(p, "commit") /\ task[p].kind \in {"modified", "reset"}
    <3>1. r = RestoredRow(old) \/ r = ResetRow(old)
      BY <2>2 DEF RowOf, BlockKind
    <3>2. r.wl = "active"
      BY <1>2, <3>1 DEF RestoredRow, ResetRow, Row
    <3> QED
      BY <1>8, <3>2
  <2>3. CASE At(p, "skip") \/ task[p].kind = "basic"
    <3>1. r = old \/ r = BasicRow(old)
      BY <1>1, <2>3 DEF RowOf, BlockKind, At
    <3>2. r.wl = old.wl /\ r.orig = old.orig
      BY <1>2, <3>1 DEF BasicRow, Row
    <3>3. task[p].kind # "limited" /\ old = Loaded(u, DefaultRow) /\ ~Restoring(p, u)
      BY <1>2, <1>3, <2>3 DEF ControlOf, Restoring, At
    <3>4. Blocked(u) /\ old = rows[u]
      BY <1>8, <3>2, <3>3 DEF Loaded, Blocked, DefaultRow
    <3>5. Notice(u) /\ LimitGrew(rows[u], panel[u])
      BY <1>6, <1>7, <1>8, <3>3, <3>4 DEF Expected
    <3> QED
      BY <3>2, <3>4, <3>5 DEF LimitGrew, OrigOf
  <2> QED
    BY <1>1, <1>2, <2>1, <2>2, <2>3 DEF HandlerKind, Webhook
<1> HIDE DEF r
<1>9. /\ rows' = [rows EXCEPT ![u] = r] /\ rows'[u] = r /\ r # Absent
      /\ tx' = [tx EXCEPT ![p] = NoTx] /\ task' = [task EXCEPT ![p] = Done(p)]
  BY <1>2, <1>3, <1>4, <1>5, AbsentAssumption DEF Commit, Unlock, Safe, TypeOK
<1>10. ~InTx(p)' /\ \A q \in Proc : q # p => tx'[q] = tx[q] /\ task'[q] = task[q]
  BY <1>9 DEF InTx, Safe, TypeOK
<1>11. Notice(u) => Notice(u)'
  <2>1. ~Reading(task[p], u)
    BY <1>1 DEF Reading, At
  <2> QED
    BY <1>5, <1>9, <2>1, NoticeKept
<1>12. ASSUME u \notin missed' PROVE Expected(u)'
  <2>1. Blocked(u)' <=> r.wl = "blocked"
    BY <1>9 DEF Blocked
  <2>2. LimitGrew(r, panel[u]) => LimitGrew(rows[u], panel[u])'
    BY <1>5, <1>9 DEF LimitGrew, OrigOf
  <2> QED
    BY <1>5, <1>8, <1>11, <1>12, <2>1, <2>2 DEF Expected, HasSquad
<1>13. /\ \A v \in User : v # u => rows'[v] = rows[v] /\ panel'[v] = panel[v]
       /\ \A v \in User : "modified" \in wire[v] => "modified" \in wire'[v]
  BY <1>5, <1>9 DEF Safe, TypeOK
<1>14. torn' \subseteq missed' /\ missed \subseteq missed'
  BY <1>5 DEF Cuts
<1> QED
  BY <1>2, <1>3, <1>10, <1>12, <1>13, <1>14, InsideKeepsCuts

(* The service dies: whoever had a job has been missed. *)
LEMMA CrashKeepsCuts ==
    ASSUME Safe, Cuts, Crash
    PROVE  Cuts'
<1>1. /\ tx' = [p \in Proc |-> NoTx] /\ UNCHANGED <<rows, panel, wire>>
      /\ missed' = missed \cup {UserOf(p) : p \in {q \in Proc : UserOf(q) # Absent}}
      /\ torn' = torn \cup {UserOf(p) : p \in {q \in Proc : task[q].patched
                                                         /\ task[q].kind \in BlockKind}}
  BY DEF Crash, Reopen, world
<1>2. \A p \in Proc : ~InTx(p)'
  BY <1>1 DEF InTx
<1>3. torn' \subseteq missed'
  <2>1. \A q \in Proc : task[q].patched => UserOf(q) # Absent
    BY StoreAssumption DEF Safe, Control, ControlOf
  <2> QED
    BY <1>1, <2>1 DEF Cuts
<1>4. ASSUME NEW v \in User \ missed' PROVE Expected(v)'
  <2>1. Expected(v)
    BY <1>1, <1>4 DEF Cuts
  <2>2. \A q \in Proc : UserOf(q) # v
    BY <1>1, <1>4, StoreAssumption
  <2>3. /\ \A q \in Proc : ~Restoring(q, v)
        /\ Notice(v) => Notice(v)'
    BY <1>1, <2>2 DEF Restoring, Notice, Reading, UserOf
  <2>4. /\ Blocked(v)' <=> Blocked(v)
        /\ HasSquad(v)' <=> HasSquad(v)
        /\ LimitGrew(rows[v], panel[v]) => LimitGrew(rows[v], panel[v])'
    BY <1>1 DEF Blocked, HasSquad, LimitGrew, OrigOf
  <2> QED
    BY <2>1, <2>3, <2>4 DEF Expected
<1> QED
  BY <1>2, <1>3, <1>4 DEF Cuts

(* Every step. *)
LEMMA CutsStep ==
    ASSUME Safe, Core, Acked, Paying, Cuts, [Next]_vars
    PROVE  Cuts'
<1>1. ASSUME NEW p \in Proc, Work(p) PROVE Cuts'
  <2>1. CASE Lock(p)
    <3>1. PICK u \in User : UserOf(p) = u
      BY <2>1 DEF Lock, At, Safe, Control, ControlOf
    <3> QED
      BY <2>1, <3>1, StartKeepsCuts
  <2> QED
    BY <1>1, <2>1, BeginKeepsCuts, ReadKeepsCuts, RereadKeepsCuts, StayKeepsCuts, FinishKeepsCuts
       DEF Work
<1>2. ASSUME NEW p \in Proc, WorkFails(p) PROVE Cuts'
  <2>1. CASE BeginFails(p)
    <3>1. PICK u \in User : UserOf(p) = u
      BY <2>1 DEF BeginFails, At, Safe, Control, ControlOf
    <3> QED
      BY <2>1, <3>1, StartKeepsCuts
  <2> QED
    BY <1>2, <2>1, ReadKeepsCuts, StayKeepsCuts, RollbackKeepsCuts DEF WorkFails
<1>3. CASE UNCHANGED vars
  <2>1. UNCHANGED <<rows, tx, task, panel, wire, paid, torn, missed>> /\ paid \in [User -> Nat]
    BY <1>3 DEF vars, store, world, ghosts, Safe, TypeOK
  <2>2. \A v \in User : Notice(v) => Notice(v)'
    BY <2>1 DEF Notice
  <2> QED
    BY <2>1, <2>2, OutsideKeepsCuts
<1> QED
  BY <1>1, <1>2, <1>3, StartKeepsCuts, PollKeepsCuts, ExternalKeepsCuts, CrashKeepsCuts
     DEF Next, Internal

(* Between jobs a blocked user is cut off at the panel, or has just bought more   *)
(* and the user.modified that says so is still to be handled: whatever the order  *)
(* of blocks, purchases, resets and basic cuts, unless a notice or a job of his   *)
(* was dropped.                                                                   *)
THEOREM BlockedStaysCut == Spec => []BlockedIsCut
<1> DEFINE Known == Safe /\ Core /\ Acked /\ Paying /\ Cuts
<1>1. Init => Known
  <2> SUFFICES ASSUME Init PROVE Acked /\ Cuts
    BY SafeInit, CoreInit, PayingInit
  <2>1. \A p \in Proc : ~InTx(p) /\ task[p] = Idle
    BY DEF Init, StoreInit, InTx
  <2>2. Acked
    BY <2>1 DEF Acked, Idle
  <2>3. ASSUME NEW u \in User PROVE Expected(u)
    <3>1. CASE u \in Legacy
      BY <3>1, SquadAssumption DEF Init, Expected, HasSquad
    <3>2. CASE u \notin Legacy
      BY <3>2 DEF Init, StoreInit, Expected, Blocked
    <3> QED
      BY <3>1, <3>2
  <2>4. torn \subseteq missed
    BY DEF Init
  <2> QED
    BY <2>1, <2>2, <2>3, <2>4 DEF Cuts
<1>2. Known /\ [Next]_vars => Known'
  BY SafeStep, CoreStep, AckedStep, PayingStep, CutsStep
<1>3. Known => BlockedIsCut
  <2> SUFFICES ASSUME Known, NEW u \in User \ missed, Unlocked(u), Blocked(u), HasSquad(u)
               PROVE  ModifiedPending(u)
    BY DEF BlockedIsCut, HasSquad
  <2>1. \A p \in Proc : UserOf(p) = u => task[p].pc \notin TxPc \cup {"begin"}
    BY EngineAssumption DEF Unlocked, Safe, Control, ControlOf
  <2>2. \A p \in Proc : ~Restoring(p, u)
    BY <2>1 DEF Restoring, Safe, Control, ControlOf
  <2>3. Notice(u)
    BY <2>2 DEF Cuts, Expected
  <2>4. \A p \in Proc : Reading(task[p], u) => At(p, "lock")
    BY <2>1 DEF Reading, UserOf, At, TxPc
  <2> QED
    BY <2>3, <2>4 DEF Notice, Reading, ModifiedPending, UserOf
<1> QED
  BY <1>1, <1>2, <1>3, PTL DEF Spec
=============================================================================
