-------------------------- MODULE ReconcilerProofs --------------------------
(***************************************************************************)
(* The reconciler waits for itself, for any users, handlers and faults:    *)
(* from its tick to the end of its pass it holds the pool's only           *)
(* connection, so a job it starts never gets one.                          *)
(***************************************************************************)
EXTENDS Reconciler, TLAPS

\* one transaction at a time, by the holder of the connection
OneConnection == \A p \in Proc : InTx(p) => conn = p

(* The inductive invariant: between transactions the reconciler is idle, or in  *)
(* its pass with the connection in hand.                                        *)
Waiting ==
    /\ Reconciler \in DOMAIN task /\ "pc" \in DOMAIN task[Reconciler]
    /\ DOMAIN tx = Proc
    /\ OneConnection /\ ~InTx(Reconciler)
    /\ NeverRepairs
    /\ ~At(Reconciler, "idle") => conn = Reconciler

\* what a step of anybody else leaves alone
Undisturbed ==
    /\ task'[Reconciler] = task[Reconciler] /\ Reconciler \in DOMAIN task'
    /\ tx'[Reconciler] = tx[Reconciler] /\ DOMAIN tx' = Proc
    /\ OneConnection'
    /\ conn = Reconciler => conn' = Reconciler /\ rows' = rows

-----------------------------------------------------------------------------
(* The store's actions, by a goroutine that is not the reconciler *)

(* A transaction begins only on a free connection.                               *)
LEMMA BeginDisturbsNobody ==
    ASSUME Waiting, NEW p \in Proc, p # Reconciler, NEW u, Begin(p, u, DefaultRow)
    PROVE  /\ tx'[Reconciler] = tx[Reconciler] /\ DOMAIN tx' = Proc
           /\ OneConnection' /\ conn # Reconciler
BY StoreAssumption, EngineAssumption DEF Waiting, OneConnection, Begin, InTx

(* A callback edits the working copy of its own transaction.                     *)
LEMMA EditDisturbsNobody ==
    ASSUME Waiting, NEW p \in Proc, p # Reconciler, NEW row, Edit(p, row)
    PROVE  /\ tx'[Reconciler] = tx[Reconciler] /\ DOMAIN tx' = Proc
           /\ OneConnection' /\ conn # Reconciler
BY EngineAssumption DEF Waiting, OneConnection, Edit, InTx

(* A commit gives back the connection of the one who commits.                    *)
LEMMA CommitDisturbsNobody ==
    ASSUME Waiting, NEW p \in Proc, p # Reconciler, NEW row, Commit(p, row)
    PROVE  /\ tx'[Reconciler] = tx[Reconciler] /\ DOMAIN tx' = Proc
           /\ OneConnection' /\ conn # Reconciler
BY EngineAssumption DEF Waiting, OneConnection, Commit, InTx

(* So does a rollback.                                                           *)
LEMMA RollbackDisturbsNobody ==
    ASSUME Waiting, NEW p \in Proc, p # Reconciler, Rollback(p)
    PROVE  /\ tx'[Reconciler] = tx[Reconciler] /\ DOMAIN tx' = Proc
           /\ OneConnection' /\ conn # Reconciler
BY EngineAssumption DEF Waiting, OneConnection, Rollback, InTx

(* Steps that do not touch the store.                                            *)
LEMMA StoreUntouched ==
    ASSUME Waiting, UNCHANGED store
    PROVE  /\ tx'[Reconciler] = tx[Reconciler] /\ DOMAIN tx' = Proc
           /\ OneConnection' /\ conn' = conn /\ rows' = rows
BY DEF Waiting, OneConnection, store, InTx

-----------------------------------------------------------------------------
(* The steps of the engine *)

(* A job of another goroutine leaves the reconciler and its connection alone.    *)
LEMMA OthersUndisturbed ==
    ASSUME Waiting, NEW p \in Proc, p # Reconciler, Work(p) \/ WorkFails(p)
    PROVE  Undisturbed
<1> USE EngineAssumption
<1>0. /\ Reconciler \in DOMAIN task
      /\ \A t : task' = [task EXCEPT ![p] = t] =>
                    task'[Reconciler] = task[Reconciler] /\ Reconciler \in DOMAIN task'
  BY DEF Waiting
<1>1. CASE Lock(p)
  BY <1>0, <1>1, StoreUntouched DEF Lock, Goto, Undisturbed
<1>2. CASE BeginTx(p)
  BY <1>0, <1>2, BeginDisturbsNobody DEF BeginTx, Goto, Undisturbed
<1>3. CASE Read(p)
  <2>1. /\ task'[Reconciler] = task[Reconciler] /\ Reconciler \in DOMAIN task'
    BY <1>0, <1>3 DEF Read
  <2>2. PICK row : Edit(p, row)
    BY <1>3 DEF Read
  <2> QED
    BY <2>1, <2>2, EditDisturbsNobody DEF Undisturbed
<1>4. CASE Reread(p)
  BY <1>0, <1>4, StoreUntouched DEF Reread, Undisturbed
<1>5. CASE PatchOk(p)
  BY <1>0, <1>5, StoreUntouched DEF PatchOk, Undisturbed
<1>6. CASE Zero(p)
  BY <1>0, <1>6, StoreUntouched DEF Zero, Goto, Undisturbed
<1>7. CASE Finish(p)
  <2>1. PICK row : Commit(p, row)
    BY <1>7 DEF Finish
  <2> QED
    BY <1>0, <1>7, <2>1, CommitDisturbsNobody DEF Finish, Unlock, Undisturbed
<1>8. CASE BeginFails(p)
  BY <1>0, <1>8, StoreUntouched DEF BeginFails, Unlock, Undisturbed
<1>9. CASE ReadFails(p)
  <2>1. CASE task[p].kind = "limited"
    <3>1. PICK row : Edit(p, row)
      BY <1>9, <2>1 DEF ReadFails
    <3>2. Goto(p, "reread")
      BY <1>9, <2>1 DEF ReadFails
    <3> QED
      BY <1>0, <3>1, <3>2, EditDisturbsNobody DEF Goto, Undisturbed
  <2>2. CASE task[p].kind # "limited"
    <3>1. Rollback(p) /\ Unlock(p)
      BY <1>9, <2>2 DEF ReadFails
    <3> QED
      BY <1>0, <3>1, RollbackDisturbsNobody DEF Unlock, Undisturbed
  <2> QED
    BY <2>1, <2>2
<1>10. CASE RereadFails(p)
  BY <1>0, <1>10, RollbackDisturbsNobody DEF RereadFails, Unlock, Undisturbed
<1>11. CASE PatchRetries(p)
  BY <1>0, <1>11, StoreUntouched DEF PatchRetries, Undisturbed
<1>12. CASE PatchFails(p)
  BY <1>0, <1>12, RollbackDisturbsNobody DEF PatchFails, Unlock, Undisturbed
<1>13. CASE ZeroFails(p)
  BY <1>0, <1>13, StoreUntouched DEF ZeroFails, Goto, Undisturbed
<1>14. CASE FinishFails(p)
  BY <1>0, <1>14, RollbackDisturbsNobody DEF FinishFails, Unlock, Undisturbed
<1> QED
  BY <1>1, <1>2, <1>3, <1>4, <1>5, <1>6, <1>7, <1>8, <1>9, <1>10, <1>11, <1>12, <1>13, <1>14
     DEF Work, WorkFails

(* A job of the reconciler can take the user's mutex and nothing more: it needs  *)
(* a connection to go on, and nobody but the reconciler itself holds it.         *)
LEMMA OwnJobOnlyLocks ==
    ASSUME Waiting, Work(Reconciler) \/ WorkFails(Reconciler)
    PROVE  Lock(Reconciler)
<1>1. conn = Reconciler \/ At(Reconciler, "idle")
  BY DEF Waiting
<1>2. conn = Free => At(Reconciler, "idle")
  BY <1>1, StoreAssumption, EngineAssumption
<1> QED
  BY <1>2 DEF Waiting, NeverRepairs, At, Work, WorkFails, BeginTx, Begin, Read, Reread, PatchOk,
     Zero, Finish, BeginFails, Cancellable, Handler, ReadFails, RereadFails, PatchRetries,
     PatchFails, ZeroFails, FinishFails

(* The steps that start a job, of bystanders, of the panel, of the bot and of    *)
(* the network.                                                                  *)
LEMMA RestUndisturbed ==
    ASSUME Waiting, NEW u \in User,
           \/ Poll(u) \/ ReadState(u)
           \/ \E p \in Proc : Repay(p, u)
           \/ \E p \in Proc, k \in Webhook : Receive(p, u, k) \/ Redeliver(p, u, k)
           \/ External
    PROVE  Undisturbed
<1> USE EngineAssumption
<1>0. /\ Reconciler \in DOMAIN task
      /\ \A p \in Proc \ {Reconciler} : \A t : task' = [task EXCEPT ![p] = t] =>
                    task'[Reconciler] = task[Reconciler] /\ Reconciler \in DOMAIN task'
      /\ OneConnection /\ Free # Reconciler
  BY StoreAssumption DEF Waiting
<1>1. CASE Poll(u)
  <2>1. conn = Free /\ conn' = conn /\ tx' = tx
    BY <1>1 DEF Poll, AddUsage
  <2>2. OneConnection'
    BY <1>0, <2>1 DEF OneConnection, InTx
  <2>3. task'[Reconciler] = task[Reconciler] /\ Reconciler \in DOMAIN task'
    BY <1>0, <1>1 DEF Poll
  <2> QED
    BY <1>0, <2>1, <2>2, <2>3 DEF Undisturbed, Waiting
<1>2. CASE ReadState(u)
  <2>1. conn = Free /\ conn' = conn /\ tx' = tx /\ task' = task
    BY <1>2 DEF ReadState, Get
  <2>2. OneConnection'
    BY <1>0, <2>1 DEF OneConnection, InTx
  <2> QED
    BY <1>0, <2>1, <2>2 DEF Undisturbed, Waiting
<1>3. ASSUME NEW p \in Proc,
             Repay(p, u) \/ \E k \in Webhook : Receive(p, u, k) \/ Redeliver(p, u, k)
      PROVE  Undisturbed
  BY <1>0, <1>3, StoreUntouched DEF Repay, Receive, Redeliver, Handler, Undisturbed
<1>4. CASE External
  <2>1. UNCHANGED store /\ task' = task
    BY <1>4 DEF External, Consume, PanelLimits, TrafficReset, TopUp, Lose
  <2> QED
    BY <1>0, <2>1, StoreUntouched DEF Undisturbed
<1> QED
  BY <1>1, <1>2, <1>3, <1>4

(* An undisturbed reconciler waits on. *)
LEMMA UndisturbedWaits ==
    ASSUME Waiting, Undisturbed
    PROVE  Waiting'
BY DEF Waiting, Undisturbed, NeverRepairs, At, InTx, NoTx

-----------------------------------------------------------------------------
(* The invariant *)

(* At the start nobody is at work.                                               *)
LEMMA WaitingInit == Init => Waiting
BY EngineAssumption
   DEF Init, StoreInit, Waiting, OneConnection, NeverRepairs, InTx, At, Idle

(* What the reconciler does on its own keeps the connection in its hands. *)
LEMMA LoopWaits ==
    ASSUME Waiting, Reconcile \/ Lock(Reconciler)
    PROVE  Waiting'
<1> USE EngineAssumption
<1>0. /\ Reconciler \in DOMAIN task /\ "pc" \in DOMAIN task[Reconciler]
      /\ OneConnection /\ ~InTx(Reconciler) /\ DOMAIN tx = Proc
      /\ Free # Reconciler
  BY StoreAssumption DEF Waiting
<1>1. ASSUME tx' = tx, conn = Reconciler \/ conn = Free
      PROVE  DOMAIN tx' = Proc /\ OneConnection' /\ ~InTx(Reconciler)'
  BY <1>0, <1>1, StoreAssumption DEF OneConnection, InTx, NoTx
<1>2. ASSUME NEW pc, Goto(Reconciler, pc)
      PROVE  /\ Reconciler \in DOMAIN task' /\ "pc" \in DOMAIN task'[Reconciler]
             /\ task'[Reconciler].pc = pc
  BY <1>0, <1>2 DEF Goto
<1>3. CASE Tick
  <2>1. conn = Free /\ conn' = Reconciler /\ tx' = tx /\ Goto(Reconciler, "visit")
    BY <1>3 DEF Tick, OpenCursor
  <2> QED
    BY <1>1, <1>2, <2>1 DEF Waiting, NeverRepairs, At
<1>4. CASE PassEnds
  <2>1. conn = Reconciler /\ tx' = tx /\ Goto(Reconciler, "idle")
    BY <1>4 DEF PassEnds, CloseCursor, Iterating
  <2> QED
    BY <1>1, <1>2, <2>1 DEF Waiting, NeverRepairs, At
<1>5. ASSUME NEW u \in User, Visit(u)
      PROVE  Waiting'
  <2>1. conn = Reconciler /\ conn' = conn /\ tx' = tx /\ At(Reconciler, "visit")
    BY <1>5 DEF Visit, Fetch, Iterating
  <2> DEFINE row == rows[u]
             pu == panel[u]
             t == IF NeedsRestore(row, pu)   THEN [Job("restore", u) EXCEPT !.seen = pu]
                  ELSE IF NeedsBlock(row, pu)  THEN [Job("repair", u) EXCEPT !.seen = pu]
                  ELSE IF LostLimited(row, pu) THEN Job("limited", u)
                  ELSE task[Reconciler]
  <2>2. task' = [task EXCEPT ![Reconciler] = t]
    BY <1>5 DEF Visit
  <2>3. \A k, v, seen : /\ "pc" \in DOMAIN [Job(k, v) EXCEPT !.seen = seen]
                        /\ [Job(k, v) EXCEPT !.seen = seen].pc = "lock"
                        /\ "pc" \in DOMAIN Job(k, v) /\ Job(k, v).pc = "lock"
    BY DEF Job
  <2>4. "pc" \in DOMAIN t /\ t.pc \in {"lock", "visit"}
    BY <1>0, <2>1, <2>3 DEF At
  <2> HIDE DEF t
  <2> QED
    BY <1>0, <1>1, <2>1, <2>2, <2>4 DEF Waiting, NeverRepairs, At
<1>6. ASSUME NEW u \in User, VisitFails(u)
      PROVE  Waiting'
  <2>1. conn = Reconciler /\ conn' = conn /\ tx' = tx /\ task' = task
    BY <1>6 DEF VisitFails, Fetch, Iterating
  <2> QED
    BY <1>1, <2>1 DEF Waiting, NeverRepairs, At
<1>7. CASE Lock(Reconciler)
  <2>1. /\ conn' = conn /\ tx' = tx /\ Goto(Reconciler, "begin")
        /\ conn = Reconciler
    BY <1>7 DEF Lock, store, Waiting, At
  <2> QED
    BY <1>1, <1>2, <2>1 DEF Waiting, NeverRepairs, At
<1> QED
  BY <1>3, <1>4, <1>5, <1>6, <1>7 DEF Reconcile

(* After a restart nobody is at work either.                                     *)
LEMMA CrashWaits ==
    ASSUME Waiting, Crash
    PROVE  Waiting'
BY EngineAssumption DEF Waiting, Crash, Reopen, OneConnection, NeverRepairs, InTx, At, Idle

(* Every step of engine and loop is one of these. *)
LEMMA StepKinds ==
    ASSUME Waiting, [RNext]_vars
    PROVE  Undisturbed \/ Reconcile \/ Lock(Reconciler) \/ Crash
<1>1. CASE UNCHANGED vars
  <2>1. UNCHANGED store /\ task' = task
    BY <1>1 DEF vars
  <2> QED
    BY <2>1, StoreUntouched DEF Undisturbed, Waiting
<1>2. ASSUME NEW p \in Proc, Work(p) \/ WorkFails(p)
      PROVE  Undisturbed \/ Lock(Reconciler)
  BY <1>2, OthersUndisturbed, OwnJobOnlyLocks
<1>3. ASSUME NEW u \in User,
             \/ Poll(u) \/ ReadState(u)
             \/ \E p \in Proc : Repay(p, u)
             \/ \E p \in Proc, k \in Webhook : Receive(p, u, k) \/ Redeliver(p, u, k)
      PROVE  Undisturbed
  BY <1>3, RestUndisturbed
<1>4. CASE External
  BY <1>4, RestUndisturbed DEF External
<1> QED
  BY <1>1, <1>2, <1>3, <1>4 DEF RNext, Next, Internal

(* Every step keeps the invariant.                                               *)
LEMMA WaitingNext == Waiting /\ [RNext]_vars => Waiting'
BY StepKinds, UndisturbedWaits, LoopWaits, CrashWaits

-----------------------------------------------------------------------------
(* Whatever job the loop starts, the connection it needs is the one its own      *)
(* cursor holds.                                                                 *)
THEOREM LoopWaitsForItself == RSpec => []WaitsForItself
<1>1. Waiting => WaitsForItself
  BY DEF Waiting, WaitsForItself, Wedged, At
<1> QED
  BY WaitingInit, WaitingNext, <1>1, PTL DEF RSpec

(* The loop never gets as far as a callback, so it repairs nothing: no lost      *)
(* user.limited, no panel that disagrees with a blocked row.                     *)
THEOREM LoopNeverRepairs == RSpec => []NeverRepairs
<1>1. Waiting => NeverRepairs
  BY DEF Waiting
<1> QED
  BY WaitingInit, WaitingNext, <1>1, PTL DEF RSpec

(* Once its first job waits, no row changes any more until the service dies.     *)
THEOREM WedgeIsForGood == RSpec => WedgedForGood
<1>1. Waiting /\ [RNext]_vars => [Wedged => rows' = rows /\ (Wedged' \/ Crash)]_vars
  <2> SUFFICES ASSUME Waiting, [RNext]_vars, Wedged
               PROVE  rows' = rows /\ (Wedged' \/ Crash)
    OBVIOUS
  <2>1. conn = Reconciler /\ ~At(Reconciler, "lock") /\ ~At(Reconciler, "visit")
        /\ ~At(Reconciler, "idle")
    BY DEF Waiting, Wedged, At
  <2>2. CASE Undisturbed
    BY <2>1, <2>2 DEF Undisturbed, Wedged, At
  <2>3. CASE Crash
    BY <2>3 DEF Crash, Reopen
  <2>4. ~Reconcile /\ ~Lock(Reconciler)
    BY <2>1 DEF Reconcile, Tick, PassEnds, Visit, VisitFails, Lock
  <2> QED
    BY <2>2, <2>3, <2>4, StepKinds
<1> QED
  BY WaitingInit, WaitingNext, <1>1, PTL DEF RSpec, WedgedForGood
=============================================================================
