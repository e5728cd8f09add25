----------------------------- MODULE Reconciler -----------------------------
(***************************************************************************)
(* The engine with its safety net, the reconciliation loop (reconcile.go): *)
(* on every tick it walks the table with IterWLUsers, reads each user from *)
(* the panel and, when the panel is not as the row says, runs a job on the *)
(* user from inside the iteration.  The cursor of the iteration holds the  *)
(* pool's only connection; the job begins a transaction.                   *)
(***************************************************************************)
EXTENDS Engine

\* the ticker fires
Tick ==
    /\ At(Reconciler, "idle")
    /\ OpenCursor(Reconciler)
    /\ Goto(Reconciler, "visit")
    /\ UNCHANGED <<world, lock, ghosts>>

\* the callback of IterWLUsers on the row of u, with the panel's answer
Visit(u) ==
    /\ At(Reconciler, "visit")
    /\ Fetch(Reconciler, u)
    /\ LET row == rows[u]
           pu  == panel[u]
       IN  task' = [task EXCEPT ![Reconciler] =
               IF NeedsRestore(row, pu)   THEN [Job("restore", u) EXCEPT !.seen = pu]
               ELSE IF NeedsBlock(row, pu)  THEN [Job("repair", u) EXCEPT !.seen = pu]
               ELSE IF LostLimited(row, pu) THEN Job("limited", u)
               ELSE @]
    /\ UNCHANGED <<world, lock, ghosts>>

\* GetUser fails: the user is left for the next tick
VisitFails(u) ==
    /\ At(Reconciler, "visit") /\ Fault
    /\ Fetch(Reconciler, u)
    /\ UNCHANGED <<world, task, lock, torn, missed>>

\* the pass is over: no row is left (no job of the loop ends, so none ends in an error)
PassEnds ==
    /\ At(Reconciler, "visit") /\ cursor = {}
    /\ CloseCursor(Reconciler)
    /\ Goto(Reconciler, "idle")
    /\ UNCHANGED <<world, lock, ghosts>>

Reconcile ==
    \/ Tick \/ PassEnds
    \/ \E u \in User : Visit(u) \/ VisitFails(u)

RNext == Next \/ Reconcile

RSpec == Init /\ [][RNext]_vars

(* The ticker keeps firing and a pass goes on while it can; the rest as in Engine. *)
RFairSpec ==
    /\ RSpec /\ Fairness
    /\ SF_vars(Tick)
    /\ WF_vars(PassEnds \/ \E u \in User : Visit(u))

-----------------------------------------------------------------------------
\* the reconciler waits for a second connection while it holds the only one
Wedged == At(Reconciler, "begin")

(* The reconciler has the connection from its tick to the end of its pass, so  *)
(* a job it starts waits for a connection that only it could give back.        *)
WaitsForItself ==
    At(Reconciler, "visit") \/ At(Reconciler, "lock") \/ Wedged =>
        conn = Reconciler /\ ~InTx(Reconciler)

(* Safety: the loop changes nothing, neither a row nor the panel: it never gets  *)
(* as far as a callback of its own.                                              *)
NeverRepairs == task[Reconciler].pc \in {"idle", "visit", "lock", "begin"}

(* Once wedged, no row changes any more, whoever asks and whatever arrives, and  *)
(* only the death of the service ends it.                                        *)
WedgedForGood == [][Wedged => rows' = rows /\ (Wedged' \/ Crash)]_vars

(* README, test plan 6, and reconcile.go: "if the panel says the user is LIMITED *)
(* but we think they are active, treats it like an arriving user.limited event   *)
(* (handles lost webhooks)".  A user the panel limits is made ACTIVE again.      *)
LostLimitedIsRepaired ==
    \A u \in User :
        panel[u].status = "LIMITED" /\ rows[u] # Absent ~> panel[u].status = "ACTIVE"
=============================================================================
