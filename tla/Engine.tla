------------------------------- MODULE Engine -------------------------------
(***************************************************************************)
(* The orchestration engine (internal/engine) between the Remnawave panel, *)
(* the bot that sells traffic, and the store.                              *)
(*                                                                         *)
(* Every job on a user has the same skeleton: take the user's mutex        *)
(* (withUserLock), begin a transaction (store.Update), run a callback that *)
(* reads the panel user and PATCHes it, commit, unlock.  The panel and the *)
(* database are two systems: between the read and the PATCH the bot and    *)
(* the panel itself may act, and after the PATCH the row may still be lost.*)
(*                                                                         *)
(* Jobs are started by webhooks (user.limited, user.traffic_reset and      *)
(* user.modified; each in a goroutine of its own, in any order), by        *)
(* POST /admin/repay, by the poller (basic squad) and by the reconciler    *)
(* (module Reconciler).  Handlers re-read the panel and decide on nothing  *)
(* a webhook carries but its type and user, so notices of one type in      *)
(* flight for one user are one element of a set.  The one exception is not *)
(* modelled: a user.modified whose payload has no limit, usage and status  *)
(* is ignored in front of the mutex (modified.go:29).  The panel sends the *)
(* whole user when one of these changes; a notice without them is about    *)
(* something else, and its handler would change nothing.                   *)
(***************************************************************************)
EXTENDS Store, Decisions

CONSTANTS
    Poller, Reconciler,  \* the two background goroutines
    Nobody,              \* a user mutex that is free
    MaxAttempts,         \* attempts of callPatch
    Legacy,              \* users an older version blocked with a Plan-B limit
    Plan,                \* the limit every user starts with
    Limits,              \* the limits the bot sells
    Cycle,               \* the strategy every user starts with
    MaxUsed, MaxResets,  \* bounds on the panel's counter and on resets
    MaxFaults            \* bound on crashes, lost or repeated notices, failed calls

ASSUME EngineAssumption ==
    /\ Poller \in Proc /\ Reconciler \in Proc /\ Poller # Reconciler
    /\ Nobody \notin Proc
    /\ MaxAttempts \in Nat \ {0}
    /\ Legacy \subseteq User
    /\ Plan \in Nat \ {0} /\ Plan < Ceiling
    /\ Limits \subseteq {l \in Nat : 0 < l /\ l < Ceiling}
    /\ Cycle \in Strategy
    /\ MaxUsed \in Nat /\ MaxResets \in Nat /\ MaxFaults \in Nat

ASSUME AbsentAssumption == Absent \notin Row /\ None \notin PanelUser

Handler == Proc \ {Poller, Reconciler}   \* goroutines of webhooks and repay requests

VARIABLES
    panel,    \* [User -> PanelUser], the panel's side
    wire,     \* [User -> set of webhook types sent and not yet received]
    task,     \* [Proc -> Task], what each goroutine is doing
    lock,     \* [User -> the holder of the user's mutex, or Nobody]
    paid,     \* ghost: the limit the user has paid for
    torn,     \* ghost: users with a block PATCH taken by the panel and no row to tell
    missed,   \* ghost: users with a notice or a job that was dropped
    faults,   \* faults so far
    resets    \* resets from outside so far

world  == <<panel, wire, paid, resets>>
ghosts == <<torn, missed, faults>>
vars   == <<store, world, task, lock, ghosts>>

-----------------------------------------------------------------------------
(* Jobs *)

Webhook == {"limited", "modified", "reset"}
Kind    == Webhook \cup {"basic", "restore", "repair"}   \* the last two are the reconciler's
BlockKind == {"limited", "repair"}

Task == [kind : Kind \cup {"none"}, user : User \cup {Absent},
         pc : {"idle", "visit", "lock", "begin", "read", "reread", "patch", "zero",
               "commit", "skip"},
         seen : PanelUser \cup {None}, tries : Nat, patched : BOOLEAN]

Job(k, u) == [kind |-> k, user |-> u, pc |-> "lock",
              seen |-> None, tries |-> 0, patched |-> FALSE]

Idle == [kind |-> "none", user |-> Absent, pc |-> "idle",
         seen |-> None, tries |-> 0, patched |-> FALSE]

\* a finished job: the reconciler goes on to its next row
Done(p) == IF p = Reconciler THEN [Idle EXCEPT !.pc = "visit"] ELSE Idle

\* Faulty variants stand in front of the definition they are a mistake in: a lost
\* guard, a case forgotten.  No specification uses them; each is noticed by a property.
NothingToDo_OnlyGrace(k, row) ==
    \/ k = "modified" /\ row.wl # "grace"
    \/ k = "basic" /\ (row.basic = "blocked" \/ ~row.over)

\* the guards a callback returns nil at without asking the panel
NothingToDo(k, row) ==
    \/ k = "modified" /\ ~CutOff(row)
    \/ k = "basic" /\ (row.basic = "blocked" \/ ~row.over)

\* the body of the PATCH
PatchOf(t, row) ==
    CASE t.kind \in BlockKind             -> BlockPatch(t.seen)
      [] t.kind \in {"modified", "restore"} -> RestorePatch(row, t.seen)
      [] t.kind = "reset"                 -> ResetPatch(row, t.seen)
      [] OTHER                            -> BasicPatch(t.seen)

\* the row the callback leaves behind
RowOf(t, row) ==
    CASE t.kind \in BlockKind             -> BlockedRow(Preserve(row, t.seen))
      [] t.kind \in {"modified", "restore"} -> RestoredRow(row)
      [] t.kind = "reset"                 -> ResetRow(row)
      [] OTHER                            -> BasicRow(row)

LegacyRow == [DefaultRow EXCEPT !.wl = "blocked", !.orig = Plan, !.strategy = Cycle]

Init ==
    /\ StoreInit([u \in User |-> IF u \in Legacy THEN LegacyRow ELSE Absent])
    /\ panel = [u \in User |->
                  IF u \in Legacy
                  THEN [status |-> "ACTIVE", squads |-> {Basic}, limit |-> Ceiling,
                        used |-> Plan, strategy |-> NoReset]
                  ELSE [status |-> "ACTIVE", squads |-> {Basic, Whitelist}, limit |-> Plan,
                        used |-> 0, strategy |-> Cycle]]
    /\ wire = [u \in User |-> {}]
    /\ task = [p \in Proc |-> Idle]
    /\ lock = [u \in User |-> Nobody]
    /\ paid = [u \in User |-> Plan]
    /\ torn = {} /\ missed = {}
    /\ faults = 0 /\ resets = 0

-----------------------------------------------------------------------------
(* Pieces of the actions *)

At(p, pc) == task[p].pc = pc
UserOf(p) == task[p].user

Goto(p, pc) == task' = [task EXCEPT ![p].pc = pc]

Send(u, k) == wire' = [wire EXCEPT ![u] = @ \cup {k}]

Fault == faults < MaxFaults /\ faults' = faults + 1

\* the deferred unlock, at the end of the job
Unlock(p) ==
    /\ task' = [task EXCEPT ![p] = Done(p)]
    /\ lock' = [lock EXCEPT ![UserOf(p)] = Nobody]

\* the panel takes the PATCH of p and announces the change
Apply(p) ==
    /\ panel' = [panel EXCEPT ![UserOf(p)] = Patched(@, PatchOf(task[p], tx[p].row))]
    /\ Send(UserOf(p), "modified")

\* the job of p ends in an error; sent: the panel has taken its PATCH
Abandoned(p, sent) ==
    /\ missed' = missed \cup {UserOf(p)}
    /\ torn' = IF sent /\ task[p].kind \in BlockKind THEN torn \cup {UserOf(p)} ELSE torn

-----------------------------------------------------------------------------
(* Starting a job *)

\* ServeHTTP acknowledges the webhook and runs Handle in a goroutine
Receive(p, u, k) ==
    /\ p \in Handler /\ At(p, "idle") /\ k \in wire[u]
    /\ wire' = [wire EXCEPT ![u] = @ \ {k}]
    /\ task' = [task EXCEPT ![p] = Job(k, u)]
    /\ UNCHANGED <<store, panel, paid, resets, lock, ghosts>>

\* the panel delivers a notice again
Redeliver(p, u, k) ==
    /\ p \in Handler /\ At(p, "idle") /\ k \in wire[u] /\ Fault
    /\ task' = [task EXCEPT ![p] = Job(k, u)]
    /\ UNCHANGED <<store, world, lock, torn, missed>>

Repay(p, u) ==
    /\ p \in Handler /\ At(p, "idle") /\ resets < MaxResets
    /\ resets' = resets + 1
    /\ task' = [task EXCEPT ![p] = Job("reset", u)]
    /\ UNCHANGED <<store, panel, wire, paid, lock, ghosts>>

\* the poller adds basic traffic, then evaluates the basic limit
Poll(u) ==
    /\ At(Poller, "idle")
    /\ \E over \in BOOLEAN : AddUsage(u, [rows[u] EXCEPT !.over = @ \/ over])
    /\ task' = [task EXCEPT ![Poller] = Job("basic", u)]
    /\ UNCHANGED <<world, lock, ghosts>>

\* store.Get by the relay, the subscription proxy or GET /api/state: creates the row
ReadState(u) ==
    /\ Get(u, DefaultRow)
    /\ UNCHANGED <<world, task, lock, ghosts>>

-----------------------------------------------------------------------------
(* The skeleton *)

Lock_OwnMutex(p) ==
    /\ At(p, "lock")
    /\ lock' = [lock EXCEPT ![UserOf(p)] = p]
    /\ Goto(p, "begin")
    /\ UNCHANGED <<store, world, ghosts>>

Lock(p) ==
    /\ At(p, "lock") /\ lock[UserOf(p)] = Nobody
    /\ lock' = [lock EXCEPT ![UserOf(p)] = p]
    /\ Goto(p, "begin")
    /\ UNCHANGED <<store, world, ghosts>>

BeginTx(p) ==
    /\ At(p, "begin")
    /\ Begin(p, UserOf(p), DefaultRow)
    /\ Goto(p, IF NothingToDo(task[p].kind, Loaded(UserOf(p), DefaultRow)) THEN "skip"
               ELSE IF task[p].kind \in {"restore", "repair"} THEN "patch"
               ELSE "read")
    /\ UNCHANGED <<world, lock, ghosts>>

\* a reset job may be a repay, whose context ends with its request: BeginTx then gives
\* up although somebody else has the connection
Cancellable(p) == p \in Handler /\ task[p].kind = "reset"

\* an error return in front of the unlock
BeginFails_KeepsMutex(p) ==
    /\ At(p, "begin") /\ (conn = Free \/ Cancellable(p)) /\ Fault
    /\ task' = [task EXCEPT ![p] = Done(p)] /\ Abandoned(p, FALSE)
    /\ UNCHANGED <<store, world, lock>>

\* BeginTx, or one of the first two statements, fails
BeginFails(p) ==
    /\ At(p, "begin") /\ (conn = Free \/ Cancellable(p)) /\ Fault
    /\ Unlock(p) /\ Abandoned(p, FALSE)
    /\ UNCHANGED <<store, world>>

Finish_AlwaysStores(p) ==
    /\ At(p, "commit") \/ At(p, "skip")
    /\ Commit(p, RowOf(task[p], tx[p].row))
    /\ Unlock(p)
    /\ UNCHANGED <<world, ghosts>>

Finish(p) ==
    /\ At(p, "commit") \/ At(p, "skip")
    /\ Commit(p, IF At(p, "commit") THEN RowOf(task[p], tx[p].row) ELSE tx[p].row)
    /\ Unlock(p)
    /\ UNCHANGED <<world, ghosts>>

\* the UPDATE or the COMMIT fails, after the panel was patched
FinishFails(p) ==
    /\ At(p, "commit") \/ At(p, "skip")
    /\ Fault /\ Rollback(p) /\ Unlock(p) /\ Abandoned(p, At(p, "commit"))
    /\ UNCHANGED world

-----------------------------------------------------------------------------
(* The callbacks *)

Read(p) ==
    /\ At(p, "read")
    /\ LET u   == UserOf(p)
           row == IF task[p].kind = "limited" /\ tx[p].row.wl = "active"
                  THEN Capture(tx[p].row, panel[u]) ELSE tx[p].row
       IN  /\ Edit(p, row)
           /\ task' = [task EXCEPT
                ![p].seen = panel[u],
                ![p].pc = IF task[p].kind = "modified" /\ ~ShouldRestoreWhitelist(row, panel[u])
                          THEN "skip" ELSE "patch"]
    /\ UNCHANGED <<world, lock, ghosts>>

\* onUserLimited drops the error of its GetUser, the other callbacks return it
ReadFails(p) ==
    /\ At(p, "read") /\ Fault
    /\ \/ /\ task[p].kind = "limited"
          /\ Edit(p, IF tx[p].row.wl = "active" THEN Capture(tx[p].row, None) ELSE tx[p].row)
          /\ Goto(p, "reread")
          /\ UNCHANGED <<lock, torn, missed>>
       \/ /\ task[p].kind # "limited"
          /\ Rollback(p) /\ Unlock(p) /\ Abandoned(p, FALSE)
    /\ UNCHANGED world

\* blockWhitelist asks again when it was given no panel user
Reread(p) ==
    /\ At(p, "reread")
    /\ task' = [task EXCEPT ![p].seen = panel[UserOf(p)], ![p].pc = "patch"]
    /\ UNCHANGED <<store, world, lock, ghosts>>

\* an outage that has failed the first read counts once
RereadFails(p) ==
    /\ At(p, "reread")
    /\ Rollback(p) /\ Unlock(p) /\ Abandoned(p, FALSE)
    /\ UNCHANGED <<world, faults>>

PatchOk(p) ==
    /\ At(p, "patch")
    /\ Apply(p)
    /\ task' = [task EXCEPT ![p].patched = TRUE,
                            ![p].pc = IF task[p].kind = "reset" THEN "zero" ELSE "commit"]
    /\ UNCHANGED <<store, paid, resets, lock, ghosts>>

\* a retryable status code; the panel may have taken the PATCH all the same
PatchRetries(p) ==
    /\ At(p, "patch") /\ task[p].tries + 1 < MaxAttempts /\ Fault
    /\ \/ /\ Apply(p)
          /\ task' = [task EXCEPT ![p].tries = @ + 1, ![p].patched = TRUE]
       \/ /\ task' = [task EXCEPT ![p].tries = @ + 1]
          /\ UNCHANGED <<panel, wire>>
    /\ UNCHANGED <<store, paid, resets, lock, torn, missed>>

\* the last attempt, or an error that is not retried (a timeout, a lost connection)
PatchFails(p) ==
    /\ At(p, "patch") /\ Fault /\ Rollback(p) /\ Unlock(p)
    /\ \/ Apply(p) /\ Abandoned(p, TRUE)
       \/ Abandoned(p, task[p].patched) /\ UNCHANGED <<panel, wire>>
    /\ UNCHANGED <<paid, resets>>

\* reset-traffic after the reset PATCH: the panel announces that too.  The calls of its
\* retries are one here: each sets the same counter to 0 and sends the same notice.
Zero(p) ==
    /\ At(p, "zero")
    /\ panel' = [panel EXCEPT ![UserOf(p)].used = 0]
    /\ Send(UserOf(p), "reset")
    /\ Goto(p, "commit")
    /\ UNCHANGED <<store, paid, resets, lock, ghosts>>

\* "Non-fatal: the next reset window will pick it up"
ZeroFails(p) ==
    /\ At(p, "zero") /\ Fault
    /\ Goto(p, "commit")
    /\ UNCHANGED <<store, world, lock, torn, missed>>

Work(p) ==
    \/ Lock(p) \/ BeginTx(p) \/ Read(p) \/ Reread(p) \/ PatchOk(p) \/ Zero(p) \/ Finish(p)

WorkFails(p) ==
    \/ BeginFails(p) \/ ReadFails(p) \/ RereadFails(p)
    \/ PatchRetries(p) \/ PatchFails(p) \/ ZeroFails(p) \/ FinishFails(p)

-----------------------------------------------------------------------------
(* The panel, the bot and the network *)

\* only whitelist nodes have a consumption multiplier
Consume(u) ==
    /\ panel[u].status = "ACTIVE" /\ Whitelist \in panel[u].squads
    /\ panel[u].used < MaxUsed
    /\ panel' = [panel EXCEPT ![u].used = @ + 1]
    /\ UNCHANGED <<store, wire, paid, resets, task, lock, ghosts>>

PanelLimits(u) ==
    /\ panel[u].status = "ACTIVE"
    /\ panel[u].limit > 0 /\ panel[u].used >= panel[u].limit
    /\ panel' = [panel EXCEPT ![u].status = "LIMITED"]
    /\ Send(u, "limited")
    /\ UNCHANGED <<store, paid, resets, task, lock, ghosts>>

\* the cycle rolls over, or the bot's reset button
TrafficReset(u) ==
    /\ resets < MaxResets /\ resets' = resets + 1
    /\ panel' = [panel EXCEPT ![u].used = 0, ![u].status = "ACTIVE"]
    /\ Send(u, "reset")
    /\ UNCHANGED <<store, paid, task, lock, ghosts>>

\* the bot sells traffic: a higher limit and the whitelist squad, with or without the rest
TopUp(u, l) ==
    /\ l > paid[u]
    /\ paid' = [paid EXCEPT ![u] = l]
    /\ \E squads \in {{Whitelist}, panel[u].squads \cup {Whitelist}} :
           panel' = [panel EXCEPT ![u].limit = l, ![u].squads = squads,
                                  ![u].status = "ACTIVE"]
    /\ Send(u, "modified")
    /\ UNCHANGED <<store, resets, task, lock, ghosts>>

Lose(u, k) ==
    /\ k \in wire[u] /\ Fault
    /\ wire' = [wire EXCEPT ![u] = @ \ {k}]
    /\ missed' = missed \cup {u}
    /\ UNCHANGED <<store, panel, paid, resets, task, lock, torn>>

\* the service dies and is started again: jobs are not persisted
Crash ==
    /\ Fault /\ Reopen
    /\ task' = [p \in Proc |-> Idle]
    /\ lock' = [u \in User |-> Nobody]
    /\ missed' = missed \cup {UserOf(p) : p \in {q \in Proc : UserOf(q) # Absent}}
    /\ torn' = torn \cup {UserOf(p) : p \in {q \in Proc : task[q].patched
                                                       /\ task[q].kind \in BlockKind}}
    /\ UNCHANGED world

-----------------------------------------------------------------------------
Internal ==
    \/ \E p \in Proc : Work(p) \/ WorkFails(p)
    \/ \E p \in Proc, u \in User :
          \/ Repay(p, u)
          \/ \E k \in Webhook : Receive(p, u, k) \/ Redeliver(p, u, k)
    \/ \E u \in User : Poll(u) \/ ReadState(u)
    \/ Crash

External ==
    \E u \in User :
        \/ Consume(u) \/ PanelLimits(u) \/ TrafficReset(u)
        \/ \E l \in Limits : TopUp(u, l)
        \/ \E k \in Webhook : Lose(u, k)

Next == Internal \/ External

Spec == Init /\ [][Next]_vars

(* A job that can go on does.  Mutexes are starvation free and the pool serves *)
(* its waiters at random, hence strong fairness for the two waits; every       *)
(* webhook gets a goroutine of its own, hence strong fairness for Receive, the *)
(* model's goroutines being few.  Nothing is assumed of Poll, of the panel, of *)
(* the bot or of the faults.                                                   *)
Fairness ==
    /\ \A p \in Proc :
          /\ SF_vars(Lock(p)) /\ SF_vars(BeginTx(p))
          /\ WF_vars(Read(p) \/ Reread(p) \/ PatchOk(p) \/ Zero(p) \/ Finish(p))
    /\ \A u \in User, k \in Webhook : SF_vars(\E p \in Handler : Receive(p, u, k))

FairSpec == Spec /\ Fairness

-----------------------------------------------------------------------------
(* The values the variables range over. *)
TypeOK ==
    /\ rows \in [User -> Row \cup {Absent}]
    /\ conn \in Proc \cup {Free}
    /\ tx \in [Proc -> [user : User, row : Row] \cup {NoTx}]
    /\ cursor \in SUBSET User
    /\ panel \in [User -> PanelUser]
    /\ wire \in [User -> SUBSET Webhook]
    /\ task \in [Proc -> Task]
    /\ lock \in [User -> Proc \cup {Nobody}]
    /\ paid \in [User -> Nat]
    /\ torn \in SUBSET User /\ missed \in SUBSET User
    /\ faults \in Nat /\ resets \in Nat

Unlocked(u) == lock[u] = Nobody
Blocked(u) == rows[u] # Absent /\ rows[u].wl = "blocked"

\* a user.modified that no handler has begun to act on
ModifiedPending(u) ==
    \/ "modified" \in wire[u]
    \/ \E p \in Proc : task[p].kind = "modified" /\ UserOf(p) = u /\ At(p, "lock")

(* A user never has the whitelist squad and an unlimited traffic limit at once, *)
(* i.e. free unmetered access to the paid nodes: blockWhitelist takes the squad *)
(* away in the PATCH that sets the limit to 0, and every PATCH that gives the   *)
(* squad back sets a limit.  Only a block whose row was lost can lead there.    *)
NoUnmeteredWhitelist ==
    \A u \in User \ torn : ~(Whitelist \in panel[u].squads /\ panel[u].limit = 0)

(* Whoever is blocked can be restored: the row still knows the paid limit that  *)
(* the block overwrote at the panel, however blocks, repairs, purchases and     *)
(* resets interleaved (shouldRestoreWhitelist never restores without it).       *)
BlockedRemembersOriginal ==
    \A u \in User \ torn : Blocked(u) => rows[u].orig # None

(* Between jobs, a user the store holds to be active has the whitelist squad at *)
(* the panel: no stale snapshot of onUserReset, BlockBasicIfOverLimit or        *)
(* restoreWhitelist takes it away behind the row's back.                        *)
ActiveHasWhitelist ==
    \A u \in User \ torn : Unlocked(u) /\ ~Blocked(u) => Whitelist \in panel[u].squads

(* Between jobs, a user the store holds to be blocked is cut off at the panel,  *)
(* or the bot has just given the squad back and the user.modified that says so  *)
(* is still to be handled; unless a notice or a job was dropped.                *)
BlockedIsCut ==
    \A u \in User \ missed :
        Unlocked(u) /\ Blocked(u) /\ Whitelist \in panel[u].squads => ModifiedPending(u)

(* One transaction at a time, by the holder of that user's mutex, on the row as *)
(* it is committed: no other user's job and no single statement of the poller   *)
(* slips in between the load and the commit of Update.                          *)
OneWriter ==
    \A p \in Proc : InTx(p) =>
        /\ conn = p /\ lock[UserOf(p)] = p /\ tx[p].user = UserOf(p)
        /\ At(p, "skip") => tx[p].row = Loaded(UserOf(p), DefaultRow)

(* Whoever has the whitelist squad is metered by a limit he has paid for: not by *)
(* the 0 of a block, not by a Plan-B limit, not by more than he bought.  It is   *)
(* restores, resets and basic cuts with old rows and snapshots that could give   *)
(* the squad back with any of those.                                             *)
MeteredAsPaid ==
    \A u \in User \ torn : Whitelist \in panel[u].squads => panel[u].limit \in 1..paid[u]

(* No path out of a job, failures included, leaves a mutex or the connection     *)
(* behind: a mutex is held by a job on its user, the connection by one that has  *)
(* all it needs.  Webhooks, repays and the poller take the two in this order and *)
(* cannot wait for one another in a circle.  The reconciler takes them in the    *)
(* other order and is not part of this specification (see WedgedForGood).        *)
NothingLeaks ==
    /\ conn # Free => task[conn].pc \notin {"idle", "visit", "lock", "begin"}
    /\ \A u \in User : lock[u] # Nobody =>
          UserOf(lock[u]) = u /\ task[lock[u]].pc \notin {"idle", "visit", "lock"}

(* The row of a blocked user holds the strategy of his plan ("Capture the        *)
(* panel-side paid limit/strategy before switching the user to basic-only"), not *)
(* the NO_RESET that the block, or an earlier one, put in its place.  A failed   *)
(* call is enough to lose it: onUserLimited drops the error of its GetUser.      *)
StrategyRemembered ==
    faults = 0 => \A u \in User : Blocked(u) => rows[u].strategy = Cycle

(* A row leaves blocked only when the panel user, in between, was read by a     *)
(* handler: a commit that unblocks comes after a PATCH that was acknowledged.   *)
UnblockIsAcknowledged ==
    [][\A u \in User : Blocked(u) /\ ~Blocked(u)' =>
          \E p \in Proc : /\ At(p, "commit") /\ task[p].patched /\ UserOf(p) = u
                          /\ task[p].kind \in {"reset", "modified"}]_vars

(* Nobody stays LIMITED at the panel, the whole subscription silenced: the      *)
(* user.limited is handled and its block PATCH makes the user ACTIVE again      *)
(* (README: only the white nodes are cut off).  No faults, no reconciler.       *)
LimitedIsHandled ==
    \A u \in User : panel[u].status = "LIMITED" ~> panel[u].status = "ACTIVE"
=============================================================================
