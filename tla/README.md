# traffic-limiter: a TLA+ model with proofs

The service (`src/cmd/orchestrator`, Go) sits beside a Remnawave VPN panel and a
sales bot. Its users pay for traffic on *whitelist* nodes; *basic* nodes have a
quota of their own. When the paid quota is used up the panel makes the user
LIMITED, which silences all nodes; the service then takes away the whitelist
squad only and makes the user ACTIVE again (a *block*), and gives the squad back
after a purchase (a *restore*) or a *reset*. The modules here model that
machinery: the store, the decisions, the jobs that carry them out, the
reconciler, the metering of the basic nodes, the proxy that shows users where
they stand, and the relay that tells the bot.

## 1. Inventory

| Component (source) | State it keeps | Operations | Talks to | Correct when |
|---|---|---|---|---|
| **state store** (`internal/state`) | `user_state` and `usage_checkpoint` in SQLite; a pool of exactly one connection | `Update` (BeginTx, load, callback, commit), `Get`, `AddBasicUsage`, `SetUsageCheckpoint`, `IterWLUsers` | everybody calls it; callbacks run while it holds its connection | a callback sees the row as committed and nobody writes in between; an iteration sees one table |
| **decisions** (`engine/modified.go`, `whitelist.go`, `reset.go`, `basic.go`) | none | `shouldRestoreWhitelist`, squad lists, PATCH bodies, what rows remember | used by the engine and the reconciler | no restore without a paid limit, none that lowers a limit, a block never undoes itself |
| **engine** (`internal/engine`) | a mutex per user, jobs in flight | `onUserLimited`, `onUserModified`, `onUserReset`, `Repay`, `BlockBasicIfOverLimit` | the panel (GetUser, PATCH, reset-traffic), the store | row and panel agree between jobs; the paid plan is never forgotten; nobody has unmetered whitelist access; LIMITED does not last |
| **reconciler** (`engine/reconcile.go`) | an open cursor | `Reconcile` on a ticker | panel, store, engine jobs | repairs what lost webhooks left behind |
| **webhook receiver** (`internal/webhook`) | none: acknowledges, then one goroutine per event | `ServeHTTP` | engine | any order of handling is safe |
| **panel client, retry** (`internal/remnawave`) | none | `GetUser`, `PatchUser`, `ResetUserTraffic`, `NodeUsage`, `RetryWithBackoff` | the panel over HTTP | a repeated or half-successful PATCH is harmless |
| **poller** (`internal/poller`) | deltas of the running tick | `tick` | panel reports, checkpoints, basic counter, engine | no byte is charged twice; whoever reaches the basic limit is cut, nobody else |
| **subscription proxy** (`internal/subproxy`) | a cache per short id: uuid, status and squads, each with a time to live | `ServeHTTP`, `ResolveWithStatus`, `overlayForShort` | panel, store | shows the row of the moment and a view of the panel of bounded age |
| **bot relay** (`engine/relay.go`, `internal/botrelay`) | none | `relayRaw`, `relayUserModifiedActive`, `Forward` | panel, store, bot | the bot gets to hear the latest state and never a raw user.limited |
| **admin and state endpoints** (`cmd/orchestrator`) | none | `POST /admin/repay`, `GET /api/state` | engine, store | as their callees |
| **configuration** (`internal/config`) | read once | | | |

What makes the system hard:

- *Two systems, no common transaction.* A job reads the panel, PATCHes the
  panel, then commits its row. The bot and the panel act in between, the commit
  can fail after the PATCH, a PATCH can be taken although its call failed.
- *Concurrency.* Webhook goroutines in any order, repay requests, the poller and
  the reconciler work on the same rows. What keeps them apart is a mutex per
  user and a pool with a single connection.
- *Callbacks under a resource.* `Update` and `IterWLUsers` run callbacks while
  they hold that connection.
- *Echoes.* Every PATCH comes back as `user.modified`, every reset-traffic as
  `user.traffic_reset`.
- *Loss.* Webhooks are acknowledged before they are handled and nothing is
  queued on disk: a crash or an error drops the job.
- *Sliding reports.* The panel's usage reports shrink when a day leaves the
  window.
- *Concurrent cache fills.* Pulls of one subscription store what they heard in
  any order, failures included.
- *Overtaking.* The bot is told after the user's mutex is released.

PROJECT.json lists the hazards at their lines, with the properties about each.

## 2. Plan and its state

| Step | Module(s) | State |
|---|---|---|
| 1 | `Store`, `StoreClient`, `AtomicRows` (abstract), `StoreProofs` | done, proved |
| 2 | `Decisions`, `DecisionTable`, `DecisionProofs`, `TableProofs` | done, proved |
| 3 | `Engine` on top of both; `EngineInvariant`, `EngineProofs` | done, proved |
| 4 | `EngineClaims`: what the docs say and the code does not do | done |
| 5 | `Reconciler` on top of `Engine`, `ReconcilerProofs` | done, proved |
| 6 | `Usage`, its abstraction `Meter`, `UsageProofs` | done, proved |
| 7 | `SubProxy` over `Overlay`, its abstraction `RecentPage`, `SubProxyProofs` | done, proved |
| 8 | `Relay` on top of `Decisions`, `RelayProofs` | done, proved |
| 9 | DISABLED and EXPIRED panel users in `Decisions` and `Engine` (every PATCH asks for ACTIVE) | open |

`Engine` EXTENDS `Store` and `Decisions`; `Reconciler` EXTENDS `Engine`;
`StoreClient` closes `Store` with arbitrary callers and INSTANCEs `AtomicRows`;
`SubProxy` INSTANCEs `RecentPage`, `Usage` `Meter`; `Relay` EXTENDS `Decisions`.
No module uses a RECURSIVE operator. An operator whose name has a suffix
(`Lock_OwnMutex`) is a plausible mistake in the definition that follows it; no
specification uses it, PROJECT.json pairs it with the property that notices it.

## 3. Modules and code

**`Store`** models `state.go`. `conn` is the pool's single connection
(`SetMaxOpenConns(1)`, line 76), `tx[p]` the open transaction of a goroutine
with its working copy of the row, `cursor` what an open `IterWLUsers` has still
to visit. `Begin` stands for BeginTx, the INSERT ... ON CONFLICT DO NOTHING and
the SELECT: nothing else can run between them, so they are one step. `Commit`
stands for UPDATE and COMMIT. Single statements take the connection, run and
return it in one step. `Reopen` is a crash. A goroutine that waits for the
connection is one whose action is not enabled.

**`StoreClient`** lets any goroutine do any of this with any function from `Fn`;
**`AtomicRows`** is what `Update`'s comment promises: a table in which an update
is one step. The refinement maps `rows` to `rows`.

**`Decisions`** has no state. A row is `[wl, orig, strategy, over, basic]`: `orig`
and `strategy` are `wl_original_limit_bytes` and `wl_original_strategy`, `over`
stands for "basic limit set and reached". A panel user is
`[status, squads, limit, used, strategy]`. Squad lists are sets: the panel keeps
a set. Timestamps, `wl_over_limit` and the grace columns are left out: no
decision reads them and no path enters grace (`shouldEndGrace` has no caller).

**`DecisionTable`** carries each decision out on one user, PATCH and row
together, from every row and every panel user within the bounds. `orig` is
below the ceiling there, a bound of the run: `whitelist.go` captures whatever limit the
panel has, and the theorems of `DecisionProofs` about single decisions cover all rows.

**`Engine`** gives each goroutine a job with a program counter:
`lock` (withUserLock), `begin` (store.Update), `read` (GetUser), `reread`
(blockWhitelist's second GetUser, after a failed first), `patch`, `zero`
(reset-traffic), `commit`, or `skip` when the callback returns without work.
`seen` is the snapshot the callback works on; `tries` and `patched` belong to
callPatch. Failures are actions: `BeginFails`, `ReadFails`, `RereadFails`,
`PatchRetries`, `PatchFails` (both with and without effect at the panel),
`ZeroFails`, `FinishFails`, `Crash`. `wire[u]` is the set of notice types in
flight: handlers decide on nothing a webhook carries but its type and user, so two
equal notices are one; `Redeliver` keeps one for another delivery. The one use of a
payload, `modified.go:29-31`, ignores a `user.modified` without limit, usage and
status. That assumes of the panel that its notice of a change of these carries them,
and so does the model: a notice without them is never in `wire`. `BeginFails`
waits for the connection to be free, except in a reset job, which may be a repay
whose request is cancelled while it waits (`Cancellable`). `Zero` is one
reset-traffic call for all its retries (`reset.go:50-52`): to repeat it sets the same
counter to 0 and sends the same notice. The ghost `paid` is
the limit the user bought, `torn` the users with a block PATCH taken and no row
to tell, `missed` the users with a dropped notice or job. The panel
(`Consume`, `PanelLimits`, `TrafficReset`), the bot (`TopUp`) and the network
(`Lose`) are actions too. `ReadState` is any store.Get of a bystander. The
service's own goroutine per webhook is a member of `Handler`; a member is
reused after its job.

**`EngineClaims`** states what the README and comments say and the code does not
do; **`EngineInvariant`** the inductive invariant.

**`Reconciler`** adds the loop: `Tick` opens the cursor, `Visit` is the callback
on one row with the panel's answer, `VisitFails` its failed GetUser, `PassEnds`
closes the cursor. A job it finds runs with the steps of `Engine`.

**`Usage`** models `poller.tick`: `FetchNode` / `FetchFails` (NodeUsage),
`Checkpoint` (SetUsageCheckpoint and its delta), `Credit` (AddBasicUsage),
`Evaluate` (BlockBasicIfOverLimit, one step here since the row's transaction
shuts everybody out). `window` is what the panel would report, any subset of the
users gets listed (`topUsersLimit`, absent users), nodes are read in any order
(the code's order is that of the configuration). `real`, `forgiven`, `early`,
`lossy`, `late` are ghosts: bytes sent, bytes taken off by resets, bytes in the first
report of a node, users with bytes seen that no counter will show, users whose last evaluation failed. **`Meter`** is what
all of it promises a user: a counter that takes only bytes he sent and no reset
has forgiven, a cut at the limit and not before, a reset that undoes it, a limit
that never changes. Nodes, reports, marks, the two passes of a tick, lost deltas
and crashes are hidden: they decide how much is billed and when, which `Meter`
leaves open. The refinement maps `sent` to the ghost `real`.

**`Overlay`** is `overlayForShort`: which title goes with a row and a view of the
panel user. A view is his status and whether he has the whitelist squad; a
look-up that failed gives the view `Unknown`, the status "" and no squads, just
as the code's return values do. Titles are `on` (the panel's own headers), `off`
(exhausted, total 0) and `rescue` (`serveFailover`).

**`SubProxy`** is one short id: `cache` its entry with the two lifetimes, `pc`, `got`
and `waited` the pulls being answered. A pull goes `body` (the panel's response,
or the rescue page), `cached` (both look-ups of `ResolveWithStatus`), `uuid`
(`fetchFromPanel`, with its fallback to the search), `status` and `answered`
(GetUser: the panel answers, the answer is stored), `row` (`store.Get` and the
page). `answered` is a state of its own because another pull may store a newer
answer in between. `FetchStatusFails` stores `Unknown` like an answer; `GiveUp`
is a client that hangs up, which cancels the context and fails the call in
progress, so at `status` it does the same. `down` says what fails at the moment:
resolving the short id (`panel`: `fetchFromPanel` gives up) or the SELECT of
`store.Get` (`store`); it changes at any time. Time is an explicit tick. `ago` is a
ghost: how long ago the panel last said each view. **`RecentPage`** has no cache
and no pulls, only what a page may show: the row as it is, and any view at most
`Bound` ticks old. It may pass the row over only while the store is down, and show
the panel's own headers regardless only while the short id cannot be resolved: a
proxy that did not read the row, or showed `on` to everybody, would not implement
it. `made` flips with every page, so that a wrong page cannot hide behind an equal
one before it. `Bound` is `TTL + 2 * Patience`: an answer may have been on
its way for one patience before it was stored, and be used by a pull that then
takes another.

**`Relay`** is `dispatch.go`, `relay.go` and `botrelay`. Each webhook goroutine does
its job on the user (one step here; `Engine` has its steps and shows that they
exclude each other) and then, the mutex released, relays: `forward` with the
payload the notice came with, i.e. what the panel said when it *sent* it, or,
for a user.limited, `ask` (GetUser), `limit` (`effectiveLimitForRelay` with the
row of the moment) and `forward`. So notices carry a payload here, unlike in
`Engine`. Failures: a job that returns an error and relays nothing, with or without
its PATCH; a failed reset-traffic; a failed look-up with its minimal event; an
attempt at the bot that fails, taken or not; the last one. `told` is a ghost:
the bot has been told what the panel says now. `lost` is one too: something was
dropped since the panel last gave notice.

The `MC*` modules give structured constants their values.

## 4. Runs

| Run | Cfg | Bounds | Shows |
|---|---|---|---|
| `store` | MCStoreClient | 2 rows, 3 goroutines, rows are write counters to 3 | one connection makes updates atomic, crashes included |
| `decisions` | MCDecisionTable | limits 0..5 around a ceiling of 4, usage 0..5, 3 squads, 2 strategies | the restore rule takes no 0 and no Plan-B limit for a purchase; a carried-out decision leaves nothing to repair; foreign squads survive |
| `engine` | MCEngine | 1 user, 2 handlers and the poller, limits 1, 2, 3, 1 reset, 1 fault | row and panel agree between jobs, nobody has unmetered whitelist access, plan and strategy are remembered, whoever is served is metered by a limit he paid for, no path leaks a mutex or the connection, up to the exceptions below; the inductive invariant |
| `engine_live` | MCEngineLive | 1 user, 1 handler, no faults | LIMITED does not last |
| `reconciler` | MCReconciler | 2 users, one blocked by an older version; 1 fault | the loop never repairs anything: its first job waits for its own cursor |
| `usage` | MCUsage | 1 user, 2 nodes, 4 bytes, limit 2, 2 faults | no byte is charged twice, none that was seen disappears outside named windows, cuts are deserved by traffic no reset has forgiven, and not forgotten; all of it is a `Meter` |
| `subproxy` | MCSubProxy | 2 pulls, 3 views (healthy, LIMITED, without the squad), time to live 1, patience 1, outages of panel and store | pages keep the promise of `RecentPage`, the row of the moment included; a cut becomes visible, the healthy keep their title |
| `relay` | MCRelay | 1 user (new, or blocked by an older version), 2 handlers, 1 purchase, 1 reset, 1 fault | the bot will hear; the first exhaustion is hidden from it |
| `lost_limited` | MCLostLimited | violation | a lost user.limited is not recovered |
| `purchase_kept` | MCPurchaseKept | violation | a restore overwrites a second purchase |
| `basic_stays_cut` | MCBasicStaysCut | violation | block and restore give the basic squad back |
| `reset_ends` | MCResetEnds | violation | a reset sets off the next one, for ever |

**Why the bounds are enough.** Users share nothing but the connection, and two
users appear where that matters (`store`, `reconciler`); everything else about a
user concerns one user. Two handlers suffice for a stale snapshot against a
fresh one; the third party is the world. One fault makes every failure path
happen, next to every interleaving of two handlers; an outage that fails a call
and the fallback for it counts once. The handlers are alike (SYMMETRY). One purchase and one
reset suffice to start every job; `engine` and `purchase_kept` have two
purchases because the second one is what a restore can overwrite. `MaxAttempts`
is 2 (4 in the code): one retry after an attempt that may have taken effect. In
`Usage` all that users share is the order of the tick's loops; two nodes matter
(deltas add up), the limit can be reached twice, with a reset in between. In
`SubProxy` two pulls are what it takes to store answers in the wrong order, and
a status can expire while its uuid counts and the other way round already with
lifetimes of 0 and 1. Its VIEW leaves `page` and `made` out of the states compared
(no action depends on them, and every answer changes `made`, so each is still a step
TLC checks) and the view of an entry that has expired altogether. In `Relay` one message can overtake another. The
theorems of section 5 hold for all values.

**Exceptions built into properties**, each of which is a fact about the code:
`torn` (a block PATCH with a lost row: a later reset then gives the squad back
without a limit), `missed` (a dropped notice), `faults = 0` in
`StrategyRemembered` (onUserLimited drops its GetUser error and stores
NO_RESET), `lossy` and `late` in `Usage`, `lost` in `BotWillHear` (healed by the
panel's next notice), a failed look-up in `HealthyIsShown`, and any purchase or
reset in `FirstLimitIsHidden`.

**Assumptions.** `Patience` bounds how long a pull takes. It is an assumption on
clients and on `HTTP_TIMEOUT_SEC` (15 s for each of a pull's calls); without it an
answer could be any age when it is stored. The panel calls a user EXPIRED when
the day in its expire header has passed.

**Deadlock** is checked except in the reconciler runs, where the service does
stop, and in `relay`, where everything can have been said.

**Fairness.** `FairSpec` and `RFairSpec` assume that a goroutine that can
continue does (weak), that a mutex and the pool serve each waiter in the end
(strong: sync.Mutex is starvation free, database/sql picks among its waiters at random), that
a webhook in flight is taken up (strong, as every webhook has its own goroutine
in the code while the model reuses a few), and, for the reconciler, that its
ticker keeps firing. Nothing is assumed of panel, bot, poller or faults.

### Findings

1. **The reconciler stops the service** (`lost_limited`). Its jobs run inside
   IterWLUsers, whose open rows hold the only connection; `store.Update` waits for
   it for ever, with the user's mutex held. `WedgedForGood` shows that
   afterwards no row changes.
2. **A reset never ends** (`reset_ends`). `onUserReset` calls reset-traffic, the
   panel announces it as `user.traffic_reset`, the handler resets again.
3. **A second purchase can be lost** (`purchase_kept`). A restore PATCHes a limit
   from a snapshot; the `user.modified` of the later purchase finds an active row.
   The same without a race: the row keeps the limit of the first block, and each
   later reset PATCHes it over whatever was bought since (hazard at reset.go:29).
4. **The basic cut is undone** (`basic_stays_cut`) by blocks and restores, which
   force the basic squad in; it is not cut again.

Met while modelling, without a run of their own:

- README:309 has one basic limit for all (`BASIC_DEFAULT_LIMIT_GB`). The proxy
  (proxy.go:191) and the relay (relay.go:90) create a row with a limit of 0,
  which means none; no caller ever changes a limit and nobody without one is cut,
  so whoever they saw first is never limited. `Meter` admits it: a limit of 0 is one
  of its `Limits`.
- state.go:193 and :207 promise a delta of 0 on the first sighting of a pair. The
  code leaves `prev` at 0 and counts the whole report. `BooksBalance` takes no side:
  it asks that the books balance either with the first reports or without them. The
  invariant `Balanced` of `UsageProofs` says which: with them.
- A reset between the collection of a delta and its credit leaves the old bytes on the
  fresh counter (poller.go:97). `Meter` admits that too.
- A user.limited handled after a purchase or a reset cuts a user with quota left:
  `onUserLimited` looks neither at status nor at usage.
- `resolver.go:87-89` says that callers must treat an undetermined status as not
  expired, `proxy.go:178-180` that the healthy keep the panel's title. The status
  "" comes with no squads, which the overlay takes for a detached whitelist: one
  failed or cancelled look-up shows every client an exhausted whitelist until the
  entry's time to live is over. `HealthyIsShown` holds because it excepts this.
- The bot can be left with an older state: two relays overtake each other and
  nothing follows. `BotWillHear` promises only that it was told.
- `effectiveLimitForRelay` guards against Plan-B limits in a synthesised event, which
  follows a block and so carries 0; the raw user.modified of such a user shows it.

## 5. Proofs

Checked by TLAPS for any number of users, goroutines, faults and resets, from
the constants' assumptions only.

- `StoreProofs`. The invariant is `TypeOK`, `Serialized`, `Isolated` and "whoever
  holds a transaction holds the connection". `Serialized` alone does not give
  the refinement: a commit is an atomic update only because the working copy is
  the committed row (`Isolated`). `StoreIsAtomic` maps each step to a step of
  `AtomicRows` or to a stutter.
- `DecisionProofs`. Types of all decision operators, then: the third restore
  signal is redundant, a restore has evidence of quota and lowers no limit, a
  block is stable under the `user.modified` it sets off and under the reconciler.
- `TableProofs`. The invariants and action properties of `DecisionTable`, whose
  own bounds on limits and usage are arbitrary there.
- `EngineProofs`. `TypeOK /\ Control` is inductive: a job is where its program
  counter says, holds the mutex, holds the connection, works on the committed
  row. `OneWriter` follows. `NoUnmeteredWhitelist` is not inductive on top of it:
  a reset of a row without a paid limit leaves the panel's limit as it is. `IInv`
  adds that a limit of 0 at the panel means a row, committed or about to be, that
  remembers the paid limit (`ZeroIsRemembered`), and what each job knows between
  its read and its PATCH (`JobKnows`). `NoUnmetered` and `BlockedRemembers`
  follow. Every action is one step of the proof; run `engine` checks `IInv` with
  TLC. `NothingLeaks` is inductive on top of types and control; that nobody waits in
  a circle follows for the jobs of `Engine`, which take the mutex first, not for the
  reconciler, which takes the connection first (`WedgedForGood`). A row leaves `blocked` only by an acknowledged restore or reset: past its
  PATCH every job has one that was taken (`Acked`), and a commit of any other
  kind leaves `wl` as it was loaded. Three more invariants follow a snapshot
  through every job. `Squads` gives `ActiveHasWhitelist`: a user who is not torn
  has the squad, is blocked, or is being cut; a basic cut was read from a user with
  the squad or from a blocked one; past its PATCH a restore or reset has given the
  squad back. `Plans` gives `StrategyRemembered`: as long as nothing has failed the
  plan's strategy is at the panel, in a blocked row, or in the row of the block
  about to be committed. `Paying` gives
  `MeteredAsPaid`, which is not inductive: the limit in force comes from rows,
  snapshots and working copies. It bounds all of them: no row,
  working copy or snapshot holds more than the paid limit (but for the Plan-B
  limit of a legacy user while he is blocked and has no squad), past the PATCH of
  a restore or reset the panel does not either, and a basic cut gives nobody the
  squad. That the limit is not 0 then comes from `IInv`. `Cuts` gives `BlockedIsCut` from `Paying`: since no
  limit a job saw is above the paid one, a purchase exceeds what any row
  remembers (`LimitGrew`); a blocked user with the squad therefore has a job that
  restores him, or a `user.modified` that will read him and find the limit grown,
  even if he bought between the block PATCH and its commit.
- `ReconcilerProofs`. The invariant `Waiting`: a pass holds the connection and no
  transaction. No other goroutine can be in a transaction then
  (`OneConnection`), so none gives the connection back, and of the
  reconciler's own steps only taking the mutex is left. `WedgedForGood` follows
  from one step.
- `UsageProofs`. Types (deltas are never negative). `OverLimitIsCut`, user by
  user: a credit makes its user the one being evaluated, an evaluation cuts.
  The sums over the nodes are folds, which no prover here unfolds by
  induction; what is needed of them is proved from the fold's own equation by a
  smallest counterexample among the subsets of the nodes, a first-order
  argument: adding to one node adds to the sum. `NobodyOvercharged` then follows
  byte by byte: what is counted, forgiven or collected (`Charged`), and what each
  node may still add, by how much its report and its window exceed the mark
  (`Pending`), together never exceed what was sent (`Accounted`). `BooksAlwaysBalance` has the mirror image with the marks
  (`Balanced`), `EveryCutIsDeserved` follows from the first, because what is forgiven no longer counts
  (`Deserved`), and so
  does `KeepsMeter`: a credit is a `Bill` because it stays within the bytes sent,
  an evaluation that cuts is a `Cut`, the rest are an `Enter`, a `Forgive`, a
  `Send` or stutter.
- `SubProxyProofs`. The invariant is `TypeOK /\ ViewsAreRecent`, the second with
  one bound per place a view can be in. It is inductive because a tick ages views,
  lifetimes and pulls alike and stops when a pull's patience is used up; so a
  view stored late is charged for the delay (`Patience`), a cached one for the
  lifetime it has used up. `AnswerIsRecent` adds these up to `Bound`, which makes
  every page of a resolved user a `Show` of `RecentPage`, or a `ShowWithoutRow` while the
  store is down (`KeepsPromise`). `CutBecomesVisible` and
  `HealthyKeepsTitle` follow: if no view of a kind is recent, the one on the page
  is of the other kind.
- `RelayProofs`. `BotHears` needs only that a handler knows what it works on
  (`KindOK`): a change of the panel puts a notice of the new state on the wire, and
  whoever takes up, relays or drops the last message that tells it hands the duty
  on. `FirstHidden` has the invariant `Hidden`, which holds until the first
  purchase or reset: a user who is cut off cannot run into a limit (`Shut`: he has
  none, or a Plan-B limit he cannot come near without the whitelist squad), a user
  who is shut is ACTIVE, and so is whatever any notice or handler says of him.

Only model-checked: liveness (`LimitedIsHandled`), which, like ENABLED, is out of
the prover's reach. Every other property of a passing run is a theorem.

## 6. Not modelled

HTTP, JSON and webhook signatures (they decide whether there is an event at
all); a `user.modified` without limit, usage and status, which is ignored; a
subscription path without a short id (proxy.go:183), which no pull of the one modelled
takes and which gets the panel's own page; wording, encodings and logging; username-to-uuid mapping of reports;
DISABLED and EXPIRED users in the engine (step 9; the proxy knows EXPIRED); `IterNonBlockedWLUsers`, `SetBasicLimit`, `EnableUser`,
`DisableUser`, which have no caller; configuration and start-up.
