-------------------------------- MODULE Usage --------------------------------
(***************************************************************************)
(* Metering of the basic nodes: the poller's tick (internal/poller), the   *)
(* high-water marks of the store (SetUsageCheckpoint) and the basic        *)
(* counter of a row, from the panel's report to the basic cut.             *)
(*                                                                         *)
(* The panel reports, per node and user, the bytes of a sliding window of  *)
(* calendar days: a report grows with traffic and shrinks when a day       *)
(* leaves the window.  The mark of a pair is the last report seen; what a  *)
(* report exceeds its mark by is added to the counter after all nodes have *)
(* been read.  Between two statements of a tick other goroutines reset     *)
(* users and create rows, and the service may die.                         *)
(*                                                                         *)
(* A row is what this part reads of it; BlockBasicIfOverLimit is one step  *)
(* here (module Engine has its steps, and of this module only `over').     *)
(***************************************************************************)
EXTENDS Integers, FiniteSetsExt

CONSTANTS
    User, Node,       \* Node is BASIC_NODE_UUIDS
    Absent,           \* no row, no checkpoint, nobody
    DefaultLimit,     \* BASIC_DEFAULT_LIMIT_GB, 0 if there is no limit
    MaxReal,          \* bound on a user's traffic
    MaxFaults         \* bound on failed statements and calls, crashes included

Row == [used : Nat, limit : Nat, basic : {"active", "blocked"}]

ASSUME UsageAssumption ==
    /\ IsFiniteSet(Node)
    /\ Absent \notin User /\ Absent \notin Node /\ Absent \notin Nat /\ Absent \notin Row
    /\ DefaultLimit \in Nat /\ MaxReal \in Nat /\ MaxFaults \in Nat

VARIABLES
    window,    \* [Node -> [User -> Nat]], what the panel would report now
    mark,      \* [Node -> [User -> Nat or Absent]], the table usage_checkpoint
    rows,      \* [User -> row or Absent], the table user_state
    pc,        \* where the tick is
    todo,      \* nodes the tick has still to read
    node,      \* the node whose report is being read
    report,    \* what is left of it: a function from users to bytes
    totals,    \* [User -> Nat], the deltas collected and not yet credited
    cur,       \* the user whose basic limit is being evaluated
    real,      \* ghost: bytes the user has really sent through basic nodes
    forgiven,  \* ghost: bytes resets have taken off the user's counter
    early,     \* ghost: bytes that were reported when a node first listed the user
    lossy,     \* ghost: users with bytes seen that no counter will ever show
    late,      \* ghost: users whose last evaluation failed
    faults

tick   == <<pc, todo, node, report, totals, cur>>
ghosts == <<real, forgiven, early, lossy, late>>
vars   == <<window, mark, rows, tick, ghosts, faults>>

NewRow(limit) == [used |-> 0, limit |-> limit, basic |-> "active"]
Loaded(u, limit) == IF rows[u] = Absent THEN NewRow(limit) ELSE rows[u]

Nothing == [u \in User |-> 0]

Init ==
    /\ window = [n \in Node |-> Nothing]
    /\ mark = [n \in Node |-> [u \in User |-> Absent]]
    /\ rows = [u \in User |-> Absent]
    /\ pc = "idle" /\ todo = {} /\ node = Absent /\ report = <<>>
    /\ totals = Nothing /\ cur = Absent
    /\ real = Nothing /\ forgiven = Nothing /\ early = Nothing
    /\ lossy = {} /\ late = {} /\ faults = 0

Fault == faults < MaxFaults /\ faults' = faults + 1

-----------------------------------------------------------------------------
(* The tick *)

StartTick ==
    /\ pc = "idle"
    /\ pc' = "nodes" /\ todo' = Node /\ totals' = Nothing
    /\ UNCHANGED <<window, mark, rows, node, report, cur, ghosts, faults>>

\* the panel lists whom it likes: those with traffic, at most the top 1000
Report(n, listed) == [u \in listed |-> window[n][u]]

FetchNode(n) ==
    /\ pc = "nodes" /\ n \in todo
    /\ \E listed \in SUBSET User : report' = Report(n, listed)
    /\ pc' = "entries" /\ todo' = todo \ {n} /\ node' = n
    /\ UNCHANGED <<window, mark, rows, totals, cur, ghosts, faults>>

\* the node waits for the next tick
FetchFails(n) ==
    /\ pc = "nodes" /\ n \in todo /\ Fault
    /\ todo' = todo \ {n}
    /\ UNCHANGED <<window, mark, rows, pc, node, report, totals, cur, ghosts>>

MarkOf(n, u) == IF mark[n][u] = Absent THEN 0 ELSE mark[n][u]

\* Faulty variants stand in front of the definition they are a mistake in.  No
\* specification uses them; each is noticed by a property.
Delta_Restart(n, u) ==
    IF report[u] > MarkOf(n, u) THEN report[u] - MarkOf(n, u) ELSE report[u]

Delta_Unclamped(n, u) == report[u] - MarkOf(n, u)

\* a report below the mark is a counter that started again: 0, and a new mark
Delta(n, u) == IF report[u] > MarkOf(n, u) THEN report[u] - MarkOf(n, u) ELSE 0

\* no mark yet: the code counts the report in full
FirstSeen(u) ==
    IF mark[node][u] = Absent THEN [early EXCEPT ![u] = @ + report[u]] ELSE early

Rest(u) == [v \in DOMAIN report \ {u} |-> report[v]]

Checkpoint_LastNodeWins(u) ==
    /\ pc = "entries" /\ u \in DOMAIN report
    /\ mark' = [mark EXCEPT ![node][u] = report[u]]
    /\ totals' = [totals EXCEPT ![u] = Delta(node, u)]
    /\ report' = Rest(u)
    /\ lossy' = IF report[u] < MarkOf(node, u) THEN lossy \cup {u} ELSE lossy
    /\ early' = FirstSeen(u)
    /\ UNCHANGED <<window, rows, pc, todo, node, cur, real, forgiven, late, faults>>

\* SetUsageCheckpoint, and the delta it returns
Checkpoint(u) ==
    /\ pc = "entries" /\ u \in DOMAIN report
    /\ mark' = [mark EXCEPT ![node][u] = report[u]]
    /\ totals' = [totals EXCEPT ![u] = @ + Delta(node, u)]
    /\ report' = Rest(u)
    /\ lossy' = IF report[u] < MarkOf(node, u) THEN lossy \cup {u} ELSE lossy
    /\ early' = FirstSeen(u)
    /\ UNCHANGED <<window, rows, pc, todo, node, cur, real, forgiven, late, faults>>

\* the mark stays: the next tick sees these bytes again
CheckpointFails(u) ==
    /\ pc = "entries" /\ u \in DOMAIN report /\ Fault
    /\ report' = Rest(u)
    /\ UNCHANGED <<window, mark, rows, pc, todo, node, totals, cur, ghosts>>

NodeRead ==
    /\ pc = "entries" /\ DOMAIN report = {}
    /\ pc' = "nodes" /\ node' = Absent
    /\ UNCHANGED <<window, mark, rows, todo, report, totals, cur, ghosts, faults>>

AllRead ==
    /\ pc = "nodes" /\ todo = {}
    /\ pc' = "apply"
    /\ UNCHANGED <<window, mark, rows, todo, node, report, totals, cur, ghosts, faults>>

\* AddBasicUsage: without a row the bytes are gone
Credit(u) ==
    /\ pc = "apply" /\ totals[u] > 0
    /\ rows' = IF rows[u] = Absent THEN rows ELSE [rows EXCEPT ![u].used = @ + totals[u]]
    /\ lossy' = IF rows[u] = Absent THEN lossy \cup {u} ELSE lossy
    /\ totals' = [totals EXCEPT ![u] = 0]
    /\ pc' = "evaluate" /\ cur' = u
    /\ UNCHANGED <<window, mark, todo, node, report, real, forgiven, early, late, faults>>

\* the mark has moved already, so the bytes are gone too
CreditFails(u) ==
    /\ pc = "apply" /\ totals[u] > 0 /\ Fault
    /\ totals' = [totals EXCEPT ![u] = 0]
    /\ lossy' = lossy \cup {u}
    /\ UNCHANGED <<window, mark, rows, pc, todo, node, report, cur, real, forgiven, early, late>>

OverLimit(row) == row.limit > 0 /\ row.used >= row.limit

Cut_NoLimitCheck(row) == row.basic = "active" /\ row.used >= row.limit

Cut_OffByOne(row) == row.basic = "active" /\ row.limit > 0 /\ row.used > row.limit

\* BlockBasicIfOverLimit, which creates the row if need be
Cut(row) == row.basic = "active" /\ OverLimit(row)

Evaluated ==
    LET row == Loaded(cur, DefaultLimit)
    IN  IF Cut(row) THEN [row EXCEPT !.basic = "blocked"] ELSE row

Evaluate ==
    /\ pc = "evaluate"
    /\ rows' = [rows EXCEPT ![cur] = Evaluated]
    /\ late' = late \ {cur}
    /\ pc' = "apply" /\ cur' = Absent
    /\ UNCHANGED <<window, mark, todo, node, report, totals, real, forgiven, early, lossy,
                   faults>>

\* evaluated again only when the user has sent more
EvaluateFails ==
    /\ pc = "evaluate" /\ Fault
    /\ late' = late \cup {cur}
    /\ pc' = "apply" /\ cur' = Absent
    /\ UNCHANGED <<window, mark, rows, todo, node, report, totals, real, forgiven, early,
                   lossy>>

EndTick ==
    /\ pc = "apply" /\ totals = Nothing
    /\ pc' = "idle"
    /\ UNCHANGED <<window, mark, rows, todo, node, report, totals, cur, ghosts, faults>>

-----------------------------------------------------------------------------
(* The other goroutines on the same row *)

\* onUserReset
Reset(u) ==
    /\ rows' = [rows EXCEPT ![u] = [Loaded(u, DefaultLimit) EXCEPT !.used = 0,
                                                                   !.basic = "active"]]
    /\ forgiven' = [forgiven EXCEPT ![u] = @ + Loaded(u, DefaultLimit).used]
    /\ late' = late \ {u}
    /\ UNCHANGED <<window, mark, tick, real, early, lossy, faults>>

\* INSERT OR REPLACE instead of ON CONFLICT DO NOTHING
Contact_Replaces(u, limit) ==
    /\ rows' = [rows EXCEPT ![u] = NewRow(limit)]
    /\ UNCHANGED <<window, mark, tick, ghosts, faults>>

\* store.Get or store.Update of somebody else: the proxy and the relay pass a limit of 0
Contact(u, limit) ==
    /\ rows[u] = Absent
    /\ rows' = [rows EXCEPT ![u] = NewRow(limit)]
    /\ UNCHANGED <<window, mark, tick, ghosts, faults>>

\* the service dies: marks and rows are on disk, the deltas are not
Crash ==
    /\ Fault
    /\ lossy' = lossy \cup {u \in User : totals[u] > 0}
    /\ late' = IF cur = Absent THEN late ELSE late \cup {cur}
    /\ pc' = "idle" /\ todo' = {} /\ node' = Absent /\ report' = <<>>
    /\ totals' = Nothing /\ cur' = Absent
    /\ UNCHANGED <<window, mark, rows, real, forgiven, early>>

-----------------------------------------------------------------------------
(* The panel *)

Traffic(n, u) ==
    /\ real[u] < MaxReal
    /\ real' = [real EXCEPT ![u] = @ + 1]
    /\ window' = [window EXCEPT ![n][u] = @ + 1]
    /\ UNCHANGED <<mark, rows, tick, forgiven, early, lossy, late, faults>>

\* a day leaves the window, or the node is reinstalled
Slide(n, u) ==
    /\ \E b \in 0..window[n][u] - 1 : window' = [window EXCEPT ![n][u] = b]
    /\ UNCHANGED <<mark, rows, tick, ghosts, faults>>

-----------------------------------------------------------------------------
Tick ==
    \/ StartTick \/ NodeRead \/ AllRead \/ Evaluate \/ EvaluateFails \/ EndTick
    \/ \E n \in Node : FetchNode(n) \/ FetchFails(n)
    \/ \E u \in User : Checkpoint(u) \/ CheckpointFails(u) \/ Credit(u) \/ CreditFails(u)

Others ==
    \/ \E u \in User :
          \/ Reset(u)
          \/ \E limit \in {0, DefaultLimit} : Contact(u, limit)
          \/ \E n \in Node : Traffic(n, u) \/ Slide(n, u)
    \/ Crash

Next == Tick \/ Others

Spec == Init /\ [][Next]_vars

-----------------------------------------------------------------------------
(* The values the variables range over. *)
TypeOK ==
    /\ window \in [Node -> [User -> Nat]]
    /\ mark \in [Node -> [User -> Nat \cup {Absent}]]
    /\ rows \in [User -> Row \cup {Absent}]
    /\ pc \in {"idle", "nodes", "entries", "apply", "evaluate"}
    /\ todo \in SUBSET Node /\ node \in Node \cup {Absent}
    /\ DOMAIN report \subseteq User /\ \A u \in DOMAIN report : report[u] \in Nat
    /\ totals \in [User -> Nat] /\ cur \in User \cup {Absent}
    /\ real \in [User -> Nat] /\ forgiven \in [User -> Nat] /\ early \in [User -> Nat]
    /\ lossy \in SUBSET User /\ late \in SUBSET User /\ faults \in Nat

Used(u) == IF rows[u] = Absent THEN 0 ELSE rows[u].used

\* what the marks of all nodes have seen of the user
Marked(u) == SumFunction([n \in Node |-> MarkOf(n, u)])

(* Nobody is charged for a byte he has not sent, and for none of them twice,    *)
(* however reports shrink, statements fail and the service restarts between     *)
(* the mark of a byte and its credit.                                           *)
NeverOvercharged == \A u \in User : Used(u) + forgiven[u] + totals[u] <= real[u]

(* The books balance: every byte the marks have seen is on the counter, still   *)
(* to be credited, or forgiven by a reset; unless a report shrank, the credit   *)
(* failed, found no row or was lost in a crash.  The bytes a node had on its    *)
(* first report of the user may be left out, all of them or none: the comments  *)
(* at SetUsageCheckpoint want no delta for them, the code counts them.          *)
BooksBalance ==
    \A u \in User \ lossy :
        Used(u) + forgiven[u] + totals[u] \in {Marked(u), Marked(u) - early[u]}

(* Whoever has used up his basic limit is cut, or is just being evaluated;      *)
(* unless that evaluation failed.                                               *)
OverLimitIsCut ==
    \A u \in User \ late :
        rows[u] # Absent /\ OverLimit(rows[u]) => rows[u].basic = "blocked" \/ cur = u

(* Nobody is cut who has not sent as much as his basic limit since his last     *)
(* reset (what that has forgiven does not count again), and nobody without one. *)
CutIsDeserved ==
    \A u \in User :
        rows[u] # Absent /\ rows[u].basic = "blocked" =>
            0 < rows[u].limit /\ rows[u].limit + forgiven[u] <= real[u]

(* Nodes, reports, marks, the two passes of a tick and its crashes hide behind  *)
(* a meter that only bills what was sent, cuts at the limit, forgives on a      *)
(* reset, and never changes a limit.                                            *)
Promise == INSTANCE Meter WITH sent <- real, Limits <- {0, DefaultLimit}
ImplementsMeter == Promise!Spec
=============================================================================
