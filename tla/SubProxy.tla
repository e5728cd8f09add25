------------------------------ MODULE SubProxy ------------------------------
(***************************************************************************)
(* The subscription proxy (internal/subproxy): one short id, its entry in  *)
(* the resolver's cache, and the pulls of it that are being answered.      *)
(*                                                                         *)
(* A pull fetches the body from the panel, resolves the short id to a user *)
(* with his status and squads, from the cache or from the panel, reads the *)
(* user's row, and answers.  Pulls run concurrently; the cache is locked   *)
(* for single reads and writes only, so an old answer of the panel can be  *)
(* stored after a newer one.  An entry has two lifetimes: that of the uuid *)
(* and that of status and squads.  A failed look-up is stored like an      *)
(* answer.                                                                 *)
(*                                                                         *)
(* Time is a tick that passes only while no client's patience has run out: *)
(* a client that has waited Patience ticks gives up, which cancels the     *)
(* pull's context and fails the call it is waiting for.  Panel and row     *)
(* change at any time (module Engine says how), and so does what fails.    *)
(***************************************************************************)
EXTENDS Overlay, Integers

CONSTANTS
    Pull,       \* concurrent requests for the short id
    Absent,     \* no row
    Nothing,    \* no page yet
    TTL,        \* SUBPROXY_CACHE_TTL_SEC; 0 switches the cache off
    Patience,   \* how long a client waits
    Failover,   \* FAILOVER_CONFIG is set
    Seen,       \* the views the panel takes, a subset of View
    Outages     \* what can fail at the same time, of "panel" and "store"

ASSUME ProxyAssumption ==
    /\ TTL \in Nat /\ Patience \in Nat /\ Failover \in BOOLEAN
    /\ Seen \subseteq View /\ Seen # {}
    /\ Outages \subseteq SUBSET {"panel", "store"}
    /\ Absent \notin RowState /\ Nothing \notin Title

Bound == TTL + 2 * Patience   \* the age no view on a page exceeds

VARIABLES
    panel, row, down,   \* as in RecentPage
    ago, page, made,    \* as in RecentPage; ago and made are ghosts
    cache,    \* the entry: lifetimes left of the uuid and of the view, the view
    pc,       \* [Pull -> where it is]
    got,      \* [Pull -> the view it works with]
    waited    \* [Pull -> ticks its client has waited]

pulls == <<pc, got, waited>>
world == <<panel, row, down>>
shown == <<page, made>>
vars  == <<world, ago, shown, cache, pulls>>

AnyView == View \cup {Unknown}

\* what a look-up can give
Heard == Seen \cup {Unknown}

\* -1: expired, or no entry
NoEntry == [uuid |-> -1, status |-> 0, view |-> Unknown]

Init ==
    /\ panel \in Seen /\ row \in RowState \cup {Absent} /\ down \in Outages
    /\ ago = [v \in AnyView |-> IF v = panel THEN 0 ELSE Bound + 1]
    /\ page = Nothing /\ made = FALSE
    /\ cache = NoEntry
    /\ pc = [p \in Pull |-> "idle"]
    /\ got = [p \in Pull |-> Unknown]
    /\ waited = [p \in Pull |-> 0]

-----------------------------------------------------------------------------
(* The cache *)

\* a uuid still counts at the instant it expires, a status does not
UuidFresh == TTL > 0 /\ cache.uuid >= 0

\* Faulty variants stand in front of the definition they are a mistake in.  No
\* specification uses them; each is noticed by a property.
StatusFresh_AnyAge == UuidFresh /\ cache.view # Unknown

StatusFresh == UuidFresh /\ cache.status > 0

\* a cache that is switched off stores nothing
PutUuid == cache' = IF TTL = 0 THEN cache ELSE [cache EXCEPT !.uuid = TTL]

PutStatus_Prolongs(v) ==
    cache' = IF TTL = 0 THEN cache ELSE [cache EXCEPT !.status = @ + TTL, !.view = v]

PutStatus(v) ==
    cache' = IF TTL = 0 THEN cache ELSE [cache EXCEPT !.status = TTL, !.view = v]

-----------------------------------------------------------------------------
(* A pull *)

Finish(p) ==
    /\ pc' = [pc EXCEPT ![p] = "idle"]
    /\ got' = [got EXCEPT ![p] = Unknown]
    /\ waited' = [waited EXCEPT ![p] = 0]

Goto(p, at) == pc' = [pc EXCEPT ![p] = at] /\ UNCHANGED <<got, waited>>

Answer(p, title) == page' = title /\ made' = ~made /\ Finish(p)

\* a client asks for /sub/{short}
Ask(p) ==
    /\ pc[p] = "idle"
    /\ Goto(p, "body")
    /\ UNCHANGED <<world, ago, shown, cache>>

\* isExpiredByHeader: the panel puts the day of expiry into its response
Expired == panel.status = "EXPIRED"

\* the panel's subscription response: the rescue page, or on to the overlay
Body(p) ==
    /\ pc[p] = "body"
    /\ IF Failover /\ Expired
       THEN Answer(p, "rescue")
       ELSE Goto(p, "cached") /\ UNCHANGED shown
    /\ UNCHANGED <<world, ago, cache>>

\* "upstream unavailable": no page
BodyFails(p) ==
    /\ pc[p] = "body"
    /\ Finish(p)
    /\ UNCHANGED <<world, ago, shown, cache>>

\* both look-ups of ResolveWithStatus: a write between them has the effect it would
\* have before the first
Cached(p) ==
    /\ pc[p] = "cached"
    /\ IF StatusFresh
       THEN /\ pc' = [pc EXCEPT ![p] = "row"]
            /\ got' = [got EXCEPT ![p] = cache.view]
            /\ UNCHANGED waited
       ELSE Goto(p, IF UuidFresh THEN "status" ELSE "uuid")
    /\ UNCHANGED <<world, ago, shown, cache>>

\* fetchFromPanel: /info, or else the search
FetchUuid(p) ==
    /\ pc[p] = "uuid" /\ "panel" \notin down
    /\ PutUuid
    /\ Goto(p, "status")
    /\ UNCHANGED <<world, ago, shown>>

\* the panel knows no such short id, or does not answer
FetchUuidFails(p) ==
    /\ pc[p] = "uuid" /\ "panel" \in down
    /\ Answer(p, "on")
    /\ UNCHANGED <<world, ago, cache>>

\* the panel answers GetUser; the answer is on its way
FetchStatus(p) ==
    /\ pc[p] = "status"
    /\ pc' = [pc EXCEPT ![p] = "answered"]
    /\ got' = [got EXCEPT ![p] = panel]
    /\ UNCHANGED <<world, ago, shown, cache, waited>>

KeepStatus(p) ==
    /\ pc[p] = "answered"
    /\ PutStatus(got[p])
    /\ Goto(p, "row")
    /\ UNCHANGED <<world, ago, shown>>

FetchStatusFails_KeepsOld(p) ==
    /\ pc[p] \in {"status", "answered"}
    /\ cache' = IF TTL = 0 THEN cache ELSE [cache EXCEPT !.status = TTL]
    /\ pc' = [pc EXCEPT ![p] = "row"]
    /\ got' = [got EXCEPT ![p] = cache.view]
    /\ ago' = [ago EXCEPT ![Unknown] = 0]
    /\ UNCHANGED <<world, shown, waited>>

\* the status "" and no squads, kept as long as an answer
FetchStatusFails(p) ==
    /\ pc[p] \in {"status", "answered"}
    /\ PutStatus(Unknown)
    /\ pc' = [pc EXCEPT ![p] = "row"]
    /\ got' = [got EXCEPT ![p] = Unknown]
    /\ ago' = [ago EXCEPT ![Unknown] = 0]
    /\ UNCHANGED <<world, shown, waited>>

ReadRow_ViewFirst(p) ==
    /\ pc[p] = "row" /\ "store" \notin down
    /\ row' = IF row = Absent THEN "active" ELSE row
    /\ Answer(p, IF Open(got[p]) THEN "on" ELSE Overlaid(row, got[p]))
    /\ UNCHANGED <<panel, down, ago, cache>>

\* store.Get, which creates a missing row, and the answer
ReadRow(p) ==
    /\ pc[p] = "row" /\ "store" \notin down
    /\ row' = IF row = Absent THEN "active" ELSE row
    /\ Answer(p, Overlaid(row, got[p]))
    /\ UNCHANGED <<panel, down, ago, cache>>

\* Get answers with an active row when its SELECT fails
ReadRowFails(p) ==
    /\ pc[p] = "row" /\ "store" \in down
    /\ Answer(p, Overlaid("active", got[p]))
    /\ UNCHANGED <<world, ago, cache>>

\* the client hangs up: the call the pull is waiting for fails
GiveUp(p) ==
    /\ pc[p] # "idle"
    /\ IF pc[p] \in {"status", "answered"}
       THEN PutStatus(Unknown) /\ ago' = [ago EXCEPT ![Unknown] = 0]
       ELSE UNCHANGED <<cache, ago>>
    /\ Finish(p)
    /\ UNCHANGED <<world, shown>>

PullFails(p) == BodyFails(p) \/ FetchUuidFails(p) \/ FetchStatusFails(p) \/ ReadRowFails(p)

PullStep(p) ==
    \/ Body(p) \/ Cached(p) \/ FetchUuid(p)
    \/ FetchStatus(p) \/ KeepStatus(p) \/ ReadRow(p)

-----------------------------------------------------------------------------
(* The world *)

\* nobody waits longer than Patience; an older view is as good as forgotten
Tick ==
    /\ \A p \in Pull : pc[p] # "idle" => waited[p] < Patience
    /\ waited' = [p \in Pull |-> IF pc[p] = "idle" THEN 0 ELSE waited[p] + 1]
    /\ cache' = [cache EXCEPT !.uuid = IF @ >= 0 THEN @ - 1 ELSE @,
                              !.status = IF @ > 0 THEN @ - 1 ELSE @]
    /\ ago' = [v \in AnyView |->
                  IF v = panel THEN 0 ELSE IF ago[v] > Bound THEN ago[v] ELSE ago[v] + 1]
    /\ UNCHANGED <<world, shown, pc, got>>

PanelChanges(v) ==
    /\ panel' = v /\ ago' = [ago EXCEPT ![v] = 0]
    /\ UNCHANGED <<row, down, shown, cache, pulls>>

RowChanges ==
    /\ row' \in RowState
    /\ UNCHANGED <<panel, down, ago, shown, cache, pulls>>

OutageChanges ==
    /\ down' \in Outages
    /\ UNCHANGED <<panel, row, ago, shown, cache, pulls>>

\* the cache is in memory only
Restart ==
    /\ cache' = NoEntry
    /\ pc' = [p \in Pull |-> "idle"]
    /\ got' = [p \in Pull |-> Unknown]
    /\ waited' = [p \in Pull |-> 0]
    /\ UNCHANGED <<world, ago, shown>>

Next ==
    \/ \E p \in Pull : Ask(p) \/ PullStep(p) \/ PullFails(p) \/ GiveUp(p)
    \/ \E v \in Seen : PanelChanges(v)
    \/ Tick \/ RowChanges \/ OutageChanges \/ Restart

Spec == Init /\ [][Next]_vars

-----------------------------------------------------------------------------
(* The values the variables range over. *)
TypeOK ==
    /\ panel \in Seen /\ row \in RowState \cup {Absent} /\ down \in Outages
    /\ ago \in [AnyView -> 0..Bound + 1]
    /\ page \in Title \cup {Nothing} /\ made \in BOOLEAN
    /\ cache \in [uuid : -1..TTL, status : 0..TTL, view : Heard]
    /\ pc \in [Pull -> {"idle", "body", "cached", "uuid", "status", "answered", "row"}]
    /\ got \in [Pull -> Heard]
    /\ waited \in [Pull -> 0..Patience]

(* How old a view may be in each place: an answer on its way is no older than   *)
(* its pull, a stored one was stored within Patience of the panel's answer and  *)
(* has used up the rest of its lifetime, whichever pull stored it last.         *)
ViewsAreRecent ==
    /\ ago[panel] = 0
    /\ cache.status > 0 => ago[cache.view] <= Patience + (TTL - cache.status)
    /\ \A p \in Pull :
          /\ pc[p] = "answered" => ago[got[p]] <= waited[p]
          /\ pc[p] = "row" => ago[got[p]] <= Patience + TTL + waited[p]

(* A page shows the row as it is when the page is made and a view at most Bound *)
(* ticks old, although concurrent pulls store their answers in any order: who   *)
(* is blocked in a row that can be read is told so whatever the cache holds.    *)
(* The row is passed over only while the store fails, and both row and view     *)
(* only while the panel does not resolve the short id.                          *)
Promise == INSTANCE RecentPage
ImplementsRecentPage == Promise!Spec

(* The panel alone betrays an exhausted whitelist: whoever has been LIMITED, or  *)
(* without the squad, for longer than Bound is told so, even if his row cannot  *)
(* be read (the comment at the fallback to the panel's status and squads).      *)
CutIsShown ==
    [][\A p \in Pull :
          /\ ReadRow(p) \/ ReadRowFails(p)
          /\ \A v \in Seen : Open(v) => ago[v] > Bound
          => page' = "off"]_vars

(* Who is healthy keeps the panel's own title ("Returns "" for title when the   *)
(* user is healthy"): active in his row, open at the panel for longer than      *)
(* Bound, and no look-up of him has failed for as long.                         *)
HealthyIsShown ==
    [][\A p \in Pull :
          /\ ReadRow(p) /\ row \in {"active", Absent}
          /\ \A v \in AnyView : ~Open(v) => ago[v] > Bound
          => page' = "on"]_vars
=============================================================================
