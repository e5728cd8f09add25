----------------------------- MODULE RecentPage -----------------------------
(***************************************************************************)
(* What the proxy promises its clients, whatever it caches: a page shows   *)
(* the row as it is when the page is made, and the panel user as he was at *)
(* most Bound ticks before.  The row is left out of account only while the *)
(* store answers no SELECT, and the panel's own headers are passed through *)
(* only while the panel does not resolve the short id.  A failed look-up   *)
(* of the panel user counts as a view of its own, Unknown, which is        *)
(* forgotten after Bound ticks like any other.                             *)
(***************************************************************************)
EXTENDS Overlay, Integers

CONSTANTS Absent, Nothing, Bound, Outages

VARIABLES
    panel,   \* what the panel would say of the user now
    row,     \* wl_state of the user's row, or Absent
    down,    \* what fails now, of "panel" (resolving the short id) and "store"
    ago,     \* ticks since the panel last said this, up to Bound + 1
    page,    \* what a client was last shown, or Nothing
    made     \* flips with every page: one like the last is a step of its own too

world == <<panel, row, down>>
shown == <<page, made>>

Init ==
    /\ panel \in View /\ row \in RowState \cup {Absent} /\ down \in Outages
    /\ ago = [v \in View \cup {Unknown} |-> IF v = panel THEN 0 ELSE Bound + 1]
    /\ page = Nothing /\ made = FALSE

Tick ==
    /\ ago' = [v \in View \cup {Unknown} |->
                  IF v = panel THEN 0 ELSE IF ago[v] > Bound THEN ago[v] ELSE ago[v] + 1]
    /\ UNCHANGED <<world, shown>>

PanelChanges(v) ==
    /\ panel' = v /\ ago' = [ago EXCEPT ![v] = 0]
    /\ UNCHANGED <<row, down, shown>>

RowChanges ==
    /\ row' \in RowState
    /\ UNCHANGED <<panel, down, ago, shown>>

OutageChanges ==
    /\ down' \in Outages
    /\ UNCHANGED <<panel, row, ago, shown>>

\* also when the client it is made for hangs up
LookupFails ==
    /\ ago' = [ago EXCEPT ![Unknown] = 0]
    /\ UNCHANGED <<world, shown>>

Shown(title) == page' = title /\ made' = ~made

\* no row counts as an active one, and the read creates it
Show ==
    \E v \in View \cup {Unknown} :
        /\ "store" \notin down
        /\ ago[v] <= Bound
        /\ Shown(Overlaid(row, v))
        /\ row' = IF row = Absent THEN "active" ELSE row
        /\ UNCHANGED <<panel, down, ago>>

\* the row cannot be read
ShowWithoutRow ==
    \E v \in View \cup {Unknown} :
        /\ "store" \in down
        /\ ago[v] <= Bound
        /\ Shown(Overlaid("active", v))
        /\ UNCHANGED <<world, ago>>

\* the short id cannot be resolved: the panel's own headers
ShowPanels ==
    /\ "panel" \in down
    /\ Shown("on")
    /\ UNCHANGED <<world, ago>>

ShowRescue ==
    /\ panel.status = "EXPIRED"
    /\ Shown("rescue")
    /\ UNCHANGED <<world, ago>>

Next ==
    \/ Tick \/ RowChanges \/ OutageChanges \/ LookupFails
    \/ \E v \in View : PanelChanges(v)
    \/ Show \/ ShowWithoutRow \/ ShowPanels \/ ShowRescue

Spec == Init /\ [][Next]_<<world, ago, shown>>
=============================================================================
