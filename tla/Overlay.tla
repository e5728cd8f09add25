------------------------------- MODULE Overlay -------------------------------
(***************************************************************************)
(* What the subscription proxy (internal/subproxy) tells a client about    *)
(* his whitelist, from the user's row and what the panel says of him.  No  *)
(* state: SubProxy and RecentPage use it.                                  *)
(*                                                                         *)
(* A view is what the overlay reads of a panel user: his status, and       *)
(* whether he has the whitelist squad (WHITELIST_SQUAD_UUID is required,   *)
(* so it is never empty).  A look-up that failed gives the view Unknown:   *)
(* the status "" and no squads.  The title "on" stands for the panel's own *)
(* headers, passed through; "off" for the title and announcement of an     *)
(* exhausted whitelist, with a traffic total of 0; "rescue" for the page   *)
(* with the failover server only.                                          *)
(***************************************************************************)
View == [status : {"ACTIVE", "LIMITED", "EXPIRED"}, whitelist : BOOLEAN]

Unknown == [status |-> "", whitelist |-> FALSE]

RowState == {"active", "grace", "blocked"}

Title == {"on", "off", "rescue"}

\* the panel says that the whitelist can be used
Open(view) == view.status # "LIMITED" /\ view.whitelist

\* Faulty variants stand in front of the definition they are a mistake in.  No
\* specification uses them; each is noticed by a property.
Overlaid_NoFallback(wl, view) == IF wl \in {"grace", "blocked"} THEN "off" ELSE "on"

\* overlayForShort, once the user is known
Overlaid(wl, view) == IF wl \in {"grace", "blocked"} \/ ~Open(view) THEN "off" ELSE "on"
=============================================================================
