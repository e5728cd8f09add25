---------------------------- MODULE EngineClaims ----------------------------
(***************************************************************************)
(* What the README and the comments of internal/engine say of the engine   *)
(* and the code does not do.  Each is checked by a run of its own, in      *)
(* which TLC finds the behaviour that contradicts it.                      *)
(***************************************************************************)
EXTENDS Engine

\* nobody at work on the user, and nothing in flight but notices of resets
Settled(u) == wire[u] \subseteq {"reset"} /\ \A p \in Proc : UserOf(p) # u

(* README, end-to-end table, step 4: after a purchase the service "keeps the   *)
(* new paid limit".  When everything but resets has been handled and nothing   *)
(* was lost, an active user has at least the limit he paid for.                *)
PurchaseKept ==
    \A u \in User \ missed :
        Settled(u) /\ ~Blocked(u) => panel[u].limit >= paid[u]

(* README, behaviour at the limits: "basic exhausted: the basic squad is        *)
(* removed".  Between jobs a user whose basic traffic is blocked does not have  *)
(* the basic squad.                                                             *)
BasicStaysCut ==
    \A u \in User \ missed :
        Unlocked(u) /\ rows[u] # Absent /\ rows[u].basic = "blocked"
            => Basic \notin panel[u].squads

(* README, end-to-end: a reset is the bot's or the cycle's, and the service     *)
(* "returns the whitelist on the main path onUserReset".  So a reset is over at *)
(* some point: no notice of it is in flight and no handler at work on it.       *)
ResetEnds ==
    \A u \in User :
        "reset" \in wire[u] ~> /\ "reset" \notin wire[u]
                              /\ \A p \in Proc : UserOf(p) = u => task[p].kind # "reset"
=============================================================================
