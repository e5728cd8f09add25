---------------------------- MODULE MCSubProxy ----------------------------
(* The values of the structured constants. *)
EXTENDS SubProxy, TLC

\* the two ways of being cut off: LIMITED, or without the squad; who is without it
\* here has run out as well, so that the rescue page is due
Healthy == [status |-> "ACTIVE", whitelist |-> TRUE]
Limited == [status |-> "LIMITED", whitelist |-> TRUE]
Lapsed  == [status |-> "EXPIRED", whitelist |-> FALSE]

Views == {Healthy, Limited, Lapsed}

\* one at a time: OutageChanges lets them follow each other at once
OneOutage == {{}, {"panel"}, {"store"}}

\* No action depends on page and made, and every answer changes made; none depends
\* on the view of an entry that has expired with its uuid: no state need be visited
\* twice for these.
Entry == IF cache.uuid < 0 THEN [cache EXCEPT !.view = Unknown] ELSE cache
Unseen == <<world, ago, pulls, Entry>>

Pulls == Permutations(Pull)
=============================================================================
