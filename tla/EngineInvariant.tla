--------------------------- MODULE EngineInvariant ---------------------------
(***************************************************************************)
(* The inductive invariant behind the safety properties of Engine.         *)
(*                                                                         *)
(* NoUnmeteredWhitelist is not inductive: a reset whose row has no paid    *)
(* limit gives the squad back and leaves the panel's limit as it is, so    *)
(* one has to know that a limit of 0 at the panel means a row, committed   *)
(* or about to be, that remembers the paid limit (ZeroIsRemembered), and   *)
(* what each job knows from its read until its PATCH (JobKnows).           *)
(***************************************************************************)
EXTENDS Engine

HandlerKind == Webhook \cup {"basic"}

TxPc == {"read", "reread", "patch", "zero", "commit", "skip"}

(* A job is where its program counter says: *)
ControlOf(p) ==
    /\ task[p].pc \notin {"idle", "visit"} =>
          UserOf(p) \in User /\ task[p].kind \in HandlerKind
    /\ task[p].pc \in {"idle", "visit"} => UserOf(p) = Absent
    /\ InTx(p) <=> task[p].pc \in TxPc
    /\ InTx(p) => conn = p /\ tx[p].user = UserOf(p)
    /\ task[p].pc \in TxPc \cup {"begin"} => lock[UserOf(p)] = p
    /\ task[p].patched => task[p].pc \in {"patch", "zero", "commit"}
    /\ task[p].pc \in {"patch", "zero", "commit"} => task[p].seen \in PanelUser
    /\ At(p, "reread") => task[p].kind = "limited"
    /\ At(p, "zero") => task[p].kind = "reset"
    /\ At(p, "skip") => task[p].kind # "limited"
    /\ InTx(p) /\ task[p].kind # "limited" => tx[p].row = Loaded(UserOf(p), DefaultRow)

Control == \A p \in Proc : ControlOf(p)

\* the row knows the paid limit
Knows(row) == row.orig # None

(* What a job on a user that is not torn knows. *)
JobKnows(p) ==
    /\ rows[UserOf(p)] # Absent /\ Knows(rows[UserOf(p)]) => Knows(tx[p].row)
    /\ tx[p].row.wl = "blocked" => Knows(tx[p].row)
    /\ task[p].kind = "limited" /\ task[p].pc \in {"patch", "commit"} =>
          Knows(tx[p].row) \/ task[p].seen.limit > 0
    /\ task[p].kind = "modified" /\ At(p, "patch") => Knows(tx[p].row)
    /\ task[p].kind = "basic" /\ At(p, "patch") /\ Whitelist \in task[p].seen.squads =>
          panel[UserOf(p)].limit > 0

\* p has cut the user off at the panel and has the row still to write
Cutting(p, u) == InTx(p) /\ UserOf(p) = u /\ task[p].patched /\ task[p].kind = "limited"

ZeroIsRemembered(u) ==
    panel[u].limit = 0 =>
        \/ rows[u] # Absent /\ Knows(rows[u])
        \/ \E p \in Proc : Cutting(p, u)

UserSafe(u) ==
    /\ Whitelist \in panel[u].squads => panel[u].limit > 0
    /\ ZeroIsRemembered(u)
    /\ Blocked(u) => Knows(rows[u])

Core ==
    /\ \A p \in Proc : InTx(p) /\ UserOf(p) \notin torn => JobKnows(p)
    /\ \A u \in User \ torn : UserSafe(u)

(* The inductive invariant, in three layers. *)
IInv == TypeOK /\ Control /\ Core
=============================================================================
