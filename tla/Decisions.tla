------------------------------ MODULE Decisions ------------------------------
(***************************************************************************)
(* What the engine decides from a user's row and a panel snapshot: whether *)
(* to give the whitelist squad back, whether the panel needs a repair, and *)
(* what each PATCH /api/users carries.  No state: the handlers of Engine,  *)
(* the loop of Reconciler and the table of DecisionTable all use it.       *)
(*                                                                         *)
(* Byte counts are natural numbers.  A nullable column or an omitted PATCH *)
(* field is None.  Timestamps, the grace window (no code path enters       *)
(* grace, only old databases hold such rows) and wl_over_limit are left    *)
(* out: no decision reads them.                                            *)
(***************************************************************************)
EXTENDS Integers

CONSTANTS
    Squad,        \* internal squads of the panel
    Basic,        \* BASIC_SQUAD_UUID
    Whitelist,    \* WHITELIST_SQUAD_UUID
    Ceiling,      \* planBLimitCeiling
    Strategy,     \* the cyclic traffic limit strategies of the panel
    NoReset,      \* the strategy NO_RESET, set on basic-only users
    None          \* SQL NULL, a nil pointer

ASSUME SquadAssumption ==
    /\ Basic \in Squad /\ Whitelist \in Squad
    /\ Basic # Whitelist

ASSUME CeilingAssumption == Ceiling \in Nat \ {0}

ASSUME NoneAssumption == None \notin Nat /\ None \notin Strategy /\ None # NoReset

AnyStrategy == Strategy \cup {NoReset}

(* remnawave.User, the fields the engine reads. *)
PanelUser == [status : {"ACTIVE", "LIMITED"}, squads : SUBSET Squad,
              limit : Nat, used : Nat, strategy : AnyStrategy]

(* state.UserState; over stands for basic_limit > 0 /\ basic_used >= basic_limit. *)
Row == [wl : {"active", "grace", "blocked"},
        orig : (Nat \ {0}) \cup {None},
        strategy : AnyStrategy \cup {None},
        over : BOOLEAN,
        basic : {"active", "blocked"}]

(* The columns' defaults, what INSERT ... ON CONFLICT DO NOTHING creates. *)
DefaultRow == [wl |-> "active", orig |-> None, strategy |-> None,
               over |-> FALSE, basic |-> "active"]

-----------------------------------------------------------------------------
(* Limits *)

IsPlanB(v) == v >= Ceiling

OrigOf(row) == IF row.orig = None THEN 0 ELSE row.orig

\* the bot sold more traffic
LimitGrew(row, pu) ==
    OrigOf(row) > 0 /\ pu.limit > OrigOf(row) /\ pu.limit < Ceiling

\* Faulty variants stand in front of the definition they are a mistake in: a lost
\* guard, a lost field.  No specification uses them; each is noticed by a property.
UsedDropped_AnyLimit(row, pu) ==
    OrigOf(row) > 0 /\ pu.used < OrigOf(row) /\ ~IsPlanB(pu.limit)

\* a reset, or the cycle rolled over
UsedDropped(row, pu) ==
    OrigOf(row) > 0 /\ pu.limit > 0 /\ pu.used < OrigOf(row) /\ ~IsPlanB(pu.limit)

LimitReturned_NoOriginal(row, pu) ==
    pu.limit > 0 /\ pu.limit < Ceiling /\ pu.limit >= OrigOf(row) /\ pu.used < pu.limit

\* an admin put a sane limit back
LimitReturned(row, pu) ==
    /\ pu.limit > 0 /\ pu.limit < Ceiling
    /\ OrigOf(row) > 0 /\ pu.limit >= OrigOf(row)
    /\ pu.used < pu.limit

ShouldRestoreWhitelist(row, pu) ==
    LimitGrew(row, pu) \/ UsedDropped(row, pu) \/ LimitReturned(row, pu)

RestoredLimit_Original(row, pu) == row.orig

\* the panel's limit already includes what the bot sold
RestoredLimit_AddsPurchase(row, pu) ==
    IF row.orig = None THEN None
    ELSE IF pu.limit > row.orig /\ pu.limit < Ceiling THEN row.orig + pu.limit
    ELSE row.orig

\* the limit a restored user gets: never below the one he paid for since
RestoredLimit(row, pu) ==
    IF row.orig = None THEN None
    ELSE IF pu.limit > row.orig /\ pu.limit < Ceiling THEN pu.limit
    ELSE row.orig

-----------------------------------------------------------------------------
(* What a row remembers of the paid plan *)

\* user.limited of an active user: the snapshot may be missing (the GetUser error is dropped)
Capture(row, pu) ==
    IF pu = None
    THEN [row EXCEPT !.strategy = NoReset]
    ELSE [row EXCEPT !.orig = IF pu.limit > 0 THEN pu.limit ELSE @,
                     !.strategy = pu.strategy]

Preserve_AnyLimit(row, pu) ==
    [row EXCEPT !.orig = IF @ = None THEN pu.limit ELSE @,
                !.strategy = IF @ = None THEN pu.strategy ELSE @]

Preserve_OnlyStrategy(row, pu) ==
    [row EXCEPT !.strategy = IF @ = None THEN pu.strategy ELSE @]

\* blockWhitelist fills in what is still missing
Preserve(row, pu) ==
    [row EXCEPT !.orig = IF @ = None /\ pu.limit > 0 THEN pu.limit ELSE @,
                !.strategy = IF @ = None THEN pu.strategy ELSE @]

-----------------------------------------------------------------------------
(* Squad lists, as sets: the panel keeps a set, order carries nothing *)

EnsureSquads_OnlyWanted(current, want) == want

EnsureSquads(current, want) == current \cup want
DropSquads(in, drop) == in \ {drop}

-----------------------------------------------------------------------------
(* The PATCH bodies: every one of them asks for status ACTIVE *)

Patch == [squads : SUBSET Squad, limit : Nat \cup {None},
          strategy : AnyStrategy \cup {None}]

BlockPatch_KeepsSquad(pu) ==
    [squads |-> EnsureSquads(pu.squads, {Basic}), limit |-> 0, strategy |-> NoReset]

BlockPatch_NoFallback(pu) ==
    [squads |-> DropSquads(pu.squads, Whitelist), limit |-> 0, strategy |-> NoReset]

BlockPatch(pu) ==
    [squads |-> EnsureSquads(DropSquads(pu.squads, Whitelist), {Basic}),
     limit |-> 0, strategy |-> NoReset]

RestorePatch_KeepsStrategy(row, pu) ==
    [squads |-> EnsureSquads(pu.squads, {Basic, Whitelist}),
     limit |-> RestoredLimit(row, pu), strategy |-> None]

RestorePatch(row, pu) ==
    [squads |-> EnsureSquads(pu.squads, {Basic, Whitelist}),
     limit |-> RestoredLimit(row, pu), strategy |-> row.strategy]

ResetPatch_OnlySquads(row, pu) ==
    [squads |-> EnsureSquads(pu.squads, {Basic, Whitelist}), limit |-> None, strategy |-> None]

ResetPatch_NoWhitelist(row, pu) ==
    [squads |-> EnsureSquads(pu.squads, {Basic}), limit |-> row.orig, strategy |-> row.strategy]

ResetPatch(row, pu) ==
    [squads |-> EnsureSquads(pu.squads, {Basic, Whitelist}),
     limit |-> row.orig, strategy |-> row.strategy]

BasicPatch_WrongSquad(pu) ==
    [squads |-> DropSquads(pu.squads, Whitelist), limit |-> None, strategy |-> None]

BasicPatch(pu) ==
    [squads |-> DropSquads(pu.squads, Basic), limit |-> None, strategy |-> None]

Patched_KeepsStatus(pu, patch) ==
    [pu EXCEPT !.squads = patch.squads,
               !.limit = IF patch.limit = None THEN @ ELSE patch.limit,
               !.strategy = IF patch.strategy = None THEN @ ELSE patch.strategy]

\* the panel's side of PatchUser: nil fields are kept, the squad list is replaced
Patched(pu, patch) ==
    [pu EXCEPT !.status = "ACTIVE",
               !.squads = patch.squads,
               !.limit = IF patch.limit = None THEN @ ELSE patch.limit,
               !.strategy = IF patch.strategy = None THEN @ ELSE patch.strategy]

-----------------------------------------------------------------------------
(* What the handlers store once the panel has taken the PATCH *)

BlockedRow_ClearsOriginal(row) == [row EXCEPT !.wl = "blocked", !.orig = None]

BlockedRow(row)  == [row EXCEPT !.wl = "blocked"]
RestoredRow(row) == [row EXCEPT !.wl = "active"]
ResetRow(row)    == [row EXCEPT !.wl = "active", !.over = FALSE, !.basic = "active"]
BasicRow(row)    == [row EXCEPT !.basic = "blocked"]

-----------------------------------------------------------------------------
(* The reconciler's verdict on a user *)

CutOff(row) == row.wl \in {"grace", "blocked"}

NeedsRestore(row, pu) == CutOff(row) /\ ShouldRestoreWhitelist(row, pu)

NeedsBlock(row, pu) ==
    /\ CutOff(row) /\ ~ShouldRestoreWhitelist(row, pu)
    /\ \/ pu.status = "LIMITED"
       \/ Whitelist \in pu.squads
       \/ Basic \notin pu.squads
       \/ pu.limit # 0

LostLimited(row, pu) == row.wl = "active" /\ pu.status = "LIMITED"
=============================================================================
