---------------------------- MODULE DecisionTable ----------------------------
(***************************************************************************)
(* The decisions of module Decisions on one user, over every row and every *)
(* panel user within the bounds: what a complete block, restore, reset or  *)
(* basic cut (PATCH and row together, no interference) leads to.           *)
(***************************************************************************)
EXTENDS Decisions

CONSTANTS MaxLimit, MaxUsed   \* bounds on the panel's byte counts

ASSUME BoundAssumption == MaxLimit \in Nat /\ MaxUsed \in Nat

VARIABLES row, pu

vars == <<row, pu>>

Init ==
    /\ row \in [wl : {"active", "grace", "blocked"}, orig : (1..MaxLimit) \cup {None},
                strategy : AnyStrategy \cup {None}, over : BOOLEAN,
                basic : {"active", "blocked"}]
    /\ row.orig # None => ~IsPlanB(row.orig)
    /\ pu \in [status : {"ACTIVE", "LIMITED"}, squads : SUBSET Squad,
               limit : 0..MaxLimit, used : 0..MaxUsed, strategy : AnyStrategy]

\* user.limited of an active user, and the repair of a blocked one
Block ==
    LET r == Preserve(IF row.wl = "active" THEN Capture(row, pu) ELSE row, pu)
    IN  row' = BlockedRow(r) /\ pu' = Patched(pu, BlockPatch(pu))

Restore ==
    /\ CutOff(row) /\ ShouldRestoreWhitelist(row, pu)
    /\ row' = RestoredRow(row) /\ pu' = Patched(pu, RestorePatch(row, pu))

Reset ==
    /\ row' = ResetRow(row)
    /\ pu' = [Patched(pu, ResetPatch(row, pu)) EXCEPT !.used = 0]

CutBasic ==
    /\ row.over /\ row.basic = "active"
    /\ row' = BasicRow(row) /\ pu' = Patched(pu, BasicPatch(pu))

Next == Block \/ Restore \/ Reset \/ CutBasic

Spec == Init /\ [][Next]_vars

-----------------------------------------------------------------------------
(* The comment of onUserModified names two signals, used below the original     *)
(* limit and limit above it; the code has a third one.  It adds nothing.        *)
TwoSignalsSuffice ==
    ShouldRestoreWhitelist(row, pu) <=> LimitGrew(row, pu) \/ UsedDropped(row, pu)

(* The whitelist comes back only for a user with a known paid limit and a sane,  *)
(* positive panel limit: neither the 0 of basic-only access nor an old Plan-B    *)
(* override is taken for a purchase.                                             *)
RestoreNeedsPaidLimit ==
    ShouldRestoreWhitelist(row, pu) =>
        /\ row.orig # None
        /\ 0 < pu.limit /\ pu.limit < Ceiling
        /\ pu.limit > row.orig \/ pu.used < row.orig

(* "do not downgrade the user": a restore leaves the panel limit at or above     *)
(* both the limit the user was blocked with and the one he bought since.         *)
RestoreNeverDowngrades ==
    [][Restore => pu'.limit >= row.orig /\ pu'.limit >= pu.limit]_vars

\* the reconciler would act on the user
Verdict == NeedsRestore(row, pu) \/ NeedsBlock(row, pu) \/ LostLimited(row, pu)

(* A decision carried out in full settles the user: the user.modified that its   *)
(* own PATCH sets off restores nothing, and the next reconciler pass finds       *)
(* nothing to repair, so the service does not fight itself.                      *)
DecisionsSettle == [][Block \/ Restore \/ Reset => ~Verdict']_vars

(* Squads the service does not manage survive every PATCH, although the panel    *)
(* replaces the whole list.                                                      *)
OtherSquadsKept ==
    [][pu'.squads \ {Basic, Whitelist} = pu.squads \ {Basic, Whitelist}]_vars

(* The values the variables range over. *)
TypeOK == row \in Row /\ pu \in PanelUser
=============================================================================
