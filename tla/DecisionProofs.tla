--------------------------- MODULE DecisionProofs ---------------------------
(***************************************************************************)
(* Facts about the engine's decisions, for every squad list, byte count    *)
(* and strategy: what they return is well formed, a restore is decided on  *)
(* evidence of quota and never lowers a limit, a block never sets off its  *)
(* own undoing.                                                            *)
(***************************************************************************)
EXTENDS Decisions, TLAPS

(* Remembering the paid plan yields a row. *)
LEMMA CaptureType ==
    ASSUME NEW row \in Row, NEW pu \in PanelUser
    PROVE  Capture(row, pu) \in Row /\ Capture(row, None) \in Row /\ Preserve(row, pu) \in Row
<1>1. /\ pu.limit \in Nat /\ pu.strategy \in AnyStrategy
      /\ NoReset \in AnyStrategy
  BY DEF PanelUser, AnyStrategy
<1>2. Capture(row, None) \in Row
  BY <1>1 DEF Capture, Row
<1>3. Capture(row, pu) \in Row
  <2>1. CASE pu = None
    BY <1>2, <2>1
  <2>2. CASE pu # None
    <3> DEFINE orig == IF pu.limit > 0 THEN pu.limit ELSE row.orig
    <3>1. orig \in (Nat \ {0}) \cup {None}
      BY <1>1 DEF Row
    <3>2. Capture(row, pu) = [row EXCEPT !.orig = orig, !.strategy = pu.strategy]
      BY <2>2 DEF Capture
    <3> HIDE DEF orig
    <3> QED
      BY <1>1, <3>1, <3>2 DEF Row
  <2> QED
    BY <2>1, <2>2
<1>4. Preserve(row, pu) \in Row
  <2> DEFINE orig == IF row.orig = None /\ pu.limit > 0 THEN pu.limit ELSE row.orig
             strategy == IF row.strategy = None THEN pu.strategy ELSE row.strategy
  <2>1. orig \in (Nat \ {0}) \cup {None}
    BY <1>1 DEF Row
  <2>2. strategy \in AnyStrategy \cup {None}
    BY <1>1 DEF Row
  <2>3. Preserve(row, pu) = [row EXCEPT !.orig = orig, !.strategy = strategy]
    BY DEF Preserve
  <2> HIDE DEF orig, strategy
  <2> QED
    BY <2>1, <2>2, <2>3 DEF Row
<1> QED
  BY <1>2, <1>3, <1>4

(* So does every transition of a row. *)
LEMMA RowType ==
    ASSUME NEW row \in Row
    PROVE  /\ BlockedRow(row) \in Row /\ RestoredRow(row) \in Row
           /\ ResetRow(row) \in Row /\ BasicRow(row) \in Row
BY DEF BlockedRow, RestoredRow, ResetRow, BasicRow, Row

(* A new user's row is one. *)
LEMMA DefaultRowType == DefaultRow \in Row
BY DEF DefaultRow, Row

(* The limit a restore asks for is a limit. *)
LEMMA RestoredLimitType ==
    ASSUME NEW row \in Row, NEW pu \in PanelUser
    PROVE  RestoredLimit(row, pu) \in Nat \cup {None}
BY DEF RestoredLimit, Row, PanelUser

(* Every PATCH the engine sends is one. *)
LEMMA PatchType ==
    ASSUME NEW row \in Row, NEW pu \in PanelUser
    PROVE  /\ BlockPatch(pu) \in Patch /\ RestorePatch(row, pu) \in Patch
           /\ ResetPatch(row, pu) \in Patch /\ BasicPatch(pu) \in Patch
<1>1. pu.squads \in SUBSET Squad
  BY DEF PanelUser
<1>2. row.orig \in Nat \cup {None} /\ row.strategy \in AnyStrategy \cup {None}
  BY DEF Row
<1> QED
  BY <1>1, <1>2, RestoredLimitType, SquadAssumption
     DEF BlockPatch, RestorePatch, ResetPatch, BasicPatch, Patch, EnsureSquads, DropSquads,
         AnyStrategy

(* A patched panel user is a panel user. *)
LEMMA PatchedType ==
    ASSUME NEW pu \in PanelUser, NEW patch \in Patch
    PROVE  Patched(pu, patch) \in PanelUser
<1>1. /\ patch.squads \in SUBSET Squad /\ patch.limit \in Nat \cup {None}
      /\ patch.strategy \in AnyStrategy \cup {None}
  BY DEF Patch
<1> QED
  BY <1>1 DEF Patched, PanelUser

(* The third signal of shouldRestoreWhitelist adds nothing to the two the        *)
(* comment of onUserModified names.                                              *)
THEOREM ThirdSignalIsRedundant ==
    ASSUME NEW row \in Row, NEW pu \in PanelUser
    PROVE  ShouldRestoreWhitelist(row, pu) <=> LimitGrew(row, pu) \/ UsedDropped(row, pu)
<1>1. OrigOf(row) \in Nat /\ pu.limit \in Nat /\ pu.used \in Nat /\ Ceiling \in Nat
  BY CeilingAssumption DEF OrigOf, Row, PanelUser
<1> QED
  BY <1>1 DEF ShouldRestoreWhitelist, LimitGrew, UsedDropped, LimitReturned, IsPlanB

(* The whitelist is given back only to a user whose paid limit is known and      *)
(* whose panel limit is positive and sane; what it then sets is at least both.   *)
THEOREM RestoreHonoursPurchase ==
    ASSUME NEW row \in Row, NEW pu \in PanelUser, ShouldRestoreWhitelist(row, pu)
    PROVE  /\ row.orig # None /\ 0 < pu.limit /\ pu.limit < Ceiling
           /\ RestoredLimit(row, pu) \in Nat \ {0}
           /\ RestoredLimit(row, pu) >= row.orig /\ RestoredLimit(row, pu) >= pu.limit
<1>1. /\ row.orig \in (Nat \ {0}) \cup {None} /\ pu.limit \in Nat /\ pu.used \in Nat
      /\ Ceiling \in Nat
  BY CeilingAssumption DEF Row, PanelUser
<1>2. row.orig # None /\ row.orig \in Nat \ {0} /\ OrigOf(row) = row.orig
  BY <1>1 DEF ShouldRestoreWhitelist, LimitGrew, UsedDropped, LimitReturned, OrigOf
<1>3. 0 < pu.limit /\ pu.limit < Ceiling
  BY <1>1, <1>2 DEF ShouldRestoreWhitelist, LimitGrew, UsedDropped, LimitReturned, IsPlanB
<1> QED
  BY <1>1, <1>2, <1>3 DEF RestoredLimit

(* The user.modified that a block PATCH sets off does not undo the block, and    *)
(* the reconciler finds nothing to repair afterwards.                            *)
THEOREM BlockIsStable ==
    ASSUME NEW row \in Row, NEW pu \in PanelUser, NEW old \in PanelUser
    PROVE  LET after == Patched(pu, BlockPatch(old))
           IN  /\ ~ShouldRestoreWhitelist(BlockedRow(row), after)
               /\ ~NeedsBlock(BlockedRow(row), after)
               /\ ~LostLimited(BlockedRow(row), after)
<1> DEFINE after == Patched(pu, BlockPatch(old))
<1>1. /\ after.status = "ACTIVE" /\ after.limit = 0
      /\ after.squads = (old.squads \ {Whitelist}) \cup {Basic}
  BY NoneAssumption DEF Patched, BlockPatch, EnsureSquads, DropSquads, PanelUser
<1>2. Whitelist \notin after.squads /\ Basic \in after.squads
  BY <1>1, SquadAssumption
<1>3. ~ShouldRestoreWhitelist(BlockedRow(row), after)
  <2>1. OrigOf(BlockedRow(row)) \in Nat
    BY DEF OrigOf, BlockedRow, Row
  <2> QED
    BY <1>1, <2>1 DEF ShouldRestoreWhitelist, LimitGrew, UsedDropped, LimitReturned
<1> QED
  BY <1>1, <1>2, <1>3 DEF NeedsBlock, LostLimited
=============================================================================
