----------------------------- MODULE TableProofs -----------------------------
(***************************************************************************)
(* The properties of DecisionTable for all byte counts, squads and         *)
(* strategies: decisions carried out settle a user, lower no limit and     *)
(* leave the squads alone that the service does not manage.                *)
(***************************************************************************)
EXTENDS DecisionTable, DecisionProofs

(* The row a block remembers the plan in. *)
LEMMA RememberType ==
    ASSUME TypeOK
    PROVE  Preserve(IF row.wl = "active" THEN Capture(row, pu) ELSE row, pu) \in Row
BY CaptureType DEF TypeOK

(* A restored, reset or newly cut user is well formed. *)
LEMMA StepTypes ==
    ASSUME TypeOK, [Next]_vars
    PROVE  TypeOK'
<1>1. /\ Patched(pu, BlockPatch(pu)) \in PanelUser
      /\ Patched(pu, RestorePatch(row, pu)) \in PanelUser
      /\ Patched(pu, ResetPatch(row, pu)) \in PanelUser
      /\ Patched(pu, BasicPatch(pu)) \in PanelUser
  BY PatchType, PatchedType DEF TypeOK
<1>2. CASE Block
  BY <1>1, <1>2, RememberType, RowType DEF Block, TypeOK
<1>3. CASE Restore
  BY <1>1, <1>3, RowType DEF Restore, TypeOK
<1>4. CASE Reset
  <2> DEFINE new == Patched(pu, ResetPatch(row, pu))
  <2>1. [new EXCEPT !.used = 0] \in PanelUser
    <3>1. new \in PanelUser
      BY <1>1
    <3> HIDE DEF new
    <3> QED
      BY <3>1 DEF PanelUser
  <2> QED
    BY <1>4, <2>1, RowType DEF Reset, TypeOK
<1>5. CASE CutBasic
  BY <1>1, <1>5, RowType DEF CutBasic, TypeOK
<1>6. CASE UNCHANGED vars
  BY <1>6 DEF vars, TypeOK
<1> QED
  BY <1>2, <1>3, <1>4, <1>5, <1>6 DEF Next

(* The table starts with rows and panel users. *)
LEMMA TableInit == Init => TypeOK
BY BoundAssumption DEF Init, TypeOK, Row, PanelUser

(* Whatever is decided and carried out, rows and panel users stay well formed.   *)
THEOREM TableTypes == Spec => []TypeOK
BY TableInit, StepTypes, PTL DEF Spec

(* The two signals of onUserModified's comment are all there is.                 *)
THEOREM SignalsSuffice == Spec => []TwoSignalsSuffice
<1>1. TypeOK => TwoSignalsSuffice
  BY ThirdSignalIsRedundant DEF TypeOK, TwoSignalsSuffice
<1> QED
  BY TableInit, StepTypes, <1>1, PTL DEF Spec

(* Neither the 0 of basic-only access nor an old Plan-B override is taken for a  *)
(* purchase, and nobody is restored without a paid limit on his row.             *)
THEOREM PaidLimitNeeded == Spec => []RestoreNeedsPaidLimit
<1>1. TypeOK => RestoreNeedsPaidLimit
  <2> SUFFICES ASSUME TypeOK, ShouldRestoreWhitelist(row, pu)
               PROVE  /\ row.orig # None
                      /\ 0 < pu.limit /\ pu.limit < Ceiling
                      /\ pu.limit > row.orig \/ pu.used < row.orig
    BY DEF RestoreNeedsPaidLimit
  <2>1. row.orig # None /\ 0 < pu.limit /\ pu.limit < Ceiling
    BY RestoreHonoursPurchase DEF TypeOK
  <2>2. LimitGrew(row, pu) \/ UsedDropped(row, pu)
    BY ThirdSignalIsRedundant DEF TypeOK
  <2>3. OrigOf(row) = row.orig
    BY <2>1 DEF OrigOf
  <2> QED
    BY <2>1, <2>2, <2>3 DEF LimitGrew, UsedDropped
<1> QED
  BY TableInit, StepTypes, <1>1, PTL DEF Spec

-----------------------------------------------------------------------------
(* What a PATCH leaves at the panel. *)
LEMMA PatchedFields ==
    ASSUME NEW u \in PanelUser, NEW patch \in Patch
    PROVE  LET after == Patched(u, patch)
           IN  /\ after.status = "ACTIVE" /\ after.squads = patch.squads
               /\ patch.limit # None => after.limit = patch.limit
BY DEF Patched, PanelUser, Patch

(* The limit of a restored user is at least the one he was blocked with and the  *)
(* one the panel had ("do not downgrade the user").                              *)
THEOREM NoRestoreDowngrades == Spec => RestoreNeverDowngrades
<1>1. TypeOK /\ [Next]_vars => [Restore => pu'.limit >= row.orig /\ pu'.limit >= pu.limit]_vars
  <2> SUFFICES ASSUME TypeOK, Restore
               PROVE  pu'.limit >= row.orig /\ pu'.limit >= pu.limit
    OBVIOUS
  <2>1. /\ RestoredLimit(row, pu) \in Nat
        /\ RestoredLimit(row, pu) >= row.orig /\ RestoredLimit(row, pu) >= pu.limit
    BY RestoreHonoursPurchase DEF Restore, TypeOK
  <2>2. pu'.limit = RestoredLimit(row, pu)
    <3>1. RestorePatch(row, pu).limit = RestoredLimit(row, pu)
      BY DEF RestorePatch
    <3> QED
      BY <2>1, <3>1, PatchType, PatchedFields, NoneAssumption DEF Restore, TypeOK
  <2> QED
    BY <2>1, <2>2
<1> QED
  BY TableInit, StepTypes, <1>1, PTL DEF Spec, RestoreNeverDowngrades

(* A decision carried out in full leaves nothing to restore and nothing to       *)
(* repair, neither for the user.modified it sets off nor for the reconciler.     *)
THEOREM Settled == Spec => DecisionsSettle
<1>1. TypeOK /\ [Next]_vars => [Block \/ Restore \/ Reset => ~Verdict']_vars
  <2> SUFFICES ASSUME TypeOK, Block \/ Restore \/ Reset
               PROVE  ~Verdict'
    OBVIOUS
  <2>1. CASE Block
    <3> DEFINE r == Preserve(IF row.wl = "active" THEN Capture(row, pu) ELSE row, pu)
    <3>1. row' = BlockedRow(r) /\ pu' = Patched(pu, BlockPatch(pu)) /\ r \in Row
      BY <2>1, RememberType DEF Block
    <3> HIDE DEF r
    <3> QED
      BY <3>1, BlockIsStable DEF Verdict, NeedsRestore, TypeOK
  <2>2. ASSUME row'.wl = "active", pu'.status = "ACTIVE"
        PROVE  ~Verdict'
    BY <2>2 DEF Verdict, NeedsRestore, NeedsBlock, LostLimited, CutOff
  <2>3. CASE Restore
    <3>1. row'.wl = "active"
      BY <2>3 DEF Restore, RestoredRow, TypeOK, Row
    <3>2. pu'.status = "ACTIVE"
      BY <2>3, PatchType, PatchedFields DEF Restore, TypeOK
    <3> QED
      BY <2>2, <3>1, <3>2
  <2>4. CASE Reset
    <3>1. row'.wl = "active"
      BY <2>4 DEF Reset, ResetRow, TypeOK, Row
    <3> DEFINE new == Patched(pu, ResetPatch(row, pu))
    <3>2. new \in PanelUser /\ new.status = "ACTIVE"
      BY PatchType, PatchedType, PatchedFields DEF TypeOK
    <3>3. pu' = [new EXCEPT !.used = 0]
      BY <2>4 DEF Reset
    <3> HIDE DEF new
    <3>4. pu'.status = "ACTIVE"
      BY <3>2, <3>3 DEF PanelUser
    <3> QED
      BY <2>2, <3>1, <3>4
  <2> QED
    BY <2>1, <2>3, <2>4
<1> QED
  BY TableInit, StepTypes, <1>1, PTL DEF Spec, DecisionsSettle

(* No decision takes or gives a squad that is neither the basic nor the          *)
(* whitelist squad, although every PATCH replaces the panel's whole list.        *)
THEOREM OtherSquadsUntouched == Spec => OtherSquadsKept
<1> DEFINE Others(s) == s \ {Basic, Whitelist}
<1>1. TypeOK /\ [Next]_vars => [Others(pu'.squads) = Others(pu.squads)]_vars
  <2> SUFFICES ASSUME TypeOK, Next
               PROVE  Others(pu'.squads) = Others(pu.squads)
    BY DEF vars
  <2>1. /\ Others(BlockPatch(pu).squads) = Others(pu.squads)
        /\ Others(RestorePatch(row, pu).squads) = Others(pu.squads)
        /\ Others(ResetPatch(row, pu).squads) = Others(pu.squads)
        /\ Others(BasicPatch(pu).squads) = Others(pu.squads)
    BY DEF BlockPatch, RestorePatch, ResetPatch, BasicPatch, EnsureSquads, DropSquads
  <2>2. \A patch \in Patch : Patched(pu, patch).squads = patch.squads
    BY PatchedFields DEF TypeOK
  <2>3. CASE Block \/ Restore \/ CutBasic
    BY <2>1, <2>2, <2>3, PatchType DEF Block, Restore, CutBasic, TypeOK
  <2>4. CASE Reset
    <3> DEFINE new == Patched(pu, ResetPatch(row, pu))
    <3>1. new \in PanelUser /\ new.squads = ResetPatch(row, pu).squads
      BY <2>2, PatchType, PatchedType DEF TypeOK
    <3>2. pu' = [new EXCEPT !.used = 0]
      BY <2>4 DEF Reset
    <3> HIDE DEF new
    <3>3. pu'.squads = new.squads
      BY <3>1, <3>2 DEF PanelUser
    <3> QED
      BY <2>1, <3>1, <3>3
  <2> QED
    BY <2>3, <2>4 DEF Next
<1> QED
  BY TableInit, StepTypes, <1>1, PTL DEF Spec, OtherSquadsKept
=============================================================================
