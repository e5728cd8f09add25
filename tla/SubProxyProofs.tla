--------------------------- MODULE SubProxyProofs ---------------------------
(***************************************************************************)
(* The subscription proxy keeps its promise (RecentPage) for any number of *)
(* pulls, any lifetime and any patience.  TypeOK /\ ViewsAreRecent is      *)
(* inductive: an answer ages no faster than its pull waits, an entry no    *)
(* faster than its lifetime runs out.                                      *)
(***************************************************************************)
EXTENDS SubProxy, TLAPS

USE DEF world, shown

Inv == TypeOK /\ ViewsAreRecent

Entry == [uuid : -1..TTL, status : 0..TTL, view : Heard]

\* one pull's share of TypeOK and ViewsAreRecent
PullOK(p) ==
    /\ pc[p] \in {"idle", "body", "cached", "uuid", "status", "answered", "row"}
    /\ got[p] \in Heard /\ waited[p] \in 0..Patience
    /\ pc[p] = "answered" => ago[got[p]] <= waited[p]
    /\ pc[p] = "row" => ago[got[p]] <= Patience + TTL + waited[p]

-----------------------------------------------------------------------------
(* Values *)

LEMMA BoundType == Bound \in Nat /\ TTL \in Nat /\ Patience \in Nat
BY ProxyAssumption DEF Bound

LEMMA SeenAreViews == Seen \subseteq View /\ Unknown \notin View /\ Heard \subseteq AnyView
BY ProxyAssumption DEF View, Unknown, Heard, AnyView

LEMMA TitleOfOverlay == \A wl, v : Overlaid(wl, v) \in Title
BY DEF Overlaid, Title

LEMMA AgeType == ASSUME Inv, NEW v \in AnyView PROVE ago[v] \in Nat /\ ago[v] <= Bound + 1
BY BoundType DEF Inv, TypeOK

(* A step of one pull that leaves the world alone but for the row, the page, the *)
(* entry and a failed look-up just now.                                          *)
LEMMA PullKeeps ==
    ASSUME Inv, NEW p \in Pull,
           panel' = panel,
           row' = row \/ row' = "active", down' = down,
           page' \in Title \cup {Nothing}, made' \in BOOLEAN,
           ago' = ago \/ ago' = [ago EXCEPT ![Unknown] = 0],
           cache' \in Entry,
           cache'.status > 0 => ago'[cache'.view] <= Patience + (TTL - cache'.status),
           NEW c, NEW v, NEW w,
           pc' = [pc EXCEPT ![p] = c],
           got' = [got EXCEPT ![p] = v],
           waited' = [waited EXCEPT ![p] = w],
           PullOK(p)'
    PROVE  Inv'
<1>1. ago' \in [AnyView -> 0..Bound + 1] /\ \A x \in AnyView : ago'[x] <= ago[x]
  BY BoundType DEF Inv, TypeOK, AnyView
<1>2. ago'[panel'] = 0
  BY SeenAreViews DEF Inv, TypeOK, ViewsAreRecent, AnyView
<1>3. ASSUME NEW q \in Pull PROVE PullOK(q)'
  <2>1. CASE q = p
    BY <2>1
  <2>2. CASE q # p
    <3>1. pc'[q] = pc[q] /\ got'[q] = got[q] /\ waited'[q] = waited[q]
      BY <2>2 DEF Inv, TypeOK
    <3>2. got[q] \in AnyView /\ ago[got[q]] \in Nat /\ ago'[got[q]] \in Nat
      BY <1>1, AgeType, SeenAreViews, BoundType DEF Inv, TypeOK
    <3>3. ago'[got[q]] <= ago[got[q]]
      BY <3>2, <1>1
    <3> QED
      BY <3>1, <3>2, <3>3, BoundType DEF Inv, TypeOK, ViewsAreRecent, PullOK
  <2> QED
    BY <2>1, <2>2
<1>4. /\ pc' \in [Pull -> {"idle", "body", "cached", "uuid", "status", "answered", "row"}]
      /\ got' \in [Pull -> Heard]
      /\ waited' \in [Pull -> 0..Patience]
  BY <1>3 DEF Inv, TypeOK, PullOK
<1>5. panel' \in Seen /\ row' \in RowState \cup {Absent} /\ down' \in Outages
  BY DEF Inv, TypeOK, RowState
<1>6. TypeOK'
  BY <1>1, <1>4, <1>5 DEF TypeOK, Entry
<1>7. ViewsAreRecent'
  BY <1>2, <1>3 DEF ViewsAreRecent, PullOK
<1> QED
  BY <1>6, <1>7 DEF Inv

(* What is stored at the end of a look-up: v, which was said at most Patience    *)
(* ticks ago.                                                                    *)
LEMMA PutStatusKeeps ==
    ASSUME Inv, NEW v \in Heard, PutStatus(v),
           ago' = ago \/ ago' = [ago EXCEPT ![Unknown] = 0],
           ago'[v] <= Patience
    PROVE  /\ cache' \in Entry
           /\ cache'.status > 0 => ago'[cache'.view] <= Patience + (TTL - cache'.status)
<1>1. cache \in Entry
  BY DEF Inv, TypeOK, Entry
<1>2. CASE TTL = 0
  BY <1>1, <1>2, BoundType DEF PutStatus, Entry
<1>3. CASE TTL # 0
  <2>1. cache' = [cache EXCEPT !.status = TTL, !.view = v]
    BY <1>3 DEF PutStatus
  <2>2. cache' = [uuid |-> cache.uuid, status |-> TTL, view |-> v]
    BY <2>1, <1>1 DEF Entry
  <2>3. cache.uuid \in -1..TTL /\ TTL \in 0..TTL
    BY <1>1, BoundType DEF Entry
  <2> QED
    BY <2>2, <2>3, BoundType DEF Entry
<1> QED
  BY <1>2, <1>3

-----------------------------------------------------------------------------
(* Steps *)

(* The cache untouched, or only its uuid renewed. *)
LEMMA CacheKeeps ==
    ASSUME Inv, ago' = ago, cache' = cache \/ PutUuid
    PROVE  /\ cache' \in Entry
           /\ cache'.status > 0 => ago'[cache'.view] <= Patience + (TTL - cache'.status)
<1>1. cache \in Entry
  BY DEF Inv, TypeOK, Entry
<1>2. cache' \in Entry /\ cache'.status = cache.status /\ cache'.view = cache.view
  BY <1>1, BoundType DEF PutUuid, Entry
<1> QED
  BY <1>2 DEF Inv, ViewsAreRecent

(* The end of a pull. *)
LEMMA FinishKeeps ==
    ASSUME Inv, NEW p \in Pull, Finish(p), panel' = panel, ago' = ago, cache' = cache,
           row' = row \/ row' = "active", down' = down,
           page' \in Title \cup {Nothing}, made' \in BOOLEAN
    PROVE  Inv'
<1>1. /\ pc' = [pc EXCEPT ![p] = "idle"]
      /\ got' = [got EXCEPT ![p] = Unknown]
      /\ waited' = [waited EXCEPT ![p] = 0]
  BY DEF Finish
<1>2. pc'[p] = "idle" /\ got'[p] = Unknown /\ waited'[p] = 0
  BY <1>1 DEF Inv, TypeOK
<1>3. PullOK(p)'
  BY <1>2, BoundType DEF PullOK, Heard
<1> QED
  BY <1>1, <1>3, CacheKeeps, PullKeeps

LEMMA PullStepKeeps ==
    ASSUME Inv, NEW p \in Pull,
           Ask(p) \/ PullStep(p) \/ PullFails(p) \/ GiveUp(p)
    PROVE  Inv'
<1> USE DEF Goto, Answer
<1>0. /\ PullOK(p) /\ Unknown \in Heard /\ "active" \in RowState
      /\ page \in Title \cup {Nothing} /\ made \in BOOLEAN /\ (~made) \in BOOLEAN
      /\ panel \in Heard /\ ago[panel] = 0 /\ panel # Unknown
  BY SeenAreViews DEF Inv, TypeOK, ViewsAreRecent, PullOK, Heard, RowState
<1>1. pc = [pc EXCEPT ![p] = pc[p]] /\ got = [got EXCEPT ![p] = got[p]]
      /\ waited = [waited EXCEPT ![p] = waited[p]]
  BY DEF Inv, TypeOK
<1>2. /\ \A x : [pc EXCEPT ![p] = x][p] = x
      /\ \A x : [got EXCEPT ![p] = x][p] = x
      /\ \A x : [waited EXCEPT ![p] = x][p] = x
  BY DEF Inv, TypeOK
<1>3. CASE Ask(p)
  BY <1>0, <1>1, <1>2, <1>3, CacheKeeps, PullKeeps DEF Ask, PullOK
<1>4. CASE Body(p)
  <2>1. page' \in Title \cup {Nothing}
    BY <1>0, <1>4 DEF Body, Title
  <2>2. CASE Failover /\ panel.status = "EXPIRED"
    BY <2>1, <2>2, <1>4, FinishKeeps DEF Body, Expired
  <2>3. CASE ~(Failover /\ panel.status = "EXPIRED")
    BY <2>1, <2>3, <1>0, <1>1, <1>2, <1>4, CacheKeeps, PullKeeps DEF Body, Expired, PullOK
  <2> QED
    BY <2>2, <2>3
<1>5. CASE BodyFails(p)
  BY <1>0, <1>5, FinishKeeps DEF BodyFails
<1>6. CASE Cached(p)
  <2>1. CASE StatusFresh
    <3>1. cache.view \in Heard /\ cache.status \in 0..TTL /\ cache.status > 0
      BY <2>1 DEF StatusFresh, Inv, TypeOK
    <3>2. ago[cache.view] \in Nat /\ ago[cache.view] <= Patience + (TTL - cache.status)
      BY <3>1, AgeType, SeenAreViews DEF Inv, ViewsAreRecent
    <3>3. ago[cache.view] <= Patience + TTL + waited[p]
      BY <3>1, <3>2, <1>0, BoundType DEF PullOK
    <3>4. PullOK(p)'
      BY <1>0, <1>2, <1>6, <2>1, <3>1, <3>3 DEF Cached, PullOK
    <3> QED
      BY <1>0, <1>1, <1>6, <2>1, <3>4, CacheKeeps, PullKeeps DEF Cached
  <2>2. CASE ~StatusFresh
    BY <2>2, <1>0, <1>1, <1>2, <1>6, CacheKeeps, PullKeeps DEF Cached, PullOK
  <2> QED
    BY <2>1, <2>2
<1>7. CASE FetchUuid(p)
  BY <1>0, <1>1, <1>2, <1>7, CacheKeeps, PullKeeps DEF FetchUuid, PullOK
<1>8. CASE FetchUuidFails(p)
  BY <1>8, FinishKeeps DEF FetchUuidFails, Title
<1>9. CASE FetchStatus(p)
  <2>1. PullOK(p)'
    BY <1>0, <1>2, <1>9, BoundType DEF FetchStatus, PullOK
  <2> QED
    BY <2>1, <1>0, <1>1, <1>9, CacheKeeps, PullKeeps DEF FetchStatus
<1>10. CASE KeepStatus(p)
  <2>1. got[p] \in Heard /\ ago[got[p]] \in Nat /\ ago[got[p]] <= waited[p]
    BY <1>0, <1>10, AgeType, SeenAreViews DEF KeepStatus, PullOK
  <2>2. ago[got[p]] <= Patience /\ ago[got[p]] <= Patience + TTL + waited[p]
    BY <2>1, <1>0, BoundType DEF PullOK
  <2>3. PullOK(p)'
    BY <1>0, <1>1, <1>2, <2>2, <1>10 DEF KeepStatus, PullOK
  <2>4. ago' = ago /\ PutStatus(got[p])
    BY <1>10 DEF KeepStatus
  <2>5. /\ cache' \in Entry
        /\ cache'.status > 0 => ago'[cache'.view] <= Patience + (TTL - cache'.status)
    BY <2>1, <2>2, <2>4, PutStatusKeeps
  <2> QED
    BY <2>3, <2>5, <1>0, <1>1, <1>10, PullKeeps DEF KeepStatus
<1>11. CASE FetchStatusFails(p) \/ (GiveUp(p) /\ pc[p] \in {"status", "answered"})
  <2>1. /\ PutStatus(Unknown) /\ ago' = [ago EXCEPT ![Unknown] = 0] /\ panel' = panel
        /\ row' = row /\ down' = down /\ page' = page /\ made' = made /\ got' = [got EXCEPT ![p] = Unknown]
    BY <1>11 DEF FetchStatusFails, GiveUp, Finish
  <2>2. ago'[Unknown] = 0
    BY <2>1 DEF Inv, TypeOK, AnyView
  <2>3. /\ cache' \in Entry
        /\ cache'.status > 0 => ago'[cache'.view] <= Patience + (TTL - cache'.status)
    BY <1>0, <2>1, <2>2, BoundType, PutStatusKeeps
  <2>4. PICK c \in {"row", "idle"}, w \in 0..Patience :
             pc' = [pc EXCEPT ![p] = c] /\ waited' = [waited EXCEPT ![p] = w]
    BY <1>0, <1>1, <1>11, BoundType DEF FetchStatusFails, GiveUp, Finish, PullOK
  <2>5. pc'[p] = c /\ got'[p] = Unknown /\ waited'[p] = w
    BY <1>2, <2>1, <2>4
  <2>6. PullOK(p)'
    BY <1>0, <2>2, <2>5, BoundType DEF PullOK
  <2> QED
    BY <1>0, <2>1, <2>3, <2>4, <2>6, PullKeeps
<1>12. CASE ReadRow(p)
  BY <1>12, FinishKeeps, TitleOfOverlay DEF ReadRow
<1>13. CASE ReadRowFails(p)
  BY <1>13, FinishKeeps, TitleOfOverlay DEF ReadRowFails
<1>14. CASE GiveUp(p) /\ pc[p] \notin {"status", "answered"}
  BY <1>0, <1>14, FinishKeeps DEF GiveUp
<1> QED
  BY <1>3, <1>4, <1>5, <1>6, <1>7, <1>8, <1>9, <1>10, <1>11, <1>12, <1>13, <1>14
     DEF PullStep, PullFails

(* Time: an entry loses as much lifetime as its view gains age, a pull waits as  *)
(* long as its answer ages.                                                      *)
LEMMA TickKeeps == Inv /\ Tick => Inv'
<1> SUFFICES ASSUME Inv, Tick PROVE Inv'
  OBVIOUS
<1>1. /\ panel \in AnyView /\ panel' = panel /\ pc' = pc /\ got' = got
  BY SeenAreViews DEF Inv, TypeOK, Tick, AnyView
<1>2. \A v \in AnyView : /\ ago'[v] \in 0..Bound + 1
                         /\ ago'[v] <= ago[v] + 1
  BY AgeType, BoundType DEF Tick
<1>3. ago' \in [AnyView -> 0..Bound + 1] /\ ago'[panel'] = 0
  BY <1>1, <1>2 DEF Tick
<1>4. \A p \in Pull : /\ waited'[p] \in 0..Patience
                      /\ pc[p] # "idle" => waited'[p] = waited[p] + 1
  BY BoundType DEF Tick, Inv, TypeOK
<1>5. waited' \in [Pull -> 0..Patience]
  BY <1>4 DEF Tick
<1>6. /\ cache' \in Entry /\ cache'.view = cache.view
      /\ cache'.status > 0 => cache.status > 0 /\ cache'.status = cache.status - 1
  <2> DEFINE u == IF cache.uuid >= 0 THEN cache.uuid - 1 ELSE cache.uuid
             s == IF cache.status > 0 THEN cache.status - 1 ELSE cache.status
  <2>1. cache \in Entry /\ cache' = [cache EXCEPT !.uuid = u, !.status = s]
    BY DEF Tick, Inv, TypeOK, Entry
  <2>2. cache' = [uuid |-> u, status |-> s, view |-> cache.view]
    BY <2>1 DEF Entry
  <2>3. /\ u \in -1..TTL /\ s \in 0..TTL /\ cache.view \in Heard
        /\ s > 0 => cache.status > 0 /\ s = cache.status - 1
    BY <2>1, BoundType DEF Entry
  <2> QED
    BY <2>2, <2>3 DEF Entry
<1>7. cache'.status > 0 => ago'[cache'.view] <= Patience + (TTL - cache'.status)
  <2> SUFFICES ASSUME cache'.status > 0
               PROVE  ago'[cache'.view] <= Patience + (TTL - cache'.status)
    OBVIOUS
  <2>1. cache.view \in AnyView /\ cache.status \in 0..TTL
    BY SeenAreViews DEF Inv, TypeOK
  <2>2. ago[cache.view] <= Patience + (TTL - cache.status)
    BY <1>6 DEF Inv, ViewsAreRecent
  <2> QED
    BY <1>2, <1>6, <2>1, <2>2, AgeType, BoundType
<1>8. ASSUME NEW p \in Pull
      PROVE  /\ pc'[p] = "answered" => ago'[got'[p]] <= waited'[p]
             /\ pc'[p] = "row" => ago'[got'[p]] <= Patience + TTL + waited'[p]
  <2>1. got[p] \in AnyView /\ waited[p] \in Nat
    BY SeenAreViews, BoundType DEF Inv, TypeOK
  <2>2. ago[got[p]] \in Nat /\ ago'[got[p]] \in Nat /\ ago'[got[p]] <= ago[got[p]] + 1
    BY <1>2, <2>1, AgeType, BoundType
  <2> QED
    BY <1>1, <1>4, <2>1, <2>2, BoundType DEF Inv, ViewsAreRecent
<1>9. TypeOK'
  BY <1>1, <1>3, <1>5, <1>6 DEF Inv, TypeOK, Tick, Entry
<1>10. ViewsAreRecent'
  BY <1>3, <1>7, <1>8 DEF ViewsAreRecent
<1> QED
  BY <1>9, <1>10 DEF Inv

(* Changes of the panel and of the row, and a restart. *)
LEMMA WorldKeeps ==
    ASSUME Inv, (\E v \in Seen : PanelChanges(v)) \/ RowChanges \/ OutageChanges \/ Restart
    PROVE  Inv'
<1>1. CASE \E v \in Seen : PanelChanges(v)
  <2>1. PICK v \in Seen : PanelChanges(v)
    BY <1>1
  <2>2. v \in AnyView
    BY SeenAreViews DEF AnyView
  <2>3. /\ ago' \in [AnyView -> 0..Bound + 1] /\ ago'[panel'] = 0
        /\ \A x \in AnyView : ago'[x] <= ago[x]
    BY <2>1, <2>2, BoundType DEF PanelChanges, Inv, TypeOK
  <2>4. /\ panel' = v /\ row' = row /\ down' = down /\ page' = page /\ made' = made
        /\ cache' = cache
        /\ pc' = pc /\ got' = got /\ waited' = waited
    BY <2>1 DEF PanelChanges, pulls
  <2>5. TypeOK'
    BY <2>3, <2>4 DEF Inv, TypeOK
  <2>6. \A x \in Heard : ago[x] \in Nat /\ ago'[x] \in Nat /\ ago'[x] <= ago[x]
    BY <2>3, SeenAreViews, AgeType, BoundType
  <2>7. ViewsAreRecent'
    <3>1. cache.view \in Heard /\ cache.status \in 0..TTL
      BY DEF Inv, TypeOK
    <3>2. cache.status > 0 => ago'[cache.view] <= Patience + (TTL - cache.status)
      BY <3>1, <2>6, BoundType DEF Inv, ViewsAreRecent
    <3>3. ASSUME NEW p \in Pull
          PROVE  /\ pc[p] = "answered" => ago'[got[p]] <= waited[p]
                 /\ pc[p] = "row" => ago'[got[p]] <= Patience + TTL + waited[p]
      <4>1. got[p] \in Heard /\ waited[p] \in Nat
        BY BoundType DEF Inv, TypeOK
      <4> QED
        BY <4>1, <2>6, BoundType DEF Inv, ViewsAreRecent
    <3> QED
      BY <2>3, <2>4, <3>2, <3>3 DEF ViewsAreRecent
  <2> QED
    BY <2>5, <2>7 DEF Inv
<1>2. CASE RowChanges \/ OutageChanges
  BY <1>2 DEF RowChanges, OutageChanges, pulls, Inv, TypeOK, ViewsAreRecent
<1>3. CASE Restart
  <2>1. NoEntry \in Entry /\ NoEntry.status = 0 /\ Unknown \in Heard /\ 0 \in 0..Patience
    BY BoundType DEF NoEntry, Entry, Heard
  <2> QED
    BY <1>3, <2>1 DEF Restart, Inv, TypeOK, ViewsAreRecent, Entry
<1> QED
  BY <1>1, <1>2, <1>3

LEMMA InvInit == Init => Inv
<1> SUFFICES ASSUME Init PROVE Inv
  OBVIOUS
<1>1. NoEntry \in Entry /\ NoEntry.status = 0 /\ Unknown \in Heard /\ 0 \in 0..Patience
  BY BoundType DEF NoEntry, Entry, Heard
<1>2. ago \in [AnyView -> 0..Bound + 1] /\ ago[panel] = 0
  BY BoundType, SeenAreViews DEF Init, AnyView
<1>3. TypeOK
  BY <1>1, <1>2 DEF Init, TypeOK, Entry
<1>4. ViewsAreRecent
  BY <1>1, <1>2 DEF Init, ViewsAreRecent
<1> QED
  BY <1>3, <1>4 DEF Inv

LEMMA InvStep == Inv /\ [Next]_vars => Inv'
<1> SUFFICES ASSUME Inv, [Next]_vars PROVE Inv'
  OBVIOUS
<1>1. CASE UNCHANGED vars
  BY <1>1 DEF vars, pulls, Inv, TypeOK, ViewsAreRecent
<1> QED
  BY <1>1, PullStepKeeps, TickKeeps, WorldKeeps DEF Next

-----------------------------------------------------------------------------
(* Theorems *)

(* The proxy's variables have their types, with any number of pulls. *)
THEOREM ProxyTypes == Spec => []TypeOK
<1>1. Spec => []Inv
  BY InvInit, InvStep, PTL DEF Spec
<1>2. Inv => TypeOK
  BY DEF Inv
<1> QED
  BY <1>1, <1>2, PTL

(* No stored view is older than its lifetime and a pull allow, although pulls    *)
(* store their answers, and their failures, in any order.                        *)
THEOREM ViewsStayRecent == Spec => []ViewsAreRecent
<1>1. Spec => []Inv
  BY InvInit, InvStep, PTL DEF Spec
<1>2. Inv => ViewsAreRecent
  BY DEF Inv
<1> QED
  BY <1>1, <1>2, PTL

(* What a pull that is about to answer works with is at most Bound ticks old.    *)
LEMMA AnswerIsRecent ==
    ASSUME Inv, NEW p \in Pull, pc[p] = "row"
    PROVE  got[p] \in Heard /\ got[p] \in AnyView /\ ago[got[p]] <= Bound
<1>1. got[p] \in Heard /\ waited[p] \in Nat /\ waited[p] <= Patience
  BY BoundType DEF Inv, TypeOK
<1>2. got[p] \in AnyView /\ ago[got[p]] \in Nat
  BY <1>1, SeenAreViews, AgeType
<1>3. ago[got[p]] <= Patience + TTL + waited[p]
  BY DEF Inv, ViewsAreRecent
<1> QED
  BY <1>1, <1>2, <1>3, BoundType DEF Bound

(* Pages show the row of the moment, unless the store fails, and a panel user of *)
(* the last TTL and two patiences, unless the panel does not resolve the short   *)
(* id: the proxy with its cache implements the proxy without one.                *)
THEOREM KeepsPromise == Spec => ImplementsRecentPage
<1> USE DEF Goto, Answer, Finish, Promise!Shown, Promise!world, Promise!shown
<1>0. /\ Promise!View = View /\ Promise!Unknown = Unknown /\ Promise!RowState = RowState
      /\ View \cup {Unknown} = AnyView
      /\ \A wl, v : Promise!Overlaid(wl, v) = Overlaid(wl, v)
  BY DEF Promise!View, View, Promise!Unknown, Unknown, Promise!RowState, RowState, AnyView,
         Promise!Overlaid, Overlaid, Promise!Open, Open
<1>1. Init => Promise!Init
  BY <1>0, SeenAreViews DEF Init, Promise!Init
<1>2. Inv /\ [Next]_vars => [Promise!Next]_<<Promise!world, ago, Promise!shown>>
  <2> SUFFICES ASSUME Inv, Next
               PROVE  Promise!Next \/ UNCHANGED <<Promise!world, ago, Promise!shown>>
    BY DEF vars
  <2>1. ASSUME NEW p \in Pull, PullStep(p) \/ Ask(p)
        PROVE  Promise!Next \/ UNCHANGED <<Promise!world, ago, Promise!shown>>
    <3>1. CASE Ask(p) \/ Cached(p) \/ FetchUuid(p) \/ FetchStatus(p) \/ KeepStatus(p)
      BY <3>1 DEF Ask, Cached, FetchUuid, FetchStatus, KeepStatus
    <3>2. CASE Body(p)
      BY <3>2 DEF Body, Expired, Promise!Next, Promise!ShowRescue
    <3>3. CASE ReadRow(p)
      BY <1>0, <3>3, AnswerIsRecent DEF ReadRow, Promise!Next, Promise!Show
    <3> QED
      BY <2>1, <3>1, <3>2, <3>3 DEF PullStep
  <2>2. ASSUME NEW p \in Pull, PullFails(p) \/ GiveUp(p)
        PROVE  Promise!Next \/ UNCHANGED <<Promise!world, ago, Promise!shown>>
    <3>1. CASE BodyFails(p)
      BY <3>1 DEF BodyFails
    <3>2. CASE FetchUuidFails(p)
      BY <3>2 DEF FetchUuidFails, Promise!Next, Promise!ShowPanels
    <3>3. CASE FetchStatusFails(p) \/ GiveUp(p)
      BY <1>0, <3>3 DEF FetchStatusFails, GiveUp, Promise!Next, Promise!LookupFails
    <3>4. CASE ReadRowFails(p)
      BY <1>0, <3>4, AnswerIsRecent DEF ReadRowFails, Promise!Next, Promise!ShowWithoutRow
    <3> QED
      BY <2>2, <3>1, <3>2, <3>3, <3>4 DEF PullFails
  <2>3. CASE Tick
    BY <1>0, <2>3 DEF Tick, Promise!Next, Promise!Tick
  <2>4. ASSUME NEW v \in Seen, PanelChanges(v) PROVE Promise!Next
    BY <1>0, <2>4, SeenAreViews DEF PanelChanges, Promise!Next, Promise!PanelChanges
  <2>5. CASE RowChanges \/ OutageChanges
    BY <1>0, <2>5 DEF RowChanges, OutageChanges, Promise!Next, Promise!RowChanges,
                      Promise!OutageChanges
  <2>6. CASE Restart
    BY <2>6 DEF Restart
  <2> QED
    BY <2>1, <2>2, <2>3, <2>4, <2>5, <2>6 DEF Next
<1> QED
  BY <1>1, <1>2, InvInit, InvStep, PTL DEF Spec, ImplementsRecentPage, Promise!Spec

(* Whoever has been LIMITED or without the squad for longer than Bound is told   *)
(* so, whether or not his row can be read.                                       *)
THEOREM CutBecomesVisible == Spec => CutIsShown
<1>1. Inv /\ [Next]_vars =>
        [\A p \in Pull :
            /\ ReadRow(p) \/ ReadRowFails(p)
            /\ \A v \in Seen : Open(v) => ago[v] > Bound
            => page' = "off"]_vars
  <2> SUFFICES ASSUME Inv, NEW p \in Pull, ReadRow(p) \/ ReadRowFails(p),
                      \A v \in Seen : Open(v) => ago[v] > Bound
               PROVE  page' = "off"
    OBVIOUS
  <2>1. pc[p] = "row" /\ \E wl : page' = Overlaid(wl, got[p])
    BY DEF ReadRow, ReadRowFails, Answer
  <2>2. got[p] \in Heard /\ ago[got[p]] <= Bound /\ ago[got[p]] \in Nat
    BY <2>1, AnswerIsRecent, AgeType
  <2>3. ~Open(got[p])
    <3>1. CASE got[p] \in Seen
      BY <2>2, <3>1, BoundType
    <3>2. Unknown.whitelist = FALSE
      BY DEF Unknown
    <3>3. ~Open(Unknown)
      BY <3>2, Zenon DEF Open
    <3> QED
      BY <2>2, <3>1, <3>3 DEF Heard
  <2> QED
    BY <2>1, <2>3 DEF Overlaid
<1> QED
  BY <1>1, InvInit, InvStep, PTL DEF Spec, CutIsShown

(* Whoever is active in his row, and open at the panel without a failed look-up  *)
(* for longer than Bound, keeps the panel's own title.                           *)
THEOREM HealthyKeepsTitle == Spec => HealthyIsShown
<1>1. Inv /\ [Next]_vars =>
        [\A p \in Pull :
            /\ ReadRow(p) /\ row \in {"active", Absent}
            /\ \A v \in AnyView : ~Open(v) => ago[v] > Bound
            => page' = "on"]_vars
  <2> SUFFICES ASSUME Inv, NEW p \in Pull, ReadRow(p), row \in {"active", Absent},
                      \A v \in AnyView : ~Open(v) => ago[v] > Bound
               PROVE  page' = "on"
    OBVIOUS
  <2>1. pc[p] = "row" /\ page' = Overlaid(row, got[p])
    BY DEF ReadRow, Answer
  <2>2. got[p] \in AnyView /\ ago[got[p]] <= Bound /\ ago[got[p]] \in Nat
    BY <2>1, AnswerIsRecent, AgeType
  <2>3. Open(got[p])
    BY <2>2, BoundType
  <2>4. row \notin {"grace", "blocked"}
    BY ProxyAssumption DEF RowState
  <2> QED
    BY <2>1, <2>3, <2>4 DEF Overlaid
<1> QED
  BY <1>1, InvInit, InvStep, PTL DEF Spec, HealthyIsShown
=============================================================================
