----------------------------- MODULE UsageProofs -----------------------------
(***************************************************************************)
(* Metering for any users, nodes, traffic and faults: the types (a delta   *)
(* is never negative); that the basic limit is enforced; that nobody is    *)
(* charged more than he sent; that the books balance; and that whoever is  *)
(* cut has deserved it.                                                    *)
(*                                                                         *)
(* The marks are summed over the nodes.  The first section is what has to  *)
(* be known of such sums: a sum is the library's fold, a function defined  *)
(* by recursion on the subsets of its domain.                              *)
(***************************************************************************)
EXTENDS Usage, FiniteSetTheorems, WellFoundedInduction, TLAPS

-----------------------------------------------------------------------------
(* Sums *)

(* What holds of every subset whose smaller subsets it holds of holds of all the *)
(* subsets of a finite set; Good is the set of those it holds of.               *)
LEMMA SubsetInduction ==
    ASSUME NEW S, IsFiniteSet(S), NEW Good,
           \A s \in SUBSET S : (\A t \in SUBSET s : t # s => t \in Good) => s \in Good
    PROVE  SUBSET S \subseteq Good
<1> DEFINE Bad == {s \in SUBSET S : s \notin Good}
<1> SUFFICES ASSUME Bad # {}
             PROVE  FALSE
  OBVIOUS
<1>1. IsWellFoundedOn(StrictSubsetOrdering(S), FiniteSubsetsOf(S))
  BY FS_StrictSubsetOrderingWellFounded
<1>2. FiniteSubsetsOf(S) = SUBSET S
  BY FS_FiniteSubsetsOfFinite
<1>3. IsWellFoundedOn(StrictSubsetOrdering(S), SUBSET S)
  BY <1>1, <1>2
<1>4. Bad \subseteq SUBSET S
  OBVIOUS
<1>5. \E s \in Bad : \A t \in Bad : <<t, s>> \notin StrictSubsetOrdering(S)
  <2> HIDE DEF Bad
  <2> QED
    BY <1>3, <1>4, WFMin
<1>6. PICK s \in Bad : \A t \in Bad : <<t, s>> \notin StrictSubsetOrdering(S)
  BY <1>5
<1>7. ASSUME NEW t \in SUBSET s, t # s
      PROVE  t \in Good
  <2>1. <<t, s>> \in StrictSubsetOrdering(S)
    BY <1>6, <1>7 DEF StrictSubsetOrdering
  <2> QED
    BY <1>6, <1>7, <2>1
<1> QED
  BY <1>6, <1>7

\* the element a sum over s takes first, and the function it computes
First(s) == CHOOSE n \in s : TRUE
Step(f, g, s) == IF s = {} THEN 0 ELSE f[First(s)] + g[s \ {First(s)}]
IsSum(f, S, g) == g = [s \in SUBSET S |-> Step(f, g, s)]

(* A set that is not empty has a first element. *)
LEMMA FirstIsMember ==
    ASSUME NEW s, s # {}
    PROVE  First(s) \in s
BY DEF First

(* There is one such function at most. *)
LEMMA SumIsUnique ==
    ASSUME NEW S, IsFiniteSet(S), NEW f, NEW g, NEW h, IsSum(f, S, g), IsSum(f, S, h)
    PROVE  g = h
<1> DEFINE Good == {s \in SUBSET S : g[s] = h[s]}
<1>1. ASSUME NEW s \in SUBSET S, \A t \in SUBSET s : t # s => t \in Good
      PROVE  s \in Good
  <2>1. g[s] = Step(f, g, s) /\ h[s] = Step(f, h, s)
    BY DEF IsSum
  <2>2. CASE s = {}
    BY <2>1, <2>2 DEF Step
  <2>3. CASE s # {}
    <3>1. s \ {First(s)} \in Good
      BY <1>1, <2>3, FirstIsMember
    <3> QED
      BY <2>1, <2>3, <3>1 DEF Step
  <2> QED
    BY <2>2, <2>3
<1>2. SUBSET S \subseteq Good
  <2> HIDE DEF Good
  <2> QED
    BY <1>1, SubsetInduction
<1>3. \A s \in SUBSET S : g[s] = h[s]
  BY <1>2
<1> QED
  BY <1>3 DEF IsSum

(* What a sum computes for the subsets of a subset is the sum over that.  *)
LEMMA SumRestricts ==
    ASSUME NEW S, NEW T \in SUBSET S, NEW f, NEW g, IsSum(f, S, g)
    PROVE  IsSum(f, T, Restrict(g, SUBSET T))
<1> DEFINE h == [t \in SUBSET T |-> g[t]]
<1>1. ASSUME NEW t \in SUBSET T
      PROVE  h[t] = Step(f, h, t)
  <2>1. h[t] = Step(f, g, t)
    BY DEF IsSum
  <2>2. t \ {First(t)} \in SUBSET T
    OBVIOUS
  <2> QED
    BY <2>1, <2>2 DEF Step
<1>2. h = [t \in SUBSET T |-> h[t]]
  OBVIOUS
<1> HIDE DEF h
<1>3. h = [t \in SUBSET T |-> Step(f, h, t)]
  BY <1>1, <1>2
<1> QED
  BY <1>3 DEF IsSum, h, Restrict

\* the sum over s, as the folds of the library compute it
SumOver(f, s) == (CHOOSE g : IsSum(f, s, g))[s]

(* Over a finite set there is such a function: the recursion is sound.  *)
LEMMA SumExists ==
    ASSUME NEW S, IsFiniteSet(S), NEW f
    PROVE  \E g : IsSum(f, S, g)
<1> DEFINE Good == {s \in SUBSET S : \E g : IsSum(f, s, g)}
<1>1. ASSUME NEW s \in SUBSET S, \A t \in SUBSET s : t # s => t \in Good
      PROVE  s \in Good
  <2> DEFINE v == [t \in SUBSET S |-> SumOver(f, t)]
             G == [t \in SUBSET s |-> Step(f, v, t)]
  <2>1. ASSUME NEW r \in SUBSET s, r # s
        PROVE  v[r] = Step(f, v, r)
    <3>1. PICK h : IsSum(f, r, h) /\ v[r] = h[r]
      BY <1>1, <2>1 DEF SumOver
    <3>2. h[r] = Step(f, h, r)
      BY <3>1 DEF IsSum
    <3>3. CASE r = {}
      BY <3>1, <3>2, <3>3 DEF Step
    <3>4. CASE r # {}
      <4> DEFINE q == r \ {First(r)}
      <4>1. q \in SUBSET r /\ q # s /\ q \in SUBSET s
        BY <2>1
      <4>2. PICK k : IsSum(f, q, k) /\ v[q] = k[q]
        BY <1>1, <4>1 DEF SumOver
      <4>3. IsSum(f, q, Restrict(h, SUBSET q))
        <5> HIDE DEF q
        <5> QED
          BY <3>1, <4>1, SumRestricts
      <4>4. IsFiniteSet(q)
        <5>1. q \in SUBSET S
          BY <4>1
        <5> HIDE DEF q
        <5> QED
          BY <5>1, FS_Subset
      <4>5. k = Restrict(h, SUBSET q)
        BY <4>2, <4>3, <4>4, SumIsUnique
      <4>6. k[q] = h[q]
        BY <4>5 DEF Restrict
      <4> QED
        BY <3>1, <3>2, <3>4, <4>2, <4>6 DEF Step
    <3> QED
      BY <3>3, <3>4
  <2>2. ASSUME NEW t \in SUBSET s
        PROVE  G[t] = Step(f, G, t)
    <3>1. CASE t = {}
      BY <3>1 DEF Step
    <3>2. CASE t # {}
      <4> DEFINE q == t \ {First(t)}
      <4>1. q \in SUBSET s /\ q # s
        BY <3>2, FirstIsMember
      <4>2. G[q] = v[q]
        BY <2>1, <4>1
      <4> QED
        BY <3>2, <4>2 DEF Step
    <3> QED
      BY <3>1, <3>2
  <2>3. G = [t \in SUBSET s |-> G[t]]
    OBVIOUS
  <2> HIDE DEF G
  <2>4. IsSum(f, s, G)
    BY <2>2, <2>3 DEF IsSum
  <2> QED
    BY <2>4
<1>2. SUBSET S \subseteq Good
  <2> HIDE DEF Good
  <2> QED
    BY <1>1, SubsetInduction
<1> QED
  BY <1>2

(* So the sum of a function over a finite domain follows the recursion.  *)
LEMMA SumUnfolds ==
    ASSUME NEW S, IsFiniteSet(S), NEW f \in [S -> Int]
    PROVE  \E g : IsSum(f, S, g) /\ SumFunction(f) = g[S]
<1>1. SumFunction(f) = SumOver(f, DOMAIN f)
  BY Zenon DEF SumFunction, SumFunctionOnSet, FoldFunctionOnSet, MapThenFoldSet, SumOver,
     IsSum, Step, First
<1>2. DOMAIN f = S
  OBVIOUS
<1> QED
  BY <1>1, <1>2, SumExists DEF SumOver

(* A sum of numbers is a number. *)
LEMMA SumIsNat ==
    ASSUME NEW S, IsFiniteSet(S), NEW f \in [S -> Nat]
    PROVE  SumFunction(f) \in Nat
<1>1. PICK g : IsSum(f, S, g) /\ SumFunction(f) = g[S]
  BY SumUnfolds
<1> DEFINE Good == {s \in SUBSET S : g[s] \in Nat}
<1>2. ASSUME NEW s \in SUBSET S, \A t \in SUBSET s : t # s => t \in Good
      PROVE  s \in Good
  <2>1. g[s] = Step(f, g, s)
    BY <1>1 DEF IsSum
  <2>2. CASE s = {}
    BY <2>1, <2>2 DEF Step
  <2>3. CASE s # {}
    <3>1. First(s) \in S /\ s \ {First(s)} \in Good
      BY <1>2, <2>3, FirstIsMember
    <3> QED
      BY <2>1, <2>3, <3>1 DEF Step
  <2> QED
    BY <2>2, <2>3
<1>3. SUBSET S \subseteq Good
  <2> HIDE DEF Good
  <2> QED
    BY <1>2, SubsetInduction
<1> QED
  BY <1>1, <1>3

(* A sum of zeros is zero. *)
LEMMA SumOfZeros ==
    ASSUME NEW S, IsFiniteSet(S)
    PROVE  SumFunction([n \in S |-> 0]) = 0
<1> DEFINE f == [n \in S |-> 0]
<1>1. PICK g : IsSum(f, S, g) /\ SumFunction(f) = g[S]
  BY SumUnfolds
<1> DEFINE Good == {s \in SUBSET S : g[s] = 0}
<1>2. ASSUME NEW s \in SUBSET S, \A t \in SUBSET s : t # s => t \in Good
      PROVE  s \in Good
  <2>1. g[s] = Step(f, g, s)
    BY <1>1 DEF IsSum
  <2>2. CASE s = {}
    BY <2>1, <2>2 DEF Step
  <2>3. CASE s # {}
    <3>1. First(s) \in S /\ s \ {First(s)} \in Good
      BY <1>2, <2>3, FirstIsMember
    <3> QED
      BY <2>1, <2>3, <3>1 DEF Step
  <2> QED
    BY <2>2, <2>3
<1>3. SUBSET S \subseteq Good
  <2> HIDE DEF Good
  <2> QED
    BY <1>2, SubsetInduction
<1> QED
  BY <1>1, <1>3

(* A sum follows the one term that changes: h is f with another value at n.  *)
LEMMA SumFollows ==
    ASSUME NEW S, IsFiniteSet(S), NEW f \in [S -> Nat], NEW h \in [S -> Nat], NEW n \in S,
           \A m \in S : m # n => h[m] = f[m]
    PROVE  SumFunction(h) = SumFunction(f) + h[n] - f[n]
<1>0. f \in [S -> Int] /\ h \in [S -> Int]
  OBVIOUS
<1>1. PICK a : IsSum(f, S, a) /\ SumFunction(f) = a[S]
  BY <1>0, SumUnfolds
<1>2. PICK b : IsSum(h, S, b) /\ SumFunction(h) = b[S]
  BY <1>0, SumUnfolds
<1> DEFINE Good == {s \in SUBSET S : /\ a[s] \in Int
                                     /\ b[s] = IF n \in s THEN a[s] + h[n] - f[n] ELSE a[s]}
<1>3. ASSUME NEW s \in SUBSET S, \A t \in SUBSET s : t # s => t \in Good
      PROVE  s \in Good
  <2>1. a[s] = Step(f, a, s) /\ b[s] = Step(h, b, s)
    BY <1>1, <1>2 DEF IsSum
  <2>2. CASE s = {}
    BY <2>1, <2>2 DEF Step
  <2>3. CASE s # {}
    <3> DEFINE x == First(s)
    <3>1. x \in S /\ x \in s /\ s \ {x} \in Good
      BY <1>3, <2>3, FirstIsMember
    <3>2. a[s] = f[x] + a[s \ {x}] /\ b[s] = h[x] + b[s \ {x}]
      BY <2>1, <2>3 DEF Step
    <3> HIDE DEF x
    <3>3. CASE x = n
      BY <3>1, <3>2, <3>3
    <3>4. CASE x # n
      <4>1. h[x] = f[x] /\ (n \in s <=> n \in s \ {x})
        BY <3>1, <3>4
      <4> QED
        BY <3>1, <3>2, <4>1
    <3> QED
      BY <3>3, <3>4
  <2> QED
    BY <2>2, <2>3
<1>4. SUBSET S \subseteq Good
  <2> HIDE DEF Good
  <2> QED
    BY <1>3, SubsetInduction
<1> QED
  BY <1>1, <1>2, <1>4

-----------------------------------------------------------------------------
(* Types and control *)

\* where the tick is, by what it holds
Control ==
    /\ pc = "entries" <=> node # Absent
    /\ cur # Absent <=> pc = "evaluate"
    /\ pc = "idle" => totals = Nothing

Safe == TypeOK /\ Control

UInv == Safe /\ OverLimitIsCut

-----------------------------------------------------------------------------
(* A new row is a row, and so is what a user's load returns. *)
LEMMA LoadedType ==
    ASSUME TypeOK, NEW u \in User, NEW limit \in Nat
    PROVE  NewRow(limit) \in Row /\ Loaded(u, limit) \in Row
BY DEF TypeOK, Loaded, NewRow, Row

(* A mark that was never set counts as 0. *)
LEMMA MarkType ==
    ASSUME TypeOK, NEW n \in Node, NEW u \in User
    PROVE  MarkOf(n, u) \in Nat
BY DEF TypeOK, MarkOf

(* However a report compares to its mark, the delta is a number of bytes. *)
LEMMA DeltaType ==
    ASSUME TypeOK, NEW n \in Node, NEW u \in DOMAIN report
    PROVE  Delta(n, u) \in Nat
<1>1. report[u] \in Nat /\ MarkOf(n, u) \in Nat
  BY MarkType DEF TypeOK
<1> QED
  BY <1>1 DEF Delta

(* The evaluation leaves a row that is cut if it has reached its limit. *)
LEMMA EvaluatedCuts ==
    ASSUME TypeOK, cur \in User
    PROVE  Evaluated \in Row /\ (OverLimit(Evaluated) => Evaluated.basic = "blocked")
<1> DEFINE row == Loaded(cur, DefaultLimit)
<1>1. row \in Row
  BY LoadedType, UsageAssumption
<1>2. Evaluated = IF Cut(row) THEN [row EXCEPT !.basic = "blocked"] ELSE row
  BY DEF Evaluated
<1> HIDE DEF row
<1>3. CASE Cut(row)
  BY <1>1, <1>2, <1>3 DEF Row
<1>4. CASE ~Cut(row)
  BY <1>1, <1>2, <1>4 DEF Row, Cut
<1> QED
  BY <1>3, <1>4

-----------------------------------------------------------------------------
(* The types are inductive with the control facts. *)
LEMMA SafeInductive ==
    /\ Init => Safe
    /\ Safe /\ [Next]_vars => Safe'
<1> USE UsageAssumption
<1>1. Init => Safe
  BY DEF Init, Safe, TypeOK, Control, Nothing
<1>2. ASSUME Safe, [Next]_vars
      PROVE  Safe'
  <2> USE <1>2 DEF Safe, Control
  <2>1. CASE StartTick
    BY <2>1 DEF StartTick, TypeOK, Nothing, ghosts
  <2>2. ASSUME NEW n \in Node, FetchNode(n)
        PROVE  Safe'
    BY <2>2 DEF FetchNode, Report, TypeOK, ghosts
  <2>3. ASSUME NEW n \in Node, FetchFails(n)
        PROVE  Safe'
    BY <2>3 DEF FetchFails, Fault, TypeOK, ghosts
  <2>4. ASSUME NEW u \in User, Checkpoint(u)
        PROVE  Safe'
    <3>1. node \in Node /\ report[u] \in Nat /\ Delta(node, u) \in Nat
      BY <2>4, DeltaType DEF Checkpoint, TypeOK
    <3>2. mark' \in [Node -> [User -> Nat \cup {Absent}]] /\ totals' \in [User -> Nat]
      BY <2>4, <3>1 DEF Checkpoint, TypeOK
    <3>3. DOMAIN report' \subseteq User /\ \A v \in DOMAIN report' : report'[v] \in Nat
      BY <2>4 DEF Checkpoint, Rest, TypeOK
    <3>4. lossy' \in SUBSET User /\ early' \in [User -> Nat]
      BY <2>4, <3>1 DEF Checkpoint, FirstSeen, TypeOK
    <3> QED
      BY <2>4, <3>2, <3>3, <3>4 DEF Checkpoint, TypeOK
  <2>5. ASSUME NEW u \in User, CheckpointFails(u)
        PROVE  Safe'
    BY <2>5 DEF CheckpointFails, Fault, Rest, TypeOK, ghosts
  <2>6. CASE NodeRead
    BY <2>6 DEF NodeRead, TypeOK, ghosts
  <2>7. CASE AllRead
    BY <2>7 DEF AllRead, TypeOK, ghosts
  <2>8. ASSUME NEW u \in User, Credit(u)
        PROVE  Safe'
    <3>1. rows' \in [User -> Row \cup {Absent}]
      <4> DEFINE row == [rows[u] EXCEPT !.used = @ + totals[u]]
      <4>1. rows \in [User -> Row \cup {Absent}] /\ totals[u] \in Nat
        BY DEF TypeOK
      <4>2. ASSUME rows[u] # Absent
            PROVE  row \in Row
        <5>1. rows[u] \in Row
          BY <4>1, <4>2
        <5> QED
          BY <4>1, <5>1 DEF Row
      <4>3. \/ rows' = rows
            \/ rows[u] # Absent /\ rows' = [rows EXCEPT ![u] = row]
        BY <2>8 DEF Credit
      <4> HIDE DEF row
      <4> QED
        BY <4>1, <4>2, <4>3
    <3>2. totals' \in [User -> Nat] /\ lossy' \in SUBSET User
      BY <2>8 DEF Credit, TypeOK
    <3>3. pc' = "evaluate" /\ cur' = u /\ node' = node /\ node = Absent
      BY <2>8 DEF Credit
    <3>4. UNCHANGED <<window, mark, todo, report, real, forgiven, early, late, faults>>
      BY <2>8 DEF Credit
    <3>5. u # Absent
      OBVIOUS
    <3> QED
      BY <3>1, <3>2, <3>3, <3>4, <3>5 DEF TypeOK
  <2>9. ASSUME NEW u \in User, CreditFails(u)
        PROVE  Safe'
    BY <2>9 DEF CreditFails, Fault, TypeOK
  <2>10. CASE Evaluate
    <3>1. Evaluated \in Row
      BY <2>10, EvaluatedCuts DEF Evaluate, TypeOK
    <3> QED
      BY <2>10, <3>1 DEF Evaluate, TypeOK
  <2>11. CASE EvaluateFails
    BY <2>11 DEF EvaluateFails, Fault, TypeOK
  <2>12. CASE EndTick
    BY <2>12 DEF EndTick, TypeOK, ghosts
  <2>13. ASSUME NEW u \in User, Reset(u)
         PROVE  Safe'
    <3>1. Loaded(u, DefaultLimit) \in Row
      BY LoadedType
    <3> DEFINE old == Loaded(u, DefaultLimit)
               new == [old EXCEPT !.used = 0, !.basic = "active"]
    <3>2. new \in Row /\ old.used \in Nat
      BY <3>1 DEF Row
    <3>3. rows' = [rows EXCEPT ![u] = new] /\ forgiven' = [forgiven EXCEPT ![u] = @ + old.used]
      BY <2>13 DEF Reset
    <3> HIDE DEF new, old
    <3>4. rows' \in [User -> Row \cup {Absent}] /\ forgiven' \in [User -> Nat]
      BY <3>2, <3>3 DEF TypeOK
    <3>5. /\ late' \in SUBSET User
          /\ UNCHANGED <<window, mark, pc, todo, node, report, totals, cur, real, early, lossy,
                         faults>>
      BY <2>13 DEF Reset, TypeOK, tick
    <3> QED
      BY <3>4, <3>5 DEF TypeOK
  <2>14. ASSUME NEW u \in User, NEW limit \in {0, DefaultLimit}, Contact(u, limit)
         PROVE  Safe'
    <3>1. NewRow(limit) \in Row
      BY LoadedType
    <3> QED
      BY <2>14, <3>1 DEF Contact, TypeOK, tick, ghosts
  <2>15. CASE Crash
    BY <2>15 DEF Crash, Fault, Nothing, TypeOK
  <2>16. ASSUME NEW n \in Node, NEW u \in User, Traffic(n, u)
         PROVE  Safe'
    BY <2>16 DEF Traffic, TypeOK, tick
  <2>17. ASSUME NEW n \in Node, NEW u \in User, Slide(n, u)
         PROVE  Safe'
    BY <2>17 DEF Slide, TypeOK, tick, ghosts
  <2>18. CASE UNCHANGED vars
    BY <2>18 DEF vars, tick, ghosts, TypeOK
  <2> QED
    BY <2>1, <2>2, <2>3, <2>4, <2>5, <2>6, <2>7, <2>8, <2>9, <2>10, <2>11, <2>12, <2>13,
       <2>14, <2>15, <2>16, <2>17, <2>18 DEF Next, Tick, Others
<1> QED
  BY <1>1, <1>2

(* Every variable keeps its type; in particular the bytes collected for a user   *)
(* are never negative, however his reports shrink.                               *)
THEOREM UsageTypes == Spec => []TypeOK
<1>1. Safe => TypeOK
  BY DEF Safe
<1> QED
  BY SafeInductive, <1>1, PTL DEF Spec

-----------------------------------------------------------------------------
\* a user who is cut, not yet or no longer to be evaluated, or below his limit
Enforced(u) ==
    u \notin late /\ rows[u] # Absent /\ OverLimit(rows[u]) =>
        rows[u].basic = "blocked" \/ cur = u

(* A step that leaves a row alone and does not end an evaluation, or ends it in  *)
(* a failure, keeps the user's limit enforced.                                   *)
LEMMA FrameKeeps ==
    ASSUME NEW u \in User, Enforced(u), rows'[u] = rows[u],
           cur = u => cur' = u \/ u \in late', u \in late => u \in late'
    PROVE  Enforced(u)'
BY DEF Enforced, OverLimit

(* A row with nothing on its counter has not reached a limit. *)
LEMMA FreshIsBelow ==
    ASSUME NEW row \in Row, row.used = 0
    PROVE  ~OverLimit(row)
BY DEF Row, OverLimit

(* The basic limit is enforced: whoever has reached it is cut, or is just being  *)
(* evaluated, unless that evaluation failed.                                     *)
LEMMA EnforcedInductive ==
    ASSUME Safe, Safe', [Next]_vars, NEW w \in User, Enforced(w)
    PROVE  Enforced(w)'
<1> USE UsageAssumption DEF Safe, Control
<1>1. ASSUME NEW u \in User, Credit(u)
      PROVE  Enforced(w)'
  <2>1. cur = Absent /\ cur' = u /\ late' = late
    BY <1>1 DEF Credit
  <2>2. CASE w = u
    BY <2>1, <2>2 DEF Enforced
  <2>3. CASE w # u
    <3>1. rows'[w] = rows[w]
      BY <1>1, <2>3 DEF Credit, TypeOK
    <3> QED
      BY <2>1, <3>1, FrameKeeps
  <2> QED
    BY <2>2, <2>3
<1>2. CASE Evaluate
  <2>1. cur \in User /\ cur' = Absent /\ late' = late \ {cur}
    BY <1>2 DEF Evaluate, TypeOK
  <2>2. CASE w = cur
    <3>1. rows'[w] = Evaluated
      BY <1>2, <2>2 DEF Evaluate, TypeOK
    <3> QED
      BY <2>1, <2>2, <3>1, EvaluatedCuts DEF Enforced, OverLimit
  <2>3. CASE w # cur
    <3>1. rows'[w] = rows[w]
      BY <1>2, <2>3 DEF Evaluate, TypeOK
    <3> QED
      BY <2>1, <2>3, <3>1, FrameKeeps
  <2> QED
    BY <2>2, <2>3
<1>3. ASSUME NEW u \in User, Reset(u)
      PROVE  Enforced(w)'
  <2>1. cur' = cur /\ late' = late \ {u}
    BY <1>3 DEF Reset, tick
  <2>2. CASE w = u
    <3>1. Loaded(u, DefaultLimit) \in Row
      BY LoadedType
    <3>2. rows'[w] \in Row /\ rows'[w].used = 0
      BY <1>3, <2>2, <3>1 DEF Reset, TypeOK, Row
    <3> QED
      BY <3>2, FreshIsBelow DEF Enforced, OverLimit
  <2>3. CASE w # u
    <3>1. rows'[w] = rows[w]
      BY <1>3, <2>3 DEF Reset, TypeOK
    <3> QED
      BY <2>1, <2>3, <3>1, FrameKeeps
  <2> QED
    BY <2>2, <2>3
<1>4. ASSUME NEW u \in User, NEW limit \in {0, DefaultLimit}, Contact(u, limit)
      PROVE  Enforced(w)'
  <2>1. cur' = cur /\ late' = late
    BY <1>4 DEF Contact, tick, ghosts
  <2>2. CASE w = u
    <3>1. rows'[w] = NewRow(limit) /\ NewRow(limit) \in Row /\ NewRow(limit).used = 0
      BY <1>4, <2>2, LoadedType DEF Contact, TypeOK, NewRow
    <3> QED
      BY <3>1, FreshIsBelow DEF Enforced, OverLimit
  <2>3. CASE w # u
    <3>1. rows'[w] = rows[w]
      BY <1>4, <2>3 DEF Contact, TypeOK
    <3> QED
      BY <2>1, <3>1, FrameKeeps
  <2> QED
    BY <2>2, <2>3
<1>5. CASE EvaluateFails
  BY <1>5, FrameKeeps DEF EvaluateFails, TypeOK
<1>6. CASE Crash
  BY <1>6, FrameKeeps DEF Crash, TypeOK
<1>7. ASSUME rows' = rows, cur' = cur, late' = late
      PROVE  Enforced(w)'
  BY <1>7, FrameKeeps
<1>8. ASSUME \/ StartTick \/ NodeRead \/ AllRead \/ EndTick \/ UNCHANGED vars
             \/ \E n \in Node : FetchNode(n) \/ FetchFails(n)
             \/ \E u \in User : Checkpoint(u) \/ CheckpointFails(u) \/ CreditFails(u)
             \/ \E u \in User, n \in Node : Traffic(n, u) \/ Slide(n, u)
      PROVE  Enforced(w)'
  BY <1>7, <1>8 DEF StartTick, NodeRead, AllRead, EndTick, vars, FetchNode, FetchFails,
     Checkpoint, CheckpointFails, CreditFails, Traffic, Slide, tick, ghosts
<1> QED
  BY <1>1, <1>2, <1>3, <1>4, <1>5, <1>6, <1>8 DEF Next, Tick, Others

(* BlockBasicIfOverLimit after every credit enforces the basic limit, whatever   *)
(* resets, first contacts and crashes come in between.                           *)
THEOREM LimitIsEnforced == Spec => []OverLimitIsCut
<1>1. OverLimitIsCut <=> \A u \in User : Enforced(u)
  BY DEF OverLimitIsCut, Enforced
<1>2. Init => UInv
  <2>1. ASSUME Init
        PROVE  OverLimitIsCut
    BY <2>1 DEF Init, OverLimitIsCut
  <2> QED
    BY <2>1, SafeInductive DEF UInv
<1>3. UInv /\ [Next]_vars => UInv'
  <2> SUFFICES ASSUME UInv, [Next]_vars
               PROVE  UInv'
    OBVIOUS
  <2>1. Safe /\ Safe'
    BY SafeInductive DEF UInv
  <2>2. \A u \in User : Enforced(u)'
    BY <1>1, <2>1, EnforcedInductive DEF UInv
  <2>3. OverLimitIsCut'
    BY <2>2 DEF OverLimitIsCut, Enforced
  <2> QED
    BY <2>1, <2>3 DEF UInv
<1>4. UInv => OverLimitIsCut
  BY DEF UInv
<1> QED
  BY <1>2, <1>3, <1>4, PTL DEF Spec

-----------------------------------------------------------------------------
\* what the counter shows, a reset took off it, or the tick still has to credit
Charged(u) == Used(u) + forgiven[u] + totals[u]

\* by how much a report exceeds the last one
Excess(new, old) == IF new > old THEN new - old ELSE 0

\* what node n may still add to it for bytes already sent: a report that is being
\* read first, and then what the window has grown by since
Pending(n, u) ==
    IF node = n /\ u \in DOMAIN report
    THEN Excess(report[u], MarkOf(n, u)) + Excess(window[n][u], report[u])
    ELSE Excess(window[n][u], MarkOf(n, u))

Uncharged(u) == SumFunction([n \in Node |-> Pending(n, u)])

\* every byte charged or to be charged is one the user has sent
Accounted(u) == Charged(u) + Uncharged(u) <= real[u]

\* every byte the marks have seen is charged, unless some are known to be lost
Balanced(u) == u \in lossy \/ Charged(u) = Marked(u)

\* whoever is cut has sent as many bytes as his limit that no reset has forgiven
Deserved(u) ==
    rows[u] # Absent /\ rows[u].basic = "blocked" =>
        0 < rows[u].limit /\ rows[u].limit + forgiven[u] <= real[u]

(* All these are numbers of bytes. *)
LEMMA BytesType ==
    ASSUME TypeOK, NEW u \in User
    PROVE  /\ Used(u) \in Nat /\ Charged(u) \in Nat
           /\ \A n \in Node : Pending(n, u) \in Nat
           /\ Uncharged(u) \in Nat /\ Marked(u) \in Nat
<1> USE UsageAssumption
<1>1. Used(u) \in Nat
  BY DEF TypeOK, Used, Row
<1>2. Charged(u) \in Nat
  BY <1>1 DEF TypeOK, Charged
<1>3. ASSUME NEW n \in Node
      PROVE  Pending(n, u) \in Nat
  <2>1. window[n][u] \in Nat /\ MarkOf(n, u) \in Nat
    BY MarkType DEF TypeOK
  <2>2. CASE node = n /\ u \in DOMAIN report
    <3>1. report[u] \in Nat
      BY <2>2 DEF TypeOK
    <3> QED
      BY <2>1, <2>2, <3>1 DEF Pending, Excess
  <2>3. CASE ~ (node = n /\ u \in DOMAIN report)
    BY <2>1, <2>3 DEF Pending, Excess
  <2> QED
    BY <2>2, <2>3
<1>4. [n \in Node |-> Pending(n, u)] \in [Node -> Nat]
  BY <1>3
<1>5. [n \in Node |-> MarkOf(n, u)] \in [Node -> Nat]
  BY MarkType
<1>6. Uncharged(u) \in Nat
  BY <1>4, SumIsNat DEF Uncharged
<1>7. Marked(u) \in Nat
  BY <1>5, SumIsNat DEF Marked
<1> QED
  BY <1>1, <1>2, <1>3, <1>6, <1>7

(* Neither does a step leave anything else there. *)
LEMMA PendingStaysNat ==
    ASSUME TypeOK', NEW u \in User, NEW n \in Node
    PROVE  Pending(n, u)' \in Nat
<1>1. window'[n][u] \in Nat /\ MarkOf(n, u)' \in Nat
  BY UsageAssumption DEF TypeOK, MarkOf
<1>2. u \in DOMAIN report' => report'[u] \in Nat
  BY DEF TypeOK
<1> QED
  BY <1>1, <1>2 DEF Pending, Excess

(* A step that touches one node moves what is uncharged by that node's part. *)
LEMMA UnchargedFollows ==
    ASSUME TypeOK, TypeOK', NEW u \in User, NEW n \in Node,
           \A m \in Node : m # n => Pending(m, u)' = Pending(m, u)
    PROVE  Uncharged(u)' = Uncharged(u) + Pending(n, u)' - Pending(n, u)
<1> DEFINE f == [m \in Node |-> Pending(m, u)]
           h == [m \in Node |-> Pending(m, u)']
<1>1. f \in [Node -> Nat]
  BY BytesType
<1>2. h \in [Node -> Nat]
  BY PendingStaysNat
<1>3. \A m \in Node : m # n => h[m] = f[m]
  OBVIOUS
<1>4. f[n] = Pending(n, u) /\ h[n] = Pending(n, u)'
  OBVIOUS
<1>5. Uncharged(u) = SumFunction(f) /\ Uncharged(u)' = SumFunction(h)
  BY DEF Uncharged
<1> HIDE DEF f, h
<1>6. IsFiniteSet(Node)
  BY UsageAssumption
<1>7. SumFunction(h) = SumFunction(f) + h[n] - f[n]
  BY <1>1, <1>2, <1>3, <1>6, SumFollows
<1> QED
  BY <1>4, <1>5, <1>7

(* An evaluation leaves the counter of the user as it was. *)
LEMMA EvaluationKeepsUsed ==
    ASSUME TypeOK, cur \in User
    PROVE  Evaluated \in Row /\ Evaluated.used = Used(cur)
<1> DEFINE row == Loaded(cur, DefaultLimit)
<1>1. row \in Row
  BY LoadedType, UsageAssumption
<1>2. row.used = Used(cur)
  BY DEF Loaded, NewRow, Used
<1>3. Evaluated = IF Cut(row) THEN [row EXCEPT !.basic = "blocked"] ELSE row
  BY DEF Evaluated
<1> HIDE DEF row
<1> QED
  BY <1>1, <1>2, <1>3 DEF Row

(* A reset moves what the counter shows to what is forgiven. *)
LEMMA ResetForgives ==
    ASSUME TypeOK, NEW u \in User, Reset(u)
    PROVE  Used(u)' = 0 /\ forgiven'[u] = forgiven[u] + Used(u)
<1> DEFINE old == Loaded(u, DefaultLimit)
           new == [old EXCEPT !.used = 0, !.basic = "active"]
<1>1. old \in Row
  BY LoadedType, UsageAssumption
<1>2. new.used = 0
  BY <1>1 DEF Row
<1>3. old.used = Used(u)
  BY DEF Loaded, NewRow, Used
<1>4. rows' = [rows EXCEPT ![u] = new] /\ forgiven' = [forgiven EXCEPT ![u] = @ + old.used]
  BY DEF Reset
<1> HIDE DEF old, new
<1>5. rows'[u] = new /\ forgiven'[u] = forgiven[u] + old.used
  BY <1>4 DEF TypeOK
<1> QED
  BY <1>2, <1>3, <1>5 DEF Used

(* What is uncharged does not move when no node is touched. *)
LEMMA UnchargedFrame ==
    ASSUME NEW u \in User, window' = window, mark' = mark, node' = node, report' = report
    PROVE  Uncharged(u)' = Uncharged(u)
<1>1. ASSUME NEW m \in Node
      PROVE  Pending(m, u)' = Pending(m, u)
  BY DEF Pending, MarkOf
<1>2. [m \in Node |-> Pending(m, u)'] = [m \in Node |-> Pending(m, u)]
  BY <1>1
<1> QED
  BY <1>2 DEF Uncharged

(* Nor is anything charged by a step that leaves the counter and the tick alone. *)
LEMMA ChargedFrame ==
    ASSUME NEW u \in User, rows'[u] = rows[u], forgiven'[u] = forgiven[u],
           totals'[u] = totals[u]
    PROVE  Charged(u)' = Charged(u)
BY DEF Charged, Used

LEMMA ChargedStaysNat ==
    ASSUME TypeOK', NEW u \in User
    PROVE  Charged(u)' \in Nat /\ real'[u] \in Nat
<1>1. Used(u)' \in Nat
  BY DEF TypeOK, Used, Row
<1> QED
  BY <1>1 DEF TypeOK, Charged

(* No step charges more than the user sends in it, whatever is uncharged counted *)
(* in: a delta comes out of what its node had pending.                           *)
LEMMA AccountedInductive ==
    ASSUME Safe, Safe', [Next]_vars, NEW w \in User, Accounted(w)
    PROVE  Accounted(w)'
<1> USE UsageAssumption DEF Safe
<1>1. ASSUME NEW n \in Node, \A m \in Node : m # n => Pending(m, w)' = Pending(m, w),
             Charged(w)' + Pending(n, w)' + real[w] <= Charged(w) + Pending(n, w) + real'[w]
      PROVE  Accounted(w)'
  <2>1. Uncharged(w)' = Uncharged(w) + Pending(n, w)' - Pending(n, w)
    BY <1>1, UnchargedFollows
  <2>2. Charged(w) \in Nat /\ Uncharged(w) \in Nat /\ Pending(n, w) \in Nat /\ real[w] \in Nat
    BY BytesType DEF TypeOK
  <2>3. Charged(w)' \in Nat /\ Pending(n, w)' \in Nat /\ real'[w] \in Nat
    BY ChargedStaysNat, PendingStaysNat
  <2> QED
    BY <1>1, <2>1, <2>2, <2>3 DEF Accounted
<1>2. ASSUME window' = window, mark' = mark, node' = node, report' = report,
             real' = real, Charged(w)' <= Charged(w)
      PROVE  Accounted(w)'
  <2>1. Uncharged(w)' = Uncharged(w)
    BY <1>2, UnchargedFrame
  <2>2. Charged(w) \in Nat /\ Uncharged(w) \in Nat /\ real[w] \in Nat /\ Charged(w)' \in Nat
    BY BytesType, ChargedStaysNat DEF TypeOK
  <2> QED
    BY <1>2, <2>1, <2>2 DEF Accounted
<1>3. ASSUME NEW n \in Node
      PROVE  /\ window[n][w] \in Nat /\ window'[n][w] \in Nat
             /\ MarkOf(n, w) \in Nat /\ MarkOf(n, w)' \in Nat
             /\ Charged(w) \in Nat /\ real[w] \in Nat
             /\ w \in DOMAIN report => report[w] \in Nat
  BY BytesType, MarkType DEF TypeOK, MarkOf
<1>4. CASE StartTick
  <2>1. totals = Nothing
    BY <1>4 DEF StartTick, Control
  <2>2. Charged(w)' = Charged(w)
    BY <1>4, <2>1, ChargedFrame DEF StartTick, ghosts
  <2> QED
    BY <1>2, <1>4, <2>2, BytesType DEF StartTick, ghosts
<1>5. ASSUME NEW n \in Node, FetchNode(n)
      PROVE  Accounted(w)'
  <2>1. node = Absent /\ node' = n /\ mark' = mark /\ window' = window /\ real' = real
    BY <1>5 DEF FetchNode, Control, ghosts
  <2>2. ASSUME NEW m \in Node, m # n
        PROVE  Pending(m, w)' = Pending(m, w)
    BY <2>1, <2>2 DEF Pending, MarkOf
  <2>3. w \in DOMAIN report' => report'[w] = window[n][w]
    BY <1>5 DEF FetchNode, Report
  <2>4. Pending(n, w) = Excess(window[n][w], MarkOf(n, w)) /\ MarkOf(n, w)' = MarkOf(n, w)
    BY <2>1 DEF Pending, MarkOf
  <2>5. Pending(n, w)' = Pending(n, w)
    <3>1. CASE w \in DOMAIN report'
      <4>1. Pending(n, w)' = Excess(window[n][w], MarkOf(n, w)) + Excess(window[n][w], window[n][w])
        BY <2>1, <2>3, <2>4, <3>1 DEF Pending
      <4> QED
        BY <1>3, <2>4, <4>1 DEF Excess
    <3>2. CASE w \notin DOMAIN report'
      BY <2>1, <2>4, <3>2 DEF Pending
    <3> QED
      BY <3>1, <3>2
  <2>6. Charged(w)' = Charged(w)
    BY <1>5, ChargedFrame DEF FetchNode, ghosts
  <2> QED
    BY <1>1, <1>3, <2>1, <2>2, <2>5, <2>6, PendingStaysNat
<1>6. ASSUME NEW u \in User, Checkpoint(u)
      PROVE  Accounted(w)'
  <2>1. node \in Node /\ node' = node /\ window' = window /\ real' = real
    BY <1>6 DEF Checkpoint, Control, TypeOK
  <2>2. ASSUME NEW m \in Node, m # node
        PROVE  Pending(m, w)' = Pending(m, w)
    <3>1. MarkOf(m, w)' = MarkOf(m, w)
      BY <1>6, <2>1, <2>2 DEF Checkpoint, MarkOf, TypeOK
    <3> QED
      BY <2>1, <2>2, <3>1 DEF Pending
  <2>3. CASE w = u
    <3>1. w \in DOMAIN report /\ w \notin DOMAIN report'
      BY <1>6, <2>3 DEF Checkpoint, Rest
    <3>2. MarkOf(node, w)' = report[w]
      BY <1>6, <2>1, <2>3, <3>1 DEF Checkpoint, MarkOf, TypeOK
    <3>3. Pending(node, w)' = Excess(window[node][w], report[w])
      BY <2>1, <3>1, <3>2 DEF Pending
    <3>4. Pending(node, w) =
            Excess(report[w], MarkOf(node, w)) + Excess(window[node][w], report[w])
      BY <3>1 DEF Pending
    <3>5. Charged(w)' = Charged(w) + Excess(report[w], MarkOf(node, w))
      <4>1. Delta(node, w) = Excess(report[w], MarkOf(node, w))
        BY DEF Delta, Excess
      <4>2. totals'[w] = totals[w] + Delta(node, w) /\ Used(w)' = Used(w) /\ forgiven' = forgiven
        BY <1>6, <2>3 DEF Checkpoint, Used, TypeOK
      <4>3. Used(w) \in Nat /\ totals[w] \in Nat /\ forgiven[w] \in Nat /\ Delta(node, w) \in Nat
        BY <2>1, <3>1, BytesType, DeltaType DEF TypeOK
      <4> QED
        BY <4>1, <4>2, <4>3 DEF Charged
    <3>6. /\ Excess(report[w], MarkOf(node, w)) \in Nat
          /\ Excess(window[node][w], report[w]) \in Nat
      BY <1>3, <2>1, <3>1 DEF Excess
    <3>7. Charged(w) \in Nat /\ real[w] \in Nat
      BY <1>3, <2>1
    <3> QED
      BY <1>1, <2>1, <2>2, <3>3, <3>4, <3>5, <3>6, <3>7
  <2>4. CASE w # u
    <3>1. MarkOf(node, w)' = MarkOf(node, w)
      BY <1>6, <2>1, <2>4 DEF Checkpoint, MarkOf, TypeOK
    <3>2. /\ w \in DOMAIN report' <=> w \in DOMAIN report
          /\ w \in DOMAIN report => report'[w] = report[w]
      BY <1>6, <2>4 DEF Checkpoint, Rest
    <3>3. Pending(node, w)' = Pending(node, w)
      BY <2>1, <3>1, <3>2 DEF Pending
    <3>4. Charged(w)' = Charged(w)
      <4>1. totals'[w] = totals[w] /\ rows' = rows /\ forgiven' = forgiven
        BY <1>6, <2>4 DEF Checkpoint, TypeOK
      <4> QED
        BY <4>1, ChargedFrame
    <3>5. Pending(node, w) \in Nat
      BY <2>1, BytesType
    <3> QED
      BY <1>1, <1>3, <2>1, <2>2, <3>3, <3>4, <3>5
  <2> QED
    BY <2>3, <2>4
<1>7. ASSUME NEW u \in User, CheckpointFails(u)
      PROVE  Accounted(w)'
  <2>1. /\ node \in Node /\ node' = node /\ window' = window /\ real' = real /\ mark' = mark
        /\ rows' = rows /\ forgiven' = forgiven /\ totals' = totals
    BY <1>7 DEF CheckpointFails, Control, TypeOK, ghosts
  <2>2. ASSUME NEW m \in Node, m # node
        PROVE  Pending(m, w)' = Pending(m, w)
    BY <2>1, <2>2 DEF Pending, MarkOf
  <2>3. Charged(w)' = Charged(w) /\ MarkOf(node, w)' = MarkOf(node, w)
    BY <2>1, ChargedFrame DEF MarkOf
  <2>4. Pending(node, w)' <= Pending(node, w)
    <3>1. CASE w = u
      <4>1. w \in DOMAIN report /\ w \notin DOMAIN report'
        BY <1>7, <3>1 DEF CheckpointFails, Rest
      <4>2. Pending(node, w)' = Excess(window[node][w], MarkOf(node, w))
        BY <2>1, <2>3, <4>1 DEF Pending
      <4>3. Pending(node, w) =
              Excess(report[w], MarkOf(node, w)) + Excess(window[node][w], report[w])
        BY <4>1 DEF Pending
      <4> QED
        BY <1>3, <2>1, <4>1, <4>2, <4>3 DEF Excess
    <3>2. CASE w # u
      <4>1. /\ w \in DOMAIN report' <=> w \in DOMAIN report
            /\ w \in DOMAIN report => report'[w] = report[w]
        BY <1>7, <3>2 DEF CheckpointFails, Rest
      <4>2. Pending(node, w)' = Pending(node, w)
        BY <2>1, <2>3, <4>1 DEF Pending
      <4> QED
        BY <2>1, <4>2, BytesType
    <3> QED
      BY <3>1, <3>2
  <2>5. Pending(node, w) \in Nat /\ Pending(node, w)' \in Nat
    BY <2>1, BytesType, PendingStaysNat
  <2> QED
    BY <1>1, <1>3, <2>1, <2>2, <2>3, <2>4, <2>5
<1>8. CASE NodeRead
  <2>1. /\ DOMAIN report = {} /\ report' = report /\ window' = window /\ real' = real
        /\ mark' = mark /\ rows' = rows /\ forgiven' = forgiven /\ totals' = totals
    BY <1>8 DEF NodeRead, ghosts
  <2>2. ASSUME NEW m \in Node
        PROVE  Pending(m, w)' = Pending(m, w)
    BY <2>1 DEF Pending, MarkOf
  <2>3. node \in Node /\ Pending(node, w) \in Nat /\ Charged(w)' = Charged(w)
    BY <1>8, <2>1, BytesType, ChargedFrame DEF NodeRead, Control, TypeOK
  <2> QED
    BY <1>1, <1>3, <2>1, <2>2, <2>3
<1>9. ASSUME NEW u \in User, Credit(u)
      PROVE  Accounted(w)'
  <2>1. /\ window' = window /\ mark' = mark /\ node' = node /\ report' = report
        /\ real' = real /\ forgiven' = forgiven
    BY <1>9 DEF Credit
  <2>2. Charged(w)' <= Charged(w)
    <3>1. CASE w = u
      <4>1. totals'[w] = 0 /\ Used(w)' <= Used(w) + totals[w]
        <5>1. totals'[w] = 0 /\ totals[w] \in Nat
          BY <1>9, <3>1 DEF Credit, TypeOK
        <5>2. CASE rows[w] = Absent
          BY <1>9, <3>1, <5>1, <5>2 DEF Credit, Used
        <5>3. CASE rows[w] # Absent
          <6>1. rows[w] \in Row /\ rows'[w] = [rows[w] EXCEPT !.used = @ + totals[w]]
            BY <1>9, <3>1, <5>3 DEF Credit, TypeOK
          <6>2. rows'[w].used = rows[w].used + totals[w] /\ rows[w].used \in Nat
            BY <6>1 DEF Row
          <6>3. Used(w)' \in Nat
            BY ChargedStaysNat, <1>9 DEF TypeOK, Used, Row
          <6>4. Used(w)' = 0 \/ Used(w)' = rows'[w].used
            BY DEF Used
          <6> QED
            BY <5>1, <5>3, <6>2, <6>4 DEF Used
        <5> QED
          BY <5>2, <5>3
      <4>2. forgiven[w] \in Nat /\ totals[w] \in Nat /\ Used(w) \in Nat /\ Used(w)' \in Nat
        BY BytesType DEF TypeOK, Used, Row
      <4> QED
        BY <2>1, <4>1, <4>2 DEF Charged
    <3>2. CASE w # u
      <4>1. totals'[w] = totals[w] /\ rows'[w] = rows[w]
        BY <1>9, <3>2 DEF Credit, TypeOK
      <4> QED
        BY <2>1, <4>1, ChargedFrame, BytesType
    <3> QED
      BY <3>1, <3>2
  <2> QED
    BY <1>2, <2>1, <2>2
<1>10. ASSUME NEW u \in User, CreditFails(u)
       PROVE  Accounted(w)'
  <2>1. Used(w)' = Used(w) /\ forgiven'[w] = forgiven[w] /\ totals'[w] <= totals[w]
    BY <1>10 DEF CreditFails, Used, TypeOK
  <2>2. Used(w) \in Nat /\ forgiven[w] \in Nat /\ totals[w] \in Nat /\ totals'[w] \in Nat
    BY BytesType DEF TypeOK
  <2>3. Charged(w)' <= Charged(w)
    BY <2>1, <2>2 DEF Charged
  <2> QED
    BY <1>2, <1>10, <2>3 DEF CreditFails
<1>11. CASE Evaluate
  <2>1. cur \in User /\ rows' = [rows EXCEPT ![cur] = Evaluated]
    BY <1>11 DEF Evaluate, Control, TypeOK
  <2>2. Used(w)' = Used(w)
    BY <2>1, EvaluationKeepsUsed DEF Used, TypeOK
  <2>3. Charged(w)' <= Charged(w)
    BY <1>11, <2>2, BytesType DEF Evaluate, Charged
  <2> QED
    BY <1>2, <1>11, <2>3 DEF Evaluate
<1>12. ASSUME NEW u \in User, Reset(u)
       PROVE  Accounted(w)'
  <2>1. /\ window' = window /\ mark' = mark /\ node' = node /\ report' = report
        /\ real' = real /\ totals' = totals
    BY <1>12 DEF Reset, tick
  <2>2. Charged(w)' = Charged(w)
    <3>1. CASE w = u
      <4>1. Used(w)' = 0 /\ forgiven'[w] = forgiven[w] + Used(w)
        BY <1>12, <3>1, ResetForgives
      <4>2. Used(w) \in Nat /\ forgiven[w] \in Nat /\ totals[w] \in Nat
        BY BytesType DEF TypeOK
      <4> QED
        BY <2>1, <4>1, <4>2 DEF Charged
    <3>2. CASE w # u
      <4>1. rows'[w] = rows[w] /\ forgiven'[w] = forgiven[w]
        BY <1>12, <3>2 DEF Reset, TypeOK
      <4> QED
        BY <2>1, <4>1, ChargedFrame
    <3> QED
      BY <3>1, <3>2
  <2> QED
    BY <1>2, <2>1, <2>2, BytesType
<1>13. ASSUME NEW u \in User, NEW limit \in {0, DefaultLimit}, Contact(u, limit)
       PROVE  Accounted(w)'
  <2>1. /\ window' = window /\ mark' = mark /\ node' = node /\ report' = report
        /\ real' = real /\ totals' = totals /\ forgiven' = forgiven
    BY <1>13 DEF Contact, tick, ghosts
  <2>2. Used(w)' = Used(w)
    BY <1>13 DEF Contact, NewRow, Used, TypeOK
  <2>3. Charged(w)' = Charged(w)
    BY <2>1, <2>2 DEF Charged
  <2> QED
    BY <1>2, <2>1, <2>3, BytesType
<1>14. CASE Crash
  <2>1. /\ window' = window /\ mark' = mark /\ node' = Absent /\ real' = real
        /\ rows' = rows /\ forgiven' = forgiven /\ totals'[w] = 0
    BY <1>14 DEF Crash, Nothing
  <2>2. Charged(w)' <= Charged(w)
    <3>1. Used(w)' = Used(w)
      BY <2>1 DEF Used
    <3>2. Used(w) \in Nat /\ forgiven[w] \in Nat /\ totals[w] \in Nat
      BY BytesType DEF TypeOK
    <3> QED
      BY <2>1, <3>1, <3>2 DEF Charged
  <2>3. ASSUME NEW m \in Node
        PROVE  Pending(m, w)' = Excess(window[m][w], MarkOf(m, w))
    BY <2>1 DEF Pending, MarkOf
  <2>4. ASSUME NEW m \in Node, m # node
        PROVE  Pending(m, w)' = Pending(m, w)
    BY <2>3, <2>4 DEF Pending
  <2>5. CASE node = Absent
    <3>1. \A m \in Node : Pending(m, w)' = Pending(m, w)
      BY <2>4, <2>5
    <3>2. Uncharged(w)' = Uncharged(w)
      <4>1. [m \in Node |-> Pending(m, w)'] = [m \in Node |-> Pending(m, w)]
        BY <3>1
      <4> QED
        BY <4>1 DEF Uncharged
    <3>3. /\ Charged(w) \in Nat /\ Uncharged(w) \in Nat /\ real[w] \in Nat
          /\ Charged(w)' \in Nat
      BY BytesType, ChargedStaysNat DEF TypeOK
    <3> QED
      BY <2>1, <2>2, <3>2, <3>3 DEF Accounted
  <2>6. CASE node # Absent
    <3>1. PICK n \in Node : n = node
      BY <2>6 DEF TypeOK
    <3>2. Pending(n, w)' <= Pending(n, w)
      <4>1. CASE w \in DOMAIN report
        <5>1. Pending(n, w) = Excess(report[w], MarkOf(n, w)) + Excess(window[n][w], report[w])
          BY <3>1, <4>1 DEF Pending
        <5> QED
          BY <1>3, <2>3, <4>1, <5>1 DEF Excess
      <4>2. CASE w \notin DOMAIN report
        <5>1. Pending(n, w)' = Pending(n, w)
          BY <2>3, <4>2 DEF Pending
        <5> QED
          BY <5>1, BytesType
      <4> QED
        BY <4>1, <4>2
    <3>3. /\ Pending(n, w) \in Nat /\ Pending(n, w)' \in Nat
          /\ Charged(w) \in Nat /\ Charged(w)' \in Nat /\ real[w] \in Nat
      BY BytesType, PendingStaysNat, ChargedStaysNat DEF TypeOK
    <3> QED
      BY <1>1, <2>1, <2>2, <2>4, <3>1, <3>2, <3>3
  <2> QED
    BY <2>5, <2>6
<1>15. ASSUME NEW n \in Node, NEW u \in User, Traffic(n, u)
       PROVE  Accounted(w)'
  <2>1. /\ mark' = mark /\ rows' = rows /\ node' = node /\ report' = report
        /\ forgiven' = forgiven /\ totals' = totals
        /\ real' = [real EXCEPT ![u] = @ + 1]
        /\ window' = [window EXCEPT ![n][u] = @ + 1]
    BY <1>15 DEF Traffic, tick
  <2>2. ASSUME NEW m \in Node, m # n
        PROVE  Pending(m, w)' = Pending(m, w)
    <3>1. window'[m] = window[m]
      BY <2>1, <2>2 DEF TypeOK
    <3> QED
      BY <2>1, <3>1 DEF Pending, MarkOf
  <2>3. Charged(w)' = Charged(w) /\ MarkOf(n, w)' = MarkOf(n, w)
    BY <2>1, ChargedFrame DEF MarkOf
  <2>4. CASE w = u
    <3>1. window'[n][w] = window[n][w] + 1 /\ real'[w] = real[w] + 1
      BY <2>1, <2>4 DEF TypeOK
    <3>2. Pending(n, w)' <= Pending(n, w) + 1
      <4>1. CASE node = n /\ w \in DOMAIN report
        <5>1. /\ Pending(n, w) = Excess(report[w], MarkOf(n, w)) + Excess(window[n][w], report[w])
              /\ Pending(n, w)' =
                   Excess(report[w], MarkOf(n, w)) + Excess(window[n][w] + 1, report[w])
          BY <2>1, <2>3, <3>1, <4>1 DEF Pending
        <5>2. /\ Excess(report[w], MarkOf(n, w)) \in Nat /\ Excess(window[n][w], report[w]) \in Nat
              /\ Excess(window[n][w] + 1, report[w]) \in Nat
              /\ Excess(window[n][w] + 1, report[w]) <= Excess(window[n][w], report[w]) + 1
          BY <1>3, <4>1 DEF Excess
        <5> QED
          BY <5>1, <5>2
      <4>2. CASE ~ (node = n /\ w \in DOMAIN report)
        <5>1. /\ Pending(n, w) = Excess(window[n][w], MarkOf(n, w))
              /\ Pending(n, w)' = Excess(window[n][w] + 1, MarkOf(n, w))
          BY <2>1, <2>3, <3>1, <4>2 DEF Pending
        <5> QED
          BY <1>3, <5>1 DEF Excess
      <4> QED
        BY <4>1, <4>2
    <3>3. Pending(n, w) \in Nat /\ Pending(n, w)' \in Nat /\ Charged(w) \in Nat /\ real[w] \in Nat
      BY <1>3, BytesType, PendingStaysNat
    <3> QED
      BY <1>1, <2>2, <2>3, <3>1, <3>2, <3>3
  <2>5. CASE w # u
    <3>1. window'[n][w] = window[n][w] /\ real'[w] = real[w]
      BY <2>1, <2>5 DEF TypeOK
    <3>2. Pending(n, w)' = Pending(n, w)
      BY <2>1, <2>3, <3>1 DEF Pending
    <3>3. Pending(n, w) \in Nat
      BY BytesType
    <3> QED
      BY <1>1, <1>3, <2>2, <2>3, <3>1, <3>2, <3>3
  <2> QED
    BY <2>4, <2>5
<1>16. ASSUME NEW n \in Node, NEW u \in User, Slide(n, u)
       PROVE  Accounted(w)'
  <2>1. /\ mark' = mark /\ rows' = rows /\ node' = node /\ report' = report
        /\ forgiven' = forgiven /\ totals' = totals /\ real' = real
    BY <1>16 DEF Slide, tick, ghosts
  <2>2. PICK b \in 0..window[n][u] - 1 : window' = [window EXCEPT ![n][u] = b]
    BY <1>16 DEF Slide
  <2>3. ASSUME NEW m \in Node, m # n
        PROVE  Pending(m, w)' = Pending(m, w)
    <3>1. window'[m] = window[m]
      BY <2>2, <2>3 DEF TypeOK
    <3> QED
      BY <2>1, <3>1 DEF Pending, MarkOf
  <2>4. Charged(w)' = Charged(w) /\ MarkOf(n, w)' = MarkOf(n, w)
    BY <2>1, ChargedFrame DEF MarkOf
  <2>5. window'[n][w] <= window[n][w]
    BY <1>3, <2>2 DEF TypeOK
  <2>6. Pending(n, w)' <= Pending(n, w)
    <3>1. CASE node = n /\ w \in DOMAIN report
      <4>1. /\ Pending(n, w) = Excess(report[w], MarkOf(n, w)) + Excess(window[n][w], report[w])
            /\ Pending(n, w)' = Excess(report[w], MarkOf(n, w)) + Excess(window'[n][w], report[w])
        BY <2>1, <2>4, <3>1 DEF Pending
      <4>2. /\ Excess(report[w], MarkOf(n, w)) \in Nat /\ Excess(window[n][w], report[w]) \in Nat
            /\ Excess(window'[n][w], report[w]) \in Nat
            /\ Excess(window'[n][w], report[w]) <= Excess(window[n][w], report[w])
        BY <1>3, <2>5, <3>1 DEF Excess
      <4> QED
        BY <4>1, <4>2
    <3>2. CASE ~ (node = n /\ w \in DOMAIN report)
      <4>1. /\ Pending(n, w) = Excess(window[n][w], MarkOf(n, w))
            /\ Pending(n, w)' = Excess(window'[n][w], MarkOf(n, w))
        BY <2>1, <2>4, <3>2 DEF Pending
      <4> QED
        BY <1>3, <2>5, <4>1 DEF Excess
    <3> QED
      BY <3>1, <3>2
  <2>7. Pending(n, w) \in Nat /\ Pending(n, w)' \in Nat
    BY BytesType, PendingStaysNat
  <2> QED
    BY <1>1, <1>3, <2>1, <2>3, <2>4, <2>6, <2>7
<1>17. ASSUME window' = window, mark' = mark, node' = node, report' = report, real' = real,
              rows' = rows, forgiven' = forgiven, totals' = totals
       PROVE  Accounted(w)'
  BY <1>2, <1>17, ChargedFrame, BytesType
<1>18. ASSUME \/ AllRead \/ EvaluateFails \/ EndTick \/ UNCHANGED vars
              \/ \E n \in Node : FetchFails(n)
       PROVE  Accounted(w)'
  BY <1>17, <1>18 DEF AllRead, EvaluateFails, EndTick, vars, FetchFails, tick, ghosts
<1> QED
  BY <1>4, <1>5, <1>6, <1>7, <1>8, <1>9, <1>10, <1>11, <1>12, <1>13, <1>14, <1>15, <1>16,
     <1>18 DEF Next, Tick, Others

-----------------------------------------------------------------------------
(* What the marks have seen moves by what one mark moves. *)
LEMMA MarkedFollows ==
    ASSUME TypeOK, TypeOK', NEW u \in User, NEW n \in Node,
           \A m \in Node : m # n => MarkOf(m, u)' = MarkOf(m, u)
    PROVE  Marked(u)' = Marked(u) + MarkOf(n, u)' - MarkOf(n, u)
<1> DEFINE f == [m \in Node |-> MarkOf(m, u)]
           h == [m \in Node |-> MarkOf(m, u)']
<1>1. f \in [Node -> Nat]
  BY MarkType
<1>2. h \in [Node -> Nat]
  BY UsageAssumption DEF TypeOK, MarkOf
<1>3. \A m \in Node : m # n => h[m] = f[m]
  OBVIOUS
<1>4. f[n] = MarkOf(n, u) /\ h[n] = MarkOf(n, u)'
  OBVIOUS
<1>5. Marked(u) = SumFunction(f) /\ Marked(u)' = SumFunction(h)
  BY DEF Marked
<1> HIDE DEF f, h
<1>6. IsFiniteSet(Node)
  BY UsageAssumption
<1>7. SumFunction(h) = SumFunction(f) + h[n] - f[n]
  BY <1>1, <1>2, <1>3, <1>6, SumFollows
<1> QED
  BY <1>4, <1>5, <1>7

(* ... and not at all when no mark does. *)
LEMMA MarkedFrame ==
    ASSUME NEW u \in User, \A m \in Node : MarkOf(m, u)' = MarkOf(m, u)
    PROVE  Marked(u)' = Marked(u)
<1>1. [m \in Node |-> MarkOf(m, u)'] = [m \in Node |-> MarkOf(m, u)]
  OBVIOUS
<1> QED
  BY <1>1 DEF Marked

(* The books stay balanced: a checkpoint moves a mark and collects the same      *)
(* bytes, a credit and a reset move them between counters, and what drops bytes  *)
(* names the user.                                                               *)
LEMMA BalancedInductive ==
    ASSUME Safe, Safe', [Next]_vars, NEW w \in User, Balanced(w)
    PROVE  Balanced(w)'
<1> USE UsageAssumption DEF Safe
<1>1. ASSUME mark' = mark, Charged(w)' = Charged(w) \/ w \in lossy',
             w \in lossy => w \in lossy'
      PROVE  Balanced(w)'
  <2>1. Marked(w)' = Marked(w)
    BY <1>1, MarkedFrame DEF MarkOf
  <2> QED
    BY <1>1, <2>1 DEF Balanced
<1>2. Used(w) \in Nat /\ forgiven[w] \in Nat /\ totals[w] \in Nat
  BY BytesType DEF TypeOK
<1>3. CASE StartTick
  <2>1. totals = Nothing
    BY <1>3 DEF StartTick, Control
  <2> QED
    BY <1>1, <1>3, <2>1, ChargedFrame DEF StartTick, ghosts
<1>4. ASSUME NEW u \in User, Checkpoint(u)
      PROVE  Balanced(w)'
  <2>1. node \in Node /\ node' = node /\ rows' = rows /\ forgiven' = forgiven
    BY <1>4 DEF Checkpoint, Control, TypeOK
  <2>2. CASE w # u
    <3>1. \A m \in Node : MarkOf(m, w)' = MarkOf(m, w)
      BY <1>4, <2>1, <2>2 DEF Checkpoint, MarkOf, TypeOK
    <3>2. totals'[w] = totals[w] /\ (w \in lossy => w \in lossy')
      BY <1>4, <2>2 DEF Checkpoint, TypeOK
    <3> QED
      BY <2>1, <3>1, <3>2, MarkedFrame, ChargedFrame DEF Balanced
  <2>3. CASE w = u /\ report[w] < MarkOf(node, w)
    BY <1>4, <2>3 DEF Checkpoint, Balanced
  <2>4. CASE w = u /\ ~ (report[w] < MarkOf(node, w))
    <3>1. \A m \in Node : m # node => MarkOf(m, w)' = MarkOf(m, w)
      BY <1>4, <2>1 DEF Checkpoint, MarkOf, TypeOK
    <3>2. report[w] \in Nat /\ MarkOf(node, w) \in Nat /\ MarkOf(node, w)' = report[w]
      BY <1>4, <2>1, <2>4, MarkType DEF Checkpoint, MarkOf, TypeOK
    <3>3. Marked(w)' = Marked(w) + report[w] - MarkOf(node, w)
      BY <2>1, <3>1, <3>2, MarkedFollows
    <3>4. totals'[w] = totals[w] + Delta(node, w) /\ lossy' = lossy
      BY <1>4, <2>4 DEF Checkpoint, TypeOK
    <3>5. Delta(node, w) = report[w] - MarkOf(node, w)
      BY <2>4, <3>2 DEF Delta
    <3>6. Charged(w)' = Charged(w) + report[w] - MarkOf(node, w)
      <4>1. Used(w)' = Used(w)
        BY <2>1 DEF Used
      <4> QED
        BY <1>2, <2>1, <3>2, <3>4, <3>5, <4>1 DEF Charged
    <3> QED
      BY <3>3, <3>4, <3>6 DEF Balanced
  <2> QED
    BY <2>2, <2>3, <2>4
<1>5. ASSUME NEW u \in User, Credit(u)
      PROVE  Balanced(w)'
  <2>1. mark' = mark /\ forgiven' = forgiven /\ (w \in lossy => w \in lossy')
    BY <1>5 DEF Credit
  <2>2. CASE w = u /\ rows[w] # Absent
    <3>1. rows[w] \in Row /\ rows'[w] = [rows[w] EXCEPT !.used = @ + totals[w]]
      BY <1>5, <2>2 DEF Credit, TypeOK
    <3>2. rows'[w].used = rows[w].used + totals[w] /\ rows'[w] \in Row
      BY <1>2, <3>1 DEF Row
    <3>3. Used(w)' = Used(w) + totals[w]
      BY <2>2, <3>2 DEF Used
    <3>4. totals'[w] = 0
      BY <1>5, <2>2 DEF Credit, TypeOK
    <3>5. Charged(w)' = Charged(w)
      BY <1>2, <2>1, <3>3, <3>4 DEF Charged
    <3> QED
      BY <1>1, <2>1, <3>5
  <2>3. CASE w = u /\ rows[w] = Absent
    BY <1>1, <1>5, <2>1, <2>3 DEF Credit
  <2>4. CASE w # u
    <3>1. rows'[w] = rows[w] /\ totals'[w] = totals[w]
      BY <1>5, <2>4 DEF Credit, TypeOK
    <3> QED
      BY <1>1, <2>1, <3>1, ChargedFrame
  <2> QED
    BY <2>2, <2>3, <2>4
<1>6. ASSUME NEW u \in User, CreditFails(u)
      PROVE  Balanced(w)'
  <2>1. w = u => w \in lossy'
    BY <1>6 DEF CreditFails
  <2>2. w # u => totals'[w] = totals[w]
    BY <1>6 DEF CreditFails, TypeOK
  <2> QED
    BY <1>1, <1>6, <2>1, <2>2, ChargedFrame DEF CreditFails
<1>7. CASE Evaluate
  <2>1. cur \in User /\ rows' = [rows EXCEPT ![cur] = Evaluated]
    BY <1>7 DEF Evaluate, Control, TypeOK
  <2>2. Used(w)' = Used(w)
    BY <2>1, EvaluationKeepsUsed DEF Used, TypeOK
  <2>3. Charged(w)' = Charged(w)
    BY <1>7, <2>2 DEF Evaluate, Charged
  <2> QED
    BY <1>1, <1>7, <2>3 DEF Evaluate
<1>8. ASSUME NEW u \in User, Reset(u)
      PROVE  Balanced(w)'
  <2>1. mark' = mark /\ totals' = totals /\ lossy' = lossy
    BY <1>8 DEF Reset, tick
  <2>2. CASE w = u
    <3>1. Used(w)' = 0 /\ forgiven'[w] = forgiven[w] + Used(w)
      BY <1>8, <2>2, ResetForgives
    <3>2. Charged(w)' = Charged(w)
      BY <1>2, <2>1, <3>1 DEF Charged
    <3> QED
      BY <1>1, <2>1, <3>2
  <2>3. CASE w # u
    <3>1. rows'[w] = rows[w] /\ forgiven'[w] = forgiven[w]
      BY <1>8, <2>3 DEF Reset, TypeOK
    <3> QED
      BY <1>1, <2>1, <3>1, ChargedFrame
  <2> QED
    BY <2>2, <2>3
<1>9. ASSUME NEW u \in User, NEW limit \in {0, DefaultLimit}, Contact(u, limit)
      PROVE  Balanced(w)'
  <2>1. Used(w)' = Used(w)
    BY <1>9 DEF Contact, NewRow, Used, TypeOK
  <2>2. Charged(w)' = Charged(w)
    BY <1>9, <2>1 DEF Charged, Contact, tick, ghosts
  <2> QED
    BY <1>1, <1>9, <2>2 DEF Contact, ghosts
<1>10. CASE Crash
  <2>1. w \in lossy' \/ totals'[w] = totals[w]
    BY <1>2, <1>10 DEF Crash, Nothing
  <2> QED
    BY <1>1, <1>10, <2>1, ChargedFrame DEF Crash
<1>11. ASSUME mark' = mark, rows' = rows, forgiven' = forgiven, totals' = totals,
              lossy' = lossy
       PROVE  Balanced(w)'
  BY <1>1, <1>11, ChargedFrame
<1>12. ASSUME \/ NodeRead \/ AllRead \/ EvaluateFails \/ EndTick \/ UNCHANGED vars
              \/ \E n \in Node : FetchNode(n) \/ FetchFails(n)
              \/ \E u \in User : CheckpointFails(u)
              \/ \E n \in Node, u \in User : Traffic(n, u) \/ Slide(n, u)
       PROVE  Balanced(w)'
  BY <1>11, <1>12 DEF NodeRead, AllRead, EvaluateFails, EndTick, vars, FetchNode, FetchFails,
     CheckpointFails, Traffic, Slide, tick, ghosts
<1> QED
  BY <1>3, <1>4, <1>5, <1>6, <1>7, <1>8, <1>9, <1>10, <1>12 DEF Next, Tick, Others

-----------------------------------------------------------------------------
(* Who is cut stays cut deservedly: an evaluation cuts on a counter that shows   *)
(* no more than was sent, and nothing else but a reset touches a limit or a cut. *)
LEMMA DeservedInductive ==
    ASSUME Safe, Safe', [Next]_vars, NEW w \in User, Accounted(w), Deserved(w)
    PROVE  Deserved(w)'
<1> USE UsageAssumption DEF Safe
<1>1. real[w] \in Nat /\ real'[w] \in Nat /\ real[w] <= real'[w]
  <2>1. real' = real \/ \E n \in Node, u \in User : Traffic(n, u)
    BY DEF Next, Tick, Others, StartTick, NodeRead, AllRead, Evaluate, EvaluateFails, EndTick,
       FetchNode, FetchFails, Checkpoint, CheckpointFails, Credit, CreditFails, Reset, Contact,
       Slide, Crash, vars, ghosts
  <2>2. real[w] \in Nat
    BY DEF TypeOK
  <2>3. CASE real' = real
    BY <2>2, <2>3
  <2>4. ASSUME NEW n \in Node, NEW u \in User, Traffic(n, u)
        PROVE  real'[w] = real[w] \/ real'[w] = real[w] + 1
    BY <2>4 DEF Traffic, TypeOK
  <2>5. CASE \E n \in Node, u \in User : Traffic(n, u)
    <3>1. real'[w] = real[w] \/ real'[w] = real[w] + 1
      BY <2>4, <2>5
    <3> QED
      BY <2>2, <3>1
  <2> QED
    BY <2>1, <2>3, <2>5
<1>2. ASSUME \/ rows'[w] = rows[w] /\ forgiven'[w] = forgiven[w]
             \/ rows'[w] # Absent => rows'[w].basic = "active"
      PROVE  Deserved(w)'
  <2>1. forgiven[w] \in Nat /\ (rows[w] # Absent => rows[w].limit \in Nat)
    BY DEF TypeOK, Row
  <2> QED
    BY <1>1, <1>2, <2>1 DEF Deserved
<1>3. ASSUME NEW u \in User, Credit(u)
      PROVE  Deserved(w)'
  <2>1. CASE rows[u] = Absent \/ w # u
    BY <1>2, <1>3, <2>1 DEF Credit, TypeOK
  <2>2. CASE rows[u] # Absent /\ w = u
    <3>1. rows[w] \in Row /\ rows'[w] = [rows[w] EXCEPT !.used = @ + totals[w]]
      BY <1>3, <2>2 DEF Credit, TypeOK
    <3>2. /\ rows'[w].basic = rows[w].basic /\ rows'[w].limit = rows[w].limit
          /\ rows[w].limit \in Nat
      BY <3>1 DEF Row
    <3>3. forgiven' = forgiven /\ forgiven[w] \in Nat
      BY <1>3 DEF Credit, TypeOK
    <3> QED
      BY <1>1, <2>2, <3>2, <3>3 DEF Deserved
  <2> QED
    BY <2>1, <2>2
<1>4. CASE Evaluate
  <2>1. /\ cur \in User /\ rows' = [rows EXCEPT ![cur] = Evaluated]
        /\ forgiven' = forgiven /\ forgiven[w] \in Nat
    BY <1>4 DEF Evaluate, Control, TypeOK
  <2>2. CASE w # cur
    BY <1>2, <2>1, <2>2 DEF TypeOK
  <2>3. CASE w = cur
    <3> DEFINE row == Loaded(w, DefaultLimit)
    <3>1. row \in Row /\ row.used = Used(w)
      BY LoadedType DEF Loaded, NewRow, Used
    <3>2. rows'[w] = IF Cut(row) THEN [row EXCEPT !.basic = "blocked"] ELSE row
      BY <2>1, <2>3 DEF Evaluated, TypeOK
    <3>3. rows[w] = Absent \/ rows[w] = row
      BY DEF Loaded
    <3>4. rows[w] = Absent => row.basic = "active"
      BY DEF Loaded, NewRow
    <3>5. Used(w) + forgiven[w] <= real[w]
      <4>1. /\ Used(w) \in Nat /\ forgiven[w] \in Nat /\ totals[w] \in Nat
            /\ Uncharged(w) \in Nat /\ real[w] \in Nat
        BY BytesType DEF TypeOK
      <4> QED
        BY <4>1 DEF Accounted, Charged
    <3> HIDE DEF row
    <3>6. CASE Cut(row)
      <4>1. /\ rows'[w].limit = row.limit /\ 0 < row.limit /\ row.limit <= row.used
            /\ row.limit \in Nat /\ row.used \in Nat
        BY <3>1, <3>2, <3>6 DEF Row, Cut, OverLimit
      <4> QED
        BY <1>1, <2>1, <3>1, <3>5, <4>1 DEF Deserved
    <3>7. CASE ~Cut(row)
      BY <1>2, <2>1, <3>2, <3>3, <3>4, <3>7
    <3> QED
      BY <3>6, <3>7
  <2> QED
    BY <2>2, <2>3
<1>5. ASSUME NEW u \in User, Reset(u)
      PROVE  Deserved(w)'
  <2>1. Loaded(u, DefaultLimit) \in Row
    BY LoadedType
  <2>2. w = u => rows'[w].basic = "active"
    BY <1>5, <2>1 DEF Reset, Row, TypeOK
  <2>3. w # u => rows'[w] = rows[w] /\ forgiven'[w] = forgiven[w]
    BY <1>5 DEF Reset, TypeOK
  <2> QED
    BY <1>2, <2>2, <2>3
<1>6. ASSUME NEW u \in User, NEW limit \in {0, DefaultLimit}, Contact(u, limit)
      PROVE  Deserved(w)'
  <2>1. w = u => rows'[w].basic = "active"
    BY <1>6 DEF Contact, NewRow, TypeOK
  <2>2. w # u => rows'[w] = rows[w] /\ forgiven'[w] = forgiven[w]
    BY <1>6 DEF Contact, ghosts, TypeOK
  <2> QED
    BY <1>2, <2>1, <2>2
<1>7. ASSUME \/ StartTick \/ NodeRead \/ AllRead \/ EvaluateFails \/ EndTick \/ Crash
             \/ UNCHANGED vars
             \/ \E n \in Node : FetchNode(n) \/ FetchFails(n)
             \/ \E u \in User : Checkpoint(u) \/ CheckpointFails(u) \/ CreditFails(u)
             \/ \E n \in Node, u \in User : Traffic(n, u) \/ Slide(n, u)
      PROVE  Deserved(w)'
  <2>1. rows' = rows /\ forgiven' = forgiven
    BY <1>7 DEF StartTick, NodeRead, AllRead, EvaluateFails, EndTick, Crash, vars, FetchNode,
       FetchFails, Checkpoint, CheckpointFails, CreditFails, Traffic, Slide, ghosts
  <2> QED
    BY <1>2, <2>1
<1> QED
  BY <1>3, <1>4, <1>5, <1>6, <1>7 DEF Next, Tick, Others

-----------------------------------------------------------------------------
\* the books are in order
Books == Safe /\ \A u \in User : Accounted(u) /\ Balanced(u) /\ Deserved(u)

(* At first nothing is sent, seen, charged or cut; and every step keeps books    *)
(* that are in order in order.                                                   *)
LEMMA BooksInductive ==
    /\ Init => Books
    /\ Books /\ [Next]_vars => Books'
<1> USE UsageAssumption
<1>1. ASSUME Init, NEW u \in User
      PROVE  Accounted(u) /\ Balanced(u) /\ Deserved(u)
  <2>1. Charged(u) = 0 /\ real[u] = 0 /\ rows[u] = Absent
    BY <1>1 DEF Init, Charged, Used, Nothing
  <2>2. \A n \in Node : Pending(n, u) = 0 /\ MarkOf(n, u) = 0
    BY <1>1 DEF Init, Pending, MarkOf, Excess, Nothing
  <2>3. [n \in Node |-> Pending(n, u)] = [n \in Node |-> 0]
    BY <2>2
  <2>4. [n \in Node |-> MarkOf(n, u)] = [n \in Node |-> 0]
    BY <2>2
  <2>5. SumFunction([n \in Node |-> 0]) = 0
    BY SumOfZeros
  <2>6. Uncharged(u) = 0 /\ Marked(u) = 0
    BY <2>3, <2>4, <2>5 DEF Uncharged, Marked
  <2> QED
    BY <2>1, <2>6 DEF Accounted, Balanced, Deserved
<1>2. Init => Books
  BY <1>1, SafeInductive DEF Books
<1>3. ASSUME Books, [Next]_vars
      PROVE  Books'
  <2>1. Safe /\ Safe'
    BY <1>3, SafeInductive DEF Books
  <2>2. ASSUME NEW u \in User
        PROVE  Accounted(u)' /\ Balanced(u)' /\ Deserved(u)'
    BY <1>3, <2>1, AccountedInductive, BalancedInductive, DeservedInductive DEF Books
  <2> QED
    BY <2>1, <2>2 DEF Books
<1> QED
  BY <1>2, <1>3

(* Nobody is charged for a byte he has not sent, nor for one twice: however the  *)
(* reports shrink, statements fail and the service dies between the mark of a    *)
(* byte and its credit (SetUsageCheckpoint, AddBasicUsage).                      *)
THEOREM NobodyOvercharged == Spec => []NeverOvercharged
<1>1. Books => NeverOvercharged
  <2> SUFFICES ASSUME Books, NEW u \in User
               PROVE  Used(u) + forgiven[u] + totals[u] <= real[u]
    BY DEF NeverOvercharged
  <2>1. Charged(u) \in Nat /\ Uncharged(u) \in Nat /\ real[u] \in Nat
    BY BytesType DEF Books, Safe, TypeOK
  <2>2. Charged(u) + Uncharged(u) <= real[u]
    BY DEF Books, Accounted
  <2>3. Charged(u) <= real[u]
    BY <2>1, <2>2
  <2> QED
    BY <2>3 DEF Charged
<1> QED
  BY BooksInductive, <1>1, PTL DEF Spec

(* The books balance: what the marks have seen is on the counter, about to be    *)
(* credited or forgiven, for every user none of whose bytes were dropped, with   *)
(* or without the first report of each node.  Balanced is the stronger fact that *)
(* the code counts the first reports as well.                                    *)
THEOREM BooksAlwaysBalance == Spec => []BooksBalance
<1>1. Books => BooksBalance
  BY DEF Books, Balanced, Charged, BooksBalance
<1> QED
  BY BooksInductive, <1>1, PTL DEF Spec

(* BlockBasicIfOverLimit cuts nobody who has not really sent his limit's bytes   *)
(* on top of what resets have forgiven him, and nobody without a limit.          *)
THEOREM EveryCutIsDeserved == Spec => []CutIsDeserved
<1>1. Books => CutIsDeserved
  BY DEF Books, Deserved, CutIsDeserved
<1> QED
  BY BooksInductive, <1>1, PTL DEF Spec
-----------------------------------------------------------------------------
(* The meter *)

\* a step of the meter, or one it does not see
Metered == Promise!Next \/ UNCHANGED <<real, rows, forgiven>>

(* A delta is credited to a row that has room for it: the bill is for bytes sent *)
(* and not yet billed.                                                           *)
LEMMA CreditIsBill ==
    ASSUME Books, NEW u \in User, Credit(u)
    PROVE  Metered
<1> USE UsageAssumption DEF Books, Safe
<1>1. real' = real /\ forgiven' = forgiven /\ totals[u] \in Nat \ {0}
  BY DEF Credit, TypeOK
<1>2. CASE rows[u] = Absent
  BY <1>1, <1>2 DEF Credit, Metered
<1>3. CASE rows[u] # Absent
  <2>1. rows' = [rows EXCEPT ![u].used = @ + totals[u]]
    BY <1>3 DEF Credit
  <2>2. /\ rows[u].used \in Nat /\ forgiven[u] \in Nat /\ real[u] \in Nat
        /\ Uncharged(u) \in Nat
    BY <1>3, BytesType DEF TypeOK, Row
  <2>3. rows[u].used + forgiven[u] + totals[u] + Uncharged(u) <= real[u]
    BY <1>3 DEF Accounted, Charged, Used
  <2>4. totals[u] \in 1..real[u] /\ rows[u].used + totals[u] + forgiven[u] <= real[u]
    BY <1>1, <2>2, <2>3
  <2>5. Promise!Bill(u)
    BY <1>1, <1>3, <2>1, <2>4 DEF Promise!Bill
  <2> QED
    BY <2>5 DEF Metered, Promise!Next
<1> QED
  BY <1>2, <1>3

(* An evaluation enters a user who has no row, cuts one at his limit, or changes *)
(* nothing.                                                                      *)
LEMMA EvaluationIsCut ==
    ASSUME Books, Evaluate
    PROVE  Metered
<1> USE UsageAssumption DEF Books, Safe
<1> DEFINE row == Loaded(cur, DefaultLimit)
<1>1. cur \in User /\ rows' = [rows EXCEPT ![cur] = Evaluated]
  BY DEF Evaluate, Control, TypeOK
<1>2. real' = real /\ forgiven' = forgiven
  BY DEF Evaluate
<1>3. Evaluated = IF Cut(row) THEN [row EXCEPT !.basic = "blocked"] ELSE row
  BY DEF Evaluated
<1>4. CASE rows[cur] = Absent
  <2>1. row = NewRow(DefaultLimit)
    BY <1>4 DEF Loaded
  <2>2. row \in Row /\ row.used = 0
    BY <1>1, <2>1, LoadedType DEF NewRow
  <2>3. ~Cut(row)
    BY <2>2, FreshIsBelow DEF Cut
  <2>4. rows' = [rows EXCEPT ![cur] = [used |-> 0, limit |-> DefaultLimit, basic |-> "active"]]
    BY <1>1, <1>3, <2>1, <2>3 DEF NewRow
  <2>5. Promise!Enter(cur)
    BY <1>2, <1>4, <2>4 DEF Promise!Enter
  <2> QED
    BY <1>1, <2>5 DEF Metered, Promise!Next
<1>5. CASE rows[cur] # Absent
  <2>1. row = rows[cur]
    BY <1>5 DEF Loaded
  <2>2. CASE Cut(row)
    <3>1. rows' = [rows EXCEPT ![cur].basic = "blocked"]
      BY <1>1, <1>3, <2>1, <2>2
    <3>2. Promise!Cut(cur)
      BY <1>2, <1>5, <2>1, <2>2, <3>1 DEF Promise!Cut, Cut, OverLimit
    <3> QED
      BY <1>1, <3>2 DEF Metered, Promise!Next
  <2>3. CASE ~Cut(row)
    <3>1. rows' = rows
      BY <1>1, <1>3, <2>1, <2>3 DEF TypeOK
    <3> QED
      BY <1>2, <3>1 DEF Metered
  <2> QED
    BY <2>2, <2>3
<1> QED
  BY <1>4, <1>5

(* A reset forgives what the counter shows; of a user without a row it only      *)
(* creates the row.                                                              *)
LEMMA ResetIsForgiveness ==
    ASSUME Books, NEW u \in User, Reset(u)
    PROVE  Metered
<1> USE UsageAssumption DEF Books, Safe
<1> DEFINE old == Loaded(u, DefaultLimit)
           new == [old EXCEPT !.used = 0, !.basic = "active"]
<1>1. rows' = [rows EXCEPT ![u] = new] /\ forgiven' = [forgiven EXCEPT ![u] = @ + old.used]
  BY DEF Reset
<1>2. real' = real
  BY DEF Reset
<1>3. CASE rows[u] = Absent
  <2>1. old = [used |-> 0, limit |-> DefaultLimit, basic |-> "active"]
    BY <1>3 DEF Loaded, NewRow
  <2>2. new = old /\ old.used = 0
    <3>1. old \in Row /\ old.used = 0 /\ old.basic = "active"
      BY <2>1 DEF Row
    <3> HIDE DEF old
    <3> QED
      BY <3>1 DEF Row
  <2>3. forgiven' = forgiven
    BY <1>1, <2>2 DEF TypeOK
  <2>4. Promise!Enter(u)
    BY <1>1, <1>2, <1>3, <2>1, <2>2, <2>3 DEF Promise!Enter
  <2> QED
    BY <2>4 DEF Metered, Promise!Next
<1>4. CASE rows[u] # Absent
  <2>1. old = rows[u]
    BY <1>4 DEF Loaded
  <2>2. rows' = [rows EXCEPT ![u].used = 0, ![u].basic = "active"]
    BY <1>1, <2>1 DEF TypeOK
  <2>3. Promise!Forgive(u)
    BY <1>1, <1>2, <1>4, <2>1, <2>2 DEF Promise!Forgive
  <2> QED
    BY <2>3 DEF Metered, Promise!Next
<1> QED
  BY <1>3, <1>4

(* Nodes, reports, marks, faults and crashes implement the meter that knows none *)
(* of them.                                                                      *)
THEOREM KeepsMeter == Spec => ImplementsMeter
<1> USE UsageAssumption
<1>1. Init => Promise!Init
  BY DEF Init, Promise!Init, Nothing
<1>2. ASSUME Books, [Next]_vars
      PROVE  Metered
  <2>1. ASSUME NEW u \in User, Credit(u)
        PROVE  Metered
    BY <1>2, <2>1, CreditIsBill
  <2>2. CASE Evaluate
    BY <1>2, <2>2, EvaluationIsCut
  <2>3. ASSUME NEW u \in User, Reset(u)
        PROVE  Metered
    BY <1>2, <2>3, ResetIsForgiveness
  <2>4. ASSUME NEW u \in User, NEW limit \in {0, DefaultLimit}, Contact(u, limit)
        PROVE  Metered
    <3>1. Promise!Enter(u)
      BY <2>4 DEF Contact, NewRow, ghosts, Promise!Enter
    <3> QED
      BY <3>1 DEF Metered, Promise!Next
  <2>5. ASSUME NEW n \in Node, NEW u \in User, Traffic(n, u)
        PROVE  Metered
    <3>1. Promise!Send(u)
      BY <2>5 DEF Traffic, Promise!Send
    <3> QED
      BY <3>1 DEF Metered, Promise!Next
  <2>6. ASSUME \/ StartTick \/ NodeRead \/ AllRead \/ EvaluateFails \/ EndTick \/ Crash
               \/ UNCHANGED vars
               \/ \E n \in Node : FetchNode(n) \/ FetchFails(n)
               \/ \E u \in User : Checkpoint(u) \/ CheckpointFails(u) \/ CreditFails(u)
               \/ \E n \in Node, u \in User : Slide(n, u)
        PROVE  Metered
    BY <2>6 DEF StartTick, NodeRead, AllRead, EvaluateFails, EndTick, Crash, vars, FetchNode,
       FetchFails, Checkpoint, CheckpointFails, CreditFails, Slide, ghosts, Metered
  <2> QED
    BY <1>2, <2>1, <2>2, <2>3, <2>4, <2>5, <2>6 DEF Next, Tick, Others
<1>3. Books /\ [Next]_vars => [Promise!Next]_<<real, rows, forgiven>>
  BY <1>2 DEF Metered
<1> QED
  BY <1>1, <1>3, BooksInductive, PTL DEF Spec, ImplementsMeter, Promise!Spec, Promise!vars
=============================================================================
