----------------------------- MODULE RelayProofs -----------------------------
(***************************************************************************)
(* The theorems of Relay, for any number of handlers, purchases, resets    *)
(* and faults: types, that something which will tell the bot the latest is *)
(* always on its way, and that the first exhaustion of the quota is hidden *)
(* from it.                                                                *)
(***************************************************************************)
EXTENDS Relay, DecisionProofs

\* the task of p at another place, with other words and attempts
With(p, pc, says, tries) ==
    [kind |-> task[p].kind, pc |-> pc, says |-> says, tries |-> tries]

Moves(p, t) == task' = [task EXCEPT ![p] = t]

Verdicts == {"block", "restore", "reset"}

\* the notices a changed panel user is announced by
Kinds == {"limited", "modified", "reset"}

-----------------------------------------------------------------------------
(* Types *)

(* What the panel says is a message, and so is nothing at all. *)
LEMMA MessageType ==
    /\ Silent \in Message
    /\ \A pu \in PanelUser : SaidBy(pu) \in [status : Status, limit : Nat]
    /\ [status : Status, limit : Nat] \subseteq Message
BY DEF Silent, Message, SaidBy, PanelUser, Status

(* A task has its fields. *)
LEMMA TaskFields ==
    ASSUME TypeOK, NEW p \in Handler
    PROVE  /\ task[p] \in Task /\ task[p].says \in Message /\ task[p].tries \in Nat
           /\ task[p].kind \in Kinds \cup {"none", "repay"}
           /\ task[p] = With(p, task[p].pc, task[p].says, task[p].tries)
BY DEF TypeOK, Task, With, Kinds

(* Only the task of p changes. *)
LEMMA MovesKeeps ==
    ASSUME TypeOK, NEW p \in Handler, NEW t \in Task, Moves(p, t)
    PROVE  /\ task' \in [Handler -> Task] /\ task'[p] = t
           /\ \A q \in Handler : q # p => task'[q] = task[q]
BY DEF TypeOK, Moves

(* A move to another place is one. *)
LEMMA WithType ==
    ASSUME TypeOK, NEW p \in Handler, NEW pc \in {"idle", "job", "ask", "limit", "forward"},
           NEW says \in Message, NEW tries \in Nat
    PROVE  With(p, pc, says, tries) \in Task
BY TaskFields DEF With, Task, Kinds

\* t with other words, at another place; t after one more attempt
Says(t, says, pc) == [[t EXCEPT !.says = says] EXCEPT !.pc = pc]

Tried(t, n) == [t EXCEPT !.tries = n]

(* An updated task, field by field. *)
LEMMA GotoIs ==
    ASSUME NEW t \in Task, NEW pc
    PROVE  [t EXCEPT !.pc = pc] = [kind |-> t.kind, pc |-> pc, says |-> t.says, tries |-> t.tries]
BY DEF Task

LEMMA SaysIs ==
    ASSUME NEW t \in Task, NEW says, NEW pc
    PROVE  Says(t, says, pc) = [kind |-> t.kind, pc |-> pc, says |-> says, tries |-> t.tries]
<1>1. [t EXCEPT !.says = says]
        = [kind |-> t.kind, pc |-> t.pc, says |-> says, tries |-> t.tries]
  BY DEF Task
<1>2. [[kind |-> t.kind, pc |-> t.pc, says |-> says, tries |-> t.tries] EXCEPT !.pc = pc]
        = [kind |-> t.kind, pc |-> pc, says |-> says, tries |-> t.tries]
  OBVIOUS
<1> QED
  BY <1>1, <1>2 DEF Says

LEMMA TriedIs ==
    ASSUME NEW t \in Task, NEW n
    PROVE  Tried(t, n) = [kind |-> t.kind, pc |-> t.pc, says |-> t.says, tries |-> n]
BY DEF Task, Tried

LEMMA GotoMoves ==
    ASSUME TypeOK, NEW p \in Handler, NEW pc, Goto(p, pc)
    PROVE  Moves(p, With(p, pc, task[p].says, task[p].tries))
<1>1. [task[p] EXCEPT !.pc = pc] = With(p, pc, task[p].says, task[p].tries)
  BY TaskFields, GotoIs DEF With
<1> QED
  BY <1>1 DEF Goto, Moves

(* What each step of a handler does to its task. *)
LEMMA Shapes ==
    ASSUME TypeOK, NEW p \in Handler
    PROVE  /\ \A n : Receive(p, n) =>
                 Moves(p, [kind |-> n.kind, pc |-> "job", says |-> n.says, tries |-> 0])
           /\ Repay(p) =>
                 Moves(p, [kind |-> "repay", pc |-> "job", says |-> Silent, tries |-> 0])
           /\ Handle(p) \/ HandleQuiet(p) \/ ResetTrafficFails(p) =>
                 Moves(p, With(p, IF task[p].kind = "limited" THEN "ask" ELSE "forward",
                               task[p].says, task[p].tries))
           /\ HandleFails(p) \/ Forward(p) \/ ForwardFails(p) => Moves(p, Idle)
           /\ AskPanel(p) => Moves(p, With(p, "limit", SaidBy(panel), task[p].tries))
           /\ AskPanelFails(p) =>
                 Moves(p, With(p, "forward", [status |-> "ACTIVE", limit |-> None],
                               task[p].tries))
           /\ EffectiveLimit(p) =>
                 \E l \in Nat \cup {None} :
                    Moves(p, With(p, "forward",
                                  [status |-> task[p].says.status, limit |-> l],
                                  task[p].tries))
           /\ ForwardRetries(p) =>
                 Moves(p, With(p, "forward", task[p].says, task[p].tries + 1))
<1>1. \A n : Receive(p, n) =>
         Moves(p, [kind |-> n.kind, pc |-> "job", says |-> n.says, tries |-> 0])
  BY DEF Receive, Moves
<1>2. Repay(p) => Moves(p, [kind |-> "repay", pc |-> "job", says |-> Silent, tries |-> 0])
  BY DEF Repay, Moves, Idle
<1>3. Handle(p) \/ HandleQuiet(p) \/ ResetTrafficFails(p) =>
         Moves(p, With(p, IF task[p].kind = "limited" THEN "ask" ELSE "forward",
                       task[p].says, task[p].tries))
  BY GotoMoves DEF Handle, HandleQuiet, ResetTrafficFails, AfterJob
<1>4. HandleFails(p) \/ Forward(p) \/ ForwardFails(p) => Moves(p, Idle)
  BY DEF HandleFails, Forward, ForwardFails, Moves
<1>5. ASSUME NEW says, NEW pc
      PROVE  Says(task[p], says, pc) = With(p, pc, says, task[p].tries)
  BY TaskFields, SaysIs DEF With
<1>6. AskPanel(p) => Moves(p, With(p, "limit", SaidBy(panel), task[p].tries))
  <2> SUFFICES ASSUME AskPanel(p)
               PROVE  Moves(p, With(p, "limit", SaidBy(panel), task[p].tries))
    OBVIOUS
  <2>1. task' = [task EXCEPT ![p].says = SaidBy(panel), ![p].pc = "limit"]
    BY DEF AskPanel
  <2>2. task' = [task EXCEPT ![p] = Says(task[p], SaidBy(panel), "limit")]
    BY <2>1 DEF TypeOK, Says
  <2> QED
    BY <1>5, <2>2 DEF Moves
<1>7. AskPanelFails(p) =>
         Moves(p, With(p, "forward", [status |-> "ACTIVE", limit |-> None], task[p].tries))
  <2> SUFFICES ASSUME AskPanelFails(p)
               PROVE  Moves(p, With(p, "forward", [status |-> "ACTIVE", limit |-> None],
                                    task[p].tries))
    OBVIOUS
  <2>1. [Silent EXCEPT !.status = "ACTIVE"] = [status |-> "ACTIVE", limit |-> None]
    BY DEF Silent
  <2> DEFINE m == [status |-> "ACTIVE", limit |-> None]
  <2>2. task' = [task EXCEPT ![p].says = m, ![p].pc = "forward"]
    BY <2>1 DEF AskPanelFails
  <2> HIDE DEF m
  <2>3. task' = [task EXCEPT ![p] = Says(task[p], m, "forward")]
    BY <2>2 DEF TypeOK, Says
  <2> QED
    BY <1>5, <2>3 DEF Moves, m
<1>8. EffectiveLimit(p) =>
         \E l \in Nat \cup {None} :
            Moves(p, With(p, "forward", [status |-> task[p].says.status, limit |-> l],
                          task[p].tries))
  <2> SUFFICES ASSUME EffectiveLimit(p)
               PROVE  \E l \in Nat \cup {None} :
                         Moves(p, With(p, "forward",
                                       [status |-> task[p].says.status, limit |-> l],
                                       task[p].tries))
    OBVIOUS
  <2> DEFINE l == IF IsPlanB(task[p].says.limit) THEN OrigOf(row) ELSE task[p].says.limit
             m == [status |-> task[p].says.status, limit |-> l]
  <2>1. task' = [task EXCEPT ![p] = [[task[p] EXCEPT !.says = [@ EXCEPT !.limit = l]]
                                       EXCEPT !.pc = "forward"]]
    BY DEF EffectiveLimit, TypeOK
  <2> HIDE DEF l
  <2>2. [task[p].says EXCEPT !.limit = l] = m
    BY TaskFields DEF Message
  <2> HIDE DEF m
  <2>3. task' = [task EXCEPT ![p] = Says(task[p], m, "forward")]
    BY <2>1, <2>2 DEF Says
  <2>4. Moves(p, With(p, "forward", m, task[p].tries))
    BY <1>5, <2>3 DEF Moves
  <2>5. l \in Nat \cup {None}
    BY TaskFields DEF l, OrigOf, TypeOK, Row, Message
  <2> QED
    BY <2>4, <2>5 DEF m
<1>9. ForwardRetries(p) => Moves(p, With(p, "forward", task[p].says, task[p].tries + 1))
  <2> SUFFICES ASSUME ForwardRetries(p)
               PROVE  Moves(p, With(p, "forward", task[p].says, task[p].tries + 1))
    OBVIOUS
  <2>1. task' = [task EXCEPT ![p] = Tried(task[p], task[p].tries + 1)]
    BY DEF ForwardRetries, TypeOK, Tried
  <2>2. Tried(task[p], task[p].tries + 1)
          = With(p, "forward", task[p].says, task[p].tries + 1)
    BY TaskFields, TriedIs DEF ForwardRetries, At, With
  <2> QED
    BY <2>1, <2>2 DEF Moves
<1> QED
  BY <1>1, <1>2, <1>3, <1>4, <1>6, <1>7, <1>8, <1>9

(* What the handlers ask of the panel and keep in the row. *)
LEMMA VerdictSteps ==
    ASSUME TypeOK, NEW verdict \in Verdicts
    PROVE  /\ Patched(panel, PatchFor(verdict)) \in PanelUser
           /\ Patched(panel, PatchFor(verdict)).status = "ACTIVE"
           /\ [Patched(panel, PatchFor(verdict)) EXCEPT !.used = 0] \in PanelUser
           /\ RowFor(verdict) \in Row
<1>1. panel \in PanelUser /\ row \in Row
  BY DEF TypeOK
<1>2. PatchFor(verdict) \in Patch
  BY <1>1, PatchType DEF PatchFor, Verdicts
<1>3. Patched(panel, PatchFor(verdict)) \in PanelUser
  BY <1>1, <1>2, PatchedType
<1>4. Patched(panel, PatchFor(verdict)).status = "ACTIVE"
  BY <1>1 DEF Patched, PanelUser
<1>5. RowFor(verdict) \in Row
  <2>1. /\ Preserve(IF row.wl = "active" THEN Capture(row, panel) ELSE row, panel) \in Row
    BY <1>1, CaptureType
  <2> QED
    BY <1>1, <2>1, RowType DEF RowFor, Verdicts
<1> QED
  BY <1>3, <1>4, <1>5 DEF PanelUser

(* Only a user.modified asks for nothing. *)
LEMMA VerdictRange ==
    ASSUME NEW kind \in Kinds \cup {"repay"}
    PROVE  /\ Verdict(kind) \in Verdicts \cup {"nothing"}
           /\ Verdict(kind) = "nothing" => kind = "modified"
           /\ Verdict(kind) = "restore" => NeedsRestore(row, panel)
           /\ Verdict(kind) = "reset" => kind \in {"reset", "repay"}
BY DEF Verdict, Verdicts, Kinds

(* The panel stays well formed whatever it becomes. *)
LEMMA BecomesType ==
    ASSUME TypeOK, NEW pu \in PanelUser, NEW kinds \in SUBSET Kinds, Becomes(pu, kinds)
    PROVE  /\ panel' = pu /\ panel' \in PanelUser /\ wire' \in SUBSET Notice
           /\ told' \in BOOLEAN /\ lost' \in BOOLEAN
<1>1. SaidBy(pu) \in Message
  BY MessageType
<1>2. \A k \in kinds : [kind |-> k, says |-> SaidBy(pu)] \in Notice
  BY <1>1 DEF Notice, Kinds
<1>3. wire' \in SUBSET Notice
  BY <1>2 DEF Becomes, TypeOK
<1> QED
  BY <1>3 DEF Becomes

(* What the bot believes stays well formed. *)
LEMMA DeliverType ==
    ASSUME TypeOK, NEW p \in Handler, Deliver(p)
    PROVE  bot' \in [status : Status, limit : Nat] /\ told' \in BOOLEAN
<1>1. task[p].says \in Message
  BY TaskFields
<1> QED
  BY <1>1 DEF Deliver, Updated, TypeOK, Message

(* The parts of the state apart from the tasks and the bounds. *)
World ==
    /\ panel \in PanelUser /\ row \in Row /\ wire \in SUBSET Notice
    /\ bot \in [status : Status, limit : Nat]
    /\ told \in BOOLEAN /\ lost \in BOOLEAN

LEMMA CarryType ==
    ASSUME TypeOK, NEW verdict \in Verdicts, Carry(verdict)
    PROVE  panel' \in PanelUser /\ wire' \in SUBSET Notice
           /\ told' \in BOOLEAN /\ lost' \in BOOLEAN
BY VerdictSteps, BecomesType DEF Carry, Kinds

(* The steps of a handler keep the world well formed. *)
LEMMA WorkWorld ==
    ASSUME TypeOK, NEW p \in Handler, Work(p) \/ WorkFails(p)
    PROVE  World'
<1>1. CASE Handle(p)
  <2>1. task[p].kind \in Kinds \cup {"repay", "none"}
    BY TaskFields
  <2>2. Verdict(task[p].kind) \in Verdicts
    BY <1>1, <2>1 DEF Handle, Verdict, Verdicts, Kinds
  <2> QED
    BY <1>1, <2>2, CarryType, VerdictSteps DEF Handle, World, TypeOK
<1>2. CASE HandleQuiet(p) \/ AskPanel(p) \/ EffectiveLimit(p) \/ AskPanelFails(p)
  BY <1>2 DEF HandleQuiet, AskPanel, EffectiveLimit, AskPanelFails, World, TypeOK
<1>3. CASE Forward(p)
  BY <1>3, DeliverType DEF Forward, World, TypeOK
<1>4. CASE ResetTrafficFails(p)
  <2>1. "reset" \in Verdicts /\ {"modified"} \in SUBSET Kinds
    BY DEF Verdicts, Kinds
  <2>2. RowFor("reset") = ResetRow(row)
    BY DEF RowFor
  <2> QED
    BY <1>4, <2>1, <2>2, VerdictSteps, BecomesType DEF ResetTrafficFails, World, TypeOK
<1>5. CASE HandleFails(p)
  <2>1. CASE lost' = TRUE /\ UNCHANGED <<panel, wire, told>>
    BY <1>5, <2>1 DEF HandleFails, World, TypeOK
  <2>2. CASE /\ Verdict(task[p].kind) # "nothing"
             /\ Becomes(Patched(panel, PatchFor(Verdict(task[p].kind))), {"modified"})
    <3>1. task[p].kind \in Kinds \cup {"repay", "none"}
      BY TaskFields
    <3>2. Verdict(task[p].kind) \in Verdicts /\ {"modified"} \in SUBSET Kinds
      BY <2>2, <3>1 DEF Verdict, Verdicts, Kinds
    <3> QED
      BY <1>5, <2>2, <3>2, VerdictSteps, BecomesType DEF HandleFails, World, TypeOK
  <2> QED
    BY <1>5, <2>1, <2>2 DEF HandleFails
<1>6. CASE ForwardRetries(p)
  BY <1>6, DeliverType DEF ForwardRetries, World, TypeOK
<1>7. CASE ForwardFails(p)
  BY <1>7, DeliverType DEF ForwardFails, World, TypeOK
<1> QED
  BY <1>1, <1>2, <1>3, <1>4, <1>5, <1>6, <1>7 DEF Work, WorkFails

(* So do the steps of the others. *)
LEMMA OthersWorld ==
    ASSUME TypeOK, CutBasic \/ Consume \/ PanelLimits \/ TrafficReset
                   \/ (\E l \in Limits : TopUp(l))
    PROVE  World'
<1>1. /\ panel \in PanelUser /\ row \in Row /\ {} \in SUBSET Kinds
      /\ \A k \in Kinds : {k} \in SUBSET Kinds
      /\ "limited" \in Kinds /\ "modified" \in Kinds /\ "reset" \in Kinds
  BY DEF TypeOK, Kinds
<1>2. CASE CutBasic
  <2>1. Patched(panel, BasicPatch(panel)) \in PanelUser
    BY <1>1, PatchType, PatchedType
  <2>2. [row EXCEPT !.over = TRUE] \in Row
    BY <1>1 DEF Row
  <2>3. BasicRow([row EXCEPT !.over = TRUE]) \in Row
    BY <2>2, RowType
  <2> QED
    BY <1>1, <1>2, <2>1, <2>3, BecomesType DEF CutBasic, World, TypeOK
<1>3. CASE Consume
  <2>1. [panel EXCEPT !.used = @ + 1] \in PanelUser
    BY <1>1 DEF PanelUser
  <2> QED
    BY <1>1, <1>3, <2>1, BecomesType DEF Consume, World, TypeOK
<1>4. CASE PanelLimits
  <2>1. [panel EXCEPT !.status = "LIMITED"] \in PanelUser
    BY <1>1 DEF PanelUser
  <2> QED
    BY <1>1, <1>4, <2>1, BecomesType DEF PanelLimits, World, TypeOK
<1>5. CASE TrafficReset
  <2>1. [panel EXCEPT !.used = 0, !.status = "ACTIVE"] \in PanelUser
    BY <1>1 DEF PanelUser
  <2> QED
    BY <1>1, <1>5, <2>1, BecomesType DEF TrafficReset, World, TypeOK
<1>6. ASSUME NEW l \in Limits, TopUp(l) PROVE World'
  <2>1. l \in Nat /\ Whitelist \in Squad
    BY RelayAssumption, SquadAssumption
  <2>2. [panel EXCEPT !.limit = l, !.squads = @ \cup {Whitelist}, !.status = "ACTIVE"]
           \in PanelUser
    BY <1>1, <2>1 DEF PanelUser
  <2> QED
    BY <1>1, <1>6, <2>2, BecomesType DEF TopUp, World, TypeOK
<1> QED
  BY <1>2, <1>3, <1>4, <1>5, <1>6

(* The tasks stay well formed. *)
LEMMA TasksType ==
    ASSUME TypeOK, Next
    PROVE  task' \in [Handler -> Task]
<1>1. ASSUME NEW p \in Handler, Work(p) \/ WorkFails(p) \/ Repay(p)
      PROVE  task' \in [Handler -> Task]
  <2>1. /\ Idle \in Task /\ Silent \in Message
        /\ [kind |-> "repay", pc |-> "job", says |-> Silent, tries |-> 0] \in Task
    BY MessageType DEF Idle, Task
  <2>2. /\ task[p].says \in Message /\ task[p].tries \in Nat /\ task[p].tries + 1 \in Nat
        /\ SaidBy(panel) \in Message
    BY TaskFields, MessageType DEF TypeOK
  <2>3. /\ [status |-> "ACTIVE", limit |-> None] \in Message
        /\ \A l \in Nat \cup {None} : [status |-> task[p].says.status, limit |-> l] \in Message
    BY <2>2 DEF Message, Status
  <2>4. \E t \in Task : Moves(p, t)
    <3>1. CASE Handle(p) \/ HandleQuiet(p) \/ ResetTrafficFails(p)
      BY <3>1, <2>2, Shapes, WithType
    <3>2. CASE HandleFails(p) \/ Forward(p) \/ ForwardFails(p) \/ Repay(p)
      BY <3>2, <2>1, Shapes
    <3>3. CASE AskPanel(p) \/ AskPanelFails(p) \/ EffectiveLimit(p) \/ ForwardRetries(p)
      BY <3>3, <2>2, <2>3, Shapes, WithType
    <3> QED
      BY <1>1, <3>1, <3>2, <3>3 DEF Work, WorkFails
  <2> QED
    BY <2>4, MovesKeeps
<1>2. ASSUME NEW p \in Handler, NEW n \in wire, Receive(p, n)
      PROVE  task' \in [Handler -> Task]
  <2>1. n \in Notice
    BY DEF TypeOK
  <2>2. [kind |-> n.kind, pc |-> "job", says |-> n.says, tries |-> 0] \in Task
    BY <2>1 DEF Notice, Task
  <2> QED
    BY <1>2, <2>2, Shapes, MovesKeeps
<1>3. CASE Crash
  BY <1>3, MessageType DEF Crash, Idle, Task
<1>4. CASE \/ CutBasic \/ Consume \/ PanelLimits \/ TrafficReset
           \/ (\E l \in Limits : TopUp(l)) \/ (\E n \in wire : Lose(n))
  BY <1>4 DEF CutBasic, Consume, PanelLimits, TrafficReset, TopUp, Lose, TypeOK
<1> QED
  BY <1>1, <1>2, <1>3, <1>4 DEF Next

(* Every step keeps the types. *)
LEMMA TypeStep ==
    ASSUME TypeOK, [Next]_vars
    PROVE  TypeOK'
<1>1. CASE UNCHANGED vars
  BY <1>1 DEF TypeOK, vars
<1>2. CASE Next
  <2>1. World'
    <3>1. CASE \/ \E p \in Handler : Repay(p)
               \/ \E p \in Handler, n \in wire : Receive(p, n)
               \/ \E n \in wire : Lose(n)
               \/ Crash
      BY <3>1 DEF Repay, Receive, Lose, Crash, World, TypeOK
    <3> QED
      BY <1>2, <3>1, WorkWorld, OthersWorld DEF Next
  <2>2. task' \in [Handler -> Task]
    BY <1>2, TasksType
  <2>3. paid' \in Nat
    BY <1>2, RelayAssumption
    DEF Next, Work, WorkFails, Repay, Receive, TopUp, Lose, CutBasic, Consume, PanelLimits,
        TrafficReset, Crash, Handle, HandleQuiet, AskPanel, EffectiveLimit, Forward,
        ResetTrafficFails, HandleFails, AskPanelFails, ForwardRetries, ForwardFails, TypeOK
  <2>4. resets' \in 0..MaxResets
    <3>1. resets' = resets \/ (resets < MaxResets /\ resets' = resets + 1)
      BY <1>2
      DEF Next, Work, WorkFails, Repay, Receive, TopUp, Lose, CutBasic, Consume, PanelLimits,
          TrafficReset, Crash, Handle, HandleQuiet, AskPanel, EffectiveLimit, Forward,
          ResetTrafficFails, HandleFails, AskPanelFails, ForwardRetries, ForwardFails
    <3>2. resets \in 0..MaxResets /\ MaxResets \in Nat
      BY RelayAssumption DEF TypeOK
    <3> QED
      BY <3>1, <3>2
  <2>5. faults' \in 0..MaxFaults
    <3>1. faults' = faults \/ (faults < MaxFaults /\ faults' = faults + 1)
      BY <1>2
      DEF Next, Work, WorkFails, Repay, Receive, TopUp, Lose, CutBasic, Consume, PanelLimits,
          TrafficReset, Crash, Handle, HandleQuiet, AskPanel, EffectiveLimit, Forward,
          ResetTrafficFails, HandleFails, AskPanelFails, ForwardRetries, ForwardFails,
          Fault
    <3>2. faults \in 0..MaxFaults /\ MaxFaults \in Nat
      BY RelayAssumption DEF TypeOK
    <3> QED
      BY <3>1, <3>2
  <2> QED
    BY <2>1, <2>2, <2>3, <2>4, <2>5 DEF World, TypeOK
<1> QED
  BY <1>1, <1>2

(* The user starts well formed, whichever way he starts. *)
LEMMA TypeInit ==
    ASSUME Init
    PROVE  TypeOK
<1>1. /\ Plan \in Nat \ {0} /\ Cycle \in AnyStrategy /\ NoReset \in AnyStrategy
      /\ Ceiling \in Nat /\ {Basic, Whitelist} \in SUBSET Squad /\ {Basic} \in SUBSET Squad
      /\ 0 \in 0..MaxResets /\ 0 \in 0..MaxFaults
  BY RelayAssumption, SquadAssumption, CeilingAssumption DEF AnyStrategy
<1>2. panel \in PanelUser
  BY <1>1 DEF Init, PanelUser
<1>3. row \in Row
  BY <1>1, DefaultRowType DEF Init, Row
<1>4. task \in [Handler -> Task]
  BY MessageType DEF Init, Idle, Task
<1>5. bot \in [status : Status, limit : Nat]
  BY <1>2, MessageType DEF Init
<1> QED
  BY <1>1, <1>2, <1>3, <1>4, <1>5 DEF Init, TypeOK

(* Panel, row, notices, tasks and the bot's belief are what they should be, *)
(* whatever the handlers, the panel and the network do.                     *)
THEOREM RelayTypes == Spec => []TypeOK
<1>1. Init => TypeOK
  BY TypeInit
<1>2. TypeOK /\ [Next]_vars => TypeOK'
  BY TypeStep
<1> QED
  BY <1>1, <1>2, PTL DEF Spec

-----------------------------------------------------------------------------
(* The bot will hear *)

\* a handler at work knows what for, and only user.limited has the panel asked
KindOK(p) ==
    /\ ~At(p, "idle") => task[p].kind # "none"
    /\ At(p, "ask") \/ At(p, "limit") => task[p].kind = "limited"

KindsOK == \A p \in Handler : KindOK(p)

(* Handlers keep to it. *)
LEMMA KindsStep ==
    ASSUME TypeOK, KindsOK, [Next]_vars
    PROVE  KindsOK'
<1>1. ASSUME NEW p \in Handler, Work(p) \/ WorkFails(p) \/ Repay(p)
      PROVE  KindsOK'
  <2>1. KindOK(p)
    BY DEF KindsOK
  <2>2. ASSUME NEW t \in Task, Moves(p, t),
               /\ t.pc # "idle" => t.kind # "none"
               /\ t.pc \in {"ask", "limit"} => t.kind = "limited"
        PROVE  KindsOK'
    BY <2>2, MovesKeeps DEF KindsOK, KindOK, At
  <2>3. \E t \in Task : /\ Moves(p, t)
                        /\ t.pc # "idle" => t.kind # "none"
                        /\ t.pc \in {"ask", "limit"} => t.kind = "limited"
    <3>1. /\ Idle \in Task /\ Silent \in Message
          /\ [kind |-> "repay", pc |-> "job", says |-> Silent, tries |-> 0] \in Task
      BY MessageType DEF Idle, Task
    <3>2. /\ task[p].says \in Message /\ task[p].tries \in Nat /\ task[p].tries + 1 \in Nat
          /\ SaidBy(panel) \in Message
      BY TaskFields, MessageType DEF TypeOK
    <3>3. /\ [status |-> "ACTIVE", limit |-> None] \in Message
          /\ \A l \in Nat \cup {None} :
                [status |-> task[p].says.status, limit |-> l] \in Message
      BY <3>2 DEF Message, Status
    <3>4. CASE Handle(p) \/ HandleQuiet(p) \/ ResetTrafficFails(p)
      <4> DEFINE pc == IF task[p].kind = "limited" THEN "ask" ELSE "forward"
                 t == With(p, pc, task[p].says, task[p].tries)
      <4>1. t \in Task /\ Moves(p, t)
        BY <3>2, <3>4, Shapes, WithType
      <4>2. At(p, "job")
        BY <3>4 DEF Handle, HandleQuiet, ResetTrafficFails
      <4>3. t.kind = task[p].kind /\ t.pc = pc
        BY DEF With
      <4>4. t.kind # "none"
        BY <2>1, <4>2, <4>3 DEF KindOK, At
      <4> HIDE DEF t
      <4> QED
        BY <4>1, <4>3, <4>4
    <3>5. CASE HandleFails(p) \/ Forward(p) \/ ForwardFails(p) \/ Repay(p)
      BY <3>1, <3>5, Shapes DEF Idle
    <3>6. CASE AskPanel(p)
      <4>1. task[p].kind = "limited"
        BY <2>1, <3>6 DEF AskPanel, KindOK
      <4> QED
        BY <3>2, <3>6, <4>1, Shapes, WithType DEF With
    <3>7. CASE AskPanelFails(p)
      <4>1. task[p].kind = "limited"
        BY <2>1, <3>7 DEF AskPanelFails, KindOK
      <4> QED
        BY <3>2, <3>3, <3>7, <4>1, Shapes, WithType DEF With
    <3>8. CASE EffectiveLimit(p)
      <4>1. task[p].kind = "limited"
        BY <2>1, <3>8 DEF EffectiveLimit, KindOK
      <4> QED
        BY <3>2, <3>3, <3>8, <4>1, Shapes, WithType DEF With
    <3>9. CASE ForwardRetries(p)
      <4>1. task[p].kind # "none"
        BY <2>1, <3>9 DEF ForwardRetries, KindOK, At
      <4> QED
        BY <3>2, <3>9, <4>1, Shapes, WithType DEF With
    <3> QED
      BY <1>1, <3>4, <3>5, <3>6, <3>7, <3>8, <3>9 DEF Work, WorkFails
  <2> QED
    BY <2>2, <2>3
<1>2. ASSUME NEW p \in Handler, NEW n \in wire, Receive(p, n)
      PROVE  KindsOK'
  <2>1. n \in Notice
    BY DEF TypeOK
  <2>2. [kind |-> n.kind, pc |-> "job", says |-> n.says, tries |-> 0] \in Task
    BY <2>1 DEF Notice, Task
  <2>3. task'[p] = [kind |-> n.kind, pc |-> "job", says |-> n.says, tries |-> 0]
        /\ \A q \in Handler : q # p => task'[q] = task[q]
    BY <1>2, <2>2, Shapes, MovesKeeps
  <2> QED
    BY <2>1, <2>3 DEF KindsOK, KindOK, At, Notice
<1>3. CASE Crash
  BY <1>3 DEF Crash, Idle, KindsOK, KindOK, At
<1>4. CASE \/ CutBasic \/ Consume \/ PanelLimits \/ TrafficReset
           \/ (\E l \in Limits : TopUp(l)) \/ (\E n \in wire : Lose(n))
           \/ UNCHANGED vars
  BY <1>4 DEF CutBasic, Consume, PanelLimits, TrafficReset, TopUp, Lose, vars,
              KindsOK, KindOK, At
<1> QED
  BY <1>1, <1>2, <1>3, <1>4 DEF Next

\* what is on its way tells the latest, or makes the panel do so
WireTells == \E n \in wire : Informs(n.kind, n.says)

TaskTells(p) ==
    \/ At(p, "job") /\ Informs(task[p].kind, task[p].says)
    \/ At(p, "forward") /\ task[p].says = SaidBy(panel)

(* Every change the panel announces is on the wire. *)
LEMMA AnnouncedIsOnTheWire ==
    ASSUME NEW pu, NEW kinds, NEW k \in kinds, Becomes(pu, kinds)
    PROVE  WireTells'
<1>1. panel' = pu /\ [kind |-> k, says |-> SaidBy(pu)] \in wire'
  BY DEF Becomes
<1>2. SaidBy(panel)' = SaidBy(pu)
  BY <1>1 DEF SaidBy
<1> DEFINE n == [kind |-> k, says |-> SaidBy(pu)]
<1>3. n.says = SaidBy(panel)' /\ n \in wire'
  BY <1>1, <1>2
<1> QED
  BY <1>3 DEF WireTells, Informs

(* A handler that does not move keeps what it will tell. *)
LEMMA StandsStill ==
    ASSUME NEW q \in Handler, task'[q] = task[q], TaskTells(q), SaidBy(panel)' = SaidBy(panel)
    PROVE  TaskTells(q)'
BY DEF TaskTells, At, Informs

\* BotWillHear
Hears == told \/ lost \/ WireTells \/ \E p \in Handler : TaskTells(p)

(* The steps of a handler keep the bot informed. *)
LEMMA WorkHears ==
    ASSUME TypeOK, KindsOK, Hears, NEW p \in Handler, Work(p) \/ WorkFails(p) \/ Repay(p)
    PROVE  Hears'
<1>1. KindOK(p)
  BY DEF KindsOK
<1>2. \A q \in Handler : q # p => task'[q] = task[q]
  BY DEF Work, WorkFails, Repay, Handle, HandleQuiet, AskPanel, EffectiveLimit, Forward,
         ResetTrafficFails, HandleFails, AskPanelFails, ForwardRetries, ForwardFails,
         AfterJob, Goto, TypeOK
\* what moves nothing but p, and p had nothing to tell or goes on telling it
<1>3. ASSUME UNCHANGED <<panel, wire>>, told => told', lost => lost',
             TaskTells(p) => TaskTells(p)' \/ told' \/ lost'
      PROVE  Hears'
  <2>1. SaidBy(panel)' = SaidBy(panel)
    BY <1>3 DEF SaidBy
  <2>2. WireTells => WireTells'
    BY <1>3, <2>1 DEF WireTells, Informs
  <2>3. ASSUME NEW q \in Handler, TaskTells(q) PROVE TaskTells(q)' \/ told' \/ lost'
    BY <1>2, <1>3, <2>1, <2>3, StandsStill
  <2> QED
    BY <1>3, <2>2, <2>3 DEF Hears
<1>4. CASE Handle(p)
  <2>1. \E pu : Becomes(pu, {"modified"}) \/ Becomes(pu, {"modified", "reset"})
    BY <1>4 DEF Handle, Carry
  <2> QED
    BY <2>1, AnnouncedIsOnTheWire DEF Hears
<1>5. CASE HandleQuiet(p)
  <2>1. task[p].kind \in Kinds \cup {"repay"}
    BY <1>1, <1>5, TaskFields DEF HandleQuiet, KindOK, At
  <2>2. task[p].kind = "modified"
    BY <1>5, <2>1, VerdictRange DEF HandleQuiet
  <2>3. Moves(p, With(p, "forward", task[p].says, task[p].tries))
    BY <1>5, <2>2, Shapes
  <2>4. With(p, "forward", task[p].says, task[p].tries) \in Task
    BY TaskFields, WithType
  <2>5. task'[p] = With(p, "forward", task[p].says, task[p].tries)
    BY <2>3, <2>4, MovesKeeps
  <2>6. TaskTells(p) => TaskTells(p)'
    BY <1>5, <2>2, <2>5 DEF TaskTells, Informs, HandleQuiet, At, With, SaidBy
  <2> QED
    BY <1>3, <1>5, <2>6 DEF HandleQuiet
<1>6. CASE AskPanel(p) \/ AskPanelFails(p) \/ EffectiveLimit(p) \/ Repay(p)
  <2>1. ~TaskTells(p)
    BY <1>6 DEF AskPanel, AskPanelFails, EffectiveLimit, Repay, TaskTells, At
  <2> QED
    BY <1>3, <1>6, <2>1 DEF AskPanel, AskPanelFails, EffectiveLimit, Repay
<1>7. CASE Forward(p) \/ ForwardFails(p)
  <2>1. At(p, "forward") /\ UNCHANGED <<panel, wire>>
    BY <1>7 DEF Forward, ForwardFails
  <2>2. \/ Deliver(p) /\ UNCHANGED lost
        \/ lost' = TRUE /\ UNCHANGED told
    BY <1>7 DEF Forward, ForwardFails
  <2>3. told => told'
    BY <2>2 DEF Deliver
  <2>4. lost => lost'
    BY <2>2
  <2>5. TaskTells(p) => told' \/ lost'
    BY <2>1, <2>2 DEF TaskTells, At, Deliver
  <2> QED
    BY <1>3, <2>1, <2>3, <2>4, <2>5
<1>8. CASE ForwardRetries(p)
  <2>1. With(p, "forward", task[p].says, task[p].tries + 1) \in Task
    BY TaskFields, WithType
  <2>2. task'[p] = With(p, "forward", task[p].says, task[p].tries + 1)
    BY <1>8, <2>1, Shapes, MovesKeeps
  <2>3. TaskTells(p) => TaskTells(p)'
    BY <1>8, <2>2 DEF TaskTells, ForwardRetries, At, With, SaidBy
  <2>4. told => told'
    BY <1>8 DEF ForwardRetries, Deliver
  <2> QED
    BY <1>3, <1>8, <2>3, <2>4 DEF ForwardRetries
<1>9. CASE ResetTrafficFails(p) \/ HandleFails(p)
  <2>1. (\E pu : Becomes(pu, {"modified"})) \/ lost' = TRUE
    BY <1>9 DEF ResetTrafficFails, HandleFails
  <2> QED
    BY <2>1, AnnouncedIsOnTheWire DEF Hears
<1> QED
  BY <1>4, <1>5, <1>6, <1>7, <1>8, <1>9 DEF Work, WorkFails

(* So does every step. *)
LEMMA HearsStep ==
    ASSUME TypeOK, KindsOK, Hears, [Next]_vars
    PROVE  Hears'
<1>1. ASSUME NEW p \in Handler, NEW n \in wire, Receive(p, n)
      PROVE  Hears'
  <2>1. n \in Notice
    BY DEF TypeOK
  <2>2. [kind |-> n.kind, pc |-> "job", says |-> n.says, tries |-> 0] \in Task
    BY <2>1 DEF Notice, Task
  <2>3. task'[p] = [kind |-> n.kind, pc |-> "job", says |-> n.says, tries |-> 0]
        /\ \A q \in Handler : q # p => task'[q] = task[q]
    BY <1>1, <2>2, Shapes, MovesKeeps
  <2>4. UNCHANGED <<panel, told, lost>> /\ wire' = wire \ {n} /\ ~TaskTells(p)
    BY <1>1 DEF Receive, TaskTells, At
  <2>5. SaidBy(panel)' = SaidBy(panel)
    BY <2>4 DEF SaidBy
  <2>6. Informs(n.kind, n.says) => TaskTells(p)'
    BY <2>3, <2>5 DEF Informs, TaskTells, At
  <2>7. WireTells => WireTells' \/ Informs(n.kind, n.says)
    BY <2>4, <2>5 DEF WireTells, Informs
  <2>8. ASSUME NEW q \in Handler, TaskTells(q) PROVE TaskTells(q)'
    BY <2>3, <2>4, <2>5, <2>8, StandsStill
  <2> QED
    BY <2>4, <2>6, <2>7, <2>8 DEF Hears
<1>2. CASE Consume
  <2>1. panel' = [panel EXCEPT !.used = @ + 1] /\ UNCHANGED <<task, lost, wire>>
        /\ told' = (told /\ SaidBy(panel') = SaidBy(panel))
    BY <1>2 DEF Consume, Becomes, TypeOK
  <2>2. SaidBy(panel)' = SaidBy(panel)
    BY <2>1 DEF SaidBy, TypeOK, PanelUser
  <2>3. \A q \in Handler : TaskTells(q) => TaskTells(q)'
    BY <2>1, <2>2, StandsStill
  <2>4. WireTells => WireTells'
    BY <2>1, <2>2 DEF WireTells, Informs
  <2> QED
    BY <2>1, <2>2, <2>3, <2>4 DEF Hears
<1>3. CASE CutBasic \/ PanelLimits \/ TrafficReset \/ (\E l \in Limits : TopUp(l))
  <2>1. \E pu, k : Becomes(pu, {k})
    BY <1>3 DEF CutBasic, PanelLimits, TrafficReset, TopUp
  <2> QED
    BY <2>1, AnnouncedIsOnTheWire DEF Hears
<1>4. CASE Crash
  <2>1. CASE \E p \in Handler : ~At(p, "idle")
    BY <1>4, <2>1 DEF Crash, Hears
  <2>2. CASE \A p \in Handler : At(p, "idle")
    BY <1>4, <2>2 DEF Crash, Hears, TaskTells, At, WireTells, Informs, SaidBy
  <2> QED
    BY <2>1, <2>2
<1>5. CASE \E n \in wire : Lose(n)
  BY <1>5 DEF Lose, Hears
<1>6. CASE UNCHANGED vars
  BY <1>6 DEF vars, Hears, TaskTells, At, WireTells, Informs, SaidBy
<1> QED
  BY <1>1, <1>2, <1>3, <1>4, <1>5, <1>6, WorkHears DEF Next

(* As long as nothing is dropped since the panel's last notice, the bot has been *)
(* told what the panel says, or something on its way will see to it.             *)
THEOREM BotHears == Spec => []BotWillHear
<1>1. Hears <=> BotWillHear
  BY DEF Hears, BotWillHear, WireTells, TaskTells
<1>2. Init => KindsOK /\ Hears
  BY DEF Init, KindsOK, KindOK, At, Idle, Hears
<1>3. TypeOK /\ KindsOK /\ Hears /\ [Next]_vars => KindsOK' /\ Hears'
  BY KindsStep, HearsStep
<1> QED
  BY <1>1, <1>2, <1>3, RelayTypes, PTL DEF Spec

-----------------------------------------------------------------------------
(* The first exhaustion of the quota is hidden *)

\* neither purchase nor reset so far
Early == paid = Plan /\ resets = 0

\* the user cannot run into a limit: he has none, or one he cannot come near
Shut == \/ panel.limit = 0
        \/ panel.limit = Ceiling /\ panel.used < Ceiling /\ Whitelist \notin panel.squads

NoticeEarly(n) == n.kind # "reset" /\ (n.kind = "modified" => n.says.status = "ACTIVE")

TaskEarly(p) ==
    /\ task[p].kind \notin {"reset", "repay"}
    /\ task[p].kind = "modified" => task[p].says.status = "ACTIVE"
    /\ task[p].kind = "limited" /\ task[p].pc \in {"ask", "limit", "forward"} => Shut
    /\ task[p].kind = "limited" /\ task[p].pc \in {"limit", "forward"}
          => task[p].says.status = "ACTIVE"

\* a cut-off user is shut, a user who is shut is ACTIVE, and no message says otherwise
Hidden ==
    /\ CutOff(row) => Shut
    /\ Shut => panel.status = "ACTIVE"
    /\ bot.status = "ACTIVE"
    /\ \A n \in wire : NoticeEarly(n)
    /\ \A p \in Handler : TaskEarly(p)

EarlyHidden == paid >= Plan /\ (Early => Hidden)

(* Whoever is shut needs no restore. *)
LEMMA ShutStaysCut ==
    ASSUME TypeOK, Shut
    PROVE  ~ShouldRestoreWhitelist(row, panel)
<1>1. ShouldRestoreWhitelist(row, panel) => 0 < panel.limit /\ panel.limit < Ceiling
  BY RestoreHonoursPurchase DEF TypeOK
<1> QED
  BY <1>1, CeilingAssumption DEF Shut

(* A block shuts the user and makes him ACTIVE. *)
LEMMA BlockShuts ==
    ASSUME TypeOK
    PROVE  /\ Patched(panel, BlockPatch(panel)).limit = 0
           /\ Patched(panel, BlockPatch(panel)).status = "ACTIVE"
BY NoneAssumption DEF Patched, BlockPatch, TypeOK, PanelUser

(* Of the user's handlers only the one that moves can break it. *)
LEMMA MoveHidden ==
    ASSUME TypeOK, EarlyHidden, NEW p \in Handler, NEW t \in Task, Moves(p, t),
           UNCHANGED <<paid, resets>>,
           Early => /\ CutOff(row') => Shut'
                    /\ Shut => Shut'
                    /\ Shut' => panel'.status = "ACTIVE"
                    /\ bot'.status = "ACTIVE"
                    /\ \A n \in wire' \ wire : NoticeEarly(n),
           Early => /\ t.kind \notin {"reset", "repay"}
                    /\ t.kind = "modified" => t.says.status = "ACTIVE"
                    /\ t.kind = "limited" /\ t.pc \in {"ask", "limit", "forward"} => Shut'
                    /\ t.kind = "limited" /\ t.pc \in {"limit", "forward"}
                          => t.says.status = "ACTIVE"
    PROVE  EarlyHidden'
<1> SUFFICES ASSUME Early PROVE Hidden'
  BY DEF EarlyHidden, Early
<1>1. Hidden
  BY DEF EarlyHidden
<1>2. task'[p] = t /\ \A q \in Handler : q # p => task'[q] = task[q]
  BY MovesKeeps
<1>3. TaskEarly(p)'
  BY <1>2 DEF TaskEarly
<1>4. ASSUME NEW q \in Handler, q # p PROVE TaskEarly(q)'
  BY <1>1, <1>2, <1>4 DEF Hidden, TaskEarly
<1>5. \A n \in wire' : NoticeEarly(n)
  BY <1>1 DEF Hidden
<1> QED
  BY <1>3, <1>4, <1>5 DEF Hidden, CutOff, NoticeEarly

(* A handler's step while neither purchase nor reset has happened. *)
LEMMA WorkHidden ==
    ASSUME TypeOK, KindsOK, EarlyHidden, NEW p \in Handler, Work(p) \/ WorkFails(p)
    PROVE  EarlyHidden'
<1>1. KindOK(p) /\ (Early => Hidden /\ TaskEarly(p))
  BY DEF KindsOK, EarlyHidden, Hidden
<1>2. /\ task[p].says \in Message /\ task[p].tries \in Nat /\ task[p].tries + 1 \in Nat
      /\ SaidBy(panel) \in Message /\ task[p].kind \in Kinds \cup {"none", "repay"}
      /\ Idle \in Task
  BY TaskFields, MessageType DEF TypeOK, Idle, Task
<1>3. ASSUME UNCHANGED <<panel, row, wire, paid, resets>>, NEW t \in Task, Moves(p, t),
             Early => /\ bot'.status = "ACTIVE"
                      /\ t.kind \notin {"reset", "repay"}
                      /\ t.kind = "modified" => t.says.status = "ACTIVE"
                      /\ t.kind = "limited" /\ t.pc \in {"ask", "limit", "forward"} => Shut
                      /\ t.kind = "limited" /\ t.pc \in {"limit", "forward"}
                            => t.says.status = "ACTIVE"
      PROVE  EarlyHidden'
  <2>1. (Shut' <=> Shut) /\ (CutOff(row') <=> CutOff(row)) /\ wire' \ wire = {}
        /\ panel'.status = panel.status
    BY <1>3 DEF Shut
  <2> QED
    BY <1>1, <1>3, <2>1, MoveHidden DEF Hidden
\* what the bot is told
<1>4. ASSUME At(p, "forward"), Deliver(p) \/ UNCHANGED bot
      PROVE  Early => bot'.status = "ACTIVE"
  <2>1. Early => task[p].says.status = "ACTIVE"
    BY <1>1, <1>2, <1>4 DEF TaskEarly, KindOK, At, Kinds
  <2>2. CASE Deliver(p)
    BY <1>1, <2>1, <2>2 DEF Deliver, Updated, Hidden
  <2> QED
    BY <1>1, <1>4, <2>2 DEF Hidden
<1>5. CASE Handle(p)
  <2>1. CASE task[p].kind = "limited"
    <3> DEFINE t == With(p, "ask", task[p].says, task[p].tries)
               pu == Patched(panel, BlockPatch(panel))
    <3>1. Verdict(task[p].kind) = "block"
      BY <2>1 DEF Verdict
    <3>2. Carry("block") /\ UNCHANGED <<bot, paid, resets>>
      BY <1>5, <3>1 DEF Handle
    <3>3. Becomes(pu, {"modified"})
      BY <3>2 DEF Carry, PatchFor
    <3>4. t \in Task /\ Moves(p, t)
      BY <1>2, <1>5, <2>1, Shapes, WithType
    <3>5. t.kind = "limited" /\ t.pc = "ask"
      BY <2>1 DEF With
    <3> HIDE DEF t
    <3>6. panel' = pu /\ wire' = wire \cup {[kind |-> "modified", says |-> SaidBy(pu)]}
      BY <3>3 DEF Becomes
    <3>7. panel'.limit = 0 /\ panel'.status = "ACTIVE"
      BY <3>6, BlockShuts
    <3>8. Shut'
      BY <3>7 DEF Shut
    <3>9. NoticeEarly([kind |-> "modified", says |-> SaidBy(pu)])
      BY BlockShuts DEF NoticeEarly, SaidBy
    <3>10. \A n \in wire' \ wire : NoticeEarly(n)
      BY <3>6, <3>9
    <3> HIDE DEF pu
    <3>11. Early => bot'.status = "ACTIVE"
      BY <1>1, <3>2 DEF Hidden
    <3> QED
      BY <3>2, <3>4, <3>5, <3>7, <3>8, <3>10, <3>11, MoveHidden
  <2>2. CASE task[p].kind # "limited"
    <3>1. task[p].kind \in {"modified", "reset", "repay"}
      BY <1>1, <1>2, <1>5, <2>2 DEF Handle, KindOK, At, Kinds
    <3>2. CASE Early
      <4>1. task[p].kind = "modified"
        BY <1>1, <3>1, <3>2 DEF TaskEarly
      <4>2. NeedsRestore(row, panel)
        BY <1>5, <4>1 DEF Handle, Verdict
      <4>3. Shut
        BY <1>1, <3>2, <4>2 DEF NeedsRestore, Hidden
      <4> QED
        BY <4>2, <4>3, ShutStaysCut DEF NeedsRestore
    <3>3. CASE ~Early
      BY <1>5, <3>3 DEF Handle, EarlyHidden, Early
    <3> QED
      BY <3>2, <3>3
  <2> QED
    BY <2>1, <2>2
<1>6. CASE HandleQuiet(p)
  <2>1. task[p].kind = "modified"
    BY <1>1, <1>2, <1>6, VerdictRange DEF HandleQuiet, KindOK, At
  <2>2. With(p, "forward", task[p].says, task[p].tries) \in Task
        /\ Moves(p, With(p, "forward", task[p].says, task[p].tries))
    BY <1>2, <1>6, <2>1, Shapes, WithType
  <2>3. Early => task[p].says.status = "ACTIVE" /\ bot'.status = "ACTIVE"
    BY <1>1, <1>6, <2>1 DEF HandleQuiet, TaskEarly, Hidden
  <2> QED
    BY <1>3, <1>6, <2>1, <2>2, <2>3 DEF HandleQuiet, With
<1>7. CASE ResetTrafficFails(p)
  <2>1. task[p].kind \in Kinds \cup {"repay"}
    BY <1>1, <1>2, <1>7 DEF ResetTrafficFails, KindOK, At
  <2>2. task[p].kind \in {"reset", "repay"}
    BY <1>7, <2>1, VerdictRange DEF ResetTrafficFails
  <2>3. ~Early
    BY <1>1, <2>2 DEF TaskEarly
  <2> QED
    BY <1>7, <2>3 DEF ResetTrafficFails, EarlyHidden, Early
<1>8. CASE HandleFails(p)
  <2>1. Moves(p, Idle) /\ UNCHANGED <<row, bot, paid, resets>>
    BY <1>8, Shapes DEF HandleFails
  <2>2. CASE UNCHANGED <<panel, wire>>
    BY <1>1, <1>2, <1>3, <2>1, <2>2 DEF Idle, Hidden
  <2>3. CASE Early /\ Verdict(task[p].kind) # "nothing"
             /\ Becomes(Patched(panel, PatchFor(Verdict(task[p].kind))), {"modified"})
    <3>1. task[p].kind \in {"modified", "limited"}
      BY <1>1, <1>2, <1>8, <2>3 DEF HandleFails, KindOK, At, Kinds, TaskEarly
    <3>2. task[p].kind = "limited"
      <4>1. NeedsRestore(row, panel) => Shut
        BY <1>1, <2>3 DEF NeedsRestore, Hidden
      <4>2. ~NeedsRestore(row, panel)
        BY <4>1, ShutStaysCut DEF NeedsRestore
      <4> QED
        BY <2>3, <3>1, <4>2 DEF Verdict
    <3> DEFINE pu == Patched(panel, BlockPatch(panel))
    <3>3. Becomes(pu, {"modified"})
      BY <2>3, <3>2 DEF Verdict, PatchFor
    <3>4. panel' = pu /\ wire' = wire \cup {[kind |-> "modified", says |-> SaidBy(pu)]}
      BY <3>3 DEF Becomes
    <3>5. panel'.limit = 0 /\ panel'.status = "ACTIVE"
      BY <3>4, BlockShuts
    <3>6. Shut'
      BY <3>5 DEF Shut
    <3>7. NoticeEarly([kind |-> "modified", says |-> SaidBy(pu)])
      BY BlockShuts DEF NoticeEarly, SaidBy
    <3>8. \A n \in wire' \ wire : NoticeEarly(n)
      BY <3>4, <3>7
    <3> HIDE DEF pu
    <3>9. Idle.kind = "none"
      BY DEF Idle
    <3> QED
      BY <1>1, <1>2, <2>1, <2>3, <3>5, <3>6, <3>8, <3>9, MoveHidden DEF Hidden
  <2>4. CASE ~Early
    BY <2>1, <2>4 DEF EarlyHidden, Early
  <2> QED
    BY <1>8, <2>2, <2>3, <2>4 DEF HandleFails
<1>9. CASE AskPanel(p)
  <2>1. task[p].kind = "limited" /\ task[p].pc = "ask" /\ UNCHANGED bot
    BY <1>1, <1>9 DEF AskPanel, KindOK, At
  <2>2. Early => Shut /\ SaidBy(panel).status = "ACTIVE" /\ bot'.status = "ACTIVE"
    BY <1>1, <2>1 DEF TaskEarly, Hidden, SaidBy
  <2>3. With(p, "limit", SaidBy(panel), task[p].tries) \in Task
        /\ Moves(p, With(p, "limit", SaidBy(panel), task[p].tries))
    BY <1>2, <1>9, Shapes, WithType
  <2> QED
    BY <1>3, <1>9, <2>1, <2>2, <2>3 DEF AskPanel, With
<1>10. CASE AskPanelFails(p)
  <2> DEFINE m == [status |-> "ACTIVE", limit |-> None]
  <2>1. task[p].kind = "limited" /\ task[p].pc = "ask" /\ UNCHANGED bot
    BY <1>1, <1>10 DEF AskPanelFails, KindOK, At
  <2>2. Early => Shut /\ bot'.status = "ACTIVE"
    BY <1>1, <2>1 DEF TaskEarly, Hidden
  <2>3. m \in Message /\ m.status = "ACTIVE"
    BY DEF Message, Status
  <2>4. With(p, "forward", m, task[p].tries) \in Task /\ Moves(p, With(p, "forward", m, task[p].tries))
    BY <1>2, <1>10, <2>3, Shapes, WithType
  <2> HIDE DEF m
  <2> QED
    BY <1>3, <1>10, <2>1, <2>2, <2>3, <2>4 DEF AskPanelFails, With
<1>11. CASE EffectiveLimit(p)
  <2>1. task[p].kind = "limited" /\ task[p].pc = "limit" /\ UNCHANGED bot
    BY <1>1, <1>11 DEF EffectiveLimit, KindOK, At
  <2>2. Early => Shut /\ task[p].says.status = "ACTIVE" /\ bot'.status = "ACTIVE"
    BY <1>1, <2>1 DEF TaskEarly, Hidden
  <2>3. PICK l \in Nat \cup {None} :
           Moves(p, With(p, "forward", [status |-> task[p].says.status, limit |-> l],
                         task[p].tries))
    BY <1>11, Shapes
  <2> DEFINE m == [status |-> task[p].says.status, limit |-> l]
  <2>4. m \in Message /\ m.status = task[p].says.status
    BY <1>2 DEF Message
  <2>5. With(p, "forward", m, task[p].tries) \in Task /\ Moves(p, With(p, "forward", m, task[p].tries))
    BY <1>2, <2>3, <2>4, WithType
  <2> HIDE DEF m
  <2> QED
    BY <1>3, <1>11, <2>1, <2>2, <2>4, <2>5 DEF EffectiveLimit, With
<1>12. CASE Forward(p) \/ ForwardFails(p)
  <2>1. /\ At(p, "forward") /\ (Deliver(p) \/ UNCHANGED bot)
        /\ UNCHANGED <<panel, row, wire, paid, resets>> /\ Moves(p, Idle)
    BY <1>12, Shapes DEF Forward, ForwardFails
  <2> QED
    BY <1>2, <1>3, <1>4, <2>1 DEF Idle
<1>13. CASE ForwardRetries(p)
  <2>1. /\ At(p, "forward") /\ (Deliver(p) \/ UNCHANGED bot)
        /\ UNCHANGED <<panel, row, wire, paid, resets>>
    BY <1>13 DEF ForwardRetries
  <2>2. With(p, "forward", task[p].says, task[p].tries + 1) \in Task
        /\ Moves(p, With(p, "forward", task[p].says, task[p].tries + 1))
    BY <1>2, <1>13, Shapes, WithType
  <2>3. Early => bot'.status = "ACTIVE"
    BY <1>4, <2>1
  <2> QED
    BY <1>1, <1>3, <2>1, <2>2, <2>3 DEF TaskEarly, With, At
<1> QED
  BY <1>5, <1>6, <1>7, <1>8, <1>9, <1>10, <1>11, <1>12, <1>13 DEF Work, WorkFails

(* The steps of the panel, the poller and the bot's sales. *)
LEMMA OthersHidden ==
    ASSUME TypeOK, EarlyHidden,
           CutBasic \/ Consume \/ PanelLimits \/ TrafficReset \/ (\E l \in Limits : TopUp(l))
    PROVE  EarlyHidden'
<1>1. /\ panel \in PanelUser /\ (Early => Hidden)
      /\ panel.limit \in Nat /\ panel.used \in Nat /\ Ceiling \in Nat /\ paid \in Nat
      /\ Plan \in Nat
  BY CeilingAssumption, RelayAssumption DEF EarlyHidden, TypeOK, PanelUser
\* what leaves tasks and bot alone and announces nothing untoward
<1>2. ASSUME UNCHANGED <<task, bot, paid, resets>>,
             Early => /\ CutOff(row') => CutOff(row)
                      /\ Shut => Shut'
                      /\ Shut' => panel'.status = "ACTIVE"
                      /\ \A n \in wire' \ wire : NoticeEarly(n)
      PROVE  EarlyHidden'
  <2>1. ASSUME Early PROVE Hidden'
    <3>1. Hidden /\ task' = task /\ bot' = bot
      BY <1>1, <1>2, <2>1
    <3>2. ASSUME NEW q \in Handler PROVE TaskEarly(q)'
      BY <1>2, <2>1, <3>1 DEF Hidden, TaskEarly
    <3>3. \A n \in wire' : NoticeEarly(n)
      BY <1>2, <2>1, <3>1 DEF Hidden
    <3>4. CutOff(row)' => Shut'
      BY <1>2, <2>1, <3>1 DEF Hidden, CutOff
    <3> QED
      BY <1>2, <2>1, <3>1, <3>2, <3>3, <3>4 DEF Hidden, NoticeEarly
  <2> QED
    BY <1>2, <2>1 DEF EarlyHidden, Early
<1>3. CASE CutBasic
  <2> DEFINE pu == Patched(panel, BasicPatch(panel))
  <2>1. /\ pu.status = "ACTIVE" /\ pu.limit = panel.limit /\ pu.used = panel.used
        /\ pu.squads = panel.squads \ {Basic}
    BY <1>1 DEF Patched, BasicPatch, DropSquads, PanelUser
  <2>2. panel' = pu /\ wire' = wire \cup {[kind |-> "modified", says |-> SaidBy(pu)]}
    BY <1>3 DEF CutBasic, Becomes
  <2>3. NoticeEarly([kind |-> "modified", says |-> SaidBy(pu)])
    BY <2>1 DEF NoticeEarly, SaidBy
  <2>4. row'.wl = row.wl
    <3>1. [row EXCEPT !.over = TRUE] \in Row /\ [row EXCEPT !.over = TRUE].wl = row.wl
      BY DEF TypeOK, Row
    <3>2. \A r \in Row : BasicRow(r).wl = r.wl
      BY DEF BasicRow, Row
    <3> QED
      BY <1>3, <3>1, <3>2 DEF CutBasic
  <2> HIDE DEF pu
  <2>5. Shut => Shut'
    BY <2>1, <2>2 DEF Shut
  <2> QED
    BY <1>2, <1>3, <2>1, <2>2, <2>3, <2>4, <2>5 DEF CutBasic, CutOff
<1>4. CASE Consume
  <2>1. /\ panel' = [panel EXCEPT !.used = @ + 1] /\ wire' = wire
        /\ Whitelist \in panel.squads
    BY <1>4 DEF Consume, Becomes
  <2>2. /\ panel'.limit = panel.limit /\ panel'.squads = panel.squads
        /\ panel'.status = panel.status
    BY <1>1, <2>1 DEF PanelUser
  <2>3. Shut' <=> Shut
    BY <2>1, <2>2 DEF Shut
  <2> QED
    BY <1>1, <1>2, <1>4, <2>1, <2>2, <2>3 DEF Consume, Hidden
<1>5. CASE PanelLimits
  <2> DEFINE pu == [panel EXCEPT !.status = "LIMITED"]
  <2>1. panel' = pu /\ wire' = wire \cup {[kind |-> "limited", says |-> SaidBy(pu)]}
    BY <1>5 DEF PanelLimits, Becomes
  <2>2. pu.limit = panel.limit /\ pu.squads = panel.squads /\ pu.used = panel.used
    BY <1>1 DEF PanelUser
  <2>3. ~Shut
    BY <1>1, <1>5 DEF PanelLimits, Shut
  <2>4. ~Shut'
    BY <2>1, <2>2, <2>3 DEF Shut
  <2>5. NoticeEarly([kind |-> "limited", says |-> SaidBy(pu)])
    BY DEF NoticeEarly
  <2> HIDE DEF pu
  <2> QED
    BY <1>2, <1>5, <2>1, <2>3, <2>4, <2>5 DEF PanelLimits
<1>6. CASE TrafficReset
  <2>1. resets' # 0 /\ UNCHANGED paid
    BY <1>6 DEF TrafficReset, TypeOK
  <2> QED
    BY <2>1 DEF EarlyHidden, Early
<1>7. ASSUME NEW l \in Limits, TopUp(l) PROVE EarlyHidden'
  <2>1. l \in Nat /\ paid' = l /\ l > paid
    BY <1>7, RelayAssumption DEF TopUp
  <2>2. paid' # Plan /\ paid' >= Plan
    BY <1>1, <2>1 DEF EarlyHidden
  <2> QED
    BY <2>2 DEF EarlyHidden, Early
<1> QED
  BY <1>3, <1>4, <1>5, <1>6, <1>7

(* Every step. *)
LEMMA HiddenStep ==
    ASSUME TypeOK, KindsOK, EarlyHidden, [Next]_vars
    PROVE  EarlyHidden'
<1>1. ASSUME NEW p \in Handler, Repay(p) PROVE EarlyHidden'
  <2>1. resets' # 0 /\ UNCHANGED paid
    BY <1>1 DEF Repay, TypeOK
  <2> QED
    BY <2>1 DEF EarlyHidden, Early
<1>2. ASSUME NEW p \in Handler, NEW n \in wire, Receive(p, n) PROVE EarlyHidden'
  <2> DEFINE t == [kind |-> n.kind, pc |-> "job", says |-> n.says, tries |-> 0]
  <2>1. n \in Notice
    BY DEF TypeOK
  <2>2. t \in Task /\ Moves(p, t)
    BY <1>2, <2>1, Shapes DEF Notice, Task
  <2>3. UNCHANGED <<panel, row, bot, paid, resets>> /\ wire' \ wire = {}
    BY <1>2 DEF Receive
  <2>4. (Shut' <=> Shut) /\ panel'.status = panel.status /\ (CutOff(row') <=> CutOff(row))
    BY <2>3 DEF Shut
  <2>5. Early => Hidden /\ NoticeEarly(n)
    BY DEF EarlyHidden, Hidden
  <2>6. t.kind = n.kind /\ t.says = n.says /\ t.pc = "job" /\ n.kind # "repay"
    BY <2>1 DEF Notice
  <2> HIDE DEF t
  <2> QED
    BY <2>2, <2>3, <2>4, <2>5, <2>6, MoveHidden DEF Hidden, NoticeEarly
<1>3. ASSUME NEW n \in wire, Lose(n) PROVE EarlyHidden'
  BY <1>3 DEF Lose, EarlyHidden, Early, Hidden, Shut, TaskEarly, NoticeEarly, CutOff
<1>4. CASE Crash
  BY <1>4 DEF Crash, Idle, EarlyHidden, Early, Hidden, Shut, TaskEarly, NoticeEarly, CutOff
<1>5. CASE UNCHANGED vars
  BY <1>5 DEF vars, EarlyHidden, Early, Hidden, Shut, TaskEarly, NoticeEarly, CutOff
<1> QED
  BY <1>1, <1>2, <1>3, <1>4, <1>5, WorkHidden, OthersHidden DEF Next

(* The user starts with his plan, or shut. *)
LEMMA HiddenInit ==
    ASSUME Init
    PROVE  EarlyHidden
<1>1. /\ Plan \in Nat \ {0} /\ Plan < Ceiling /\ Ceiling \in Nat
      /\ Basic # Whitelist
  BY RelayAssumption, CeilingAssumption, SquadAssumption
<1>2. (CutOff(row) => Shut) /\ panel.status = "ACTIVE"
  BY <1>1 DEF Init, CutOff, Shut, DefaultRow
<1>3. bot.status = "ACTIVE"
  BY <1>2 DEF Init, SaidBy
<1> QED
  BY <1>1, <1>2, <1>3 DEF Init, Idle, EarlyHidden, Hidden, TaskEarly

(* As long as nothing was bought and nothing reset, the bot is never told LIMITED. *)
THEOREM FirstHidden == Spec => []FirstLimitIsHidden
<1>1. Init => KindsOK /\ EarlyHidden
  <2>1. Init => KindsOK
    BY DEF Init, KindsOK, KindOK, At, Idle
  <2> QED
    BY <2>1, HiddenInit
<1>2. TypeOK /\ KindsOK /\ EarlyHidden /\ [Next]_vars => KindsOK' /\ EarlyHidden'
  BY KindsStep, HiddenStep
<1>3. EarlyHidden => FirstLimitIsHidden
  BY DEF EarlyHidden, Early, Hidden, FirstLimitIsHidden
<1> QED
  BY <1>1, <1>2, <1>3, RelayTypes, PTL DEF Spec

=============================================================================
