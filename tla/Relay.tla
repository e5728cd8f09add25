-------------------------------- MODULE Relay --------------------------------
(***************************************************************************)
(* What the bot is told of a user: Handle and Repay (engine/dispatch.go),  *)
(* the relay (engine/relay.go) and its HTTP side (internal/botrelay).      *)
(*                                                                         *)
(* A webhook is handled by a goroutine of its own: the job on the user,    *)
(* one step here (module Engine has its steps), and then, with the user's  *)
(* mutex released, the relay.  A user.modified or user.traffic_reset is    *)
(* forwarded with the payload it came with, i.e. with what the panel said  *)
(* when it sent it.  A user.limited is replaced by a user.modified with    *)
(* what the panel says when the relay asks it.                             *)
(*                                                                         *)
(* One user: users share nothing here.  Of a payload the status and the    *)
(* limit are kept, and the bot takes over what a payload carries; the      *)
(* events the service makes up lack one or both.                           *)
(***************************************************************************)
EXTENDS Decisions

CONSTANTS
    Handler,          \* goroutines of webhooks and repay requests
    Plan, Limits,     \* the limit the user starts with, those the bot sells
    Cycle,            \* the strategy the user starts with
    MaxUsed, MaxResets, MaxFaults, MaxAttempts   \* bounds; forwardWithRetry has 2 attempts

ASSUME RelayAssumption ==
    /\ Plan \in Nat \ {0} /\ Plan < Ceiling
    /\ Limits \subseteq {l \in Nat : 0 < l /\ l < Ceiling}
    /\ Cycle \in Strategy
    /\ MaxUsed \in Nat /\ MaxResets \in Nat /\ MaxFaults \in Nat
    /\ MaxAttempts \in Nat \ {0}

VARIABLES
    panel, row,  \* the panel user and the user's row
    wire,        \* notices of the panel on their way
    task,        \* [Handler -> what it is doing]
    bot,         \* what the bot believes
    told,        \* ghost: the bot has been told what the panel says now
    paid,        \* ghost: the limit the user has paid for
    resets,      \* resets from outside so far
    lost,        \* ghost: something was dropped since the panel last gave notice
    faults

vars == <<panel, row, wire, task, bot, told, paid, resets, lost, faults>>

Status == {"ACTIVE", "LIMITED"}

\* what the panel says of the user
SaidBy(pu) == [status |-> pu.status, limit |-> pu.limit]

Message == [status : Status \cup {None}, limit : Nat \cup {None}]

Silent == [status |-> None, limit |-> None]

Notice == [kind : {"limited", "modified", "reset"}, says : Message]

Task == [kind : {"none", "limited", "modified", "reset", "repay"},
         pc : {"idle", "job", "ask", "limit", "forward"},
         says : Message, tries : Nat]

Idle == [kind |-> "none", pc |-> "idle", says |-> Silent, tries |-> 0]

\* with his plan, or blocked by an older version under a Plan-B limit
Init ==
    /\ \/ /\ panel = [status |-> "ACTIVE", squads |-> {Basic, Whitelist}, limit |-> Plan,
                      used |-> 0, strategy |-> Cycle]
          /\ row = DefaultRow
       \/ /\ panel = [status |-> "ACTIVE", squads |-> {Basic}, limit |-> Ceiling,
                      used |-> Plan, strategy |-> NoReset]
          /\ row = [DefaultRow EXCEPT !.wl = "blocked", !.orig = Plan, !.strategy = Cycle]
    /\ wire = {}
    /\ task = [p \in Handler |-> Idle]
    /\ bot = SaidBy(panel) /\ told = TRUE
    /\ paid = Plan /\ resets = 0
    /\ lost = FALSE /\ faults = 0

At(p, pc) == task[p].pc = pc
Goto(p, pc) == task' = [task EXCEPT ![p].pc = pc]
Fault == faults < MaxFaults /\ faults' = faults + 1

\* a new panel user; the notices of kinds carry what he is like now
Becomes(pu, kinds) ==
    /\ panel' = pu
    /\ wire' = wire \cup {[kind |-> k, says |-> SaidBy(pu)] : k \in kinds}
    /\ told' = (told /\ SaidBy(pu) = SaidBy(panel))
    /\ lost' = (lost /\ kinds = {})

-----------------------------------------------------------------------------
(* The job *)

Receive(p, n) ==
    /\ At(p, "idle") /\ n \in wire
    /\ wire' = wire \ {n}
    /\ task' = [task EXCEPT ![p] = [kind |-> n.kind, pc |-> "job", says |-> n.says, tries |-> 0]]
    /\ UNCHANGED <<panel, row, bot, told, paid, resets, lost, faults>>

\* POST /admin/repay: what it tells the bot has no payload
Repay(p) ==
    /\ At(p, "idle") /\ resets < MaxResets
    /\ resets' = resets + 1
    /\ task' = [task EXCEPT ![p] = [Idle EXCEPT !.kind = "repay", !.pc = "job"]]
    /\ UNCHANGED <<panel, row, wire, bot, told, paid, lost, faults>>

Verdict(kind) ==
    CASE kind = "limited" -> "block"
      [] kind \in {"reset", "repay"} -> "reset"
      [] kind = "modified" /\ NeedsRestore(row, panel) -> "restore"
      [] OTHER -> "nothing"

PatchFor(verdict) ==
    CASE verdict = "block" -> BlockPatch(panel)
      [] verdict = "restore" -> RestorePatch(row, panel)
      [] verdict = "reset" -> ResetPatch(row, panel)

RowFor(verdict) ==
    CASE verdict = "block" ->
            BlockedRow(Preserve(IF row.wl = "active" THEN Capture(row, panel) ELSE row, panel))
      [] verdict = "restore" -> RestoredRow(row)
      [] verdict = "reset" -> ResetRow(row)

\* the panel takes the PATCH, and the reset-traffic call of a reset
Carry(verdict) ==
    LET pu == Patched(panel, PatchFor(verdict))
    IN  IF verdict = "reset"
        THEN Becomes([pu EXCEPT !.used = 0], {"modified", "reset"})
        ELSE Becomes(pu, {"modified"})

\* Faulty variants stand in front of the definition they are a mistake in.  No
\* specification uses them; each is noticed by a property.
AfterJob_ForwardsLimited(p) == Goto(p, "forward")

\* never the raw user.limited
AfterJob(p) == Goto(p, IF task[p].kind = "limited" THEN "ask" ELSE "forward")

\* Handle's order: the job, then the relay
Handle(p) ==
    /\ At(p, "job") /\ Verdict(task[p].kind) # "nothing"
    /\ Carry(Verdict(task[p].kind))
    /\ row' = RowFor(Verdict(task[p].kind))
    /\ AfterJob(p)
    /\ UNCHANGED <<bot, paid, resets, faults>>

HandleQuiet_Ends(p) ==
    /\ At(p, "job") /\ Verdict(task[p].kind) = "nothing"
    /\ task' = [task EXCEPT ![p] = Idle]
    /\ UNCHANGED <<panel, row, wire, bot, told, paid, resets, lost, faults>>

\* a user.modified that asks for no restore is relayed all the same
HandleQuiet(p) ==
    /\ At(p, "job") /\ Verdict(task[p].kind) = "nothing"
    /\ AfterJob(p)
    /\ UNCHANGED <<panel, row, wire, bot, told, paid, resets, lost, faults>>

\* reset-traffic fails: a warning
ResetTrafficFails(p) ==
    /\ At(p, "job") /\ Verdict(task[p].kind) = "reset" /\ Fault
    /\ Becomes(Patched(panel, PatchFor("reset")), {"modified"})
    /\ row' = ResetRow(row)
    /\ AfterJob(p)
    /\ UNCHANGED <<bot, paid, resets>>

\* the job returns an error, the PATCH may have been taken: nothing is relayed
HandleFails(p) ==
    /\ At(p, "job") /\ Fault
    /\ \/ lost' = TRUE /\ UNCHANGED <<panel, wire, told>>
       \/ /\ Verdict(task[p].kind) # "nothing"
          /\ Becomes(Patched(panel, PatchFor(Verdict(task[p].kind))), {"modified"})
    /\ task' = [task EXCEPT ![p] = Idle]
    /\ UNCHANGED <<row, bot, paid, resets>>

-----------------------------------------------------------------------------
(* The relay *)

\* relayUserModifiedActive loads the user
AskPanel(p) ==
    /\ At(p, "ask")
    /\ task' = [task EXCEPT ![p].says = SaidBy(panel), ![p].pc = "limit"]
    /\ UNCHANGED <<panel, row, wire, bot, told, paid, resets, lost, faults>>

\* "cannot load panel user; forwarding minimal event"
AskPanelFails(p) ==
    /\ At(p, "ask") /\ Fault
    /\ task' = [task EXCEPT ![p].says = [Silent EXCEPT !.status = "ACTIVE"],
                            ![p].pc = "forward"]
    /\ UNCHANGED <<panel, row, wire, bot, told, paid, resets, lost>>

\* effectiveLimitForRelay, with the original limit of the row as it is by now
EffectiveLimit(p) ==
    /\ At(p, "limit")
    /\ task' = [task EXCEPT ![p].says.limit = IF IsPlanB(@) THEN OrigOf(row) ELSE @,
                            ![p].pc = "forward"]
    /\ UNCHANGED <<panel, row, wire, bot, told, paid, resets, lost, faults>>

Updated(b, m) == [status |-> IF m.status = None THEN b.status ELSE m.status,
                  limit  |-> IF m.limit = None THEN b.limit ELSE m.limit]

\* the bot takes the message
Deliver(p) ==
    /\ bot' = Updated(bot, task[p].says)
    /\ told' = (told \/ task[p].says = SaidBy(panel))

Forward(p) ==
    /\ At(p, "forward")
    /\ Deliver(p)
    /\ task' = [task EXCEPT ![p] = Idle]
    /\ UNCHANGED <<panel, row, wire, paid, resets, lost, faults>>

\* the bot may have taken the message all the same
ForwardRetries(p) ==
    /\ At(p, "forward") /\ task[p].tries + 1 < MaxAttempts /\ Fault
    /\ Deliver(p) \/ UNCHANGED <<bot, told>>
    /\ task' = [task EXCEPT ![p].tries = @ + 1]
    /\ UNCHANGED <<panel, row, wire, paid, resets, lost>>

\* after the last attempt, or when a repay request is cancelled
ForwardFails(p) ==
    /\ At(p, "forward")
    /\ task[p].tries + 1 = MaxAttempts \/ task[p].kind = "repay"
    /\ IF task[p].tries > 0 THEN UNCHANGED faults ELSE Fault   \* an outage counts once
    /\ \/ Deliver(p) /\ UNCHANGED lost
       \/ lost' = TRUE /\ UNCHANGED <<bot, told>>
    /\ task' = [task EXCEPT ![p] = Idle]
    /\ UNCHANGED <<panel, row, wire, paid, resets>>

Work(p) ==
    Handle(p) \/ HandleQuiet(p) \/ AskPanel(p) \/ EffectiveLimit(p) \/ Forward(p)

WorkFails(p) ==
    \/ ResetTrafficFails(p) \/ HandleFails(p) \/ AskPanelFails(p)
    \/ ForwardRetries(p) \/ ForwardFails(p)

-----------------------------------------------------------------------------
(* The poller, the panel, the bot's sales and the network *)

\* BlockBasicIfOverLimit: nothing is relayed, but the panel announces its PATCH
CutBasic ==
    /\ row.basic = "active"
    /\ row' = BasicRow([row EXCEPT !.over = TRUE])
    /\ Becomes(Patched(panel, BasicPatch(panel)), {"modified"})
    /\ UNCHANGED <<task, bot, paid, resets, faults>>

Consume ==
    /\ panel.status = "ACTIVE" /\ Whitelist \in panel.squads /\ panel.used < MaxUsed
    /\ Becomes([panel EXCEPT !.used = @ + 1], {})
    /\ UNCHANGED <<row, task, bot, paid, resets, faults>>

PanelLimits ==
    /\ panel.status = "ACTIVE" /\ panel.limit > 0 /\ panel.used >= panel.limit
    /\ Becomes([panel EXCEPT !.status = "LIMITED"], {"limited"})
    /\ UNCHANGED <<row, task, bot, paid, resets, faults>>

TrafficReset ==
    /\ resets < MaxResets /\ resets' = resets + 1
    /\ Becomes([panel EXCEPT !.used = 0, !.status = "ACTIVE"], {"reset"})
    /\ UNCHANGED <<row, task, bot, paid, faults>>

TopUp(l) ==
    /\ l > paid /\ paid' = l
    /\ Becomes([panel EXCEPT !.limit = l, !.squads = @ \cup {Whitelist}, !.status = "ACTIVE"],
               {"modified"})
    /\ UNCHANGED <<row, task, bot, resets, faults>>

Lose(n) ==
    /\ n \in wire /\ Fault
    /\ wire' = wire \ {n} /\ lost' = TRUE
    /\ UNCHANGED <<panel, row, task, bot, told, paid, resets>>

Crash ==
    /\ Fault
    /\ task' = [p \in Handler |-> Idle]
    /\ lost' = (lost \/ \E p \in Handler : ~At(p, "idle"))
    /\ UNCHANGED <<panel, row, wire, bot, told, paid, resets>>

Next ==
    \/ \E p \in Handler : Work(p) \/ WorkFails(p) \/ Repay(p)
    \/ \E p \in Handler, n \in wire : Receive(p, n)
    \/ \E l \in Limits : TopUp(l)
    \/ \E n \in wire : Lose(n)
    \/ CutBasic \/ Consume \/ PanelLimits \/ TrafficReset \/ Crash

Spec == Init /\ [][Next]_vars

-----------------------------------------------------------------------------
(* The values the variables range over. *)
TypeOK ==
    /\ panel \in PanelUser /\ row \in Row
    /\ wire \in SUBSET Notice
    /\ task \in [Handler -> Task]
    /\ bot \in [status : Status, limit : Nat]
    /\ told \in BOOLEAN /\ lost \in BOOLEAN
    /\ paid \in Nat /\ resets \in 0..MaxResets /\ faults \in 0..MaxFaults

\* this notice will be relayed as it is, or its job makes the panel send another
Informs(kind, says) == kind # "modified" \/ says = SaidBy(panel)

(* "so the bot stays in sync": as long as the bot has not been told what the     *)
(* panel says now, a notice or a job is on its way that will tell it or have the *)
(* panel announce the user once more, unless something was dropped since the     *)
(* panel's last notice.  It is the echo of every PATCH as user.modified and its  *)
(* unconditional relay that see to it, not the relay of user.limited.            *)
BotWillHear ==
    \/ told \/ lost
    \/ \E n \in wire : Informs(n.kind, n.says)
    \/ \E p \in Handler :
          \/ At(p, "job") /\ Informs(task[p].kind, task[p].says)
          \/ At(p, "forward") /\ task[p].says = SaidBy(panel)

(* "never let the bot see a raw user.limited": the first exhaustion of the quota *)
(* never reaches the bot as LIMITED, whatever is delayed, repeated or lost.      *)
(* After a purchase or a reset it can: the relay of an earlier user.limited then *)
(* may ask the panel just when it has made the user LIMITED again.               *)
FirstLimitIsHidden == paid = Plan /\ resets = 0 => bot.status = "ACTIVE"
=============================================================================
