----------------------------- MODULE AlertRules -----------------------------
(***************************************************************************)
(* Custom alert rules (ADR-0086): the rule cycle of                        *)
(* backend/workers/alert_rules_pipeline.py, the escalation cycle, the      *)
(* acknowledgement, and the API requests that edit the rule's tables while *)
(* those cycles run.  Sending the AlertDelivery rows is AlertDelivery.tla. *)
(*                                                                         *)
(* A cycle is one database transaction (workers/db.py::session_scope): it  *)
(* reads rows as it goes, its writes are invisible until it commits, and a *)
(* crash, the 300 s time limit or a failed flush drops them all.  `work'   *)
(* and `esc' hold that uncommitted state.                                  *)
(***************************************************************************)
EXTENDS Integers, FiniteSets

CONSTANTS
    Rules, Events, Recipients, Channels, Steps,   \* identities (UUIDs)
    Workers, Escalators, \* executions of run_alert_rules_task, run_alert_escalation_task
    RuleOf, ChannelOf, \* immutable columns of alert_recipients
    EnabledRecipients, EnabledChannels, \* `enabled', never edited once created
    StepRule, StepRecipient, StepDelay, \* immutable columns of alert_escalations
    Cooldowns, Windows,\* values the API may write in a rule
    Day,               \* ticks in a day
    Overlap,           \* may two executions of the same task run at once?
    None,              \* SQL NULL, and the absence of a row
    MaxTime, MaxNotices, MaxRequests \* bounds: clock, transitions of one event, API requests

NoTime == -1
Time == 0 .. MaxTime

ASSUME ConstantsAssumption ==
    /\ MaxTime \in Nat /\ MaxNotices \in Nat \ {0, 1} /\ MaxRequests \in Nat /\ Day \in Nat \ {0}
    /\ Overlap \in BOOLEAN /\ Rules # {}
    /\ RuleOf \in [Recipients -> Rules] /\ ChannelOf \in [Recipients -> Channels]
    /\ EnabledRecipients \subseteq Recipients /\ EnabledChannels \subseteq Channels
    /\ StepRule \in [Steps -> Rules] /\ StepRecipient \in [Steps -> Recipients]
    /\ StepDelay \in [Steps -> Nat]
    /\ Cooldowns \subseteq Nat
    /\ Windows \subseteq [start : Nat, end : Nat] \cup {None}
    /\ Workers \cap Escalators = {}

VARIABLES
    now,        \* the wall clock
    requests,   \* API requests left
    holds,      \* rules whose location's metrics satisfy the conditions (the world)
    rules,      \* alert_rules, with "has a condition" and the location's is_active
    recipients, channels, steps, \* the rows that exist
    events,     \* alert_events, with the kind of the Alert it bridges to
    acked,      \* alert_acknowledgements: event -> acknowledged_at
    deliveries, \* alert_deliveries, as created
    work,       \* the rule cycles in flight
    esc         \* the escalation cycles in flight

config == <<requests, rules, recipients, channels, steps>>
vars == <<now, holds, config, events, acked, deliveries, work, esc>>

-----------------------------------------------------------------------------
(* Rows *)

Statuses == {"open", "updated", "closed"}

RuleRow == [enabled : BOOLEAN, conds : BOOLEAN, active : BOOLEAN, cooldown : Nat,
            quiet : [start : Nat, end : Nat] \cup {None}, lastFired : Time \cup {NoTime}]

EventRow == [rule : Rules, status : Statuses, openedAt : Time, updatedAt : Time,
             closedAt : Time \cup {NoTime}, notice : Statuses, nth : 1 .. MaxNotices]

DeliveryRow == [event : Events, recipient : Recipients, kind : Statuses,
                nth : 1 .. MaxNotices, by : Workers \cup Escalators, at : Time]

\* A transition the cycle has flushed: new status, the status it loaded.
WriteRow == [rule : Rules, kind : Statuses, from : Statuses \cup {None}]

ASSUME NoneIsNoRow ==
    /\ None \notin RuleRow /\ None \notin EventRow /\ None \notin WriteRow
    /\ None \notin Statuses /\ None \notin Events /\ None \notin Rules

Exists(r) == rules[r] # None
EventExists(e) == events[e] # None
IsOpen(e) == EventExists(e) /\ events[e].status # "closed"
\* Mutant: the query for the open event reads only status OPEN.
OpenEvents_OnlyOpened(r) ==
    {e \in Events : EventExists(e) /\ events[e].status = "open" /\ events[e].rule = r}

OpenEvents(r) == {e \in Events : IsOpen(e) /\ events[e].rule = r}

-----------------------------------------------------------------------------
(* engine/alert_rules.py *)

IsWithinQuietHours(t, quiet) ==
    /\ quiet # None
    /\ IF quiet.start <= quiet.end
          THEN quiet.start <= t /\ t < quiet.end
          ELSE t >= quiet.start \/ t < quiet.end

IsInCooldown(lastFired, t, cooldown) ==
    /\ lastFired # NoTime
    /\ cooldown > 0
    /\ t - lastFired < cooldown

\* evaluate_conditions: no condition never matches.
Matches(r) == Exists(r) /\ rules[r].conds /\ r \in holds

-----------------------------------------------------------------------------
(* The rule cycle *)

NoWrites == [e \in Events |-> None]

\* `lost' marks a cycle that a failure took something from, until the next one.
IdleWorker == [pc |-> "idle", at |-> 0, todo |-> {}, seen |-> [r \in Rules |-> None],
               rule |-> None, event |-> None, kind |-> None,
               writes |-> NoWrites, rows |-> {}, poisoned |-> FALSE, lost |-> FALSE]

Idle(w) == work[w].pc = "idle"
Touched(w) == {work[w].writes[e].rule : e \in {f \in Events : work[w].writes[f] # None}}
\* Mutant: last_fired_at set only when an event opens.
Fired_OnlyOpening(w) == {work[w].writes[e].rule :
                            e \in {f \in Events : /\ work[w].writes[f] # None
                                                  /\ work[w].writes[f].kind = "open"}}

Fired(w) == {work[w].writes[e].rule :
                e \in {f \in Events : /\ work[w].writes[f] # None
                                      /\ work[w].writes[f].kind # "closed"}}

\* The enabled rules are loaded once: what the cycle knows of a rule, its
\* cooldown and last_fired_at included, is what it read here.
CycleStart(w) ==
    /\ Idle(w)
    /\ Overlap \/ \A v \in Workers : Idle(v)
    /\ work' = [work EXCEPT ![w] = [IdleWorker EXCEPT
          !.pc = "next", !.at = now, !.seen = rules,
          !.todo = {r \in Rules : Exists(r) /\ rules[r].enabled}]]
    /\ UNCHANGED <<now, holds, config, events, acked, deliveries, esc>>

\* Mutants: the cooldown guards only the opening; an updated event never closes.
Decision_CooldownOnOpenOnly(w, r, e) ==
    LET row == work[w].seen[r] IN
    IF ~row.active \/ IsWithinQuietHours(work[w].at % Day, row.quiet) THEN None
    ELSE IF Matches(r)
         THEN IF e = None
              THEN IF IsInCooldown(row.lastFired, work[w].at, row.cooldown) THEN None ELSE "open"
              ELSE "updated"
         ELSE IF e = None THEN None ELSE "closed"

Decision_ClosesOnlyOpened(w, r, e) ==
    LET row == work[w].seen[r] IN
    IF ~row.active \/ IsWithinQuietHours(work[w].at % Day, row.quiet) THEN None
    ELSE IF Matches(r)
         THEN IF IsInCooldown(row.lastFired, work[w].at, row.cooldown) THEN None
              ELSE IF e = None THEN "open" ELSE "updated"
         ELSE IF e # None /\ events[e].status = "open" THEN "closed" ELSE None

\* _evaluate_one_rule up to the decision: early returns, then conditions and
\* open event read from the tables as they are by now.
Decision(w, r, e) ==
    LET row == work[w].seen[r] IN
    IF ~row.active \/ IsWithinQuietHours(work[w].at % Day, row.quiet) THEN None
    ELSE IF Matches(r)
         THEN IF IsInCooldown(row.lastFired, work[w].at, row.cooldown) THEN None
              ELSE IF e = None THEN "open" ELSE "updated"
         ELSE IF e = None THEN None ELSE "closed"

\* An identity no row has and no cycle in flight refers to.
FreshEvent(e) ==
    /\ ~EventExists(e)
    /\ \A v \in Workers : work[v].writes[e] = None /\ work[v].event # e
    /\ \A x \in Escalators : esc[x].todo[e] = None /\ \A row \in esc[x].rows : row.event # e

\* Bounds: an event identity is left to open, the event has notices left.
Room(kind, e) == /\ kind = "open" => \E f \in Events : FreshEvent(f)
                 /\ kind = "updated" => events[e].nth + 1 < MaxNotices

Decide(w, r) ==
    /\ work[w].pc = "next" /\ ~work[w].poisoned
    /\ r \in work[w].todo
    /\ \E e \in IF OpenEvents(r) = {} THEN {None} ELSE OpenEvents(r) :
         LET kind == Decision(w, r, e) IN
         /\ Room(kind, e)
         /\ work' = [work EXCEPT ![w].todo = @ \ {r},
                                 ![w].pc = IF kind = None THEN "next" ELSE "write",
                                 ![w].rule = IF kind = None THEN None ELSE r,
                                 ![w].event = IF kind = None THEN None ELSE e,
                                 ![w].kind = IF kind = None THEN None ELSE kind]
    /\ UNCHANGED <<now, holds, config, events, acked, deliveries, esc>>

\* `except Exception' in run_alert_rules_cycle: a rule whose evaluation raises
\* outside the database is logged and skipped.
EvaluationRaises(w, r) ==
    /\ work[w].pc = "next" /\ ~work[w].poisoned
    /\ r \in work[w].todo
    /\ work' = [work EXCEPT ![w].todo = @ \ {r}, ![w].lost = TRUE]
    /\ UNCHANGED <<now, holds, config, events, acked, deliveries, esc>>

\* _create_deliveries: a row for each enabled recipient with an enabled channel.
FanOutTo(r) == {p \in recipients : /\ RuleOf[p] = r
                                   /\ p \in EnabledRecipients
                                   /\ ChannelOf[p] \in channels \cap EnabledChannels}

\* Mutant: no `tudo seguro'.
FanOut_NoAllClear(w, r, e, kind, nth) ==
    {[event |-> e, recipient |-> p, kind |-> kind, nth |-> nth, by |-> w, at |-> work[w].at]
        : p \in IF kind = "closed" THEN {} ELSE FanOutTo(r)}

FanOut(w, r, e, kind, nth) ==
    {[event |-> e, recipient |-> p, kind |-> kind, nth |-> nth, by |-> w, at |-> work[w].at]
        : p \in FanOutTo(r)}

\* _transition_event: bridge alert, event row, deliveries; then last_fired_at.
\* The flush fails when the rule or the event has been deleted since it was
\* read; the exception is caught, but nothing rolls the session back, so every
\* later statement of the cycle raises too.
Write(w) ==
    LET r == work[w].rule
        kind == work[w].kind
        done == [work[w] EXCEPT !.pc = "next", !.rule = None, !.event = None, !.kind = None]
    IN
    /\ work[w].pc = "write"
    /\ IF ~Exists(r) \/ (kind # "open" /\ ~EventExists(work[w].event))
       THEN work' = [work EXCEPT ![w] = [done EXCEPT !.poisoned = TRUE]]
       ELSE \E e \in IF kind = "open" THEN {f \in Events : FreshEvent(f)} ELSE {work[w].event} :
              LET from == IF kind = "open" THEN None ELSE events[e].status
                  nth == IF kind = "open" THEN 1 ELSE events[e].nth + 1
              IN work' = [work EXCEPT ![w] =
                       [done EXCEPT !.writes[e] = [rule |-> r, kind |-> kind, from |-> from],
                                    !.rows = @ \cup FanOut(w, r, e, kind, nth)]]
    /\ UNCHANGED <<now, holds, config, events, acked, deliveries, esc>>

\* The row after the cycle's UPDATE: only the columns it changed are written.
Committed(w, e) ==
    LET x == work[w].writes[e] IN
    IF x.kind = "open"
    THEN [rule |-> x.rule, status |-> "open", openedAt |-> work[w].at,
          updatedAt |-> work[w].at, closedAt |-> NoTime, notice |-> "open", nth |-> 1]
    ELSE [events[e] EXCEPT
            !.status = IF x.from = x.kind THEN @ ELSE x.kind,
            !.updatedAt = work[w].at,
            !.closedAt = IF x.kind = "closed" THEN work[w].at ELSE @,
            !.notice = x.kind,
            !.nth = @ + 1]

Evaluated(w) == work[w].pc = "next" /\ (work[w].todo = {} \/ work[w].poisoned)

\* A poisoned session cannot commit, nor can a row for a recipient deleted
\* since it was read.
CanCommit(w) == ~work[w].poisoned /\ \A row \in work[w].rows : row.recipient \in recipients

Commit(w) ==
    /\ Evaluated(w) /\ CanCommit(w)
    /\ events' = [e \in Events |-> IF work[w].writes[e] = None THEN events[e] ELSE Committed(w, e)]
    /\ rules' = [r \in Rules |-> IF r \in Fired(w) THEN [rules[r] EXCEPT !.lastFired = work[w].at]
                                                   ELSE rules[r]]
    /\ deliveries' = deliveries \cup work[w].rows
    /\ work' = [work EXCEPT ![w] = IdleWorker]
    /\ UNCHANGED <<now, holds, requests, recipients, channels, steps, acked, esc>>

\* session_scope rolls everything back.
CommitFails(w) ==
    /\ Evaluated(w) /\ ~CanCommit(w)
    /\ work' = [work EXCEPT ![w] = IdleWorker]
    /\ UNCHANGED <<now, holds, config, events, acked, deliveries, esc>>

\* A crash, or the task's hard time limit: nothing of the cycle remains.
Kill(w) ==
    /\ ~Idle(w)
    /\ work' = [work EXCEPT ![w] = [IdleWorker EXCEPT !.lost = TRUE]]
    /\ UNCHANGED <<now, holds, config, events, acked, deliveries, esc>>

-----------------------------------------------------------------------------
(* The escalation cycle *)

IdleEscalation == [pc |-> "idle", at |-> 0, todo |-> [e \in Events |-> None], rows |-> {},
                   lost |-> FALSE]

\* Mutant: only events still in status OPEN are considered.
EscalationStart_OnlyOpened(x) ==
    /\ esc[x].pc = "idle"
    /\ Overlap \/ \A y \in Escalators : esc[y].pc = "idle"
    /\ esc' = [esc EXCEPT ![x] =
          [pc |-> "run", at |-> now, rows |-> {}, lost |-> FALSE,
           todo |-> [e \in Events |-> IF IsOpen(e) /\ events[e].status = "open"
                                      THEN events[e] ELSE None]]]
    /\ UNCHANGED <<now, holds, config, events, acked, deliveries, work>>

EscalationStart(x) ==
    /\ esc[x].pc = "idle"
    /\ Overlap \/ \A y \in Escalators : esc[y].pc = "idle"
    /\ esc' = [esc EXCEPT ![x] =
          [pc |-> "run", at |-> now, rows |-> {}, lost |-> FALSE,
           todo |-> [e \in Events |-> IF IsOpen(e) THEN events[e] ELSE None]]]
    /\ UNCHANGED <<now, holds, config, events, acked, deliveries, work>>

\* Mutant: an earlier delivery does not keep the step from firing.
Due_EveryTime(x, e) ==
    {s \in steps : LET event == esc[x].todo[e] IN
        /\ StepRule[s] = event.rule
        /\ esc[x].at >= event.openedAt + StepDelay[s]}

\* The steps of the event's rule that are due and whose recipient has no
\* delivery of this event and status yet.
Due(x, e) ==
    {s \in steps : LET event == esc[x].todo[e] IN
        /\ StepRule[s] = event.rule
        /\ esc[x].at >= event.openedAt + StepDelay[s]
        /\ ~\E d \in deliveries : /\ d.event = e
                                  /\ d.recipient = StepRecipient[s]
                                  /\ d.kind = event.status}

\* Mutant: the acknowledgement is not looked up.
EscalateEvent_IgnoresAck(x, e) ==
    /\ esc[x].pc = "run" /\ esc[x].todo[e] # None
    /\ LET event == esc[x].todo[e]
           rows == {[event |-> e, recipient |-> StepRecipient[s], kind |-> event.status,
                     nth |-> event.nth, by |-> x, at |-> esc[x].at] : s \in Due(x, e)}
       IN esc' = [esc EXCEPT ![x].todo[e] = None, ![x].rows = @ \cup rows]
    /\ UNCHANGED <<now, holds, config, events, acked, deliveries, work>>

EscalateEvent(x, e) ==
    /\ esc[x].pc = "run" /\ esc[x].todo[e] # None
    /\ LET event == esc[x].todo[e]
           rows == {[event |-> e, recipient |-> StepRecipient[s], kind |-> event.status,
                     nth |-> event.nth, by |-> x, at |-> esc[x].at] : s \in Due(x, e)}
       IN esc' = [esc EXCEPT ![x].todo[e] = None,
                             ![x].rows = IF acked[e] # NoTime THEN @ ELSE @ \cup rows]
    /\ UNCHANGED <<now, holds, config, events, acked, deliveries, work>>

Escalated(x) == esc[x].pc = "run" /\ \A e \in Events : esc[x].todo[e] = None

CanInsert(x) == \A row \in esc[x].rows : row.recipient \in recipients /\ EventExists(row.event)

EscalationCommit(x) ==
    /\ Escalated(x) /\ CanInsert(x)
    /\ deliveries' = deliveries \cup esc[x].rows
    /\ esc' = [esc EXCEPT ![x] = IdleEscalation]
    /\ UNCHANGED <<now, holds, config, events, acked, work>>

EscalationFails(x) ==
    /\ Escalated(x) /\ ~CanInsert(x)
    /\ esc' = [esc EXCEPT ![x] = IdleEscalation]
    /\ UNCHANGED <<now, holds, config, events, acked, deliveries, work>>

EscalationKilled(x) ==
    /\ esc[x].pc = "run"
    /\ esc' = [esc EXCEPT ![x] = [IdleEscalation EXCEPT !.lost = TRUE]]
    /\ UNCHANGED <<now, holds, config, events, acked, deliveries, work>>

-----------------------------------------------------------------------------
(* API requests *)

Request == requests > 0 /\ requests' = requests - 1

\* acknowledge_event: the first acknowledgement wins, whatever the status.
Acknowledge(e) ==
    /\ Request /\ EventExists(e)
    /\ acked' = [acked EXCEPT ![e] = IF @ = NoTime THEN now ELSE @]
    /\ UNCHANGED <<now, holds, rules, recipients, channels, steps, events, deliveries, work, esc>>

\* Identities are fresh: none a cycle in flight still refers to.
Unreferenced(r) == /\ \A w \in Workers : work[w].seen[r] = None
                   /\ \A x \in Escalators, e \in Events :
                         esc[x].todo[e] # None => esc[x].todo[e].rule # r

CreateRule(r, quiet, cooldown) ==
    /\ Request /\ ~Exists(r) /\ Unreferenced(r)
    /\ rules' = [rules EXCEPT ![r] = [enabled |-> TRUE, conds |-> TRUE, active |-> TRUE,
                    cooldown |-> cooldown, quiet |-> quiet, lastFired |-> NoTime]]
    /\ UNCHANGED <<now, holds, recipients, channels, steps, events, acked, deliveries, work, esc>>

\* A PUT leaves out the fields that are None, so a window cannot be removed;
\* `conditions' may be replaced by an empty list.
UpdateRule(r, enabled, conds, quiet, cooldown) ==
    /\ Request /\ Exists(r)
    /\ rules' = [rules EXCEPT ![r].enabled = enabled, ![r].conds = conds,
                    ![r].quiet = IF quiet = None THEN @ ELSE quiet, ![r].cooldown = cooldown]
    /\ UNCHANGED <<now, holds, recipients, channels, steps, events, acked, deliveries, work, esc>>

\* PUT /locations: is_active of the rule's location.
SetLocationActive(r, active) ==
    /\ Request /\ Exists(r)
    /\ rules' = [rules EXCEPT ![r].active = active]
    /\ UNCHANGED <<now, holds, recipients, channels, steps, events, acked, deliveries, work, esc>>

\* Rows that go when the recipients in gone go (ON DELETE CASCADE).
CascadeRecipients(gone) ==
    /\ recipients' = recipients \ gone
    /\ steps' = {s \in steps : StepRecipient[s] \notin gone}
    /\ deliveries' = {d \in deliveries : d.recipient \notin gone}

\* Mutant: alert_events without ON DELETE CASCADE.
DeleteRule_KeepsEvents(r) ==
    /\ Request /\ Exists(r)
    /\ \A w \in Workers : r \notin Touched(w)
    /\ rules' = [rules EXCEPT ![r] = None]
    /\ CascadeRecipients({p \in recipients : RuleOf[p] = r})
    /\ UNCHANGED <<now, holds, channels, events, acked, work, esc>>

\* A rule whose rows a cycle has flushed is locked: the DELETE waits.
DeleteRule(r) ==
    /\ Request /\ Exists(r)
    /\ \A w \in Workers : r \notin Touched(w)
    /\ rules' = [rules EXCEPT ![r] = None]
    /\ events' = [e \in Events |-> IF EventExists(e) /\ events[e].rule = r THEN None ELSE events[e]]
    /\ acked' = [e \in Events |-> IF EventExists(e) /\ events[e].rule = r THEN NoTime ELSE acked[e]]
    /\ LET gone == {p \in recipients : RuleOf[p] = r} IN
       /\ recipients' = recipients \ gone
       /\ steps' = {s \in steps : StepRule[s] # r /\ StepRecipient[s] \notin gone}
       /\ deliveries' = {d \in deliveries : d.recipient \notin gone /\ events'[d.event] # None}
    /\ UNCHANGED <<now, holds, channels, work, esc>>

CreateChannel(c) ==
    /\ Request /\ c \notin channels
    /\ channels' = channels \cup {c}
    /\ UNCHANGED <<now, holds, rules, recipients, steps, events, acked, deliveries, work, esc>>

DeleteChannel(c) ==
    /\ Request /\ c \in channels
    /\ channels' = channels \ {c}
    /\ CascadeRecipients({p \in recipients : ChannelOf[p] = c})
    /\ UNCHANGED <<now, holds, rules, events, acked, work, esc>>

AddRecipient(p) ==
    /\ Request /\ p \notin recipients
    /\ Exists(RuleOf[p]) /\ ChannelOf[p] \in channels
    /\ \A w \in Workers : \A row \in work[w].rows : row.recipient # p
    /\ \A x \in Escalators : \A row \in esc[x].rows : row.recipient # p
    /\ recipients' = recipients \cup {p}
    /\ UNCHANGED <<now, holds, rules, channels, steps, events, acked, deliveries, work, esc>>

DeleteRecipient(p) ==
    /\ Request /\ p \in recipients
    /\ CascadeRecipients({p})
    /\ UNCHANGED <<now, holds, rules, channels, events, acked, work, esc>>

AddEscalation(s) ==
    /\ Request /\ s \notin steps
    /\ Exists(StepRule[s]) /\ StepRecipient[s] \in recipients
    /\ steps' = steps \cup {s}
    /\ UNCHANGED <<now, holds, rules, recipients, channels, events, acked, deliveries, work, esc>>

-----------------------------------------------------------------------------
Tick == /\ now < MaxTime
        /\ now' = now + 1
        /\ UNCHANGED <<holds, config, events, acked, deliveries, work, esc>>

\* The metrics of the rule's location cross a threshold, or become unknown.
World(r) == /\ holds' = IF r \in holds THEN holds \ {r} ELSE holds \cup {r}
            /\ UNCHANGED <<now, config, events, acked, deliveries, work, esc>>

RulesCycle(w) ==
    \/ CycleStart(w)
    \/ \E r \in Rules : Decide(w, r) \/ EvaluationRaises(w, r)
    \/ Write(w)
    \/ Commit(w)
    \/ CommitFails(w)
    \/ Kill(w)

EscalationCycle(x) ==
    \/ EscalationStart(x)
    \/ \E e \in Events : EscalateEvent(x, e)
    \/ EscalationCommit(x)
    \/ EscalationFails(x)
    \/ EscalationKilled(x)

Api ==
    \/ \E e \in Events : Acknowledge(e)
    \/ \E r \in Rules :
         \/ \E quiet \in Windows, cooldown \in Cooldowns : CreateRule(r, quiet, cooldown)
         \/ \E enabled, conds \in BOOLEAN, quiet \in Windows, cooldown \in Cooldowns :
               UpdateRule(r, enabled, conds, quiet, cooldown)
         \/ \E active \in BOOLEAN : SetLocationActive(r, active)
         \/ DeleteRule(r)
    \/ \E c \in Channels : CreateChannel(c) \/ DeleteChannel(c)
    \/ \E p \in Recipients : AddRecipient(p) \/ DeleteRecipient(p)
    \/ \E s \in Steps : AddEscalation(s)

Next == \/ Tick
        \/ \E r \in Rules : World(r)
        \/ \E w \in Workers : RulesCycle(w)
        \/ \E x \in Escalators : EscalationCycle(x)
        \/ Api

\* The tables before the first cycle: whatever the API has put in them, with
\* the foreign keys it enforces; nothing has fired yet.
Init ==
    /\ now = 0 /\ requests = MaxRequests
    /\ holds = {}
    /\ rules \in [Rules -> {None} \cup [enabled : {TRUE}, conds : {TRUE}, active : {TRUE},
                     cooldown : Cooldowns, quiet : Windows, lastFired : {NoTime}]]
    /\ channels = Channels
    /\ recipients = {p \in Recipients : Exists(RuleOf[p])}
    /\ steps \in SUBSET {s \in Steps : Exists(StepRule[s]) /\ StepRecipient[s] \in recipients}
    /\ events = [e \in Events |-> None]
    /\ acked = [e \in Events |-> NoTime]
    /\ deliveries = {}
    /\ work = [w \in Workers |-> IdleWorker]
    /\ esc = [x \in Escalators |-> IdleEscalation]

Spec == Init /\ [][Next]_vars

(***************************************************************************)
(* Beat keeps publishing the task (celery_app.py), so a worker that is     *)
(* idle starts another cycle, and a cycle that runs takes its next step.   *)
(***************************************************************************)
Fairness ==
    /\ WF_vars(Tick)
    /\ \A w \in Workers :
          /\ WF_vars(CycleStart(w))
          /\ \A r \in Rules : WF_vars(Decide(w, r))
          /\ WF_vars(Write(w))
          /\ WF_vars(Commit(w))
          /\ WF_vars(CommitFails(w))
    /\ \A x \in Escalators :
          /\ WF_vars(EscalationStart(x))
          /\ \A e \in Events : WF_vars(EscalateEvent(x, e))
          /\ WF_vars(EscalationCommit(x))
          /\ WF_vars(EscalationFails(x))

FairSpec == Spec /\ Fairness

-----------------------------------------------------------------------------
(* Properties *)

\* Every row has its columns' types, and every foreign key that
\* app/alert_rules/models.py declares points at an existing row.
TypeOK ==
    /\ now \in Time /\ requests \in 0 .. MaxRequests /\ holds \subseteq Rules
    /\ rules \in [Rules -> RuleRow \cup {None}]
    /\ channels \subseteq Channels
    /\ recipients \subseteq {p \in Recipients : Exists(RuleOf[p]) /\ ChannelOf[p] \in channels}
    /\ steps \subseteq {s \in Steps : Exists(StepRule[s]) /\ StepRecipient[s] \in recipients}
    /\ events \in [Events -> EventRow \cup {None}]
    /\ \A e \in Events : EventExists(e) => Exists(events[e].rule)
    /\ acked \in [Events -> Time \cup {NoTime}]
    /\ \A e \in Events : acked[e] # NoTime => EventExists(e)
    /\ deliveries \subseteq DeliveryRow
    /\ \A d \in deliveries : EventExists(d.event) /\ d.recipient \in recipients

\* AlertEvent is `one firing episode of a rule': a rule never has two events
\* that are not closed, however the cycles are killed and the tables edited.
OneOpenEvent ==
    \A e, f \in Events : IsOpen(e) /\ IsOpen(f) /\ events[e].rule = events[f].rule => e = f

\* last_fired_at, `denormalized from the newest AlertEvent', is the time of the
\* open event's last notice, and no event is newer than it.
LastFiredIsNewestNotice ==
    \A e \in Events : EventExists(e) =>
        LET fired == rules[events[e].rule].lastFired IN
        IF IsOpen(e) THEN events[e].updatedAt = fired ELSE events[e].openedAt <= fired

\* Two firings of a rule, across episodes, lie at least the cooldown apart that
\* the cycle which fired the second one had read.
CooldownSpacing ==
    [][\A r \in Rules :
          /\ Exists(r) /\ Exists(r)'
          /\ rules[r].lastFired # NoTime
          /\ rules'[r].lastFired # rules[r].lastFired
          => \E w \in Workers :
                /\ work[w].seen[r] # None
                /\ rules'[r].lastFired - rules[r].lastFired >= work[w].seen[r].cooldown]_vars

\* Whoever was told by the rule that an event began, and is still a recipient,
\* is told `tudo seguro' when it closes.
AllClearReachesWarned ==
    \A e \in Events, d \in deliveries :
        /\ d.event = e /\ d.by \in Workers
        /\ EventExists(e) /\ events[e].status = "closed"
        => \E c \in deliveries : /\ c.event = e /\ c.recipient = d.recipient
                                 /\ c.kind = "closed"

\* A step escalates an event only once its delay has passed without an
\* acknowledgement, and once per status of the event.
EscalationJustified ==
    \A d \in deliveries : d.by \in Escalators =>
        /\ acked[d.event] # NoTime => d.at <= acked[d.event]
        /\ \A c \in deliveries :
              c.by \in Escalators /\ c.event = d.event /\ c.recipient = d.recipient
                 /\ c.kind = d.kind => c = d
        /\ \E n \in {StepDelay[s] : s \in {t \in Steps : StepRecipient[t] = d.recipient}} :
              d.at >= events[d.event].openedAt + n

\* The rule cycle and the escalation cycle never both tell a recipient of the
\* same transition of an event.
NoticeToldOnce ==
    \A c, d \in deliveries :
        c.event = d.event /\ c.recipient = d.recipient /\ c.nth = d.nth => c = d

\* `One rule's failure must never stop the cycle' (run_alert_rules_cycle): when
\* the evaluation of a rule has failed, no other rule's transition is lost.
FailuresAreIsolated == \A w \in Workers : work[w].poisoned => Touched(w) = {}

\* The lifecycle promised by AlertEpisode.
Phase == [e \in Events |-> IF EventExists(e) THEN events[e].status ELSE "none"]
Owner == [e \in Events |-> IF EventExists(e) THEN events[e].rule ELSE CHOOSE r \in Rules : TRUE]

Episode == INSTANCE AlertEpisode WITH phase <- Phase, owner <- Owner

EpisodesFollowLifecycle == Episode!Spec

\* Nothing keeps the event from being closed: its rule is evaluated, outside
\* quiet hours when the clock stops, and its conditions do not match.
Calm(e) == EventExists(e) =>
    LET r == events[e].rule IN
    /\ rules[r].enabled /\ rules[r].active
    /\ ~IsWithinQuietHours(MaxTime % Day, rules[r].quiet)
    /\ ~Matches(r)

\* A cycle has been killed or has skipped a rule whose evaluation raised.
Losing == (\E w \in Workers : work[w].lost) \/ (\E x \in Escalators : esc[x].lost)

\* An episode whose conditions have stopped matching for good is closed, once
\* cycles are no longer killed and evaluations no longer raise.
CalmEventsClose ==
    \A e \in Events :
        (<>[]~Losing) /\ (<>[]Calm(e)) => <>[](~IsOpen(e))

\* An event that stays open and unacknowledged past a step's delay reaches the
\* step's recipient.
OverdueEventsEscalate ==
    \A e \in Events, s \in Steps :
        (/\ <>[]~Losing
         /\ <>[](/\ IsOpen(e) /\ acked[e] = NoTime /\ s \in steps
                 /\ events[e].rule = StepRule[s]
                 /\ events[e].openedAt + StepDelay[s] <= MaxTime))
        => <>(\E d \in deliveries : d.event = e /\ d.recipient = StepRecipient[s])
=============================================================================
