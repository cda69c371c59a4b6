---------------------------- MODULE AlertDelivery ----------------------------
(***************************************************************************)
(* The delivery queue of custom alert rules: run_alert_delivery_cycle of   *)
(* backend/workers/alert_rules_pipeline.py sends the alert_deliveries that *)
(* are pending and due, and retries with exponential backoff.              *)
(*                                                                         *)
(* A cycle is one transaction, but a message handed to a channel is out    *)
(* of its reach: a cycle that does not commit has still sent what it sent. *)
(* `accepted' records what the channels took.  The rule cycle and the      *)
(* escalation cycle, which create the rows, are the environment here       *)
(* (AlertRules.tla has their detail); so are the API's deletions.          *)
(***************************************************************************)
EXTENDS Integers, FiniteSets

CONSTANTS
    Events, Recipients,
    KindOf,        \* channel_kind of a recipient's deliveries
    Notified,      \* recipients the rule notifies: enabled, with an enabled channel
    Escalating,    \* recipients an escalation step of the rule names
    Workers,       \* executions of run_alert_delivery_task
    Overlap,       \* may two executions run at once?
    MaxAttempts,   \* _MAX_DELIVERY_ATTEMPTS
    RetryBase,     \* 120 s, in ticks
    None,          \* SQL NULL, and the absence of a row
    MaxTime, MaxNotices, MaxFaults  \* bounds: clock, notices of an event, lost cycles

NoTime == -1
Time == 0 .. MaxTime
ChannelKinds == {"push", "email", "webhook", "whatsapp", "sms"}
Notices == {"open", "updated", "closed"}

ASSUME ConstantsAssumption ==
    /\ MaxTime \in Nat /\ MaxNotices \in Nat /\ MaxFaults \in Nat
    /\ MaxAttempts \in Nat \ {0} /\ RetryBase \in Nat \ {0}
    /\ Overlap \in BOOLEAN
    /\ KindOf \in [Recipients -> ChannelKinds]
    /\ Notified \subseteq Recipients /\ Escalating \subseteq Recipients
    /\ IsFiniteSet(Recipients)

\* A delivery is one notice of one event to one recipient.
Ids == Events \X Recipients \X (1 .. MaxNotices)

VARIABLES
    now,      \* the wall clock
    faults,   \* cycles that may still be lost
    events,   \* the kind of the Alert the event bridges to, and its ordinal
    recipients, \* the alert_recipients that exist
    rows,     \* alert_deliveries
    accepted, \* accepted[id]: how often a channel took this delivery, and telling what
    work      \* the delivery cycles in flight

vars == <<now, faults, events, recipients, rows, accepted, work>>

-----------------------------------------------------------------------------
(* Rows *)

EventRow == [notice : Notices, nth : 1 .. MaxNotices]

DeliveryRow == [kind : Notices, status : {"pending", "sent", "failed"}, attempts : Nat,
                nextRetryAt : Int, createdAt : Time, updatedAt : Time]

ASSUME NoneIsNoRow == /\ None \notin EventRow /\ None \notin DeliveryRow
                      /\ None \notin Notices /\ None \notin {"sent", "failed"}

NewDelivery(kind) == [kind |-> kind, status |-> "pending", attempts |-> 0,
                      nextRetryAt |-> NoTime, createdAt |-> now, updatedAt |-> now]

\* Mutant: the same delay every time.
RetryDelay_Constant(attempts) == RetryBase

\* 120 * (1 << (attempts - 1)) seconds.
RetryDelay(attempts) == RetryBase * 2 ^ (attempts - 1)

\* Arithmetic, for the proofs: their provers know no exponents.
ASSUME PowersOfTwo ==
    2 ^ 0 = 1 /\ \A k \in 0 .. MaxAttempts : 2 ^ k \in Nat /\ 2 ^ (k + 1) = 2 * 2 ^ k

Nothing == [copies |-> 0, told |-> {}]

-----------------------------------------------------------------------------
(* The delivery cycle *)

IdleWorker == [pc |-> "idle", at |-> 0, loaded |-> [id \in Ids |-> None],
               todo |-> {}, result |-> [id \in Ids |-> None],
               alert |-> [e \in Events |-> None]]

Idle(w) == work[w].pc = "idle"

\* Mutants: the query forgets to ask for pending rows, or takes failed ones too.
IsDue_AnyStatus(id, t) == rows[id] # None /\ (rows[id].nextRetryAt <= t \/ t = MaxTime)
IsDue_FailedToo(id, t) == /\ rows[id] # None
                          /\ rows[id].status # "sent"
                          /\ rows[id].nextRetryAt <= t \/ t = MaxTime

\* The last tick stands for any later time, when every retry is due.
IsDue(id, t) == /\ rows[id] # None
                /\ rows[id].status = "pending"
                /\ \/ rows[id].nextRetryAt = NoTime
                   \/ rows[id].nextRetryAt <= t
                   \/ t = MaxTime

CycleStart(w) ==
    /\ Idle(w)
    /\ Overlap \/ \A v \in Workers : Idle(v)
    /\ work' = [work EXCEPT ![w] = [IdleWorker EXCEPT
          !.pc = "run", !.at = now,
          !.todo = {id \in Ids : IsDue(id, now)},
          !.loaded = [id \in Ids |-> IF IsDue(id, now) THEN rows[id] ELSE None]]]
    /\ UNCHANGED <<now, faults, events, recipients, rows, accepted>>

\* The mock provider never sends a WhatsApp or SMS message.
CanAccept(id) == KindOf[id[2]] \in {"push", "email", "webhook"}

\* Push and e-mail send the Alert the event bridges to, as the session first
\* loaded it; a webhook is sent the delivery's own notice_kind.
Content(w, id) ==
    IF KindOf[id[2]] = "webhook" THEN work[w].loaded[id].kind
    ELSE IF work[w].alert[id[1]] # None THEN work[w].alert[id[1]]
    ELSE events[id[1]].notice

Loaded(w, id) ==
    [work[w].alert EXCEPT ![id[1]] = IF @ = None /\ events[id[1]] # None
                                     THEN events[id[1]].notice ELSE @]

\* _attempt_delivery: the row may have gone with its event or recipient since
\* it was loaded, in which case the attempt fails.
Attempt(w, id, ok) ==
    /\ id \in work[w].todo
    /\ ok => CanAccept(id) /\ rows[id] # None
    /\ work' = [work EXCEPT ![w].todo = @ \ {id},
                            ![w].result[id] = IF ok THEN "sent" ELSE "failed",
                            ![w].alert = Loaded(w, id)]
    /\ accepted' = IF ok THEN [accepted EXCEPT ![id] =
                                [copies |-> @.copies + 1, told |-> @.told \cup {Content(w, id)}]]
                   ELSE accepted
    /\ UNCHANGED <<now, faults, events, recipients, rows>>

\* The cycle dies: an exception no channel handler turns into a failed attempt
\* (an invalid webhook URL, a push endpoint that cannot be reached), a crash,
\* or the task's hard time limit.  session_scope rolls back.
CycleLost(w) ==
    /\ ~Idle(w) /\ faults > 0
    /\ faults' = faults - 1
    /\ work' = [work EXCEPT ![w] = IdleWorker]
    /\ UNCHANGED <<now, events, recipients, rows, accepted>>

Written(w) == {id \in Ids : work[w].result[id] # None}

\* Mutants: gives up one attempt late; forgets to count the attempt.
Settled_GivesUpLate(w, id) ==
    LET attempts == work[w].loaded[id].attempts + 1 IN
    IF work[w].result[id] = "sent"
    THEN [rows[id] EXCEPT !.status = "sent", !.updatedAt = work[w].at]
    ELSE IF attempts > MaxAttempts
    THEN [rows[id] EXCEPT !.status = "failed", !.attempts = attempts, !.updatedAt = work[w].at]
    ELSE [rows[id] EXCEPT !.attempts = attempts, !.updatedAt = work[w].at,
                          !.nextRetryAt = work[w].at + RetryDelay(attempts)]
Settled_ForgetsAttempt(w, id) ==
    IF work[w].result[id] = "sent"
    THEN [rows[id] EXCEPT !.status = "sent", !.updatedAt = work[w].at]
    ELSE [rows[id] EXCEPT !.updatedAt = work[w].at,
                          !.nextRetryAt = work[w].at + RetryDelay(1)]

\* The columns the cycle changed, computed from the row it loaded.
Settled(w, id) ==
    LET attempts == work[w].loaded[id].attempts + 1 IN
    IF work[w].result[id] = "sent"
    THEN [rows[id] EXCEPT !.status = "sent", !.updatedAt = work[w].at]
    ELSE IF attempts >= MaxAttempts
    THEN [rows[id] EXCEPT !.status = "failed", !.attempts = attempts, !.updatedAt = work[w].at]
    ELSE [rows[id] EXCEPT !.attempts = attempts, !.updatedAt = work[w].at,
                          !.nextRetryAt = work[w].at + RetryDelay(attempts)]

Finished(w) == work[w].pc = "run" /\ work[w].todo = {}

\* An UPDATE of a row that is gone matches nothing, which the session refuses.
CanCommit(w) == \A id \in Written(w) : rows[id] # None

Commit(w) ==
    /\ Finished(w) /\ CanCommit(w)
    /\ rows' = [id \in Ids |-> IF id \in Written(w) THEN Settled(w, id) ELSE rows[id]]
    /\ work' = [work EXCEPT ![w] = IdleWorker]
    /\ UNCHANGED <<now, faults, events, recipients, accepted>>

CommitFails(w) ==
    /\ Finished(w) /\ ~CanCommit(w)
    /\ work' = [work EXCEPT ![w] = IdleWorker]
    /\ UNCHANGED <<now, faults, events, recipients, rows, accepted>>

-----------------------------------------------------------------------------
(* The environment: rule cycle, escalation cycle, API *)

FollowsOn(e, kind) ==
    IF events[e] = None THEN kind = "open"
    ELSE events[e].notice # "closed" /\ kind # "open"

Ordinal(e) == IF events[e] = None THEN 0 ELSE events[e].nth

\* A rule cycle commits a transition of an event with one delivery for each of
\* the recipients it notifies.
Transition(e, kind) ==
    LET nth == Ordinal(e) + 1
        new == {<<e, p, nth>> : p \in Notified \cap recipients}
    IN
    /\ FollowsOn(e, kind) /\ nth <= MaxNotices
    /\ events' = [events EXCEPT ![e] = [notice |-> kind, nth |-> nth]]
    /\ rows' = [id \in Ids |-> IF id \in new THEN NewDelivery(kind) ELSE rows[id]]
    /\ UNCHANGED <<now, faults, recipients, accepted, work>>

\* The event's status since its nth notice, until the next one.
NoticeAt(e, n) == IF n = events[e].nth THEN events[e].notice
                  ELSE IF n = 1 THEN "open" ELSE "updated"

\* An escalation step tells one more recipient of the status the event had when
\* the cycle read it; a rule cycle may have committed others since.
Escalate(e, p, n) ==
    /\ events[e] # None /\ n <= events[e].nth
    /\ NoticeAt(e, n) # "closed"
    /\ p \in Escalating \cap recipients
    /\ \A m \in 1 .. n : rows[<<e, p, m>>] # None => rows[<<e, p, m>>].kind # NoticeAt(e, n)
    /\ rows' = [rows EXCEPT ![<<e, p, n>>] = NewDelivery(NoticeAt(e, n))]
    /\ UNCHANGED <<now, faults, events, recipients, accepted, work>>

\* Mutant: alert_deliveries without ON DELETE CASCADE.
DeleteRecipient_KeepsRows(p) ==
    /\ p \in recipients
    /\ recipients' = recipients \ {p}
    /\ UNCHANGED <<now, faults, events, rows, accepted, work>>

\* DELETE recipient or channel: the deliveries go with it.
DeleteRecipient(p) ==
    /\ p \in recipients
    /\ recipients' = recipients \ {p}
    /\ rows' = [id \in Ids |-> IF id[2] = p THEN None ELSE rows[id]]
    /\ UNCHANGED <<now, faults, events, accepted, work>>

Tick == /\ now < MaxTime
        /\ now' = now + 1
        /\ UNCHANGED <<faults, events, recipients, rows, accepted, work>>

-----------------------------------------------------------------------------
Cycle(w) ==
    \/ CycleStart(w)
    \/ \E id \in Ids, ok \in BOOLEAN : Attempt(w, id, ok)
    \/ CycleLost(w)
    \/ Commit(w)
    \/ CommitFails(w)

Environment ==
    \/ \E e \in Events, kind \in Notices : Transition(e, kind)
    \/ \E e \in Events, p \in Recipients, n \in 1 .. MaxNotices : Escalate(e, p, n)
    \/ \E p \in Recipients : DeleteRecipient(p)

Next == \/ Tick
        \/ \E w \in Workers : Cycle(w)
        \/ Environment

Init == /\ now = 0 /\ faults = MaxFaults
        /\ events = [e \in Events |-> None]
        /\ recipients = Recipients
        /\ rows = [id \in Ids |-> None]
        /\ accepted = [id \in Ids |-> Nothing]
        /\ work = [w \in Workers |-> IdleWorker]

Spec == Init /\ [][Next]_vars

\* Beat publishes the task every minute; a cycle tries each of its rows.
Fairness ==
    /\ WF_vars(Tick)
    /\ \A w \in Workers :
          /\ WF_vars(CycleStart(w))
          /\ \A id \in Ids : WF_vars(\E ok \in BOOLEAN : Attempt(w, id, ok))
          /\ WF_vars(Commit(w))
          /\ WF_vars(CommitFails(w))

FairSpec == Spec /\ Fairness

-----------------------------------------------------------------------------
(* Properties *)

\* The columns' types; a delivery belongs to an event and a recipient that
\* exist, and its notice is one the event has reached.
TypeOK ==
    /\ now \in Time /\ faults \in 0 .. MaxFaults
    /\ events \in [Events -> EventRow \cup {None}]
    /\ recipients \subseteq Recipients
    /\ rows \in [Ids -> DeliveryRow \cup {None}]
    /\ \A id \in Ids : rows[id] # None => id[2] \in recipients /\ id[3] <= Ordinal(id[1])
    /\ accepted \in [Ids -> [copies : Nat, told : SUBSET Notices]]

\* A delivery recorded as sent was taken by its channel, and one given up on
\* has used up its attempts.
OutcomeIsTrue ==
    \A id \in Ids : rows[id] # None =>
        /\ rows[id].status = "sent" => accepted[id].copies > 0
        /\ rows[id].status = "failed" <=> rows[id].attempts >= MaxAttempts

\* The queue as an Outbox (Outbox.tla): a delivery whose recipient exists may
\* still be posted; the copies of a message are numbered as they leave.
Outcome == [pending |-> "waiting", sent |-> "taken", failed |-> "refused"]

Stage == [id \in Ids |-> IF rows[id] # None THEN Outcome[rows[id].status]
                         ELSE IF id[2] \in recipients THEN "absent" ELSE "gone"]
Copies == [id \in Ids |-> 1 .. accepted[id].copies]
Refusals == [id \in Ids |-> IF rows[id] # None THEN rows[id].attempts ELSE 0]

DeliveryOutbox == INSTANCE Outbox WITH
    Messages <- Ids, Hands <- Nat, MaxTries <- MaxAttempts,
    state <- Stage, handed <- Copies, tries <- Refusals

\* Whatever the interleaving of cycles that are lost, rules that fire and
\* recipients that are deleted: a delivery is handed over only while it waits,
\* and its outcome, written once, is what has happened to it.
DeliveriesKeepOutbox == DeliveryOutbox!Spec

\* The outcome of a delivery is final: no later cycle touches the row.
SettledIsFinal ==
    [][\A id \in Ids :
          rows[id] # None /\ rows[id].status # "pending" => rows'[id] \in {rows[id], None}]_vars

\* A channel that keeps failing is given up on only after the whole series of
\* backoffs: the k-th attempt is at least base * (2^(k-1) - 1) after creation.
BackoffElapsed ==
    \A id \in Ids :
        rows[id] # None /\ rows[id].attempts > 0 /\ rows[id].updatedAt < MaxTime =>
        rows[id].updatedAt - rows[id].createdAt >= RetryBase * (2 ^ (rows[id].attempts - 1) - 1)

\* A message says what its delivery is for: `which of the event's transitions
\* this delivery is for' (AlertDelivery.notice_kind).
ContentMatchesNotice ==
    \A id \in Ids : rows[id] # None => accepted[id].told \subseteq {rows[id].kind}

\* A message leaves again only if a cycle was lost on the way, or could not
\* commit because a recipient it had tried was deleted under it.
CopiesNeedLostCycles ==
    \A id \in Ids :
        accepted[id].copies <= 1 + (MaxFaults - faults) + Cardinality(Recipients \ recipients)

\* `Nenhuma entrega duplicada' (tests/test_alert_rules_pipeline.py): no delivery
\* is handed to its channel twice.
NothingDelivedTwice == \A id \in Ids : accepted[id].copies <= 1

\* Every delivery is settled, or deleted with its recipient.
EveryDeliverySettles ==
    \A id \in Ids :
        (rows[id] # None /\ rows[id].status = "pending")
            ~> (rows[id] = None \/ rows[id].status # "pending")
=============================================================================
