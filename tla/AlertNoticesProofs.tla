------------------------- MODULE AlertNoticesProofs -------------------------
(***************************************************************************)
(* Further proofs about AlertRules, for every value of the constants and   *)
(* without overlapping executions (~Overlap): when a rule fires, and who   *)
(* is told of what.                                                        *)
(*                                                                         *)
(* A notice is decided on by one cycle and told by rows that it commits    *)
(* later, while the other cycle and the API go on; so both invariants      *)
(* follow what the cycles have in hand until they commit.                  *)
(***************************************************************************)
EXTENDS AlertRulesProofs

(* Times *)

\* Nothing lies in the future, nor after the start of the cycle that runs.
TimesOK ==
    /\ \A e \in Events : EventExists(e) =>
          events[e].openedAt <= events[e].updatedAt /\ events[e].updatedAt <= now
    /\ \A r \in Rules : Exists(r) => rules[r].lastFired <= now
    /\ \A w \in Workers : ~Idle(w) =>
          /\ work[w].at <= now
          /\ \A e \in Events : EventExists(e) => events[e].updatedAt <= work[w].at
          /\ \A r \in Rules : Exists(r) => rules[r].lastFired <= work[w].at

\* A cycle knows when the rules it has read have fired.
SeenIsCurrent ==
    \A w \in Workers : ~Idle(w) =>
        /\ \A r \in Rules : Exists(r) /\ work[w].seen[r] # None =>
              rules[r].lastFired = work[w].seen[r].lastFired
        /\ \A r \in work[w].todo : work[w].seen[r] # None

\* A rule that the cycle has decided to fire had cooled down.
CooledDown(w, r) ==
    /\ work[w].seen[r] # None
    /\ ~IsInCooldown(work[w].seen[r].lastFired, work[w].at, work[w].seen[r].cooldown)

FiringsAreSpaced ==
    \A w \in Workers :
        /\ work[w].pc = "write" /\ work[w].kind # "closed" => CooledDown(w, work[w].rule)
        /\ \A r \in Fired(w) : CooledDown(w, r)

FiringInv == TimesOK /\ SeenIsCurrent /\ FiringsAreSpaced /\ LastFiredIsNewestNotice

-----------------------------------------------------------------------------
(* Notices *)

\* A delivery is of a notice its event has had; the latest one is the event's
\* status; the rule cycle told only recipients of the rule that it may tell.
DeliveryFits(d) ==
    LET event == events[d.event] IN
    /\ d.nth <= event.nth
    /\ d.nth = event.nth => d.kind = event.status
    /\ d.at <= now
    /\ d.by \in Workers => /\ RuleOf[d.recipient] = event.rule
                           /\ d.recipient \in EnabledRecipients
                           /\ ChannelOf[d.recipient] \in EnabledChannels

\* The rows the rule cycle has flushed are of the notice it is about to commit.
FlushedFits(w, row) ==
    LET x == work[w].writes[row.event] IN
    /\ row.kind = x.kind /\ row.by = w /\ row.at = work[w].at
    /\ row.nth = IF x.kind = "open" THEN 1 ELSE events[row.event].nth + 1
    /\ RuleOf[row.recipient] = x.rule
    /\ row.recipient \in EnabledRecipients
    /\ ChannelOf[row.recipient] \in EnabledChannels

\* Whoever the rule cycle has told of the event is among those it tells that it closes.
ClosingReachesTold(w, e) ==
    work[w].writes[e] # None /\ work[w].writes[e].kind = "closed" =>
        \A d \in deliveries : d.event = e /\ d.by \in Workers =>
            \E row \in work[w].rows : row.event = e /\ row.recipient = d.recipient

\* What the escalation cycle has read of an event has happened to it.
ReadFits(x, e) ==
    LET read == esc[x].todo[e] IN
    read # None /\ EventExists(e) =>
        /\ read.openedAt = events[e].openedAt
        /\ read.nth <= events[e].nth
        /\ read.nth = events[e].nth => read.status = events[e].status
        /\ \A d \in deliveries : d.event = e /\ d.nth = read.nth => d.kind = read.status

\* A row of the escalation cycle tells of a notice nobody has told its recipient of.
EscalationFits(x, row) ==
    /\ row.by = x /\ row.at = esc[x].at
    /\ esc[x].todo[row.event] = None
    /\ \A other \in esc[x].rows :
          other.event = row.event /\ other.recipient = row.recipient => other = row
    /\ EventExists(row.event) =>
          /\ row.nth <= events[row.event].nth
          /\ row.nth = events[row.event].nth => row.kind = events[row.event].status
          /\ acked[row.event] # NoTime => row.at <= acked[row.event]
          /\ \E s \in Steps : /\ StepRecipient[s] = row.recipient
                              /\ row.at >= events[row.event].openedAt + StepDelay[s]
          /\ \A d \in deliveries : d.event = row.event /\ d.recipient = row.recipient =>
                d.nth # row.nth /\ (d.by \in Escalators => d.kind # row.kind)

\* One execution of the escalation cycle at a time; it began by now.
SerialEscalation ==
    /\ \A x, y \in Escalators : esc[x].pc # "idle" /\ esc[y].pc # "idle" => x = y
    /\ \A x \in Escalators :
          IF esc[x].pc = "idle" THEN esc[x].rows = {} /\ \A e \in Events : esc[x].todo[e] = None
          ELSE esc[x].at <= now

\* The identity of an event that is about to be opened is in nobody's hands.
OpeningIsNew ==
    \A w \in Workers, e \in Events :
        work[w].writes[e] # None /\ work[w].writes[e].kind = "open" =>
            \A x \in Escalators : /\ esc[x].todo[e] = None
                                  /\ \A row \in esc[x].rows : row.event # e

NoticeInv ==
    /\ SerialEscalation /\ OpeningIsNew
    /\ \A d \in deliveries : DeliveryFits(d)
    /\ \A w \in Workers : /\ \A row \in work[w].rows : FlushedFits(w, row)
                          /\ \A e \in Events : ClosingReachesTold(w, e)
    /\ \A x \in Escalators : /\ \A e \in Events : ReadFits(x, e)
                             /\ \A row \in esc[x].rows : EscalationFits(x, row)
    /\ AllClearReachesWarned /\ EscalationJustified /\ NoticeToldOnce

-----------------------------------------------------------------------------
(* What a step does, as far as these invariants can tell *)

\* The cycles and the clock aside, a step may delete, but not rewrite, what
\* they depend on.
TablesKept ==
    /\ now \in Time /\ now' \in Time /\ now <= now'
    /\ \A e \in Events : EventExists(e)' => EventExists(e) /\ events'[e] = events[e]
    /\ \A r \in Rules : Exists(r)' =>
          \/ Exists(r) /\ rules'[r].lastFired = rules[r].lastFired
          \/ /\ ~Exists(r) /\ rules'[r].lastFired = NoTime
             /\ \A w \in Workers : work[w].seen[r] = None

\* A request deletes deliveries by recipient or by event, and acknowledges once.
NoticesKept ==
    /\ UNCHANGED <<work, esc>>
    /\ deliveries' \subseteq deliveries
    /\ \A c, d \in deliveries :
          c.event = d.event /\ c.recipient = d.recipient /\ d \in deliveries' => c \in deliveries'
    /\ \A e \in Events : EventExists(e)' =>
          acked'[e] = acked[e] \/ (acked[e] = NoTime /\ acked'[e] = now)

LEMMA Unwritten ==
    ASSUME IInv, UNCHANGED <<now, rules, events>> PROVE TablesKept
BY DEF IInv, TypeOK, Time, TablesKept, Exists, EventExists

LEMMA RequestsKeep == ASSUME IInv, Api PROVE TablesKept /\ NoticesKept
<1>0. now \in Time
  BY DEF IInv, TypeOK
<1>1. ASSUME NEW e \in Events, Acknowledge(e) PROVE TablesKept /\ NoticesKept
  <2>1. TablesKept
    BY <1>1, Unwritten DEF Acknowledge
  <2>2. acked' = [acked EXCEPT ![e] = IF @ = NoTime THEN now ELSE @]
        /\ acked \in [Events -> Time \cup {NoTime}]
    BY <1>1 DEF Acknowledge, IInv, TypeOK
  <2>3. NoticesKept
    BY <1>1, <2>2 DEF Acknowledge, NoticesKept
  <2> QED
    BY <2>1, <2>3
<1>2. ASSUME NEW r \in Rules, NEW quiet \in Windows, NEW cooldown \in Cooldowns,
             CreateRule(r, quiet, cooldown)
      PROVE  TablesKept /\ NoticesKept
  <2>1. UNCHANGED <<now, events, acked, deliveries, work, esc>>
    BY <1>2 DEF CreateRule
  <2>2. /\ \A q \in Rules \ {r} : rules'[q] = rules[q]
        /\ ~Exists(r) /\ rules'[r].lastFired = NoTime
        /\ \A w \in Workers : work[w].seen[r] = None
    BY <1>2 DEF CreateRule, Unreferenced, IInv, TypeOK
  <2>3. TablesKept
    BY <1>0, <2>1, <2>2 DEF TablesKept, Exists, EventExists, Time
  <2>4. NoticesKept
    BY <2>1 DEF NoticesKept
  <2> QED
    BY <2>3, <2>4
<1>3. ASSUME NEW r \in Rules, rules[r] # None, rules'[r].lastFired = rules[r].lastFired,
             \A q \in Rules \ {r} : rules'[q] = rules[q],
             UNCHANGED <<now, events, acked, deliveries, work, esc>>
      PROVE  TablesKept /\ NoticesKept
  BY <1>0, <1>3 DEF TablesKept, NoticesKept, Exists, EventExists, Time
<1>4. ASSUME NEW r \in Rules, NEW enabled \in BOOLEAN, NEW conds \in BOOLEAN,
             NEW quiet \in Windows, NEW cooldown \in Cooldowns,
             UpdateRule(r, enabled, conds, quiet, cooldown)
      PROVE  TablesKept /\ NoticesKept
  <2>1. rules[r] \in RuleRow
    BY <1>4 DEF UpdateRule, Exists, IInv, TypeOK
  <2>2. rules[r] # None /\ rules'[r].lastFired = rules[r].lastFired
        /\ \A q \in Rules \ {r} : rules'[q] = rules[q]
    BY <1>4, <2>1 DEF UpdateRule, Exists, IInv, TypeOK, RuleRow
  <2>3. UNCHANGED <<now, events, acked, deliveries, work, esc>>
    BY <1>4 DEF UpdateRule
  <2> QED
    BY <1>3, <2>2, <2>3
<1>5. ASSUME NEW r \in Rules, NEW active \in BOOLEAN, SetLocationActive(r, active)
      PROVE  TablesKept /\ NoticesKept
  <2>1. rules[r] \in RuleRow
    BY <1>5 DEF SetLocationActive, Exists, IInv, TypeOK
  <2>2. rules[r] # None /\ rules'[r].lastFired = rules[r].lastFired
        /\ \A q \in Rules \ {r} : rules'[q] = rules[q]
    BY <1>5, <2>1 DEF SetLocationActive, Exists, IInv, TypeOK, RuleRow
  <2>3. UNCHANGED <<now, events, acked, deliveries, work, esc>>
    BY <1>5 DEF SetLocationActive
  <2> QED
    BY <1>3, <2>2, <2>3
<1>6. ASSUME NEW r \in Rules, DeleteRule(r) PROVE TablesKept /\ NoticesKept
  <2>1. /\ UNCHANGED <<now, work, esc>>
        /\ \A q \in Rules : rules'[q] = IF q = r THEN None ELSE rules[q]
        /\ \A e \in Events : events'[e] =
              IF EventExists(e) /\ events[e].rule = r THEN None ELSE events[e]
        /\ \A e \in Events : acked'[e] =
              IF EventExists(e) /\ events[e].rule = r THEN NoTime ELSE acked[e]
    BY <1>6 DEF DeleteRule, IInv, TypeOK
  <2>2. deliveries' = {d \in deliveries :
                          /\ d.recipient \notin {p \in recipients : RuleOf[p] = r}
                          /\ events'[d.event] # None}
    BY <1>6 DEF DeleteRule
  <2>3. TablesKept
    BY <1>0, <2>1 DEF TablesKept, Exists, EventExists, Time
  <2>4. NoticesKept
    BY <2>1, <2>2 DEF NoticesKept, EventExists
  <2> QED
    BY <2>3, <2>4
<1>7. ASSUME UNCHANGED <<now, rules, events, acked, work, esc>>,
             NEW gone, deliveries' = {d \in deliveries : d.recipient \notin gone}
      PROVE  TablesKept /\ NoticesKept
  BY <1>7, Unwritten DEF NoticesKept
<1>8. ASSUME UNCHANGED <<now, rules, events, acked, deliveries, work, esc>>
      PROVE  TablesKept /\ NoticesKept
  BY <1>8, Unwritten DEF NoticesKept
<1>9. ASSUME NEW c \in Channels, CreateChannel(c) \/ DeleteChannel(c)
      PROVE  TablesKept /\ NoticesKept
  BY <1>7, <1>8, <1>9 DEF CreateChannel, DeleteChannel, CascadeRecipients
<1>10. ASSUME NEW p \in Recipients, AddRecipient(p) \/ DeleteRecipient(p)
       PROVE  TablesKept /\ NoticesKept
  BY <1>7, <1>8, <1>10 DEF AddRecipient, DeleteRecipient, CascadeRecipients
<1>11. ASSUME NEW s \in Steps, AddEscalation(s) PROVE TablesKept /\ NoticesKept
  BY <1>8, <1>11 DEF AddEscalation
<1> QED
  BY <1>1, <1>2, <1>4, <1>5, <1>6, <1>9, <1>10, <1>11 DEF Api

\* The steps of the clock and of the world, and stuttering.
LEMMA ClockKeeps ==
    ASSUME IInv, UNCHANGED vars \/ Tick \/ (\E r \in Rules : World(r))
    PROVE  TablesKept /\ NoticesKept
<1>1. UNCHANGED <<rules, events, acked, deliveries, work, esc>>
  BY DEF vars, config, Tick, World
<1>2. now \in Time /\ now' \in Time /\ now <= now'
  BY ConstantsAssumption DEF vars, Tick, World, IInv, TypeOK, Time, ConstantsAssumption
<1> QED
  BY <1>1, <1>2 DEF TablesKept, NoticesKept, Exists, EventExists

LEMMA EscalationKeeps ==
    ASSUME IInv, NEW x \in Escalators, EscalationCycle(x)
    PROVE  /\ TablesKept
           /\ UNCHANGED <<now, rules, recipients, channels, steps, events, acked, work>>
<1>1. UNCHANGED <<now, rules, recipients, channels, steps, events, acked, work>>
  BY DEF EscalationCycle, EscalationStart, EscalateEvent, EscalationCommit,
         EscalationFails, EscalationKilled, config
<1> QED
  BY <1>1, Unwritten

\* Before its commit, the rule cycle changes nothing but what it has in hand.
LEMMA CycleKeeps ==
    ASSUME IInv, NEW w \in Workers, RulesCycle(w), ~Commit(w)
    PROVE  /\ UNCHANGED <<now, rules, recipients, channels, steps, events, acked, deliveries, esc>>
           /\ \A v \in Workers \ {w} : work'[v] = work[v]
<1>1. UNCHANGED <<now, rules, recipients, channels, steps, events, acked, deliveries, esc>>
  BY DEF RulesCycle, CycleStart, Decide, EvaluationRaises, Write, CommitFails, Kill, config
<1>2. work \in [Workers -> WorkRow]
  BY DEF IInv, CyclesOK
<1>3. CASE CycleStart(w) \/ CommitFails(w) \/ Kill(w)
  BY <1>1, <1>2, <1>3 DEF CycleStart, CommitFails, Kill
<1>4. ASSUME NEW r \in Rules, Decide(w, r) \/ EvaluationRaises(w, r)
      PROVE  \A v \in Workers \ {w} : work'[v] = work[v]
  BY <1>2, <1>4 DEF Decide, EvaluationRaises
<1>5. CASE Write(w)
  BY <1>1, <1>2, <1>5 DEF Write
<1> QED
  BY <1>1, <1>3, <1>4, <1>5 DEF RulesCycle

\* What a flush that succeeds adds to the cycle: a transition of e, and its rows.
Flushes(w, e) ==
    LET kind == work[w].kind IN
    /\ IF kind = "open" THEN FreshEvent(e) ELSE e = work[w].event /\ EventExists(e)
    /\ work'[w].writes[e] # None
    /\ work'[w].writes[e].rule = work[w].rule /\ work'[w].writes[e].kind = kind
    /\ \A f \in Events \ {e} : work'[w].writes[f] = work[w].writes[f]
    /\ work'[w].rows = work[w].rows
          \cup FanOut(w, work[w].rule, e, kind, IF kind = "open" THEN 1 ELSE events[e].nth + 1)

LEMMA WriteEffect ==
    ASSUME IInv, NEW w \in Workers, Write(w)
    PROVE  /\ work[w].pc = "write" /\ DecisionFits(w)
           /\ work'[w].pc = "next" /\ work'[w].at = work[w].at
           /\ work'[w].seen = work[w].seen /\ work'[w].todo = work[w].todo
           /\ \/ work'[w].writes = work[w].writes /\ work'[w].rows = work[w].rows
              \/ \E e \in Events : Flushes(w, e)
<1> DEFINE r == work[w].rule
           kind == work[w].kind
           done == [work[w] EXCEPT !.pc = "next", !.rule = None, !.event = None, !.kind = None]
           failed == ~Exists(r) \/ (kind # "open" /\ ~EventExists(work[w].event))
<1>1. /\ work[w].pc = "write" /\ work[w] \in WorkRow /\ DecisionFits(w)
      /\ work \in [Workers -> WorkRow]
  BY DEF Write, IInv, CyclesOK, InFlight
<1>2. /\ done.pc = "next" /\ done.at = work[w].at /\ done.seen = work[w].seen
      /\ done.todo = work[w].todo /\ done.writes = work[w].writes /\ done.rows = work[w].rows
  BY <1>1 DEF WorkRow
<1>3. CASE failed
  <2>1. work' = [work EXCEPT ![w] = [done EXCEPT !.poisoned = TRUE]]
    BY <1>3 DEF Write
  <2>2. work'[w] = [done EXCEPT !.poisoned = TRUE]
    BY <1>1, <2>1
  <2> QED
    BY <1>1, <2>2 DEF WorkRow
<1>4. CASE ~failed
  <2> DEFINE from(e) == IF kind = "open" THEN None ELSE events[e].status
             nth(e) == IF kind = "open" THEN 1 ELSE events[e].nth + 1
  <2>1. PICK e \in IF kind = "open" THEN {f \in Events : FreshEvent(f)} ELSE {work[w].event} :
          work' = [work EXCEPT ![w] =
                     [done EXCEPT !.writes[e] = [rule |-> r, kind |-> kind, from |-> from(e)],
                                  !.rows = @ \cup FanOut(w, r, e, kind, nth(e))]]
    BY <1>4, Zenon DEF Write
  <2> DEFINE row == [rule |-> r, kind |-> kind, from |-> from(e)]
  <2>2. /\ e \in Events /\ kind \in Statuses /\ r \in Rules
        /\ IF kind = "open" THEN FreshEvent(e) ELSE e = work[w].event /\ EventExists(e)
    BY <1>1, <1>4, <2>1 DEF DecisionFits
  <2>3. row # None
    <3>1. from(e) \in Statuses \cup {None}
      BY <2>2 DEF IInv, TypeOK, EventExists, EventRow
    <3> QED
      BY <2>2, <3>1, NoneIsNoRow DEF NoneIsNoRow, WriteRow
  <2> HIDE DEF row, nth
  <2>4. work'[w] = [done EXCEPT !.writes[e] = row, !.rows = @ \cup FanOut(w, r, e, kind, nth(e))]
    BY <1>1, <2>1 DEF row
  <2>5. /\ work'[w].pc = "next" /\ work'[w].at = work[w].at /\ work'[w].seen = work[w].seen
        /\ work'[w].todo = work[w].todo
        /\ work'[w].writes = [work[w].writes EXCEPT ![e] = row]
        /\ work'[w].rows = work[w].rows \cup FanOut(w, r, e, kind, nth(e))
    BY <1>1, <2>4 DEF WorkRow
  <2>6. work'[w].writes[e] = row /\ \A f \in Events \ {e} : work'[w].writes[f] = work[w].writes[f]
    BY <1>1, <2>2, <2>5 DEF WorkRow
  <2>7. Flushes(w, e)
    BY <2>2, <2>3, <2>5, <2>6 DEF Flushes, row, nth
  <2> QED
    BY <1>1, <2>2, <2>5, <2>7
<1> QED
  BY <1>3, <1>4

-----------------------------------------------------------------------------
(* FiringInv is inductive *)

LEMMA FiringsKept ==
    ASSUME IInv, IInv', FiringInv, TablesKept, UNCHANGED work PROVE FiringInv'
<1>1. \A w \in Workers : work[w].at \in Time
  BY DEF IInv, CyclesOK, WorkRow
<1>2. \A e \in Events : EventExists(e) => events[e] \in EventRow /\ events[e].rule \in Rules
  BY DEF IInv, TypeOK, EventExists, EventRow
<1>3. \A r \in Rules : Exists(r) => rules[r].lastFired \in Time \cup {NoTime}
  BY DEF IInv, TypeOK, Exists, RuleRow
<1>4. TimesOK'
  <2>1. \A e \in Events : EventExists(e)' =>
           events'[e].openedAt <= events'[e].updatedAt /\ events'[e].updatedAt <= now'
    BY <1>2 DEF FiringInv, TimesOK, TablesKept, Time, EventRow
  <2>2. \A r \in Rules : Exists(r)' => rules'[r].lastFired <= now'
    BY <1>3 DEF FiringInv, TimesOK, TablesKept, Time, NoTime
  <2>3. \A w \in Workers : ~Idle(w) =>
           /\ work[w].at <= now'
           /\ \A e \in Events : EventExists(e)' => events'[e].updatedAt <= work[w].at
           /\ \A r \in Rules : Exists(r)' => rules'[r].lastFired <= work[w].at
    BY <1>1, <1>3 DEF FiringInv, TimesOK, TablesKept, Time, NoTime
  <2> QED
    BY <2>1, <2>2, <2>3 DEF TimesOK, Idle
<1>5. SeenIsCurrent'
  <2>1. \A w \in Workers : work[w].todo \subseteq Rules
    BY DEF IInv, CyclesOK, WorkRow
  <2> QED
    BY <2>1 DEF FiringInv, SeenIsCurrent, TablesKept, Idle
<1>6. FiringsAreSpaced'
  BY DEF FiringInv, FiringsAreSpaced, CooledDown, Fired
<1>7. LastFiredIsNewestNotice'
  <2> SUFFICES ASSUME NEW e \in Events, EventExists(e)'
               PROVE  LET fired == rules'[events'[e].rule].lastFired IN
                      IF IsOpen(e)' THEN events'[e].updatedAt = fired
                                    ELSE events'[e].openedAt <= fired
    BY DEF LastFiredIsNewestNotice
  <2>1. EventExists(e) /\ events'[e] = events[e]
    BY DEF TablesKept
  <2>2. events[e].rule \in Rules /\ Exists(events[e].rule) /\ Exists(events[e].rule)'
    BY <2>1, <1>2 DEF IInv, TypeOK
  <2>3. rules'[events[e].rule].lastFired = rules[events[e].rule].lastFired
    BY <2>2 DEF TablesKept
  <2> QED
    BY <2>1, <2>3 DEF FiringInv, LastFiredIsNewestNotice, IsOpen, EventExists
<1> QED
  BY <1>4, <1>5, <1>6, <1>7 DEF FiringInv

\* Before the commit, the cycle's own part is all that may change.
FiringOwn(w) ==
    ~Idle(w) =>
        /\ work[w].at <= now
        /\ \A e \in Events : EventExists(e) => events[e].updatedAt <= work[w].at
        /\ \A r \in Rules : Exists(r) => rules[r].lastFired <= work[w].at
        /\ \A r \in Rules : Exists(r) /\ work[w].seen[r] # None =>
              rules[r].lastFired = work[w].seen[r].lastFired
        /\ \A r \in work[w].todo : work[w].seen[r] # None
        /\ work[w].pc = "write" /\ work[w].kind # "closed" => CooledDown(w, work[w].rule)
        /\ \A r \in Fired(w) : CooledDown(w, r)

LEMMA FiringOfOneCycle ==
    ASSUME IInv, IInv', FiringInv, NEW w \in Workers,
           UNCHANGED <<now, rules, events>>,
           \A v \in Workers \ {w} : work'[v] = work[v],
           FiringOwn(w)'
    PROVE  FiringInv'
<1>1. TimesOK'
  BY DEF FiringInv, TimesOK, FiringOwn, Idle, Exists, EventExists
<1>2. SeenIsCurrent'
  BY DEF FiringInv, SeenIsCurrent, FiringOwn, Idle, Exists
<1>3. FiringsAreSpaced'
  <2>1. ASSUME NEW v \in Workers \ {w}
        PROVE  /\ work'[v].pc = "write" /\ work'[v].kind # "closed" => CooledDown(v, work[v].rule)'
               /\ \A r \in Fired(v)' : CooledDown(v, r)'
    BY <2>1 DEF FiringInv, FiringsAreSpaced, CooledDown, Fired
  <2>2. CASE Idle(w)'
    <3>1. work'[w].writes = NoWrites /\ work'[w].pc = "idle"
      BY <2>2 DEF IInv, SerialCycles, Idle
    <3>2. Fired(w)' = {}
      BY <3>1 DEF Fired, NoWrites
    <3> QED
      BY <2>1, <3>1, <3>2 DEF FiringsAreSpaced
  <2>3. CASE ~Idle(w)'
    BY <2>1, <2>3 DEF FiringsAreSpaced, FiringOwn
  <2> QED
    BY <2>2, <2>3
<1>4. LastFiredIsNewestNotice'
  BY DEF FiringInv, LastFiredIsNewestNotice, IsOpen, EventExists
<1> QED
  BY <1>1, <1>2, <1>3, <1>4 DEF FiringInv

LEMMA FiringBeforeCommit ==
    ASSUME IInv, IInv', FiringInv, NEW w \in Workers, RulesCycle(w), ~Commit(w)
    PROVE  FiringInv'
<1>0. work[w] \in WorkRow /\ work \in [Workers -> WorkRow]
  BY DEF IInv, CyclesOK
<1>1. /\ UNCHANGED <<now, rules, events>>
      /\ \A v \in Workers \ {w} : work'[v] = work[v]
  BY CycleKeeps
<1>2. ~Idle(w) => FiringOwn(w)
  BY DEF FiringInv, TimesOK, SeenIsCurrent, FiringsAreSpaced, FiringOwn
<1>3. FiringOwn(w)'
  <2>1. CASE CycleStart(w)
    <3>1. work'[w] = [IdleWorker EXCEPT !.pc = "next", !.at = now, !.seen = rules,
                         !.todo = {r \in Rules : Exists(r) /\ rules[r].enabled}]
      BY <1>0, <2>1 DEF CycleStart
    <3>2. /\ work'[w].pc = "next" /\ work'[w].at = now /\ work'[w].seen = rules
          /\ work'[w].todo = {r \in Rules : Exists(r) /\ rules[r].enabled}
          /\ work'[w].writes = NoWrites
      BY <3>1 DEF IdleWorker
    <3>3. Fired(w)' = {}
      BY <3>2 DEF Fired, NoWrites
    <3>4. now <= now
      BY DEF IInv, TypeOK, Time
    <3> QED
      BY <1>1, <3>2, <3>3, <3>4 DEF FiringOwn, FiringInv, TimesOK, Exists, EventExists
  <2>2. ASSUME NEW r \in Rules, EvaluationRaises(w, r) PROVE FiringOwn(w)'
    <3>1. work'[w] = [work[w] EXCEPT !.todo = @ \ {r}, !.lost = TRUE] /\ ~Idle(w)
      BY <1>0, <2>2 DEF EvaluationRaises, Idle
    <3>2. /\ work'[w].pc = work[w].pc /\ work'[w].at = work[w].at
          /\ work'[w].seen = work[w].seen /\ work'[w].todo \subseteq work[w].todo
          /\ work'[w].writes = work[w].writes /\ work'[w].kind = work[w].kind
          /\ work'[w].rule = work[w].rule
      BY <1>0, <3>1 DEF WorkRow
    <3> QED
      BY <1>1, <1>2, <3>1, <3>2
      DEF FiringOwn, Fired, CooledDown, Idle, Exists, EventExists
  <2>3. ASSUME NEW r \in Rules, Decide(w, r) PROVE FiringOwn(w)'
    <3>1. PICK e \in IF OpenEvents(r) = {} THEN {None} ELSE OpenEvents(r) :
            LET kind == Decision(w, r, e) IN
            /\ Room(kind, e)
            /\ work' = [work EXCEPT ![w].todo = @ \ {r},
                                    ![w].pc = IF kind = None THEN "next" ELSE "write",
                                    ![w].rule = IF kind = None THEN None ELSE r,
                                    ![w].event = IF kind = None THEN None ELSE e,
                                    ![w].kind = IF kind = None THEN None ELSE kind]
      BY <2>3 DEF Decide
    <3> DEFINE kind == Decision(w, r, e)
    <3>2. /\ work'[w].at = work[w].at /\ work'[w].seen = work[w].seen
          /\ work'[w].todo = work[w].todo \ {r} /\ work'[w].writes = work[w].writes
          /\ work'[w].pc = IF kind = None THEN "next" ELSE "write"
          /\ work'[w].rule = IF kind = None THEN None ELSE r
          /\ work'[w].kind = kind
      BY <1>0, <3>1 DEF WorkRow
    <3>3. kind \in {"open", "updated"} =>
             ~IsInCooldown(work[w].seen[r].lastFired, work[w].at, work[w].seen[r].cooldown)
      BY NoneIsNoRow DEF NoneIsNoRow, Statuses, Decision
    <3>4. kind \in {None, "open", "updated", "closed"}
      BY DEF Decision
    <3>5. ~Idle(w) /\ r \in work[w].todo
      BY <2>3 DEF Decide, Idle
    <3> HIDE DEF kind
    <3>6. work'[w].pc = "write" /\ work'[w].kind # "closed" =>
              CooledDown(w, r)' /\ work'[w].rule = r
      BY <1>2, <3>2, <3>3, <3>4, <3>5 DEF CooledDown, FiringOwn
    <3>7. \A q \in Fired(w)' : CooledDown(w, q)'
      BY <1>2, <3>2, <3>5 DEF CooledDown, FiringOwn, Fired
    <3> QED
      BY <1>1, <1>2, <3>2, <3>5, <3>6, <3>7 DEF FiringOwn, Exists, EventExists
  <2>4. CASE Write(w)
    <3>1. /\ work[w].pc = "write" /\ work'[w].pc = "next" /\ work'[w].at = work[w].at
          /\ work'[w].seen = work[w].seen /\ work'[w].todo = work[w].todo
      BY <2>4, WriteEffect
    <3>2. ASSUME NEW r \in Fired(w)'
          PROVE  r \in Fired(w) \/ (work[w].kind # "closed" /\ r = work[w].rule)
      <4>1. PICK e \in Events : /\ work'[w].writes[e] # None /\ work'[w].writes[e].kind # "closed"
                                /\ work'[w].writes[e].rule = r
        BY DEF Fired
      <4>2. CASE work'[w].writes = work[w].writes
        BY <4>1, <4>2 DEF Fired
      <4>3. ASSUME NEW f \in Events, Flushes(w, f)
            PROVE  r \in Fired(w) \/ (work[w].kind # "closed" /\ r = work[w].rule)
        BY <4>1, <4>3 DEF Fired, Flushes
      <4> QED
        BY <2>4, <4>2, <4>3, WriteEffect
    <3>3. FiringOwn(w)
      BY <1>2, <3>1 DEF Idle
    <3>4. \A r \in Fired(w)' : CooledDown(w, r)'
      BY <3>1, <3>2, <3>3 DEF FiringOwn, CooledDown, Idle
    <3> QED
      BY <1>1, <3>1, <3>3, <3>4 DEF FiringOwn, Idle, Exists, EventExists
  <2>5. CASE CommitFails(w) \/ Kill(w)
    <3>1. work'[w] \in EndedWorker
      BY <1>0, <2>5 DEF CommitFails, Kill, EndedWorker
    <3> QED
      BY <3>1, IdleWorkerOK DEF FiringOwn, Idle
  <2> QED
    BY <2>1, <2>2, <2>3, <2>4, <2>5 DEF RulesCycle
<1> QED
  BY <1>1, <1>3, FiringOfOneCycle

\* What the commit of the one cycle in flight does.
LEMMA CommitEffect ==
    ASSUME IInv, NEW w \in Workers, Commit(w)
    PROVE  /\ work[w].pc = "next"
           /\ \A e \in Events : events'[e] = IF work[w].writes[e] = None THEN events[e]
                                             ELSE Committed(w, e)
           /\ \A r \in Rules : rules'[r] = IF r \in Fired(w)
                                           THEN [rules[r] EXCEPT !.lastFired = work[w].at]
                                           ELSE rules[r]
           /\ deliveries' = deliveries \cup work[w].rows
           /\ UNCHANGED <<now, holds, requests, recipients, channels, steps, acked, esc>>
           /\ \A v \in Workers : /\ work'[v].pc = "idle" /\ work'[v].writes = NoWrites
                                 /\ work'[v].rows = {}
<1>1. work'[w] = IdleWorker /\ \A v \in Workers \ {w} : work'[v] = work[v]
  BY DEF Commit, IInv, CyclesOK
<1>2. work[w].pc = "next"
  BY DEF Commit, Evaluated
<1>3. \A v \in Workers \ {w} : work[v].pc = "idle" /\ work[v].writes = NoWrites
  BY <1>2 DEF IInv, SerialCycles, Idle
<1>4. \A v \in Workers \ {w} : work[v].rows = {}
  BY <1>3 DEF IInv, CyclesOK, WorkRow, InFlight, NoWrites, DeliveryRow
<1>5. \A v \in Workers : /\ work'[v].pc = "idle" /\ work'[v].writes = NoWrites
                         /\ work'[v].rows = {}
  BY <1>1, <1>3, <1>4, IdleWorkerOK DEF EndedWorker
<1>6. \A r \in Rules : rules'[r] = IF r \in Fired(w)
                                   THEN [rules[r] EXCEPT !.lastFired = work[w].at] ELSE rules[r]
  BY DEF Commit
<1> QED
  BY <1>2, <1>5, <1>6 DEF Commit

\* The columns of the row it leaves for an event it has written.
LEMMA CommittedTimes ==
    ASSUME IInv, NEW w \in Workers, NEW e \in Events, work[w].writes[e] # None
    PROVE  /\ Committed(w, e).updatedAt = work[w].at
           /\ Committed(w, e).openedAt = IF work[w].writes[e].kind = "open"
                                         THEN work[w].at ELSE events[e].openedAt
<1>1. CASE work[w].writes[e].kind = "open"
  BY <1>1 DEF Committed
<1>2. CASE work[w].writes[e].kind # "open"
  <2>1. events[e] \in EventRow
    BY <1>2 DEF IInv, InFlight, WriteFits, IsOpen, EventExists, TypeOK
  <2> QED
    BY <1>2, <2>1 DEF Committed, EventRow
<1> QED
  BY <1>1, <1>2

LEMMA FiringAtCommit ==
    ASSUME IInv, IInv', FiringInv, NEW w \in Workers, Commit(w) PROVE FiringInv'
<1> DEFINE wrote(e) == work[w].writes[e] # None
           kind(e) == work[w].writes[e].kind
<1>1. /\ work[w].pc = "next" /\ now' = now
      /\ \A e \in Events : events'[e] = IF wrote(e) THEN Committed(w, e) ELSE events[e]
      /\ \A r \in Rules : rules'[r] = IF r \in Fired(w)
                                      THEN [rules[r] EXCEPT !.lastFired = work[w].at]
                                      ELSE rules[r]
      /\ \A v \in Workers : work'[v].pc = "idle" /\ work'[v].writes = NoWrites
  BY CommitEffect
<1>2. /\ work[w].at \in Time /\ now \in Time /\ work[w].at <= now
      /\ \A e \in Events : EventExists(e) => events[e].updatedAt <= work[w].at
      /\ \A r \in Rules : Exists(r) => rules[r].lastFired <= work[w].at
  BY <1>1 DEF FiringInv, TimesOK, Idle, IInv, CyclesOK, WorkRow, TypeOK
<1>3. \A e \in Events : EventExists(e) =>
         /\ events[e] \in EventRow /\ events[e].rule \in Rules /\ Exists(events[e].rule)
         /\ events[e].openedAt \in Time /\ events[e].updatedAt \in Time
         /\ events[e].openedAt <= events[e].updatedAt
  BY DEF IInv, TypeOK, EventExists, EventRow, FiringInv, TimesOK
<1>4. \A e \in Events : wrote(e) =>
         /\ work[w].writes[e] \in WriteRow /\ WriteFits(w, e)
         /\ events'[e].rule = work[w].writes[e].rule /\ events'[e].status = kind(e)
         /\ events'[e].updatedAt = work[w].at
         /\ events'[e].openedAt = IF kind(e) = "open" THEN work[w].at ELSE events[e].openedAt
  BY <1>1, CommittedRow, CommittedTimes
<1>5. \A r \in Rules : Exists(r) => rules'[r].lastFired = IF r \in Fired(w) THEN work[w].at
                                                           ELSE rules[r].lastFired
  <2> SUFFICES ASSUME NEW r \in Rules, Exists(r)
               PROVE  rules'[r].lastFired = IF r \in Fired(w) THEN work[w].at
                                            ELSE rules[r].lastFired
    OBVIOUS
  <2>1. rules[r] \in RuleRow
    BY DEF Exists, IInv, TypeOK
  <2> QED
    BY <1>1, <2>1 DEF RuleRow
<1>6. \A r \in Rules : Exists(r)' => Exists(r)
  <2>1. \A r \in Fired(w) : Exists(r)
    BY <1>4 DEF Fired, WriteFits
  <2> QED
    BY <1>1, <2>1 DEF Exists
<1>7. \A e \in Events : wrote(e) /\ kind(e) # "open" =>
         /\ EventExists(e) /\ IsOpen(e) /\ events[e].rule = events'[e].rule
  BY <1>4 DEF WriteFits, IsOpen
<1>8. TimesOK'
  <2>1. ASSUME NEW e \in Events, EventExists(e)'
        PROVE  events'[e].openedAt <= events'[e].updatedAt /\ events'[e].updatedAt <= now
    <3>1. CASE wrote(e)
      BY <1>2, <1>3, <1>4, <1>7, <3>1 DEF Time
    <3>2. CASE ~wrote(e)
      BY <1>1, <2>1, <3>2 DEF FiringInv, TimesOK, EventExists
    <3> QED
      BY <3>1, <3>2
  <2>2. \A r \in Rules : Exists(r)' => rules'[r].lastFired <= now
    BY <1>2, <1>5, <1>6 DEF FiringInv, TimesOK
  <2> QED
    BY <1>1, <2>1, <2>2 DEF TimesOK, Idle
<1>9. SeenIsCurrent'
  BY <1>1 DEF SeenIsCurrent, Idle
<1>10. FiringsAreSpaced'
  BY <1>1 DEF FiringsAreSpaced, Fired, NoWrites
<1>11. LastFiredIsNewestNotice'
  <2> SUFFICES ASSUME NEW e \in Events, EventExists(e)'
               PROVE  LET fired == rules'[events'[e].rule].lastFired IN
                      IF IsOpen(e)' THEN events'[e].updatedAt = fired
                                    ELSE events'[e].openedAt <= fired
    BY DEF LastFiredIsNewestNotice
  <2> DEFINE r == events'[e].rule
  <2>1. CASE wrote(e) /\ kind(e) # "closed"
    <3>1. r \in Fired(w) /\ r \in Rules /\ Exists(r)
      BY <1>4, <2>1 DEF Fired, WriteFits, WriteRow
    <3>2. IsOpen(e)'
      BY <1>4, <2>1 DEF IsOpen
    <3> QED
      BY <1>4, <1>5, <2>1, <3>1, <3>2
  <2>2. CASE wrote(e) /\ kind(e) = "closed"
    <3>1. r \in Rules /\ Exists(r) /\ r = work[w].writes[e].rule
      BY <1>4, <2>2 DEF WriteFits, WriteRow
    <3>2. r \notin Fired(w)
      BY <2>2, <3>1 DEF Fired, IInv, InFlight
    <3>3. events[e].updatedAt = rules[r].lastFired /\ events[e].openedAt <= events[e].updatedAt
      BY <1>3, <1>7, <2>2 DEF FiringInv, LastFiredIsNewestNotice
    <3>4. ~IsOpen(e)' /\ events'[e].openedAt = events[e].openedAt
      BY <1>4, <2>2 DEF IsOpen
    <3> QED
      BY <1>5, <3>1, <3>2, <3>3, <3>4
  <2>3. CASE ~wrote(e) /\ r \in Fired(w)
    <3>1. PICK f \in Events : wrote(f) /\ kind(f) # "closed" /\ work[w].writes[f].rule = r
      BY <2>3 DEF Fired
    <3>2. events'[e] = events[e] /\ EventExists(e)
      BY <1>1, <2>3 DEF EventExists
    <3>3. ~IsOpen(e)
      <4>1. CASE kind(f) = "open"
        BY <1>4, <3>1, <3>2, <4>1 DEF WriteFits, OpenEvents
      <4>2. CASE kind(f) # "open"
        BY <1>7, <1>4, <2>3, <3>1, <3>2, <4>2 DEF IInv, OneOpenEvent
      <4> QED
        BY <4>1, <4>2
    <3>4. events[e].openedAt <= work[w].at
      BY <1>2, <1>3, <3>2 DEF Time
    <3> QED
      BY <1>3, <1>5, <2>3, <3>2, <3>3, <3>4 DEF IsOpen, EventExists
  <2>4. CASE ~wrote(e) /\ r \notin Fired(w)
    <3>1. events'[e] = events[e] /\ EventExists(e)
      BY <1>1, <2>4 DEF EventExists
    <3> QED
      BY <1>3, <1>5, <2>4, <3>1 DEF FiringInv, LastFiredIsNewestNotice, IsOpen, EventExists
  <2> QED
    BY <1>4, <2>1, <2>2, <2>3, <2>4
<1> QED
  BY <1>8, <1>9, <1>10, <1>11 DEF FiringInv

LEMMA FiringStep == ASSUME IInv, IInv', FiringInv, [Next]_vars PROVE FiringInv'
<1>1. CASE UNCHANGED vars \/ Tick \/ \E r \in Rules : World(r)
  BY <1>1, ClockKeeps, FiringsKept DEF NoticesKept
<1>2. CASE Api
  BY <1>2, RequestsKeep, FiringsKept DEF NoticesKept
<1>3. ASSUME NEW x \in Escalators, EscalationCycle(x) PROVE FiringInv'
  BY <1>3, EscalationKeeps, FiringsKept
<1>4. ASSUME NEW w \in Workers, RulesCycle(w) PROVE FiringInv'
  BY <1>4, FiringBeforeCommit, FiringAtCommit
<1> QED
  BY <1>1, <1>2, <1>3, <1>4 DEF Next

LEMMA FiringOpening == ASSUME Init PROVE FiringInv
<1>1. \A w \in Workers : work[w] = IdleWorker /\ work[w].pc = "idle" /\ work[w].writes = NoWrites
  BY DEF Init, IdleWorker
<1>2. now = 0 /\ \A e \in Events : ~EventExists(e)
  BY DEF Init, EventExists
<1>3. \A r \in Rules : Exists(r) => rules[r].lastFired = NoTime
  BY DEF Init, Exists
<1>4. TimesOK
  BY <1>1, <1>2, <1>3 DEF TimesOK, Idle, NoTime
<1>5. SeenIsCurrent /\ FiringsAreSpaced
  BY <1>1 DEF SeenIsCurrent, FiringsAreSpaced, Idle, Fired, NoWrites
<1>6. LastFiredIsNewestNotice
  BY <1>2 DEF LastFiredIsNewestNotice
<1> QED
  BY <1>4, <1>5, <1>6 DEF FiringInv

\* The two invariants hold together.
THEOREM FiringInvariance == ASSUME ~Overlap PROVE Spec => [](IInv /\ FiringInv)
<1>1. Init => FiringInv
  BY FiringOpening
<1>2. IInv /\ IInv' /\ FiringInv /\ [Next]_vars => FiringInv'
  BY FiringStep
<1> QED
  BY <1>1, <1>2, Invariance, PTL DEF Spec

\* last_fired_at is the time of the newest notice: no API request, rollback or
\* late commit makes the denormalized column of a rule drift from its events.
THEOREM LastFiredAlways == ASSUME ~Overlap PROVE Spec => []LastFiredIsNewestNotice
<1>1. FiringInv => LastFiredIsNewestNotice
  BY DEF FiringInv
<1> QED
  BY <1>1, FiringInvariance, PTL

LEMMA SpacingStep ==
    ASSUME IInv, FiringInv, [Next]_vars, NEW r \in Rules, Exists(r), Exists(r)',
           rules[r].lastFired # NoTime, rules'[r].lastFired # rules[r].lastFired
    PROVE  \E w \in Workers :
              /\ work[w].seen[r] # None
              /\ rules'[r].lastFired - rules[r].lastFired >= work[w].seen[r].cooldown
<1>1. PICK w \in Workers : Commit(w)
  <2>1. ~TablesKept
    BY DEF TablesKept
  <2> QED
    BY <2>1, ClockKeeps, RequestsKeep, EscalationKeeps, CycleKeeps, Unwritten DEF Next
<1>2. /\ work[w].pc = "next"
      /\ rules'[r] = IF r \in Fired(w) THEN [rules[r] EXCEPT !.lastFired = work[w].at] ELSE rules[r]
  BY <1>1, CommitEffect
<1>3. rules[r] \in RuleRow
  BY DEF IInv, TypeOK, Exists
<1>4. r \in Fired(w) /\ rules'[r].lastFired = work[w].at
  BY <1>2, <1>3 DEF RuleRow
<1>5. CooledDown(w, r)
  BY <1>4 DEF FiringInv, FiringsAreSpaced
<1>6. work[w].seen[r] \in RuleRow /\ work[w].at \in Time
  BY <1>5 DEF CooledDown, IInv, CyclesOK, WorkRow
<1>7. rules[r].lastFired = work[w].seen[r].lastFired /\ rules[r].lastFired <= work[w].at
  BY <1>2, <1>5 DEF CooledDown, FiringInv, SeenIsCurrent, TimesOK, Idle
<1>8. /\ work[w].seen[r].cooldown \in Nat /\ rules[r].lastFired \in Int /\ work[w].at \in Int
  BY <1>3, <1>6 DEF RuleRow, Time, NoTime
<1>9. ~(work[w].seen[r].cooldown > 0
           /\ work[w].at - rules[r].lastFired < work[w].seen[r].cooldown)
  BY <1>5, <1>7 DEF CooledDown, IsInCooldown
<1> QED
  BY <1>4, <1>5, <1>7, <1>8, <1>9 DEF CooledDown

\* Two firings of a rule, of one event or of two, lie apart by the cooldown the
\* later cycle had read, however the rule is edited meanwhile.
THEOREM FiringsLieApart == ASSUME ~Overlap PROVE Spec => CooldownSpacing
<1>1. IInv /\ FiringInv /\ [Next]_vars =>
        [\A r \in Rules :
          /\ Exists(r) /\ Exists(r)'
          /\ rules[r].lastFired # NoTime
          /\ rules'[r].lastFired # rules[r].lastFired
          => \E w \in Workers :
                /\ work[w].seen[r] # None
                /\ rules'[r].lastFired - rules[r].lastFired >= work[w].seen[r].cooldown]_vars
  BY SpacingStep
<1> QED
  BY <1>1, FiringInvariance, PTL DEF Spec, CooldownSpacing

-----------------------------------------------------------------------------
(* NoticeInv is inductive *)

\* The types these proofs need of the rows they compare.
LEMMA NoticeTypes ==
    ASSUME IInv
    PROVE  /\ now \in Time
           /\ \A e \in Events : /\ acked[e] \in Time \cup {NoTime}
                                /\ EventExists(e) => /\ events[e] \in EventRow
                                                     /\ events[e].nth \in Nat
                                                     /\ events[e].openedAt \in Time
           /\ \A d \in deliveries : /\ d \in DeliveryRow /\ d.event \in Events
                                    /\ d.nth \in Nat /\ d.at \in Time
                                    /\ d.by \in Workers \cup Escalators
                                    /\ EventExists(d.event) /\ d.recipient \in recipients
           /\ \A w \in Workers : /\ work[w].at \in Time
                                 /\ \A row \in work[w].rows :
                                       /\ row \in DeliveryRow /\ row.event \in Events
                                       /\ work[w].writes[row.event] # None
           /\ \A x \in Escalators :
                 /\ esc[x].at \in Time
                 /\ \A row \in esc[x].rows :
                       /\ row \in DeliveryRow /\ row.event \in Events
                       /\ row.nth \in Nat /\ row.at \in Time /\ row.by \in Workers \cup Escalators
                 /\ \A e \in Events : esc[x].todo[e] # None => esc[x].todo[e] \in EventRow
                                                              /\ esc[x].todo[e].nth \in Nat
<1>1. now \in Time /\ \A e \in Events : /\ acked[e] \in Time \cup {NoTime}
                                        /\ EventExists(e) => events[e] \in EventRow
  BY DEF IInv, TypeOK, EventExists
<1>2. \A row \in EventRow : row.nth \in Nat /\ row.openedAt \in Time
  BY DEF EventRow
<1>3. \A row \in DeliveryRow : /\ row.event \in Events /\ row.nth \in Nat /\ row.at \in Time
                               /\ row.by \in Workers \cup Escalators
  BY DEF DeliveryRow
<1>4. \A d \in deliveries : d \in DeliveryRow /\ EventExists(d.event) /\ d.recipient \in recipients
  BY DEF IInv, TypeOK
<1>5. \A w \in Workers : /\ work[w].at \in Time /\ work[w].rows \subseteq DeliveryRow
                         /\ \A row \in work[w].rows : work[w].writes[row.event] # None
  BY DEF IInv, CyclesOK, WorkRow, InFlight
<1>6. \A x \in Escalators : /\ esc[x].at \in Time /\ esc[x].rows \subseteq DeliveryRow
                            /\ esc[x].todo \in [Events -> EventRow \cup {None}]
  BY DEF IInv, CyclesOK, EscRow
<1> QED
  BY <1>1, <1>2, <1>3, <1>4, <1>5, <1>6

LEMMA NoticesKeptStep ==
    ASSUME IInv, IInv', NoticeInv, TablesKept, NoticesKept PROVE NoticeInv'
<1>1. /\ UNCHANGED <<work, esc>> /\ deliveries' \subseteq deliveries
      /\ now \in Time /\ now' \in Time /\ now <= now'
      /\ \A e \in Events : EventExists(e)' => EventExists(e) /\ events'[e] = events[e]
      /\ \A e \in Events : EventExists(e)' =>
            acked'[e] = acked[e] \/ (acked[e] = NoTime /\ acked'[e] = now)
  BY DEF TablesKept, NoticesKept
<1>2. \A d \in deliveries' : /\ d \in deliveries /\ d.event \in Events /\ EventExists(d.event)'
                             /\ d.at \in Time /\ d.at <= now
  <2>1. \A d \in deliveries' : EventExists(d.event)'
    BY DEF IInv, TypeOK
  <2> QED
    BY <1>1, <2>1, NoticeTypes DEF NoticeInv, DeliveryFits
<1>3. SerialEscalation' /\ OpeningIsNew'
  <2>1. \A x \in Escalators : esc[x].pc # "idle" => esc[x].at <= now'
    BY <1>1, NoticeTypes DEF NoticeInv, SerialEscalation, Time
  <2> QED
    BY <1>1, <2>1 DEF NoticeInv, SerialEscalation, OpeningIsNew
<1>4. \A d \in deliveries' : DeliveryFits(d)'
  BY <1>1, <1>2 DEF NoticeInv, DeliveryFits, Time
<1>5. ASSUME NEW w \in Workers
      PROVE  /\ \A row \in work'[w].rows : FlushedFits(w, row)'
             /\ \A e \in Events : ClosingReachesTold(w, e)'
  <2>1. \A row \in work[w].rows :
           /\ FlushedFits(w, row) /\ row.event \in Events
           /\ work[w].writes[row.event].kind # "open" => events'[row.event] = events[row.event]
    <3> SUFFICES ASSUME NEW row \in work[w].rows
                 PROVE  /\ FlushedFits(w, row) /\ row.event \in Events
                        /\ work[w].writes[row.event].kind # "open" =>
                              events'[row.event] = events[row.event]
      OBVIOUS
    <3>1. FlushedFits(w, row) /\ row.event \in Events
      BY NoticeTypes DEF NoticeInv
    <3>2. work[w].writes[row.event] # None
      BY DEF IInv, InFlight
    <3>3. ASSUME work[w].writes[row.event].kind # "open" PROVE EventExists(row.event)'
      <4>1. WriteFits(w, row.event)'
        BY <1>1, <3>1, <3>2 DEF IInv, InFlight
      <4>2. IsOpen(row.event)'
        BY <1>1, <3>3, <4>1 DEF WriteFits
      <4> QED
        BY <4>2 DEF IsOpen, EventExists
    <3> QED
      BY <1>1, <3>1, <3>3
  <2> QED
    BY <1>1, <2>1 DEF NoticeInv, FlushedFits, ClosingReachesTold
<1>6. ASSUME NEW x \in Escalators
      PROVE  /\ \A e \in Events : ReadFits(x, e)'
             /\ \A row \in esc'[x].rows : EscalationFits(x, row)'
  <2>1. \A e \in Events : ReadFits(x, e)'
    BY <1>1 DEF NoticeInv, ReadFits
  <2>2. ASSUME NEW row \in esc[x].rows PROVE EscalationFits(x, row)'
    <3>1. EscalationFits(x, row) /\ row.event \in Events /\ row.at \in Time
      BY NoticeTypes DEF NoticeInv
    <3>2. row.at <= now
      BY <3>1 DEF NoticeInv, SerialEscalation, EscalationFits
    <3> QED
      BY <1>1, <3>1, <3>2 DEF EscalationFits
  <2> QED
    BY <1>1, <2>1, <2>2
<1>7. AllClearReachesWarned'
  <2> SUFFICES ASSUME NEW d \in deliveries', d.by \in Workers, events'[d.event].status = "closed"
               PROVE  \E c \in deliveries' : /\ c.event = d.event /\ c.recipient = d.recipient
                                             /\ c.kind = "closed"
    BY DEF AllClearReachesWarned
  <2>1. events[d.event].status = "closed" /\ EventExists(d.event) /\ d.event \in Events
    BY <1>1, <1>2
  <2>2. PICK c \in deliveries : /\ c.event = d.event /\ c.recipient = d.recipient
                                /\ c.kind = "closed"
    BY <1>1, <2>1 DEF NoticeInv, AllClearReachesWarned
  <2> QED
    BY <1>1, <2>2 DEF NoticesKept
<1>8. EscalationJustified'
  <2> SUFFICES ASSUME NEW d \in deliveries', d.by \in Escalators
               PROVE  /\ acked'[d.event] # NoTime => d.at <= acked'[d.event]
                      /\ \A c \in deliveries' :
                            c.by \in Escalators /\ c.event = d.event /\ c.recipient = d.recipient
                               /\ c.kind = d.kind => c = d
                      /\ \E n \in {StepDelay[s] : s \in {t \in Steps :
                                                            StepRecipient[t] = d.recipient}} :
                            d.at >= events'[d.event].openedAt + n
    BY DEF EscalationJustified
  <2> QED
    BY <1>1, <1>2 DEF NoticeInv, EscalationJustified
<1>9. NoticeToldOnce'
  BY <1>1 DEF NoticeInv, NoticeToldOnce
<1> QED
  BY <1>3, <1>4, <1>5, <1>6, <1>7, <1>8, <1>9 DEF NoticeInv

\* Nothing that the tables and the rule cycle say of notices changes.
LEMMA EscalationOnly ==
    ASSUME NoticeInv, UNCHANGED <<now, events, acked, deliveries, work>>,
           SerialEscalation', OpeningIsNew',
           \A x \in Escalators : /\ \A e \in Events : ReadFits(x, e)'
                                 /\ \A row \in esc'[x].rows : EscalationFits(x, row)'
    PROVE  NoticeInv'
<1>1. \A d \in deliveries' : DeliveryFits(d)'
  BY DEF NoticeInv, DeliveryFits
<1>2. \A w \in Workers : /\ \A row \in work'[w].rows : FlushedFits(w, row)'
                         /\ \A e \in Events : ClosingReachesTold(w, e)'
  BY DEF NoticeInv, FlushedFits, ClosingReachesTold
<1>3. AllClearReachesWarned' /\ NoticeToldOnce'
  BY DEF NoticeInv, AllClearReachesWarned, NoticeToldOnce, EventExists
<1>4. EscalationJustified'
  BY DEF NoticeInv, EscalationJustified
<1> QED
  BY <1>1, <1>2, <1>3, <1>4 DEF NoticeInv

LEMMA EscalationStartNotices ==
    ASSUME ~Overlap, IInv, NoticeInv, NEW x \in Escalators, EscalationStart(x)
    PROVE  NoticeInv'
<1>1. /\ UNCHANGED <<now, events, acked, deliveries, work>>
      /\ \A y \in Escalators : esc[y].pc = "idle"
      /\ \A y \in Escalators \ {x} : esc'[y] = esc[y]
      /\ esc'[x] = [pc |-> "run", at |-> now, rows |-> {}, lost |-> FALSE,
                    todo |-> [e \in Events |-> IF IsOpen(e) THEN events[e] ELSE None]]
  BY DEF EscalationStart, IInv, CyclesOK
<1>2. /\ esc'[x].pc = "run" /\ esc'[x].at = now /\ esc'[x].rows = {}
      /\ \A e \in Events : esc'[x].todo[e] = IF IsOpen(e) THEN events[e] ELSE None
  BY <1>1
<1>3. \A y \in Escalators \ {x} :
         /\ esc'[y].pc = "idle" /\ esc'[y].rows = {} /\ \A e \in Events : esc'[y].todo[e] = None
  BY <1>1 DEF NoticeInv, SerialEscalation
<1>4. SerialEscalation'
  BY <1>1, <1>2, <1>3, NoticeTypes DEF SerialEscalation, Time
<1>5. OpeningIsNew'
  BY <1>1, <1>2, <1>3 DEF OpeningIsNew, IInv, InFlight, WriteFits, IsOpen, EventExists
<1>6. \A e \in Events : ReadFits(x, e)'
  <2> SUFFICES ASSUME NEW e \in Events, IsOpen(e)
               PROVE  /\ events[e].nth <= events[e].nth
                      /\ \A d \in deliveries : d.event = e /\ d.nth = events[e].nth =>
                            d.kind = events[e].status
    BY <1>1, <1>2 DEF ReadFits
  <2> QED
    BY NoticeTypes DEF NoticeInv, DeliveryFits, IsOpen
<1>7. \A y \in Escalators \ {x} : \A e \in Events : ReadFits(y, e)'
  BY <1>3 DEF ReadFits
<1> QED
  BY <1>1, <1>2, <1>3, <1>4, <1>5, <1>6, <1>7, EscalationOnly

\* An execution that ends without inserting anything.
LEMMA EscalationEndsNotices ==
    ASSUME IInv, NoticeInv, NEW x \in Escalators, EscalationFails(x) \/ EscalationKilled(x)
    PROVE  NoticeInv'
<1>1. /\ UNCHANGED <<now, events, acked, deliveries, work>>
      /\ \A y \in Escalators \ {x} : esc'[y] = esc[y]
      /\ esc'[x].pc = "idle" /\ esc'[x].rows = {} /\ \A e \in Events : esc'[x].todo[e] = None
  BY DEF EscalationFails, EscalationKilled, IInv, CyclesOK, IdleEscalation
<1>2. SerialEscalation' /\ OpeningIsNew'
  BY <1>1 DEF NoticeInv, SerialEscalation, OpeningIsNew
<1>3. \A y \in Escalators, e \in Events : ReadFits(y, e)'
  BY <1>1 DEF NoticeInv, ReadFits, EventExists
<1>4. \A y \in Escalators : \A row \in esc'[y].rows : EscalationFits(y, row)'
  BY <1>1 DEF NoticeInv, EscalationFits, EventExists
<1> QED
  BY <1>1, <1>2, <1>3, <1>4, EscalationOnly

LEMMA EscalateEventNotices ==
    ASSUME IInv, NoticeInv, NEW x \in Escalators, NEW e \in Events, EscalateEvent(x, e)
    PROVE  NoticeInv'
<1> DEFINE read == esc[x].todo[e]
           new == {[event |-> e, recipient |-> StepRecipient[s], kind |-> read.status,
                    nth |-> read.nth, by |-> x, at |-> esc[x].at] : s \in Due(x, e)}
<1>1. /\ UNCHANGED <<now, events, acked, deliveries, work>>
      /\ esc[x].pc = "run" /\ read # None
      /\ esc[x] \in EscRow
      /\ esc' = [esc EXCEPT ![x].todo[e] = None,
                            ![x].rows = IF acked[e] # NoTime THEN @ ELSE @ \cup new]
  BY DEF EscalateEvent, IInv, CyclesOK
<1> HIDE DEF new
<1>2. /\ UNCHANGED <<now, events, acked, deliveries, work>> /\ esc[x].pc = "run" /\ read # None
      /\ \A y \in Escalators \ {x} : esc'[y] = esc[y]
      /\ esc'[x].pc = "run" /\ esc'[x].at = esc[x].at
      /\ \A f \in Events : esc'[x].todo[f] = IF f = e THEN None ELSE esc[x].todo[f]
      /\ esc'[x].rows = IF acked[e] # NoTime THEN esc[x].rows ELSE esc[x].rows \cup new
  BY <1>1 DEF IInv, CyclesOK, EscRow
<1>3. \A row \in esc[x].rows : row.event # e /\ row.event \in Events
  BY <1>2, NoticeTypes DEF NoticeInv, EscalationFits
<1>4. SerialEscalation'
  BY <1>2 DEF NoticeInv, SerialEscalation
<1>5. \A row \in new : \E s \in Due(x, e) :
         /\ row.event = e /\ row.recipient = StepRecipient[s] /\ row.kind = read.status
         /\ row.nth = read.nth /\ row.by = x /\ row.at = esc[x].at
  BY DEF new
<1>6. OpeningIsNew'
  <2>1. \A row \in esc'[x].rows : row \in esc[x].rows \/ row.event = e
    BY <1>2, <1>5
  <2> QED
    BY <1>2, <2>1 DEF NoticeInv, OpeningIsNew
<1>7. \A y \in Escalators, f \in Events : ReadFits(y, f)'
  <2>1. \A f \in Events : ReadFits(x, f)'
    BY <1>2 DEF NoticeInv, ReadFits, EventExists
  <2>2. \A y \in Escalators \ {x}, f \in Events : ReadFits(y, f)'
    BY <1>2 DEF NoticeInv, ReadFits, EventExists
  <2> QED
    BY <2>1, <2>2
<1>8. ASSUME NEW row \in esc[x].rows PROVE EscalationFits(x, row)'
  <2>1. EscalationFits(x, row) /\ row.event # e /\ row.event \in Events
    BY <1>3 DEF NoticeInv
  <2>2. \A other \in esc'[x].rows : other.event = row.event => other \in esc[x].rows
    BY <1>2, <1>5, <2>1
  <2> QED
    BY <1>2, <2>1, <2>2 DEF EscalationFits, EventExists
<1>9. ASSUME NEW row \in new, acked[e] = NoTime PROVE EscalationFits(x, row)'
  <2>1. PICK s \in Due(x, e) :
          /\ row.event = e /\ row.recipient = StepRecipient[s] /\ row.kind = read.status
          /\ row.nth = read.nth /\ row.by = x /\ row.at = esc[x].at
    BY <1>5
  <2>2. /\ s \in Steps /\ esc[x].at >= read.openedAt + StepDelay[s]
        /\ \A d \in deliveries : d.event = e /\ d.recipient = StepRecipient[s]
                                    => d.kind # read.status
    BY DEF Due, IInv, TypeOK
  <2>3. \A other \in esc'[x].rows :
           other.event = row.event /\ other.recipient = row.recipient => other = row
    <3>1. \A other \in esc'[x].rows : other.event = e => other \in new
      BY <1>2, <1>3
    <3>2. \A other \in new : other.recipient = row.recipient => other = row
      BY <2>1 DEF new
    <3> QED
      BY <2>1, <3>1, <3>2
  <2>4. EventExists(e) =>
          /\ row.nth <= events[e].nth
          /\ row.nth = events[e].nth => row.kind = events[e].status
          /\ \E t \in Steps : /\ StepRecipient[t] = row.recipient
                              /\ row.at >= events[e].openedAt + StepDelay[t]
          /\ \A d \in deliveries : d.event = e /\ d.recipient = row.recipient =>
                d.nth # row.nth /\ (d.by \in Escalators => d.kind # row.kind)
    BY <1>2, <2>1, <2>2 DEF NoticeInv, ReadFits
  <2> QED
    BY <1>2, <1>9, <2>1, <2>3, <2>4 DEF EscalationFits, EventExists
<1>10. \A y \in Escalators \ {x} : \A row \in esc'[y].rows : EscalationFits(y, row)'
  BY <1>2 DEF NoticeInv, EscalationFits, EventExists
<1> QED
  BY <1>2, <1>4, <1>6, <1>7, <1>8, <1>9, <1>10, EscalationOnly

LEMMA EscalationCommitNotices ==
    ASSUME IInv, NoticeInv, NEW x \in Escalators, EscalationCommit(x) PROVE NoticeInv'
<1>1. /\ UNCHANGED <<now, events, acked, work>>
      /\ deliveries' = deliveries \cup esc[x].rows
      /\ esc[x].pc = "run" /\ esc[x].at <= now
      /\ \A row \in esc[x].rows : EventExists(row.event)
  BY DEF EscalationCommit, Escalated, CanInsert, NoticeInv, SerialEscalation
<1>2. \A y \in Escalators :
         esc'[y].pc = "idle" /\ esc'[y].rows = {} /\ \A e \in Events : esc'[y].todo[e] = None
  <2>1. esc'[x] = IdleEscalation /\ \A y \in Escalators \ {x} : esc'[y] = esc[y]
    BY DEF EscalationCommit, IInv, CyclesOK
  <2>2. \A y \in Escalators \ {x} : esc[y].pc = "idle"
    BY <1>1 DEF NoticeInv, SerialEscalation
  <2> QED
    BY <2>1, <2>2 DEF IdleEscalation, NoticeInv, SerialEscalation
<1>3. \A row \in esc[x].rows :
         /\ EscalationFits(x, row) /\ row.by = x /\ row.by \notin Workers /\ row.at = esc[x].at
         /\ row.event \in Events /\ row \in DeliveryRow
  BY NoticeTypes, ConstantsAssumption DEF NoticeInv, EscalationFits, ConstantsAssumption
<1>4. SerialEscalation' /\ OpeningIsNew'
  BY <1>2 DEF SerialEscalation, OpeningIsNew
<1>5. \A d \in deliveries' : DeliveryFits(d)'
  <2>1. \A d \in deliveries : DeliveryFits(d)'
    BY <1>1 DEF NoticeInv, DeliveryFits
  <2>2. \A d \in esc[x].rows : DeliveryFits(d)'
    BY <1>1, <1>3 DEF DeliveryFits, EscalationFits
  <2> QED
    BY <1>1, <2>1, <2>2
<1>6. \A w \in Workers : /\ \A row \in work'[w].rows : FlushedFits(w, row)'
                         /\ \A e \in Events : ClosingReachesTold(w, e)'
  BY <1>1, <1>3 DEF NoticeInv, FlushedFits, ClosingReachesTold
<1>7. \A y \in Escalators : /\ \A e \in Events : ReadFits(y, e)'
                            /\ \A row \in esc'[y].rows : EscalationFits(y, row)'
  BY <1>2 DEF ReadFits
<1>8. AllClearReachesWarned'
  BY <1>1, <1>3 DEF NoticeInv, AllClearReachesWarned, EventExists
<1>9. EscalationJustified'
  <2>1. \A c, d \in deliveries' :
           c.by \in Escalators /\ d.by \in Escalators /\ c.event = d.event
              /\ c.recipient = d.recipient /\ c.kind = d.kind => c = d
    BY <1>1, <1>3 DEF NoticeInv, EscalationJustified, EscalationFits
  <2>2. ASSUME NEW d \in deliveries', d.by \in Escalators
        PROVE  /\ acked[d.event] # NoTime => d.at <= acked[d.event]
               /\ \E n \in {StepDelay[s] : s \in {t \in Steps : StepRecipient[t] = d.recipient}} :
                     d.at >= events[d.event].openedAt + n
    <3>1. CASE d \in deliveries
      BY <2>2, <3>1 DEF NoticeInv, EscalationJustified
    <3>2. CASE d \in esc[x].rows
      BY <1>1, <1>3, <3>2 DEF EscalationFits
    <3> QED
      BY <1>1, <3>1, <3>2
  <2> QED
    BY <1>1, <2>1, <2>2 DEF EscalationJustified
<1>10. NoticeToldOnce'
  BY <1>1, <1>3 DEF NoticeInv, NoticeToldOnce, EscalationFits
<1> QED
  BY <1>4, <1>5, <1>6, <1>7, <1>8, <1>9, <1>10 DEF NoticeInv

-----------------------------------------------------------------------------
(* NoticeInv and the rule cycle *)

LEMMA NoticesBeforeCommit ==
    ASSUME IInv, IInv', NoticeInv, NEW w \in Workers, RulesCycle(w), ~Commit(w)
    PROVE  NoticeInv'
<1>0. work[w] \in WorkRow /\ work \in [Workers -> WorkRow]
  BY DEF IInv, CyclesOK
<1>1. /\ UNCHANGED <<now, rules, recipients, channels, events, acked, deliveries, esc>>
      /\ \A v \in Workers \ {w} : work'[v] = work[v]
  BY CycleKeeps
<1> DEFINE own == /\ \A e \in Events : work'[w].writes[e] # None /\ work'[w].writes[e].kind = "open"
                        => \A x \in Escalators : /\ esc[x].todo[e] = None
                                                 /\ \A row \in esc[x].rows : row.event # e
                  /\ \A row \in work'[w].rows : FlushedFits(w, row)'
                  /\ \A e \in Events : ClosingReachesTold(w, e)'
<1>2. ASSUME work'[w].writes = NoWrites, work'[w].rows = {} PROVE own
  BY <1>2 DEF NoWrites, ClosingReachesTold
<1>3. ASSUME work'[w].writes = work[w].writes, work'[w].rows = work[w].rows,
             work'[w].at = work[w].at
      PROVE  own
  BY <1>1, <1>3 DEF NoticeInv, OpeningIsNew, FlushedFits, ClosingReachesTold
<1>4. ASSUME NEW e \in Events, Flushes(w, e), Write(w) PROVE own
  <2> DEFINE r == work[w].rule
             kind == work[w].kind
             nth == IF kind = "open" THEN 1 ELSE events[e].nth + 1
  <2>1. /\ work'[w].at = work[w].at /\ work[w].pc = "write" /\ DecisionFits(w)
        /\ IF kind = "open" THEN FreshEvent(e) ELSE e = work[w].event /\ EventExists(e)
        /\ work'[w].writes[e] # None
        /\ work'[w].writes[e].rule = r /\ work'[w].writes[e].kind = kind
        /\ \A f \in Events \ {e} : work'[w].writes[f] = work[w].writes[f]
        /\ work'[w].rows = work[w].rows \cup FanOut(w, r, e, kind, nth)
    BY <1>4, WriteEffect DEF Flushes
  <2>2. kind # "open" => events[e].rule = r /\ IsOpen(e)
    BY <2>1 DEF DecisionFits
  <2>3. work[w].writes[e] = None
    <3>1. CASE kind = "open"
      BY <2>1, <3>1 DEF FreshEvent
    <3>2. CASE kind # "open"
      BY <2>1, <2>2, <3>2 DEF IInv, InFlight, WriteFits, IsOpen, EventExists
    <3> QED
      BY <3>1, <3>2
  <2>4. \A row \in FanOut(w, r, e, kind, nth) :
           /\ row.event = e /\ row.kind = kind /\ row.nth = nth /\ row.by = w
           /\ row.at = work[w].at /\ row.recipient \in FanOutTo(r)
    BY DEF FanOut
  <2>5. ASSUME NEW f \in Events, work'[w].writes[f] # None, work'[w].writes[f].kind = "open"
        PROVE  \A x \in Escalators : /\ esc[x].todo[f] = None
                                     /\ \A row \in esc[x].rows : row.event # f
    <3>1. CASE f = e
      BY <2>1, <2>5, <3>1 DEF FreshEvent
    <3>2. CASE f # e
      BY <2>1, <2>5, <3>2 DEF NoticeInv, OpeningIsNew
    <3> QED
      BY <3>1, <3>2
  <2>6. ASSUME NEW row \in work'[w].rows PROVE FlushedFits(w, row)'
    <3>1. CASE row \in work[w].rows
      <4>1. row.event \in Events /\ row.event # e /\ FlushedFits(w, row)
        BY <2>3, <3>1, NoticeTypes DEF NoticeInv
      <4> QED
        BY <1>1, <2>1, <4>1 DEF FlushedFits
    <3>2. CASE row \in FanOut(w, r, e, kind, nth)
      BY <1>1, <2>1, <2>4, <3>2 DEF FlushedFits, FanOutTo
    <3> QED
      BY <2>1, <3>1, <3>2
  <2>7. ASSUME NEW f \in Events PROVE ClosingReachesTold(w, f)'
    <3>1. CASE f # e
      BY <1>1, <2>1, <3>1 DEF NoticeInv, ClosingReachesTold
    <3>2. CASE f = e /\ kind = "closed"
      <4>1. ASSUME NEW d \in deliveries, d.event = e, d.by \in Workers
            PROVE  \E row \in work'[w].rows : row.event = e /\ row.recipient = d.recipient
        <5>1. /\ RuleOf[d.recipient] = r /\ d.recipient \in EnabledRecipients
              /\ ChannelOf[d.recipient] \in EnabledChannels
          BY <2>2, <3>2, <4>1 DEF NoticeInv, DeliveryFits
        <5>2. d.recipient \in recipients /\ ChannelOf[d.recipient] \in channels
          BY DEF IInv, TypeOK
        <5>3. d.recipient \in FanOutTo(r)
          BY <5>1, <5>2 DEF FanOutTo
        <5>4. [event |-> e, recipient |-> d.recipient, kind |-> kind, nth |-> nth,
               by |-> w, at |-> work[w].at] \in FanOut(w, r, e, kind, nth)
          BY <5>3 DEF FanOut
        <5> QED
          BY <2>1, <5>4
      <4> QED
        BY <1>1, <3>2, <4>1 DEF ClosingReachesTold
    <3>3. CASE f = e /\ kind # "closed"
      BY <2>1, <3>3 DEF ClosingReachesTold
    <3> QED
      BY <3>1, <3>2, <3>3
  <2> QED
    BY <2>5, <2>6, <2>7
<1> HIDE DEF own
<1>5. ASSUME CycleStart(w) PROVE own
  <2>1. work'[w] = [IdleWorker EXCEPT !.pc = "next", !.at = now, !.seen = rules,
                       !.todo = {r \in Rules : Exists(r) /\ rules[r].enabled}]
    BY <1>0, <1>5 DEF CycleStart
  <2>2. work'[w].writes = NoWrites /\ work'[w].rows = {}
    BY <2>1 DEF IdleWorker
  <2> QED
    BY <1>2, <2>2
<1>6. ASSUME NEW r \in Rules, Decide(w, r) \/ EvaluationRaises(w, r) PROVE own
  <2>1. CASE Decide(w, r)
    <3>1. /\ work'[w].writes = work[w].writes /\ work'[w].rows = work[w].rows
          /\ work'[w].at = work[w].at
      BY <1>0, <2>1 DEF Decide, WorkRow
    <3> QED
      BY <1>3, <3>1
  <2>2. CASE EvaluationRaises(w, r)
    <3>1. /\ work'[w].writes = work[w].writes /\ work'[w].rows = work[w].rows
          /\ work'[w].at = work[w].at
      BY <1>0, <2>2 DEF EvaluationRaises, WorkRow
    <3> QED
      BY <1>3, <3>1
  <2> QED
    BY <1>6, <2>1, <2>2
<1>7. ASSUME CommitFails(w) \/ Kill(w) PROVE own
  <2>1. work'[w] \in EndedWorker
    BY <1>0, <1>7 DEF CommitFails, Kill, EndedWorker
  <2> QED
    BY <1>2, <2>1, IdleWorkerOK
<1>8. ASSUME Write(w) PROVE own
  BY <1>3, <1>4, <1>8, WriteEffect
<1>9. own
  BY <1>5, <1>6, <1>7, <1>8 DEF RulesCycle
<1>10. OpeningIsNew'
  BY <1>1, <1>9 DEF own, NoticeInv, OpeningIsNew
<1>11. \A v \in Workers : /\ \A row \in work'[v].rows : FlushedFits(v, row)'
                          /\ \A e \in Events : ClosingReachesTold(v, e)'
  <2>1. \A v \in Workers \ {w} : /\ \A row \in work'[v].rows : FlushedFits(v, row)'
                                 /\ \A e \in Events : ClosingReachesTold(v, e)'
    BY <1>1 DEF NoticeInv, FlushedFits, ClosingReachesTold
  <2> QED
    BY <1>9, <2>1 DEF own
<1>12. SerialEscalation' /\ \A d \in deliveries' : DeliveryFits(d)'
  BY <1>1 DEF NoticeInv, SerialEscalation, DeliveryFits
<1>13. \A x \in Escalators : /\ \A e \in Events : ReadFits(x, e)'
                             /\ \A row \in esc'[x].rows : EscalationFits(x, row)'
  BY <1>1 DEF NoticeInv, ReadFits, EscalationFits, EventExists
<1>14. AllClearReachesWarned' /\ NoticeToldOnce'
  BY <1>1 DEF NoticeInv, AllClearReachesWarned, NoticeToldOnce, EventExists
<1>15. EscalationJustified'
  BY <1>1 DEF NoticeInv, EscalationJustified
<1> QED
  BY <1>10, <1>11, <1>12, <1>13, <1>14, <1>15 DEF NoticeInv

LEMMA NoticesAtCommit ==
    ASSUME IInv, IInv', FiringInv, NoticeInv, NEW w \in Workers, Commit(w) PROVE NoticeInv'
<1> DEFINE wrote(e) == work[w].writes[e] # None
           kind(e) == work[w].writes[e].kind
           rows == work[w].rows
<1>1. /\ UNCHANGED <<now, acked, esc>> /\ work[w].pc = "next"
      /\ deliveries' = deliveries \cup rows
      /\ \A e \in Events : ~wrote(e) => events'[e] = events[e]
      /\ \A v \in Workers : work'[v].writes = NoWrites /\ work'[v].rows = {}
  BY CommitEffect
<1>2. \A e \in Events : wrote(e) =>
         /\ WriteFits(w, e) /\ kind(e) \in Statuses
         /\ events'[e].rule = work[w].writes[e].rule /\ events'[e].status = kind(e)
         /\ events'[e].nth = IF kind(e) = "open" THEN 1 ELSE events[e].nth + 1
         /\ kind(e) # "open" => events'[e].openedAt = events[e].openedAt
  BY CommitEffect, CommittedRow, CommittedTimes DEF WriteRow
<1>3. \A e \in Events : wrote(e) =>
         /\ kind(e) = "open" => ~EventExists(e)
         /\ kind(e) # "open" => /\ EventExists(e) /\ events[e].nth \in Nat
                                /\ events'[e].nth = events[e].nth + 1
                                /\ events'[e].rule = events[e].rule
  BY <1>2, NoticeTypes DEF WriteFits, IsOpen, EventExists
<1>4. \A row \in rows : /\ row.event \in Events /\ wrote(row.event) /\ FlushedFits(w, row)
                        /\ row.by = w /\ row.by \notin Escalators /\ row \in DeliveryRow
                        /\ row.kind = kind(row.event) /\ row.nth = events'[row.event].nth
  BY <1>2, NoticeTypes, ConstantsAssumption DEF NoticeInv, FlushedFits, ConstantsAssumption
<1>5. \A d \in deliveries : /\ d.event \in Events /\ EventExists(d.event)
                            /\ d.nth \in Nat /\ d.nth <= events[d.event].nth
                            /\ wrote(d.event) => /\ kind(d.event) # "open"
                                                 /\ d.nth < events'[d.event].nth
  <2> SUFFICES ASSUME NEW d \in deliveries
               PROVE  /\ d.event \in Events /\ EventExists(d.event)
                      /\ d.nth \in Nat /\ d.nth <= events[d.event].nth
                      /\ wrote(d.event) => /\ kind(d.event) # "open"
                                           /\ d.nth < events'[d.event].nth
    OBVIOUS
  <2>1. /\ d.event \in Events /\ EventExists(d.event) /\ d.nth \in Nat
        /\ d.nth <= events[d.event].nth
    BY NoticeTypes DEF NoticeInv, DeliveryFits
  <2> QED
    BY <1>3, <2>1
<1>6. SerialEscalation' /\ OpeningIsNew'
  BY <1>1 DEF NoticeInv, SerialEscalation, OpeningIsNew, NoWrites
<1>7. \A d \in deliveries' : DeliveryFits(d)'
  <2>1. ASSUME NEW d \in deliveries PROVE DeliveryFits(d)'
    <3>1. DeliveryFits(d)
      BY DEF NoticeInv
    <3>2. CASE wrote(d.event)
      BY <1>1, <1>3, <1>5, <3>1, <3>2 DEF DeliveryFits
    <3>3. CASE ~wrote(d.event)
      BY <1>1, <1>5, <3>1, <3>3 DEF DeliveryFits
    <3> QED
      BY <3>2, <3>3
  <2>2. ASSUME NEW d \in rows PROVE DeliveryFits(d)'
    <3>1. /\ d.event \in Events /\ wrote(d.event) /\ FlushedFits(w, d)
          /\ d.kind = kind(d.event) /\ d.nth = events'[d.event].nth /\ d.at = work[w].at
      BY <1>4 DEF FlushedFits
    <3>2. d.at <= now
      BY <1>1, <3>1 DEF FiringInv, TimesOK, Idle
    <3>3. events'[d.event].nth \in Nat
      BY <1>3, <1>2, <3>1
    <3> QED
      BY <1>1, <1>2, <3>1, <3>2, <3>3 DEF DeliveryFits, FlushedFits
  <2> QED
    BY <1>1, <2>1, <2>2
<1>8. \A v \in Workers : /\ \A row \in work'[v].rows : FlushedFits(v, row)'
                         /\ \A e \in Events : ClosingReachesTold(v, e)'
  BY <1>1 DEF ClosingReachesTold, NoWrites
<1>9. ASSUME NEW x \in Escalators, NEW e \in Events PROVE ReadFits(x, e)'
  <2> DEFINE read == esc[x].todo[e]
  <2> SUFFICES ASSUME read # None, EventExists(e)'
               PROVE  /\ read.openedAt = events'[e].openedAt
                      /\ read.nth <= events'[e].nth
                      /\ read.nth = events'[e].nth => read.status = events'[e].status
                      /\ \A d \in deliveries' : d.event = e /\ d.nth = read.nth
                                                    => d.kind = read.status
    BY <1>1 DEF ReadFits
  <2>1. read.nth \in Nat
    BY NoticeTypes
  <2>2. CASE wrote(e)
    <3>1. kind(e) # "open"
      BY <2>2 DEF NoticeInv, OpeningIsNew
    <3>2. EventExists(e) /\ ReadFits(x, e)
      BY <1>3, <2>2, <3>1 DEF NoticeInv
    <3>3. read.nth < events'[e].nth
      BY <1>3, <2>1, <2>2, <3>1, <3>2 DEF ReadFits
    <3>4. \A d \in rows : d.event = e => d.nth # read.nth
      BY <1>3, <1>4, <2>1, <2>2, <3>1, <3>3
    <3> QED
      BY <1>1, <1>2, <1>3, <2>1, <2>2, <3>1, <3>2, <3>3, <3>4 DEF ReadFits
  <2>3. CASE ~wrote(e)
    <3>1. EventExists(e) /\ ReadFits(x, e) /\ \A d \in rows : d.event # e
      BY <1>1, <1>4, <2>3 DEF NoticeInv, EventExists
    <3> QED
      BY <1>1, <2>3, <3>1 DEF ReadFits
  <2> QED
    BY <2>2, <2>3
<1>10. ASSUME NEW x \in Escalators, NEW row \in esc[x].rows PROVE EscalationFits(x, row)'
  <2> DEFINE e == row.event
  <2>1. EscalationFits(x, row) /\ e \in Events /\ row.nth \in Nat
    BY NoticeTypes DEF NoticeInv
  <2>2. CASE wrote(e)
    <3>1. kind(e) # "open"
      BY <2>1, <2>2 DEF NoticeInv, OpeningIsNew
    <3>2. /\ EventExists(e) /\ row.nth < events'[e].nth
          /\ events'[e].openedAt = events[e].openedAt
      BY <1>2, <1>3, <2>1, <2>2, <3>1 DEF EscalationFits
    <3>3. \A d \in rows : d.event = e => d.nth # row.nth /\ d.by \notin Escalators
      BY <1>3, <1>4, <2>1, <2>2, <3>1, <3>2
    <3>4. row.nth <= events'[e].nth /\ row.nth # events'[e].nth
      BY <1>3, <2>1, <2>2, <3>1, <3>2
    <3> QED
      BY <1>1, <2>1, <3>2, <3>3, <3>4 DEF EscalationFits
  <2>3. CASE ~wrote(e)
    <3>1. events'[e] = events[e] /\ \A d \in rows : d.event # e
      BY <1>1, <1>4, <2>1, <2>3
    <3> QED
      BY <1>1, <2>1, <3>1 DEF EscalationFits, EventExists
  <2> QED
    BY <2>2, <2>3
<1>11. AllClearReachesWarned'
  <2> SUFFICES ASSUME NEW d \in deliveries', d.by \in Workers, EventExists(d.event)',
                      events'[d.event].status = "closed"
               PROVE  \E c \in deliveries' : /\ c.event = d.event /\ c.recipient = d.recipient
                                             /\ c.kind = "closed"
    BY DEF AllClearReachesWarned
  <2>1. CASE d \in rows
    BY <1>1, <1>2, <1>4, <2>1
  <2>2. CASE d \in deliveries /\ wrote(d.event)
    <3>1. kind(d.event) = "closed" /\ d.event \in Events
      BY <1>2, <1>5, <2>2
    <3>2. PICK row \in rows : row.event = d.event /\ row.recipient = d.recipient
      BY <2>2, <3>1 DEF NoticeInv, ClosingReachesTold
    <3> QED
      BY <1>1, <1>4, <3>1, <3>2
  <2>3. CASE d \in deliveries /\ ~wrote(d.event)
    <3>1. EventExists(d.event) /\ events[d.event].status = "closed" /\ d.event \in Events
      BY <1>1, <1>5, <2>3
    <3> QED
      BY <1>1, <2>3, <3>1 DEF NoticeInv, AllClearReachesWarned
  <2> QED
    BY <1>1, <2>1, <2>2, <2>3
<1>12. EscalationJustified'
  <2> SUFFICES ASSUME NEW d \in deliveries', d.by \in Escalators
               PROVE  /\ acked[d.event] # NoTime => d.at <= acked[d.event]
                      /\ \A c \in deliveries' :
                            c.by \in Escalators /\ c.event = d.event /\ c.recipient = d.recipient
                               /\ c.kind = d.kind => c = d
                      /\ \E n \in {StepDelay[s] : s \in {t \in Steps :
                                                            StepRecipient[t] = d.recipient}} :
                            d.at >= events'[d.event].openedAt + n
    BY <1>1 DEF EscalationJustified
  <2>1. \A c \in deliveries' : c.by \in Escalators => c \in deliveries
    BY <1>1, <1>4
  <2>2. d \in deliveries /\ events'[d.event].openedAt = events[d.event].openedAt
    BY <1>1, <1>2, <1>5, <2>1
  <2> QED
    BY <2>1, <2>2 DEF NoticeInv, EscalationJustified
<1>13. NoticeToldOnce'
  <2>1. \A c \in deliveries, d \in rows :
           c.event = d.event => c.nth # d.nth
    BY <1>4, <1>5, <1>3
  <2>2. \A c, d \in rows : c.event = d.event /\ c.recipient = d.recipient => c = d
    <3> SUFFICES ASSUME NEW c \in rows, NEW d \in rows, c.event = d.event,
                        c.recipient = d.recipient
                 PROVE  c = d
      OBVIOUS
    <3>1. /\ c.kind = d.kind /\ c.nth = d.nth /\ c.by = d.by /\ c.at = d.at
      BY <1>4 DEF FlushedFits
    <3> QED
      BY <1>4, <3>1 DEF DeliveryRow
  <2> QED
    BY <1>1, <2>1, <2>2 DEF NoticeInv, NoticeToldOnce
<1> QED
  BY <1>1, <1>6, <1>7, <1>8, <1>9, <1>10, <1>11, <1>12, <1>13 DEF NoticeInv

LEMMA NoticeStep ==
    ASSUME ~Overlap, IInv, IInv', FiringInv, NoticeInv, [Next]_vars PROVE NoticeInv'
<1>1. CASE UNCHANGED vars \/ Tick \/ \E r \in Rules : World(r)
  BY <1>1, ClockKeeps, NoticesKeptStep
<1>2. CASE Api
  BY <1>2, RequestsKeep, NoticesKeptStep
<1>3. ASSUME NEW x \in Escalators, EscalationCycle(x) PROVE NoticeInv'
  BY <1>3, EscalationStartNotices, EscalateEventNotices, EscalationCommitNotices,
     EscalationEndsNotices DEF EscalationCycle
<1>4. ASSUME NEW w \in Workers, RulesCycle(w) PROVE NoticeInv'
  BY <1>4, NoticesBeforeCommit, NoticesAtCommit
<1> QED
  BY <1>1, <1>2, <1>3, <1>4 DEF Next

LEMMA NoticeOpening == ASSUME Init PROVE NoticeInv
<1>1. /\ deliveries = {} /\ \A w \in Workers : work[w].rows = {} /\ work[w].writes = NoWrites
      /\ \A x \in Escalators : /\ esc[x].pc = "idle" /\ esc[x].rows = {}
                               /\ \A e \in Events : esc[x].todo[e] = None
  BY DEF Init, IdleWorker, IdleEscalation
<1>2. SerialEscalation /\ OpeningIsNew
  BY <1>1 DEF SerialEscalation, OpeningIsNew, NoWrites
<1>3. /\ \A w \in Workers, e \in Events : ClosingReachesTold(w, e)
      /\ \A x \in Escalators, e \in Events : ReadFits(x, e)
  BY <1>1 DEF ClosingReachesTold, ReadFits, NoWrites
<1>4. AllClearReachesWarned /\ EscalationJustified /\ NoticeToldOnce
  BY <1>1 DEF AllClearReachesWarned, EscalationJustified, NoticeToldOnce
<1> QED
  BY <1>1, <1>2, <1>3, <1>4 DEF NoticeInv

\* What the cycles have in hand fits the notices that have been told.
THEOREM NoticeInvariance == ASSUME ~Overlap PROVE Spec => []NoticeInv
<1>1. Init => NoticeInv
  BY NoticeOpening
<1>2. IInv /\ IInv' /\ FiringInv /\ NoticeInv /\ [Next]_vars => NoticeInv'
  BY NoticeStep
<1> QED
  BY <1>1, <1>2, FiringInvariance, PTL DEF Spec

\* Whoever the rule cycle told that an event began is told when it closes,
\* unless he or the event has been deleted: no edit of the recipients during a
\* cycle makes the closing miss one of them.
THEOREM AllClearAlways == ASSUME ~Overlap PROVE Spec => []AllClearReachesWarned
<1>1. NoticeInv => AllClearReachesWarned
  BY DEF NoticeInv
<1> QED
  BY <1>1, NoticeInvariance, PTL

\* A step escalates past its delay, before an acknowledgement, and once per
\* status, although the cycle works on events it read at its start.
THEOREM EscalationsJustified == ASSUME ~Overlap PROVE Spec => []EscalationJustified
<1>1. NoticeInv => EscalationJustified
  BY DEF NoticeInv
<1> QED
  BY <1>1, NoticeInvariance, PTL

\* The rule cycle and the escalation cycle, which do not wait for each other,
\* never both tell a recipient of the same transition of an event.
THEOREM ToldOnce == ASSUME ~Overlap PROVE Spec => []NoticeToldOnce
<1>1. NoticeInv => NoticeToldOnce
  BY DEF NoticeInv
<1> QED
  BY <1>1, NoticeInvariance, PTL
=============================================================================
