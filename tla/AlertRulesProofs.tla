-------------------------- MODULE AlertRulesProofs --------------------------
(***************************************************************************)
(* Proofs about AlertRules, for every value of the constants, when beat's  *)
(* next execution of a task does not start before the last one has ended   *)
(* (~Overlap): the tables keep their types and foreign keys, a rule has at *)
(* most one open event, and the tables implement AlertEpisode.             *)
(*                                                                         *)
(* The tables alone are not inductive: what a cycle commits depends on     *)
(* what it has read and flushed, and an API request may have come in       *)
(* between.  InFlight says what of that is still true when it commits.     *)
(***************************************************************************)
EXTENDS AlertRules, TLAPS

WorkRow == [pc : {"idle", "next", "write"}, at : Time, todo : SUBSET Rules,
            seen : [Rules -> RuleRow \cup {None}],
            rule : Rules \cup {None}, event : Events \cup {None}, kind : Statuses \cup {None},
            writes : [Events -> WriteRow \cup {None}],
            rows : SUBSET DeliveryRow, poisoned : BOOLEAN, lost : BOOLEAN]

EscRow == [pc : {"idle", "run"}, at : Time, todo : [Events -> EventRow \cup {None}],
           rows : SUBSET DeliveryRow, lost : BOOLEAN]

CyclesOK == /\ work \in [Workers -> WorkRow]
            /\ esc \in [Escalators -> EscRow]

\* One execution of the rule cycle at a time; an idle worker holds nothing.
SerialCycles ==
    /\ \A v, w \in Workers : ~Idle(v) /\ ~Idle(w) => v = w
    /\ \A w \in Workers : Idle(w) => work[w].writes = NoWrites

\* A flushed transition still fits the tables.
WriteFits(w, e) ==
    LET x == work[w].writes[e] IN
    /\ Exists(x.rule)
    /\ x.rule \notin work[w].todo
    /\ work[w].pc = "write" => x.rule # work[w].rule
    /\ x.kind = "open" => events[e] = None /\ OpenEvents(x.rule) = {}
    /\ x.kind # "open" => /\ IsOpen(e)
                          /\ events[e].rule = x.rule
                          /\ events[e].status = x.from
    /\ x.kind = "updated" => events[e].nth + 1 < MaxNotices

\* What the cycle has decided, but not flushed, still fits the tables; the
\* event it is about may have gone with its rule.
DecisionFits(w) ==
    /\ work[w].rule \in Rules /\ work[w].kind \in Statuses
    /\ work[w].rule \notin work[w].todo
    /\ work[w].kind = "open" => OpenEvents(work[w].rule) = {}
    /\ work[w].kind # "open" => work[w].event \in Events
    /\ work[w].kind # "open" /\ EventExists(work[w].event) =>
          /\ IsOpen(work[w].event)
          /\ events[work[w].event].rule = work[w].rule
          /\ work[w].kind = "updated" => events[work[w].event].nth + 1 < MaxNotices

InFlight ==
    \A w \in Workers :
        /\ \A e \in Events : work[w].writes[e] # None => WriteFits(w, e)
        /\ \A e, f \in Events :
              work[w].writes[e] # None /\ work[w].writes[f] # None
                 /\ work[w].writes[e].rule = work[w].writes[f].rule => e = f
        /\ \A row \in work[w].rows : work[w].writes[row.event] # None
        /\ work[w].pc = "write" => DecisionFits(w)

\* An open event has a notice left: the bound leaves room for its closing.
RoomToClose == \A e \in Events : IsOpen(e) => events[e].nth < MaxNotices

IInv == /\ TypeOK
        /\ CyclesOK
        /\ SerialCycles
        /\ InFlight
        /\ RoomToClose
        /\ OneOpenEvent

-----------------------------------------------------------------------------
(* Steps that leave the events and the rule cycles alone *)

LEMMA Frame ==
    ASSUME IInv, UNCHANGED <<events, work>>,
           \A r \in Rules : Exists(r) => Exists(r)'
    PROVE  SerialCycles' /\ InFlight' /\ RoomToClose' /\ OneOpenEvent'
<1> USE DEF IInv
<1>1. SerialCycles'
  BY DEF SerialCycles, Idle
<1>2. InFlight'
  <2> SUFFICES ASSUME NEW w \in Workers
               PROVE  /\ \A e \in Events : work[w].writes[e] # None => WriteFits(w, e)'
                      /\ work[w].pc = "write" => DecisionFits(w)'
    BY DEF InFlight
  <2>1. ASSUME NEW e \in Events, work[w].writes[e] # None
        PROVE  WriteFits(w, e)'
    <3>1. work[w].writes[e].rule \in Rules
      BY <2>1 DEF CyclesOK, WorkRow, WriteRow
    <3> QED
      BY <2>1, <3>1 DEF InFlight, WriteFits, OpenEvents, IsOpen, EventExists
  <2>2. work[w].pc = "write" => DecisionFits(w)'
    BY DEF InFlight, DecisionFits, OpenEvents, IsOpen, EventExists
  <2> QED
    BY <2>1, <2>2
<1>3. RoomToClose'
  BY DEF RoomToClose, IsOpen, EventExists
<1>4. OneOpenEvent'
  BY DEF OneOpenEvent, IsOpen, EventExists
<1> QED
  BY <1>1, <1>2, <1>3, <1>4

LEMMA Opening == ASSUME Init PROVE IInv
<1> USE ConstantsAssumption, NoneIsNoRow DEF Init
<1>1. TypeOK
  <2>1. rules \in [Rules -> RuleRow \cup {None}]
    <3> SUFFICES ASSUME NEW r \in Rules, rules[r] # None
                 PROVE  rules[r] \in RuleRow
      OBVIOUS
    <3>1. rules[r] \in [enabled : {TRUE}, conds : {TRUE}, active : {TRUE},
                        cooldown : Cooldowns, quiet : Windows, lastFired : {NoTime}]
      OBVIOUS
    <3> QED
      BY <3>1 DEF ConstantsAssumption, RuleRow
  <2>2. now \in Time /\ requests \in 0 .. MaxRequests
    BY DEF Time, ConstantsAssumption
  <2>3. recipients \subseteq {p \in Recipients : Exists(RuleOf[p]) /\ ChannelOf[p] \in channels}
    BY DEF ConstantsAssumption
  <2>4. acked \in [Events -> Time \cup {NoTime}]
    OBVIOUS
  <2> QED
    BY <2>1, <2>2, <2>3, <2>4 DEF TypeOK, EventExists
<1>2. CyclesOK
  BY DEF ConstantsAssumption, CyclesOK, WorkRow, EscRow, IdleWorker, IdleEscalation, NoWrites, Time
<1>3. SerialCycles
  BY DEF SerialCycles, Idle, IdleWorker
<1>4. InFlight
  BY DEF InFlight, IdleWorker, NoWrites
<1>5. RoomToClose /\ OneOpenEvent
  BY DEF RoomToClose, OneOpenEvent, IsOpen, EventExists
<1> QED
  BY <1>1, <1>2, <1>3, <1>4, <1>5 DEF IInv

LEMMA ClockStep == ASSUME IInv, Tick \/ (\E r \in Rules : World(r)) PROVE IInv'
<1>1. TypeOK'
  BY ConstantsAssumption DEF IInv, TypeOK, Tick, World, config, Time, Exists, EventExists
<1>2. CyclesOK'
  BY DEF IInv, CyclesOK, Tick, World
<1>3. SerialCycles' /\ InFlight' /\ RoomToClose' /\ OneOpenEvent'
  BY Frame DEF Tick, World, config, Exists
<1> QED
  BY <1>1, <1>2, <1>3 DEF IInv

LEMMA AcknowledgeStep ==
    ASSUME IInv, NEW e \in Events, Acknowledge(e) PROVE IInv'
<1>1. TypeOK'
  <2> USE DEF Acknowledge, Request
  <2>1. requests' \in 0 .. MaxRequests
    BY ConstantsAssumption DEF IInv, TypeOK, ConstantsAssumption
  <2>2. acked' \in [Events -> Time \cup {NoTime}]
    BY DEF IInv, TypeOK
  <2>3. \A f \in Events : acked'[f] # NoTime => EventExists(f)'
    BY DEF IInv, TypeOK, EventExists
  <2> QED
    BY <2>1, <2>2, <2>3 DEF IInv, TypeOK, Exists, EventExists
<1>2. CyclesOK'
  BY DEF IInv, CyclesOK, Acknowledge
<1>3. SerialCycles' /\ InFlight' /\ RoomToClose' /\ OneOpenEvent'
  BY Frame DEF Acknowledge, Exists
<1> QED
  BY <1>1, <1>2, <1>3 DEF IInv

\* A request that writes one rule's row and leaves every row in place.
LEMMA RuleRowWritten ==
    ASSUME IInv, NEW r \in Rules, Request, rules' = [rules EXCEPT ![r] = rules'[r]],
           rules'[r] \in RuleRow,
           UNCHANGED <<now, holds, recipients, channels, steps, events, acked, deliveries,
                       work, esc>>
    PROVE  IInv'
<1>1. rules' \in [Rules -> RuleRow \cup {None}]
  BY DEF IInv, TypeOK
<1>2. \A q \in Rules : Exists(q) => Exists(q)'
  BY NoneIsNoRow DEF NoneIsNoRow, IInv, TypeOK, Exists
<1>3. TypeOK'
  <2>1. recipients' \subseteq
           {p \in Recipients : Exists(RuleOf[p])' /\ ChannelOf[p] \in channels'}
    BY <1>2, ConstantsAssumption DEF IInv, TypeOK, ConstantsAssumption
  <2>2. steps' \subseteq {s \in Steps : Exists(StepRule[s])' /\ StepRecipient[s] \in recipients'}
    BY <1>2, ConstantsAssumption DEF IInv, TypeOK, ConstantsAssumption
  <2>3. \A e \in Events : EventExists(e) => events[e].rule \in Rules
    BY DEF IInv, TypeOK, EventExists, EventRow
  <2>4. \A e \in Events : EventExists(e)' => Exists(events[e].rule)'
    BY <1>2, <2>3 DEF IInv, TypeOK, EventExists
  <2>5. requests' \in 0 .. MaxRequests
    BY ConstantsAssumption DEF Request, IInv, TypeOK, ConstantsAssumption
  <2> QED
    BY <1>1, <2>1, <2>2, <2>4, <2>5 DEF IInv, TypeOK, EventExists
<1>4. CyclesOK'
  BY DEF IInv, CyclesOK
<1>5. SerialCycles' /\ InFlight' /\ RoomToClose' /\ OneOpenEvent'
  BY <1>2, Frame
<1> QED
  BY <1>3, <1>4, <1>5 DEF IInv

LEMMA RuleEditStep ==
    ASSUME IInv, NEW r \in Rules, NEW enabled \in BOOLEAN, NEW conds \in BOOLEAN,
           NEW quiet \in Windows, NEW cooldown \in Cooldowns,
           CreateRule(r, quiet, cooldown) \/ UpdateRule(r, enabled, conds, quiet, cooldown)
    PROVE  IInv'
<1>1. cooldown \in Nat /\ quiet \in [start : Nat, end : Nat] \cup {None}
  BY ConstantsAssumption DEF ConstantsAssumption
<1>2. rules \in [Rules -> RuleRow \cup {None}]
  BY DEF IInv, TypeOK
<1>3. rules' = [rules EXCEPT ![r] = rules'[r]] /\ rules'[r] \in RuleRow
  <2>1. CASE CreateRule(r, quiet, cooldown)
    BY <1>1, <1>2, <2>1 DEF CreateRule, RuleRow, NoTime
  <2>2. CASE UpdateRule(r, enabled, conds, quiet, cooldown)
    <3>1. rules[r] \in RuleRow
      BY <1>2, <2>2 DEF UpdateRule, Exists
    <3> QED
      BY <1>1, <1>2, <2>2, <3>1 DEF UpdateRule, RuleRow
  <2> QED
    BY <2>1, <2>2
<1> QED
  BY <1>3, RuleRowWritten DEF CreateRule, UpdateRule

LEMMA LocationEditStep ==
    ASSUME IInv, NEW r \in Rules, NEW active \in BOOLEAN, SetLocationActive(r, active)
    PROVE  IInv'
<1>1. rules' = [rules EXCEPT ![r] = rules'[r]] /\ rules'[r] \in RuleRow
  <2>1. rules \in [Rules -> RuleRow \cup {None}] /\ rules[r] \in RuleRow
    BY DEF SetLocationActive, Exists, IInv, TypeOK
  <2> QED
    BY <2>1 DEF SetLocationActive, RuleRow
<1> QED
  BY <1>1, RuleRowWritten DEF SetLocationActive

\* A request on the nested tables, none of which the rule cycle has in hand.
LEMMA NestedRowsChanged ==
    ASSUME IInv, Request, UNCHANGED <<now, holds, rules, events, acked, work, esc>>,
           channels' \subseteq Channels,
           recipients' \subseteq
             {p \in Recipients : Exists(RuleOf[p]) /\ ChannelOf[p] \in channels'},
           steps' \subseteq {s \in Steps : Exists(StepRule[s]) /\ StepRecipient[s] \in recipients'},
           deliveries' \subseteq deliveries,
           \A d \in deliveries' : d.recipient \in recipients'
    PROVE  IInv'
<1>1. TypeOK'
  <2>1. requests' \in 0 .. MaxRequests
    BY ConstantsAssumption DEF Request, IInv, TypeOK, ConstantsAssumption
  <2> QED
    BY <2>1 DEF IInv, TypeOK, Exists, EventExists
<1>2. CyclesOK'
  BY DEF IInv, CyclesOK
<1>3. SerialCycles' /\ InFlight' /\ RoomToClose' /\ OneOpenEvent'
  BY Frame DEF Exists
<1> QED
  BY <1>1, <1>2, <1>3 DEF IInv

LEMMA ChannelEditStep ==
    ASSUME IInv, NEW c \in Channels, CreateChannel(c) \/ DeleteChannel(c) PROVE IInv'
<1>1. CASE CreateChannel(c)
  BY <1>1, NestedRowsChanged DEF CreateChannel, IInv, TypeOK
<1>2. CASE DeleteChannel(c)
  BY <1>2, NestedRowsChanged DEF DeleteChannel, CascadeRecipients, IInv, TypeOK
<1> QED
  BY <1>1, <1>2

LEMMA RecipientEditStep ==
    ASSUME IInv, NEW p \in Recipients, AddRecipient(p) \/ DeleteRecipient(p) PROVE IInv'
<1>1. CASE AddRecipient(p)
  BY <1>1, NestedRowsChanged DEF AddRecipient, IInv, TypeOK
<1>2. CASE DeleteRecipient(p)
  BY <1>2, NestedRowsChanged DEF DeleteRecipient, CascadeRecipients, IInv, TypeOK
<1> QED
  BY <1>1, <1>2

LEMMA AddEscalationStep ==
    ASSUME IInv, NEW s \in Steps, AddEscalation(s) PROVE IInv'
BY NestedRowsChanged DEF AddEscalation, IInv, TypeOK

LEMMA EscalationStep ==
    ASSUME IInv, NEW x \in Escalators, EscalationCycle(x) PROVE IInv'
<1> USE DEF EscalationStart, EscalateEvent, EscalationCommit, EscalationFails, EscalationKilled
<1>1. UNCHANGED <<now, holds, rules, recipients, channels, steps, requests, events, acked, work>>
  BY DEF EscalationCycle, config
<1> IdleEscalation \in EscRow
  BY ConstantsAssumption DEF ConstantsAssumption, IdleEscalation, EscRow, Time
<1>2. TypeOK' /\ CyclesOK'
  <2>1. CASE EscalationStart(x)
    <3>1. esc' \in [Escalators -> EscRow]
      BY <2>1 DEF IInv, TypeOK, CyclesOK, EscRow
    <3> QED
      BY <1>1, <2>1, <3>1 DEF IInv, TypeOK, CyclesOK, Exists, EventExists
  <2>2. ASSUME NEW e \in Events, EscalateEvent(x, e)
        PROVE  TypeOK' /\ CyclesOK'
    <3> DEFINE new == {[event |-> e, recipient |-> StepRecipient[s],
                        kind |-> esc[x].todo[e].status, nth |-> esc[x].todo[e].nth,
                        by |-> x, at |-> esc[x].at] : s \in Due(x, e)}
    <3>1. esc[x] \in EscRow /\ esc[x].todo[e] \in EventRow
      BY <2>2 DEF IInv, CyclesOK, EscRow
    <3>2. \A s \in Due(x, e) : StepRecipient[s] \in Recipients
      BY ConstantsAssumption DEF IInv, TypeOK, Due, ConstantsAssumption
    <3>3. new \subseteq DeliveryRow
      BY <3>1, <3>2 DEF DeliveryRow, EscRow, EventRow
    <3>4. esc' \in [Escalators -> EscRow]
      BY <2>2, <3>1, <3>3 DEF IInv, CyclesOK, EscRow
    <3>5. deliveries' = deliveries
      BY <2>2
    <3> HIDE DEF EscalateEvent
    <3> QED
      BY <1>1, <3>4, <3>5 DEF IInv, TypeOK, CyclesOK, Exists, EventExists
  <2>3. CASE EscalationCommit(x)
    <3>1. esc[x].rows \subseteq DeliveryRow
      BY DEF IInv, CyclesOK, EscRow
    <3>2. esc' \in [Escalators -> EscRow]
      BY <2>3 DEF IInv, CyclesOK
    <3> QED
      BY <1>1, <2>3, <3>1, <3>2 DEF IInv, TypeOK, CyclesOK, Exists, EventExists, CanInsert
  <2>4. CASE EscalationFails(x) \/ EscalationKilled(x)
    <3>1. esc' \in [Escalators -> EscRow]
      <4>1. [IdleEscalation EXCEPT !.lost = TRUE] \in EscRow
        BY DEF EscRow
      <4> QED
        BY <2>4, <4>1 DEF IInv, CyclesOK
    <3> QED
      BY <1>1, <2>4, <3>1 DEF IInv, TypeOK, CyclesOK, Exists, EventExists
  <2> QED
    BY <2>1, <2>2, <2>3, <2>4 DEF EscalationCycle
<1>3. SerialCycles' /\ InFlight' /\ RoomToClose' /\ OneOpenEvent'
  BY <1>1, Frame DEF Exists
<1> QED
  BY <1>2, <1>3 DEF IInv

-----------------------------------------------------------------------------
(* Steps of the rule cycle before its commit: only `work' changes *)

LEMMA TablesUnchanged ==
    ASSUME IInv,
           UNCHANGED <<now, requests, holds, rules, recipients, channels, steps,
                       events, acked, deliveries, esc>>
    PROVE  /\ TypeOK' /\ RoomToClose' /\ OneOpenEvent'
           /\ esc' \in [Escalators -> EscRow]
<1>1. TypeOK'
  BY DEF IInv, TypeOK, Exists, EventExists
<1>2. RoomToClose' /\ OneOpenEvent'
  BY DEF IInv, RoomToClose, OneOpenEvent, IsOpen, EventExists
<1> QED
  BY <1>1, <1>2 DEF IInv, CyclesOK

\* What CommitFails or Kill leaves of a cycle.
EndedWorker == {IdleWorker, [IdleWorker EXCEPT !.lost = TRUE]}

LEMMA IdleWorkerOK ==
    \A x \in EndedWorker : x \in WorkRow /\ x.writes = NoWrites /\ x.pc = "idle" /\ x.rows = {}
<1>1. /\ IdleWorker \in WorkRow /\ IdleWorker.writes = NoWrites
      /\ IdleWorker.pc = "idle" /\ IdleWorker.rows = {}
  BY ConstantsAssumption DEF IdleWorker, WorkRow, NoWrites, ConstantsAssumption, Time
<1> DEFINE lost == [IdleWorker EXCEPT !.lost = TRUE]
<1>2. lost \in WorkRow /\ lost.writes = NoWrites /\ lost.pc = "idle" /\ lost.rows = {}
  BY <1>1 DEF WorkRow
<1> QED
  BY <1>1, <1>2 DEF EndedWorker

LEMMA CycleStartStep ==
    ASSUME ~Overlap, IInv, NEW w \in Workers, CycleStart(w) PROVE IInv'
<1> USE DEF CycleStart, config
<1>1. TypeOK' /\ RoomToClose' /\ OneOpenEvent' /\ esc' \in [Escalators -> EscRow]
  BY TablesUnchanged
<1>2. /\ work'[w] = [pc |-> "next", at |-> now, seen |-> rules,
                     todo |-> {r \in Rules : Exists(r) /\ rules[r].enabled},
                     rule |-> None, event |-> None, kind |-> None,
                     writes |-> NoWrites, rows |-> {}, poisoned |-> FALSE, lost |-> FALSE]
      /\ \A v \in Workers \ {w} : work'[v] = work[v]
  BY DEF IInv, CyclesOK, IdleWorker
<1>0. (\A v \in Workers : Idle(v)) /\ work' = [work EXCEPT ![w] = work'[w]]
  BY <1>2 DEF IInv, CyclesOK, IdleWorker
<1> HIDE DEF CycleStart
<1>3. CyclesOK'
  <2>1. now \in Time /\ rules \in [Rules -> RuleRow \cup {None}]
    BY DEF IInv, TypeOK
  <2>2. NoWrites \in [Events -> WriteRow \cup {None}]
    BY DEF NoWrites
  <2>3. work'[w] \in WorkRow
    BY <1>2, <2>1, <2>2 DEF WorkRow
  <2> QED
    BY <1>1, <1>0, <2>3 DEF IInv, CyclesOK
<1>4. SerialCycles'
  BY <1>2, <1>0 DEF IInv, SerialCycles, Idle
<1>5. InFlight'
  <2>1. work'[w].writes = NoWrites /\ work'[w].rows = {} /\ work'[w].pc = "next"
    BY <1>2
  <2>2. \A v \in Workers \ {w} : work'[v].writes = NoWrites /\ work'[v].pc = "idle"
    BY <1>2, <1>0 DEF IInv, SerialCycles, Idle
  <2>3. \A v \in Workers \ {w} : \A row \in work'[v].rows : work'[v].writes[row.event] # None
    BY <1>2 DEF IInv, InFlight
  <2> QED
    BY <2>1, <2>2, <2>3 DEF InFlight, NoWrites
<1> QED
  BY <1>1, <1>3, <1>4, <1>5 DEF IInv

LEMMA AbortStep ==
    ASSUME IInv, NEW w \in Workers, CommitFails(w) \/ Kill(w) PROVE IInv'
<1> USE DEF CommitFails, Kill, config
<1>1. TypeOK' /\ RoomToClose' /\ OneOpenEvent' /\ esc' \in [Escalators -> EscRow]
  BY TablesUnchanged
<1>2. /\ work'[w] \in EndedWorker /\ work' = [work EXCEPT ![w] = work'[w]]
      /\ \A v \in Workers \ {w} : work'[v] = work[v]
  BY DEF IInv, CyclesOK, EndedWorker
<1>3. CyclesOK'
  BY <1>1, <1>2, IdleWorkerOK DEF IInv, CyclesOK
<1>4. SerialCycles'
  BY <1>2, IdleWorkerOK DEF IInv, SerialCycles, Idle
<1>5. InFlight'
  <2> SUFFICES ASSUME NEW v \in Workers, v # w
               PROVE  /\ \A e \in Events : work[v].writes[e] # None => WriteFits(v, e)'
                      /\ work[v].pc = "write" => DecisionFits(v)'
    BY <1>2, IdleWorkerOK DEF InFlight, IInv, NoWrites
  <2>1. work'[v] = work[v]
    BY <1>2
  <2> HIDE DEF CommitFails, Kill
  <2>2. UNCHANGED <<rules, events>>
    BY DEF CommitFails, Kill, config
  <2>3. \A e \in Events : work[v].writes[e] # None => WriteFits(v, e)'
    BY <2>1, <2>2 DEF IInv, InFlight, WriteFits, OpenEvents, IsOpen, EventExists, Exists
  <2>4. work[v].pc = "write" => DecisionFits(v)'
    BY <2>1, <2>2 DEF IInv, InFlight, DecisionFits, OpenEvents, IsOpen, EventExists
  <2> QED
    BY <2>3, <2>4
<1> QED
  BY <1>1, <1>3, <1>4, <1>5 DEF IInv

\* The part of InFlight that is about w alone.
Fits(w) ==
    /\ \A e \in Events : work[w].writes[e] # None => WriteFits(w, e)
    /\ \A e, f \in Events :
          work[w].writes[e] # None /\ work[w].writes[f] # None
             /\ work[w].writes[e].rule = work[w].writes[f].rule => e = f
    /\ \A row \in work[w].rows : work[w].writes[row.event] # None
    /\ work[w].pc = "write" => DecisionFits(w)

\* A step of the one cycle in flight need only keep its own part.
LEMMA StepOfOneCycle ==
    ASSUME IInv, NEW w \in Workers, ~Idle(w),
           UNCHANGED <<now, requests, holds, rules, recipients, channels, steps,
                       events, acked, deliveries, esc>>,
           work' = [work EXCEPT ![w] = work'[w]],
           work'[w] \in WorkRow, work'[w].pc # "idle", Fits(w)'
    PROVE  IInv'
<1>1. TypeOK' /\ RoomToClose' /\ OneOpenEvent' /\ esc' \in [Escalators -> EscRow]
  BY TablesUnchanged
<1>2. \A v \in Workers \ {w} : work'[v] = work[v] /\ Idle(v) /\ work[v].writes = NoWrites
  BY DEF IInv, CyclesOK, SerialCycles
<1>3. CyclesOK'
  BY <1>1 DEF IInv, CyclesOK
<1>4. SerialCycles'
  BY <1>2 DEF SerialCycles, Idle
<1>5. InFlight'
  <2> SUFFICES ASSUME NEW v \in Workers, v # w PROVE Fits(v)'
    BY DEF InFlight, Fits
  <2>1. work'[v] = work[v] /\ work[v].writes = NoWrites /\ work[v].pc = "idle"
    BY <1>2 DEF Idle
  <2>2. work[v].rows = {}
    <3>1. work[v].rows \subseteq DeliveryRow
      BY DEF IInv, CyclesOK, WorkRow
    <3> QED
      BY <2>1, <3>1 DEF IInv, InFlight, NoWrites, DeliveryRow
  <2> QED
    BY <2>1, <2>2 DEF Fits, NoWrites
<1> QED
  BY <1>1, <1>3, <1>4, <1>5 DEF IInv

LEMMA EvaluationRaisesStep ==
    ASSUME IInv, NEW w \in Workers, NEW r \in Rules, EvaluationRaises(w, r) PROVE IInv'
<1>1. /\ work[w].pc = "next" /\ work[w] \in WorkRow
      /\ work' = [work EXCEPT ![w] = work'[w]]
      /\ work'[w] = [work[w] EXCEPT !.todo = @ \ {r}, !.lost = TRUE]
  BY DEF EvaluationRaises, IInv, CyclesOK
<1>2. UNCHANGED <<now, requests, holds, rules, recipients, channels, steps,
                  events, acked, deliveries, esc>>
  BY DEF EvaluationRaises, config
<1>3. work'[w] \in WorkRow
  BY <1>1 DEF WorkRow
<1>4. Fits(w)'
  <2>1. \A e \in Events : work'[w].writes[e] # None => WriteFits(w, e)'
    BY <1>1, <1>2 DEF IInv, InFlight, WriteFits, WorkRow, Exists, OpenEvents, IsOpen, EventExists
  <2> QED
    BY <1>1, <2>1 DEF IInv, InFlight, Fits, WorkRow
<1> QED
  BY <1>1, <1>2, <1>3, <1>4, StepOfOneCycle DEF Idle, WorkRow

LEMMA DecideStep ==
    ASSUME IInv, NEW w \in Workers, NEW r \in Rules, Decide(w, r) PROVE IInv'
<1>1. PICK e \in IF OpenEvents(r) = {} THEN {None} ELSE OpenEvents(r) :
        LET kind == Decision(w, r, e) IN
        /\ Room(kind, e)
        /\ work' = [work EXCEPT ![w].todo = @ \ {r},
                                ![w].pc = IF kind = None THEN "next" ELSE "write",
                                ![w].rule = IF kind = None THEN None ELSE r,
                                ![w].event = IF kind = None THEN None ELSE e,
                                ![w].kind = IF kind = None THEN None ELSE kind]
  BY DEF Decide
<1> DEFINE kind == Decision(w, r, e)
<1>2. /\ work[w].pc = "next" /\ work[w] \in WorkRow /\ r \in work[w].todo
      /\ work' = [work EXCEPT ![w] = work'[w]]
      /\ work'[w] = [work[w] EXCEPT !.todo = @ \ {r},
                                    !.pc = IF kind = None THEN "next" ELSE "write",
                                    !.rule = IF kind = None THEN None ELSE r,
                                    !.event = IF kind = None THEN None ELSE e,
                                    !.kind = IF kind = None THEN None ELSE kind]
  <2>1. work[w].pc = "next" /\ r \in work[w].todo
    BY DEF Decide
  <2>2. work[w] \in WorkRow /\ DOMAIN work = Workers
    BY DEF IInv, CyclesOK
  <2> QED
    BY <1>1, <2>1, <2>2
<1>3. UNCHANGED <<now, requests, holds, rules, recipients, channels, steps,
                  events, acked, deliveries, esc>>
  BY DEF Decide, config
<1>4. kind \in Statuses \cup {None} /\ e \in Events \cup {None}
      /\ (kind = "open" => OpenEvents(r) = {})
      /\ (kind # None /\ kind # "open" => e \in OpenEvents(r))
      /\ Room(kind, e)
  <2>1. e = None => OpenEvents(r) = {}
    BY NoneIsNoRow DEF NoneIsNoRow, OpenEvents
  <2>2. e # None => e \in OpenEvents(r)
    OBVIOUS
  <2>3. Room(kind, e)
    BY <1>1
  <2>4. /\ kind \in Statuses \cup {None}
        /\ kind = "open" => e = None
        /\ kind # None /\ kind # "open" => e # None
    BY NoneIsNoRow DEF NoneIsNoRow, Decision, Statuses
  <2> HIDE DEF kind
  <2>5. e \in Events \cup {None}
    BY <2>2 DEF OpenEvents
  <2> QED
    BY <2>1, <2>2, <2>3, <2>4, <2>5
<1> HIDE DEF kind
<1>5. /\ work'[w].at = work[w].at /\ work'[w].seen = work[w].seen
      /\ work'[w].writes = work[w].writes /\ work'[w].rows = work[w].rows
      /\ work'[w].poisoned = work[w].poisoned /\ work'[w].lost = work[w].lost
      /\ work'[w].todo = work[w].todo \ {r}
      /\ work'[w].pc = IF kind = None THEN "next" ELSE "write"
      /\ work'[w].rule = IF kind = None THEN None ELSE r
      /\ work'[w].event = IF kind = None THEN None ELSE e
      /\ work'[w].kind = IF kind = None THEN None ELSE kind
  BY <1>2 DEF WorkRow
<1>6. work'[w] \in WorkRow
  BY <1>2, <1>4, <1>5 DEF WorkRow
<1>7. Fits(w)'
  <2>1. ASSUME NEW f \in Events, work'[w].writes[f] # None
        PROVE  WriteFits(w, f)'
    <3>1. work'[w].writes = work[w].writes /\ work'[w].todo = work[w].todo \ {r}
          /\ (work'[w].pc = "write" => work'[w].rule = r)
      BY <1>5
    <3>2. WriteFits(w, f)
      BY <2>1, <3>1 DEF IInv, InFlight
    <3> QED
      BY <1>2, <1>3, <3>1, <3>2 DEF WriteFits, Exists, OpenEvents, IsOpen, EventExists
  <2>2. kind # None => DecisionFits(w)'
    <3> SUFFICES ASSUME kind # None PROVE DecisionFits(w)'
      OBVIOUS
    <3>1. work'[w].rule = r /\ work'[w].kind = kind /\ work'[w].event = e
      BY <1>5
    <3>2. OpenEvents(r)' = OpenEvents(r)
      BY <1>3 DEF OpenEvents, IsOpen, EventExists
    <3>3. kind # "open" => /\ e \in Events /\ IsOpen(e)' /\ events'[e].rule = r
                           /\ kind = "updated" => events'[e].nth + 1 < MaxNotices
      BY <1>3, <1>4 DEF Room, OpenEvents, IsOpen, EventExists
    <3> QED
      BY <1>2, <1>4, <1>5, <3>1, <3>2, <3>3 DEF DecisionFits
  <2> QED
    BY <1>2, <1>5, <2>1, <2>2 DEF IInv, InFlight, Fits, WorkRow
<1> QED
  BY <1>2, <1>3, <1>5, <1>6, <1>7, StepOfOneCycle DEF Idle, WorkRow

\* A failed flush leaves what was flushed before it, to be rolled back.
LEMMA FailedWriteStep ==
    ASSUME IInv, NEW w \in Workers, Write(w),
           \/ ~Exists(work[w].rule)
           \/ work[w].kind # "open" /\ ~EventExists(work[w].event)
    PROVE  IInv'
<1>1. /\ work[w].pc = "write" /\ work[w] \in WorkRow
      /\ work' = [work EXCEPT ![w] = work'[w]]
      /\ work'[w] = [work[w] EXCEPT !.pc = "next", !.rule = None, !.event = None,
                                    !.kind = None, !.poisoned = TRUE]
  BY DEF Write, IInv, CyclesOK
<1>2. UNCHANGED <<now, requests, holds, rules, recipients, channels, steps,
                  events, acked, deliveries, esc>>
  BY DEF Write, config
<1>3. /\ work'[w].at = work[w].at /\ work'[w].seen = work[w].seen
      /\ work'[w].writes = work[w].writes /\ work'[w].rows = work[w].rows
      /\ work'[w].todo = work[w].todo /\ work'[w].pc = "next"
  BY <1>1 DEF WorkRow
<1>4. work'[w] \in WorkRow
  BY <1>1 DEF WorkRow
<1>5. Fits(w)'
  <2>1. \A e \in Events : work'[w].writes[e] # None => WriteFits(w, e)'
    BY <1>2, <1>3 DEF IInv, InFlight, WriteFits, Exists, OpenEvents, IsOpen, EventExists
  <2> QED
    BY <1>3, <2>1 DEF IInv, InFlight, Fits
<1> QED
  BY <1>1, <1>2, <1>3, <1>4, <1>5, StepOfOneCycle DEF Idle

\* What a successful flush adds to the cycle.
LEMMA FlushedWriteStep ==
    ASSUME IInv, NEW w \in Workers, Write(w),
           NEW r, r = work[w].rule, NEW kind, kind = work[w].kind,
           Exists(r), kind # "open" => EventExists(work[w].event)
    PROVE  IInv'
<1> DEFINE done == [work[w] EXCEPT !.pc = "next", !.rule = None, !.event = None, !.kind = None]
           from(e) == IF kind = "open" THEN None ELSE events[e].status
           nth(e) == IF kind = "open" THEN 1 ELSE events[e].nth + 1
<1>1. work[w].pc = "write" /\ work[w] \in WorkRow /\ DecisionFits(w)
  BY DEF Write, IInv, CyclesOK, InFlight
<1>2. PICK e \in IF kind = "open" THEN {f \in Events : FreshEvent(f)} ELSE {work[w].event} :
        work' = [work EXCEPT ![w] =
                   [done EXCEPT !.writes[e] = [rule |-> r, kind |-> kind, from |-> from(e)],
                                !.rows = @ \cup FanOut(w, r, e, kind, nth(e))]]
  BY Zenon DEF Write
<1>3. UNCHANGED <<now, requests, holds, rules, recipients, channels, steps,
                  events, acked, deliveries, esc>>
  BY DEF Write, config
<1> HIDE DEF from, nth
<1>4. /\ work' = [work EXCEPT ![w] = work'[w]]
      /\ work'[w] = [work[w] EXCEPT !.pc = "next", !.rule = None, !.event = None, !.kind = None,
                       !.writes[e] = [rule |-> r, kind |-> kind, from |-> from(e)],
                       !.rows = @ \cup FanOut(w, r, e, kind, nth(e))]
  BY <1>2 DEF IInv, CyclesOK
<1>5. /\ work'[w].pc = "next" /\ work'[w].rule = None
      /\ work'[w].event = None /\ work'[w].kind = None
      /\ work'[w].at = work[w].at /\ work'[w].seen = work[w].seen
      /\ work'[w].todo = work[w].todo /\ work'[w].poisoned = work[w].poisoned
      /\ work'[w].lost = work[w].lost
      /\ work'[w].writes = [work[w].writes EXCEPT ![e] =
                               [rule |-> r, kind |-> kind, from |-> from(e)]]
      /\ work'[w].rows = work[w].rows \cup FanOut(w, r, e, kind, nth(e))
  BY <1>1, <1>4 DEF WorkRow
<1>6. /\ e \in Events /\ r \in Rules /\ kind \in Statuses
      /\ kind = "open" => events[e] = None
      /\ kind # "open" => IsOpen(e) /\ events[e].rule = r /\ events[e] \in EventRow
  BY <1>1, <1>2 DEF DecisionFits, FreshEvent, EventExists, IInv, TypeOK
<1>7. from(e) \in Statuses \cup {None} /\ nth(e) \in 1 .. MaxNotices
  BY <1>6, ConstantsAssumption
  DEF from, nth, EventRow, IInv, RoomToClose, IsOpen, ConstantsAssumption
<1>8. FanOut(w, r, e, kind, nth(e)) \subseteq DeliveryRow
  <2>1. FanOutTo(r) \subseteq Recipients /\ work[w].at \in Time
    BY <1>1 DEF FanOutTo, IInv, TypeOK, WorkRow
  <2> QED
    BY <1>6, <1>7, <2>1 DEF FanOut, DeliveryRow
<1>9. work'[w] \in WorkRow
  <2>1. [rule |-> r, kind |-> kind, from |-> from(e)] \in WriteRow
    BY <1>6, <1>7 DEF WriteRow
  <2>2. work'[w].writes \in [Events -> WriteRow \cup {None}]
    BY <1>1, <1>5, <1>6, <2>1 DEF WorkRow
  <2>3. work'[w].rows \subseteq DeliveryRow
    BY <1>1, <1>5, <1>8 DEF WorkRow
  <2> QED
    BY <1>1, <1>4, <1>5, <2>2, <2>3 DEF WorkRow
<1>10. Fits(w)'
  <2>1. /\ work'[w].writes[e] = [rule |-> r, kind |-> kind, from |-> from(e)]
        /\ \A f \in Events \ {e} : work'[w].writes[f] = work[w].writes[f]
    BY <1>1, <1>5, <1>6 DEF WorkRow
  <2>2. \A f \in Events : work[w].writes[f] # None =>
                           WriteFits(w, f) /\ work[w].writes[f].rule # r
    BY <1>1 DEF IInv, InFlight, WriteFits
  <2>3. WriteFits(w, e)'
    <3>1. kind = "open" => OpenEvents(r)' = {}
      BY <1>1, <1>3 DEF DecisionFits, OpenEvents, IsOpen, EventExists
    <3>2. kind # "open" => /\ IsOpen(e)' /\ events'[e].rule = r
                           /\ events'[e].status = from(e)
      BY <1>3, <1>6 DEF IsOpen, EventExists, from
    <3>3. kind = "updated" => events'[e].nth + 1 < MaxNotices
      BY <1>1, <1>2, <1>3, <1>6 DEF DecisionFits, IsOpen
    <3>4. Exists(r)' /\ r \notin work'[w].todo
      BY <1>1, <1>3, <1>5 DEF DecisionFits, Exists
    <3> QED
      BY <1>3, <1>5, <1>6, <2>1, <3>1, <3>2, <3>3, <3>4 DEF WriteFits
  <2>4. \A f \in Events : work'[w].writes[f] # None => WriteFits(w, f)'
    BY <1>3, <1>5, <2>1, <2>2, <2>3
    DEF WriteFits, Exists, OpenEvents, IsOpen, EventExists
  <2>5. \A f, g \in Events :
           work'[w].writes[f] # None /\ work'[w].writes[g] # None
              /\ work'[w].writes[f].rule = work'[w].writes[g].rule => f = g
    BY <2>1, <2>2 DEF IInv, InFlight
  <2>6. \A row \in work'[w].rows : work'[w].writes[row.event] # None
    <3>1. [rule |-> r, kind |-> kind, from |-> from(e)] # None
      BY <1>6, <1>7, NoneIsNoRow DEF NoneIsNoRow, WriteRow
    <3>2. \A row \in FanOut(w, r, e, kind, nth(e)) : row.event = e
      BY DEF FanOut
    <3>3. \A row \in work[w].rows : row.event \in Events /\ work[w].writes[row.event] # None
      BY <1>1 DEF IInv, InFlight, WorkRow, DeliveryRow
    <3> QED
      BY <1>5, <2>1, <3>1, <3>2, <3>3
  <2> QED
    BY <1>5, <2>4, <2>5, <2>6 DEF Fits
<1> QED
  BY <1>1, <1>3, <1>4, <1>5, <1>9, <1>10, StepOfOneCycle DEF Idle

-----------------------------------------------------------------------------
(* Steps that change the events *)

LEMMA DeleteRuleStep ==
    ASSUME IInv, NEW r \in Rules, DeleteRule(r) PROVE IInv'
<1>1. /\ \A w \in Workers : r \notin Touched(w)
      /\ rules' = [rules EXCEPT ![r] = None]
      /\ events' = [e \in Events |-> IF EventExists(e) /\ events[e].rule = r
                                     THEN None ELSE events[e]]
      /\ acked' = [e \in Events |-> IF EventExists(e) /\ events[e].rule = r
                                    THEN NoTime ELSE acked[e]]
      /\ UNCHANGED <<now, holds, channels, work, esc>>
  BY DEF DeleteRule
<1>2. \A e \in Events : EventExists(e)' => events'[e] = events[e] /\ events[e].rule # r
  <2> TAKE e \in Events
  <2>1. events'[e] = IF EventExists(e) /\ events[e].rule = r THEN None ELSE events[e]
    BY <1>1
  <2> QED
    BY <2>1 DEF EventExists
<1>3. \A e \in Events : IsOpen(e)' => IsOpen(e) /\ events'[e] = events[e]
  BY <1>2 DEF IsOpen, EventExists
<1>4. \A q \in Rules : q # r /\ Exists(q) => Exists(q)'
  BY <1>1 DEF IInv, TypeOK, Exists
<1>5. TypeOK'
  <2>1. requests' \in 0 .. MaxRequests
    BY ConstantsAssumption DEF DeleteRule, Request, IInv, TypeOK, ConstantsAssumption
  <2>2. rules' \in [Rules -> RuleRow \cup {None}] /\ events' \in [Events -> EventRow \cup {None}]
    BY <1>1 DEF IInv, TypeOK
  <2>3. recipients' \subseteq
           {p \in Recipients : Exists(RuleOf[p])' /\ ChannelOf[p] \in channels'}
    <3>1. recipients' = recipients \ {p \in recipients : RuleOf[p] = r}
      BY DEF DeleteRule
    <3> QED
      BY <1>1, <1>4, <3>1, ConstantsAssumption DEF IInv, TypeOK, ConstantsAssumption
  <2>4. steps' \subseteq {s \in Steps : Exists(StepRule[s])' /\ StepRecipient[s] \in recipients'}
    <3>1. /\ recipients' = recipients \ {p \in recipients : RuleOf[p] = r}
          /\ steps' = {s \in steps : /\ StepRule[s] # r
                                     /\ StepRecipient[s] \notin {p \in recipients : RuleOf[p] = r}}
      BY DEF DeleteRule
    <3> QED
      BY <1>4, <3>1, ConstantsAssumption DEF IInv, TypeOK, ConstantsAssumption
  <2>5. \A e \in Events : EventExists(e)' => Exists(events[e].rule)'
    <3> SUFFICES ASSUME NEW e \in Events, EventExists(e)'
                 PROVE  Exists(events[e].rule)'
      OBVIOUS
    <3>1. events'[e] = events[e] /\ events[e].rule # r /\ EventExists(e)
      BY <1>2 DEF EventExists
    <3>2. events[e].rule \in Rules /\ Exists(events[e].rule)
      BY <3>1 DEF IInv, TypeOK, EventExists, EventRow
    <3> QED
      BY <1>4, <3>1, <3>2
  <2>6. /\ acked' \in [Events -> Time \cup {NoTime}]
        /\ \A e \in Events : acked'[e] # NoTime => EventExists(e)'
    BY <1>1 DEF IInv, TypeOK, EventExists
  <2>7. /\ deliveries' \subseteq DeliveryRow
        /\ \A d \in deliveries' : EventExists(d.event)' /\ d.recipient \in recipients'
    <3>1. /\ recipients' = recipients \ {p \in recipients : RuleOf[p] = r}
          /\ deliveries' = {d \in deliveries :
                               /\ d.recipient \notin {p \in recipients : RuleOf[p] = r}
                               /\ events'[d.event] # None}
      BY DEF DeleteRule
    <3> QED
      BY <3>1 DEF IInv, TypeOK, EventExists
  <2> QED
    BY <1>1, <2>1, <2>2, <2>3, <2>4, <2>5, <2>6, <2>7 DEF IInv, TypeOK
<1>6. CyclesOK'
  BY <1>1 DEF IInv, CyclesOK
<1>7. SerialCycles'
  BY <1>1 DEF IInv, SerialCycles, Idle
<1>8. InFlight'
  <2> SUFFICES ASSUME NEW w \in Workers
               PROVE  /\ \A e \in Events : work[w].writes[e] # None => WriteFits(w, e)'
                      /\ work[w].pc = "write" => DecisionFits(w)'
    BY <1>1 DEF IInv, InFlight
  <2>1. ASSUME NEW e \in Events, work[w].writes[e] # None
        PROVE  WriteFits(w, e)'
    <3> DEFINE q == work[w].writes[e].rule
    <3>1. q \in Rules /\ q # r /\ WriteFits(w, e)
      BY <1>1, <2>1 DEF IInv, CyclesOK, WorkRow, WriteRow, InFlight, Touched
    <3>2. Exists(q)'
      BY <1>1, <1>4, <3>1 DEF WriteFits
    <3>3. OpenEvents(q) = {} => OpenEvents(q)' = {}
      BY <1>1, <1>3 DEF OpenEvents
    <3>4. events[e] = None \/ events[e].rule = q => events'[e] = events[e]
      BY <1>1, <3>1 DEF EventExists
    <3> QED
      BY <1>1, <3>1, <3>2, <3>3, <3>4 DEF WriteFits, IsOpen, EventExists
  <2>2. ASSUME work[w].pc = "write" PROVE DecisionFits(w)'
    <3>1. DecisionFits(w)
      BY <2>2 DEF IInv, InFlight
    <3>2. OpenEvents(work[w].rule) = {} => OpenEvents(work[w].rule)' = {}
      BY <1>1, <1>3 DEF OpenEvents
    <3>3. EventExists(work[w].event)' /\ work[w].event \in Events
             => events'[work[w].event] = events[work[w].event]
      BY <1>1, <1>2 DEF EventExists
    <3> QED
      BY <1>1, <3>1, <3>2, <3>3 DEF DecisionFits, IsOpen, EventExists
  <2> QED
    BY <2>1, <2>2
<1>9. RoomToClose' /\ OneOpenEvent'
  BY <1>3 DEF IInv, RoomToClose, OneOpenEvent
<1> QED
  BY <1>5, <1>6, <1>7, <1>8, <1>9 DEF IInv

\* The row a cycle leaves behind for an event it has written.
LEMMA CommittedRow ==
    ASSUME IInv, NEW w \in Workers, NEW e \in Events, work[w].writes[e] # None
    PROVE  LET x == work[w].writes[e] IN
           /\ x \in WriteRow /\ WriteFits(w, e)
           /\ Committed(w, e) \in EventRow
           /\ Committed(w, e).rule = x.rule
           /\ Committed(w, e).status = x.kind
           /\ Committed(w, e).nth = IF x.kind = "open" THEN 1 ELSE events[e].nth + 1
<1> DEFINE x == work[w].writes[e]
<1>1. x \in WriteRow /\ WriteFits(w, e) /\ work[w].at \in Time
  BY DEF IInv, CyclesOK, WorkRow, InFlight
<1>2. x.kind \in Statuses /\ x.rule \in Rules
  BY <1>1 DEF WriteRow
<1>3. CASE x.kind = "open"
  <2>1. Committed(w, e) = [rule |-> x.rule, status |-> "open", openedAt |-> work[w].at,
          updatedAt |-> work[w].at, closedAt |-> NoTime, notice |-> "open", nth |-> 1]
    BY <1>3 DEF Committed
  <2> QED
    BY <1>1, <1>2, <1>3, <2>1, ConstantsAssumption
    DEF EventRow, Statuses, ConstantsAssumption
<1>4. CASE x.kind # "open"
  <2>1. events[e] \in EventRow /\ events[e].nth < MaxNotices
        /\ events[e].rule = x.rule /\ events[e].status = x.from
    BY <1>1, <1>4 DEF WriteFits, IsOpen, EventExists, IInv, TypeOK, RoomToClose
  <2>2. Committed(w, e) = [events[e] EXCEPT
            !.status = IF x.from = x.kind THEN @ ELSE x.kind,
            !.updatedAt = work[w].at,
            !.closedAt = IF x.kind = "closed" THEN work[w].at ELSE @,
            !.notice = x.kind,
            !.nth = @ + 1]
    BY <1>4 DEF Committed
  <2>3. /\ Committed(w, e).rule = events[e].rule
        /\ Committed(w, e).status = x.kind
        /\ Committed(w, e).nth = events[e].nth + 1
        /\ Committed(w, e).nth \in 1 .. MaxNotices
    BY <2>1, <2>2, ConstantsAssumption DEF EventRow, ConstantsAssumption
  <2>4. Committed(w, e) \in EventRow
    BY <1>1, <1>2, <2>1, <2>2, <2>3 DEF EventRow
  <2> QED
    BY <1>1, <1>4, <2>1, <2>3, <2>4
<1> QED
  BY <1>3, <1>4

LEMMA CommitStep ==
    ASSUME IInv, NEW w \in Workers, Commit(w) PROVE IInv'
<1> DEFINE wrote(e) == work[w].writes[e] # None
<1>1. /\ work[w].pc = "next"
      /\ events' = [e \in Events |-> IF wrote(e) THEN Committed(w, e) ELSE events[e]]
      /\ rules' = [r \in Rules |-> IF r \in Fired(w) THEN [rules[r] EXCEPT !.lastFired = work[w].at]
                                                    ELSE rules[r]]
      /\ deliveries' = deliveries \cup work[w].rows
      /\ work' = [work EXCEPT ![w] = IdleWorker]
      /\ UNCHANGED <<now, holds, requests, recipients, channels, steps, acked, esc>>
  BY DEF Commit, Evaluated
<1>2. \A e \in Events : wrote(e) =>
         /\ work[w].writes[e] \in WriteRow /\ WriteFits(w, e)
         /\ events'[e] \in EventRow /\ EventExists(e)'
         /\ events'[e].rule = work[w].writes[e].rule
         /\ events'[e].status = work[w].writes[e].kind
         /\ events'[e].nth = IF work[w].writes[e].kind = "open" THEN 1 ELSE events[e].nth + 1
  BY <1>1, CommittedRow, NoneIsNoRow DEF NoneIsNoRow, EventExists
<1>3. \A e \in Events : ~wrote(e) => events'[e] = events[e]
  BY <1>1
<1>4. /\ rules' \in [Rules -> RuleRow \cup {None}]
      /\ \A r \in Rules : Exists(r) => Exists(r)'
  <2>1. \A r \in Rules : r \in Fired(w) => Exists(r)
    BY <1>2 DEF Fired, WriteFits
  <2>2. ASSUME NEW r \in Rules, Exists(r) PROVE rules'[r] \in RuleRow
    <3>1. rules[r] \in RuleRow /\ work[w].at \in Time
      BY <2>2 DEF IInv, TypeOK, CyclesOK, WorkRow, Exists
    <3> QED
      BY <1>1, <3>1 DEF RuleRow
  <2>3. \A r \in Rules : ~Exists(r) => rules'[r] = None
    BY <1>1, <2>1 DEF Exists
  <2>4. DOMAIN rules' = Rules /\ rules' = [r \in Rules |-> rules'[r]]
    BY <1>1
  <2> QED
    BY <2>2, <2>3, <2>4, NoneIsNoRow DEF NoneIsNoRow, Exists
<1>5. TypeOK'
  <2>1. recipients' \subseteq
           {p \in Recipients : Exists(RuleOf[p])' /\ ChannelOf[p] \in channels'}
    BY <1>1, <1>4, ConstantsAssumption DEF IInv, TypeOK, ConstantsAssumption
  <2>2. steps' \subseteq {s \in Steps : Exists(StepRule[s])' /\ StepRecipient[s] \in recipients'}
    BY <1>1, <1>4, ConstantsAssumption DEF IInv, TypeOK, ConstantsAssumption
  <2>3. events' \in [Events -> EventRow \cup {None}]
    BY <1>1, <1>2, <1>3 DEF IInv, TypeOK
  <2>4. \A e \in Events : EventExists(e)' => Exists(events[e].rule)'
    <3> SUFFICES ASSUME NEW e \in Events, EventExists(e)' PROVE Exists(events[e].rule)'
      OBVIOUS
    <3>1. CASE wrote(e)
      BY <1>2, <1>4, <3>1 DEF WriteFits, WriteRow
    <3>2. CASE ~wrote(e)
      BY <1>3, <1>4, <3>2 DEF IInv, TypeOK, EventExists, EventRow
    <3> QED
      BY <3>1, <3>2
  <2>5. \A e \in Events : acked'[e] # NoTime => EventExists(e)'
    BY <1>1, <1>2, <1>3 DEF IInv, TypeOK, EventExists
  <2>6. \A d \in deliveries' : EventExists(d.event)' /\ d.recipient \in recipients'
    <3>1. \A d \in work[w].rows : EventExists(d.event)' /\ d.recipient \in recipients
      BY <1>2 DEF Commit, CanCommit, IInv, InFlight, CyclesOK, WorkRow, DeliveryRow
    <3>2. \A d \in deliveries : EventExists(d.event)' /\ d.recipient \in recipients
      BY <1>2, <1>3 DEF IInv, TypeOK, EventExists, DeliveryRow
    <3> QED
      BY <1>1, <3>1, <3>2
  <2>7. deliveries' \subseteq DeliveryRow
    BY <1>1 DEF IInv, TypeOK, CyclesOK, WorkRow
  <2> QED
    BY <1>1, <1>4, <2>1, <2>2, <2>3, <2>4, <2>5, <2>6, <2>7 DEF IInv, TypeOK
<1>6. CyclesOK'
  BY <1>1, IdleWorkerOK DEF IInv, CyclesOK, EndedWorker
<1>7. \A v \in Workers : /\ work'[v].pc = "idle" /\ work'[v].writes = NoWrites
                         /\ work'[v].rows = {}
  <2>1. work'[w] = IdleWorker /\ \A v \in Workers \ {w} : work'[v] = work[v]
    BY <1>1 DEF IInv, CyclesOK
  <2>2. \A v \in Workers \ {w} : work[v].pc = "idle" /\ work[v].writes = NoWrites
    BY <1>1 DEF IInv, SerialCycles, Idle
  <2>3. \A v \in Workers \ {w} : work[v].rows = {}
    BY <2>2 DEF IInv, CyclesOK, WorkRow, InFlight, NoWrites, DeliveryRow
  <2> QED
    BY <2>1, <2>2, <2>3, IdleWorkerOK DEF EndedWorker
<1>8. SerialCycles'
  BY <1>7 DEF SerialCycles, Idle
<1>9. InFlight'
  BY <1>7 DEF InFlight, NoWrites
<1>10. RoomToClose'
  <2> SUFFICES ASSUME NEW e \in Events, IsOpen(e)' PROVE events'[e].nth < MaxNotices
    BY DEF RoomToClose
  <2>1. CASE wrote(e)
    <3>1. work[w].writes[e].kind \in {"open", "updated"}
      BY <1>2, <2>1 DEF IsOpen, WriteRow, Statuses
    <3> QED
      BY <1>2, <2>1, <3>1, ConstantsAssumption DEF WriteFits, ConstantsAssumption
  <2>2. CASE ~wrote(e)
    BY <1>3, <2>2 DEF IInv, RoomToClose, IsOpen, EventExists
  <2> QED
    BY <2>1, <2>2
<1>11. OneOpenEvent'
  <2> SUFFICES ASSUME NEW e \in Events, NEW f \in Events, IsOpen(e)', IsOpen(f)',
                      events'[e].rule = events'[f].rule
               PROVE  e = f
    BY DEF OneOpenEvent
  <2>1. \A g \in Events : wrote(g) /\ work[w].writes[g].kind # "open" =>
            IsOpen(g) /\ events[g].rule = events'[g].rule
    BY <1>2 DEF WriteFits
  <2>2. \A g \in Events : ~wrote(g) /\ IsOpen(g)' =>
            IsOpen(g) /\ events[g].rule = events'[g].rule
    BY <1>3 DEF IsOpen, EventExists
  <2>3. \A g \in Events : wrote(g) /\ work[w].writes[g].kind = "open" =>
            \A h \in Events : ~(IsOpen(h) /\ events[h].rule = events'[g].rule)
    BY <1>2 DEF WriteFits, OpenEvents
  <2>4. wrote(e) /\ wrote(f) => e = f
    BY <1>2 DEF IInv, InFlight
  <2> QED
    BY <2>1, <2>2, <2>3, <2>4 DEF IInv, OneOpenEvent
<1> QED
  BY <1>5, <1>6, <1>8, <1>9, <1>10, <1>11 DEF IInv

LEMMA EveryStep == ASSUME ~Overlap, IInv, [Next]_vars PROVE IInv'
<1>1. CASE UNCHANGED vars
  <2>1. UNCHANGED <<now, requests, holds, rules, recipients, channels, steps,
                    events, acked, deliveries, work, esc>>
    BY <1>1 DEF vars, config
  <2>2. TypeOK'
    BY <2>1, TablesUnchanged
  <2>3. CyclesOK'
    BY <2>1 DEF IInv, CyclesOK
  <2>4. SerialCycles' /\ InFlight' /\ RoomToClose' /\ OneOpenEvent'
    BY <2>1, Frame DEF Exists
  <2> QED
    BY <2>2, <2>3, <2>4 DEF IInv
<1>2. CASE Tick \/ \E r \in Rules : World(r)
  BY <1>2, ClockStep
<1>3. ASSUME NEW w \in Workers, RulesCycle(w) PROVE IInv'
  <2>1. CASE CycleStart(w)
    BY <2>1, CycleStartStep
  <2>2. ASSUME NEW r \in Rules, Decide(w, r) PROVE IInv'
    BY <2>2, DecideStep
  <2>3. ASSUME NEW r \in Rules, EvaluationRaises(w, r) PROVE IInv'
    BY <2>3, EvaluationRaisesStep
  <2>4. CASE Write(w)
    BY <2>4, FailedWriteStep, FlushedWriteStep
  <2>5. CASE Commit(w)
    BY <2>5, CommitStep
  <2>6. CASE CommitFails(w) \/ Kill(w)
    BY <2>6, AbortStep
  <2> QED
    BY <1>3, <2>1, <2>2, <2>3, <2>4, <2>5, <2>6 DEF RulesCycle
<1>4. ASSUME NEW x \in Escalators, EscalationCycle(x) PROVE IInv'
  BY <1>4, EscalationStep
<1>5. CASE Api
  <2>1. ASSUME NEW e \in Events, Acknowledge(e) PROVE IInv'
    BY <2>1, AcknowledgeStep
  <2>2. ASSUME NEW r \in Rules, NEW quiet \in Windows, NEW cooldown \in Cooldowns,
               CreateRule(r, quiet, cooldown)
        PROVE  IInv'
    BY <2>2, RuleEditStep
  <2>3. ASSUME NEW r \in Rules, NEW enabled \in BOOLEAN, NEW conds \in BOOLEAN,
               NEW quiet \in Windows, NEW cooldown \in Cooldowns,
               UpdateRule(r, enabled, conds, quiet, cooldown)
        PROVE  IInv'
    BY <2>3, RuleEditStep
  <2>4. ASSUME NEW r \in Rules, NEW active \in BOOLEAN, SetLocationActive(r, active)
        PROVE  IInv'
    BY <2>4, LocationEditStep
  <2>5. ASSUME NEW r \in Rules, DeleteRule(r) PROVE IInv'
    BY <2>5, DeleteRuleStep
  <2>6. ASSUME NEW c \in Channels, CreateChannel(c) \/ DeleteChannel(c) PROVE IInv'
    BY <2>6, ChannelEditStep
  <2>7. ASSUME NEW p \in Recipients, AddRecipient(p) \/ DeleteRecipient(p) PROVE IInv'
    BY <2>7, RecipientEditStep
  <2>8. ASSUME NEW s \in Steps, AddEscalation(s) PROVE IInv'
    BY <2>8, AddEscalationStep
  <2> QED
    BY <1>5, <2>1, <2>2, <2>3, <2>4, <2>5, <2>6, <2>7, <2>8 DEF Api
<1> QED
  BY <1>1, <1>2, <1>3, <1>4, <1>5 DEF Next

-----------------------------------------------------------------------------
(* The theorems *)

\* Without overlapping executions, IInv holds throughout.
THEOREM Invariance == ASSUME ~Overlap PROVE Spec => []IInv
<1>1. Init => IInv
  BY Opening
<1>2. IInv /\ [Next]_vars => IInv'
  BY EveryStep
<1> QED
  BY <1>1, <1>2, PTL DEF Spec

\* The tables keep their column types and foreign keys, whatever requests come
\* in while a cycle runs and wherever it is killed.
THEOREM TypeCorrect == ASSUME ~Overlap PROVE Spec => []TypeOK
<1>1. IInv => TypeOK
  BY DEF IInv
<1> QED
  BY <1>1, Invariance, PTL

\* A rule never has two events that are not closed.
THEOREM OneOpenEventAlways == ASSUME ~Overlap PROVE Spec => []OneOpenEvent
<1>1. IInv => OneOpenEvent
  BY DEF IInv
<1> QED
  BY <1>1, Invariance, PTL

-----------------------------------------------------------------------------
(* The tables implement AlertEpisode *)

LEMMA EpisodeInit == ASSUME Init PROVE Episode!Init
BY ConstantsAssumption DEF ConstantsAssumption, Init, Episode!Init, Phase, Owner, EventExists

LEMMA MappingTypes ==
    ASSUME IInv PROVE /\ Phase \in [Events -> Episode!Phases]
                      /\ Owner \in [Events -> Rules]
<1>1. \A e \in Events : EventExists(e) => events[e] \in EventRow
  BY DEF IInv, TypeOK, EventExists
<1>2. \A e \in Events : EventExists(e) => /\ events[e].status \in Statuses
                                          /\ events[e].rule \in Rules
  BY <1>1 DEF EventRow
<1>3. (CHOOSE r \in Rules : TRUE) \in Rules
  BY ConstantsAssumption DEF ConstantsAssumption
<1> QED
  BY <1>2, <1>3 DEF Phase, Owner, Episode!Phases, Statuses

\* Active is IsOpen, and so at most one episode of a rule is active.
LEMMA ActiveIsOpen ==
    ASSUME IInv
    PROVE  /\ \A e \in Events : Episode!Active(e) <=> IsOpen(e)
           /\ Episode!AtMostOneActive
<1>1. \A e \in Events : EventExists(e) => events[e].status \in Statuses
  BY DEF IInv, TypeOK, EventExists, EventRow
<1>2. \A e \in Events : Episode!Active(e) <=> IsOpen(e)
  BY <1>1 DEF Episode!Active, Phase, IsOpen, Statuses
<1>3. \A e \in Events : IsOpen(e) => Owner[e] = events[e].rule
  BY DEF Owner, IsOpen
<1> QED
  BY <1>2, <1>3 DEF Episode!AtMostOneActive, IInv, OneOpenEvent

\* The lemmas above hold of every state, of the next one too.
MappingOK == /\ Phase \in [Events -> Episode!Phases]
             /\ Owner \in [Events -> Rules]
             /\ Episode!AtMostOneActive

LEMMA NextMapping == IInv' => MappingOK'
<1>1. IInv => MappingOK
  BY MappingTypes, ActiveIsOpen DEF MappingOK
<1> QED
  BY <1>1, PTL

LEMMA CommitAdvances ==
    ASSUME IInv, IInv', NEW w \in Workers, Commit(w) PROVE Episode!Advance
<1> DEFINE wrote(e) == work[w].writes[e] # None
           kind(e) == work[w].writes[e].kind
<1>1. \A e \in Events : events'[e] = IF wrote(e) THEN Committed(w, e) ELSE events[e]
  BY DEF Commit
<1>2. \A e \in Events : wrote(e) =>
         /\ kind(e) \in Statuses /\ WriteFits(w, e)
         /\ EventExists(e)' /\ events'[e].status = kind(e)
         /\ events'[e].rule = work[w].writes[e].rule
  BY <1>1, CommittedRow, NoneIsNoRow DEF NoneIsNoRow, EventExists, WriteRow
<1>3. /\ Phase' \in [Events -> Episode!Phases]
      /\ Owner' \in [Events -> Rules]
      /\ Episode!AtMostOneActive'
  BY NextMapping DEF MappingOK
<1>4. ASSUME NEW e \in Events, wrote(e)
      PROVE  /\ <<Phase[e], Phase'[e]>> \in Episode!Arrows
             /\ Phase[e] # "none" => Owner'[e] = Owner[e]
             /\ Owner'[e] = work[w].writes[e].rule
  <2>1. Phase'[e] = kind(e) /\ Owner'[e] = work[w].writes[e].rule
    BY <1>2, <1>4 DEF Phase, Owner
  <2>2. CASE kind(e) = "open"
    <3>1. Phase[e] = "none"
      BY <1>2, <1>4, <2>2 DEF WriteFits, Phase, EventExists
    <3> QED
      BY <2>1, <2>2, <3>1 DEF Episode!Arrows
  <2>3. CASE kind(e) # "open"
    <3>1. /\ Phase[e] \in {"open", "updated"}
          /\ Owner[e] = work[w].writes[e].rule
      BY <1>2, <1>4, <2>3, ActiveIsOpen DEF WriteFits, Owner, IsOpen, Episode!Active
    <3>2. kind(e) \in {"updated", "closed"}
      BY <1>2, <1>4, <2>3 DEF Statuses
    <3> QED
      BY <2>1, <3>1, <3>2 DEF Episode!Arrows, Episode!Phases
  <2> QED
    BY <2>2, <2>3, <2>1
<1>5. ASSUME NEW e \in Events, ~wrote(e)
      PROVE  Phase'[e] = Phase[e] /\ Owner'[e] = Owner[e]
  BY <1>1, <1>5 DEF Phase, Owner, EventExists
<1>6. \A e \in Events : /\ <<Phase[e], Phase'[e]>> \in Episode!Arrows
                        /\ Phase[e] # "none" => Owner'[e] = Owner[e]
  <2>1. \A e \in Events : Phase[e] \in Episode!Phases
    BY MappingTypes
  <2> QED
    BY <1>4, <1>5, <2>1 DEF Episode!Arrows
<1>7. \A e, f \in Events :
         Phase'[e] # Phase[e] /\ Phase'[f] # Phase[f] /\ Owner'[e] = Owner'[f] => e = f
  <2> SUFFICES ASSUME NEW e \in Events, NEW f \in Events, Phase'[e] # Phase[e],
                      Phase'[f] # Phase[f], Owner'[e] = Owner'[f]
               PROVE  e = f
    OBVIOUS
  <2>1. wrote(e) /\ wrote(f)
    BY <1>5
  <2>2. work[w].writes[e].rule = work[w].writes[f].rule
    BY <1>4, <2>1
  <2> QED
    BY <2>1, <2>2 DEF IInv, InFlight
<1> QED
  BY <1>3, <1>6, <1>7 DEF Episode!Advance

LEMMA DeletionForgets ==
    ASSUME IInv, IInv', NEW r \in Rules, DeleteRule(r) PROVE [Episode!Forget(r)]_Episode!vars
<1>1. \A e \in Events : events'[e] = IF EventExists(e) /\ events[e].rule = r
                                     THEN None ELSE events[e]
  BY DEF DeleteRule
<1>2. \A e \in Events : Phase'[e] = IF Owner[e] = r THEN "none" ELSE Phase[e]
  BY <1>1 DEF Phase, Owner, EventExists
<1>3. \A e \in Events : Phase'[e] # "none" => Owner'[e] = Owner[e]
  <2>1. \A e \in Events : EventExists(e)' => events'[e] = events[e]
    BY <1>1 DEF EventExists
  <2> QED
    BY <2>1 DEF Phase, Owner, EventExists
<1>4. Phase' \in [Events -> Episode!Phases] /\ Owner' \in [Events -> Rules]
  BY NextMapping DEF MappingOK
<1>5. Phase' = [e \in Events |-> IF Owner[e] = r THEN "none" ELSE Phase[e]]
  BY <1>2, <1>4
<1> QED
  BY <1>3, <1>4, <1>5 DEF Episode!Forget

LEMMA EpisodeStep ==
    ASSUME IInv, IInv', [Next]_vars PROVE [Episode!Next]_Episode!vars
<1>1. ASSUME NEW w \in Workers, Commit(w) PROVE Episode!Next
  BY <1>1, CommitAdvances DEF Episode!Next
<1>2. ASSUME NEW r \in Rules, DeleteRule(r) PROVE [Episode!Next]_Episode!vars
  BY <1>2, DeletionForgets DEF Episode!Next
<1>3. ASSUME UNCHANGED events PROVE UNCHANGED Episode!vars
  BY <1>3 DEF Episode!vars, Phase, Owner, EventExists
<1>4. CASE UNCHANGED vars
  BY <1>3, <1>4 DEF vars
<1>5. CASE Next
  <2>1. CASE Tick \/ \E r \in Rules : World(r)
    BY <1>3, <2>1 DEF Tick, World
  <2>2. ASSUME NEW w \in Workers, RulesCycle(w), ~Commit(w) PROVE UNCHANGED events
    BY <2>2 DEF RulesCycle, CycleStart, Decide, EvaluationRaises, Write, CommitFails, Kill
  <2>3. ASSUME NEW x \in Escalators, EscalationCycle(x) PROVE UNCHANGED events
    BY <2>3 DEF EscalationCycle, EscalationStart, EscalateEvent, EscalationCommit,
                EscalationFails, EscalationKilled
  <2>4. ASSUME Api, \A r \in Rules : ~DeleteRule(r) PROVE UNCHANGED events
    <3>1. \A e \in Events : Acknowledge(e) => UNCHANGED events
      BY DEF Acknowledge
    <3>2. \A r \in Rules :
             /\ \A quiet, cooldown : CreateRule(r, quiet, cooldown) => UNCHANGED events
             /\ \A enabled, conds, quiet, cooldown :
                   UpdateRule(r, enabled, conds, quiet, cooldown) => UNCHANGED events
             /\ \A active : SetLocationActive(r, active) => UNCHANGED events
      <4> TAKE r \in Rules
      <4>1. \A quiet, cooldown : CreateRule(r, quiet, cooldown) => UNCHANGED events
        BY DEF CreateRule
      <4>2. \A enabled, conds, quiet, cooldown :
               UpdateRule(r, enabled, conds, quiet, cooldown) => UNCHANGED events
        BY DEF UpdateRule
      <4>3. \A active : SetLocationActive(r, active) => UNCHANGED events
        BY DEF SetLocationActive
      <4> QED
        BY <4>1, <4>2, <4>3
    <3>3. /\ \A c \in Channels : CreateChannel(c) \/ DeleteChannel(c) => UNCHANGED events
          /\ \A p \in Recipients : AddRecipient(p) \/ DeleteRecipient(p) => UNCHANGED events
          /\ \A s \in Steps : AddEscalation(s) => UNCHANGED events
      BY DEF CreateChannel, DeleteChannel, AddRecipient, DeleteRecipient, AddEscalation
    <3> QED
      BY <2>4, <3>1, <3>2, <3>3 DEF Api
  <2> QED
    BY <1>1, <1>2, <1>3, <1>5, <2>1, <2>2, <2>3, <2>4 DEF Next
<1> QED
  BY <1>4, <1>5

\* What the cycles and requests do to alert_events is a behaviour of
\* AlertEpisode: open, updated, closed, in this order, and one at a time.
THEOREM EpisodesRefined == ASSUME ~Overlap PROVE Spec => EpisodesFollowLifecycle
<1>1. Init => Episode!Init
  BY EpisodeInit
<1>2. IInv /\ IInv' /\ [Next]_vars => [Episode!Next]_Episode!vars
  BY EpisodeStep
<1> QED
  BY <1>1, <1>2, Invariance, PTL DEF Spec, EpisodesFollowLifecycle, Episode!Spec
=============================================================================
