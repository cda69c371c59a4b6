----------------------------- MODULE Advisories -----------------------------
(***************************************************************************)
(* The cycles that advise a farmer: frost and dry spells (workers/         *)
(* agro_pipeline.py), official warnings (official_warnings_pipeline.py)    *)
(* and recommendations (recommendation_pipeline.py).                       *)
(*                                                                         *)
(* Each execution is one transaction over every location, and two of one   *)
(* task may overlap.  An alert's dedup_key is unique in the database: an   *)
(* INSERT of one that another transaction has not committed yet waits for  *)
(* its outcome.  Recommendations have no such key.  Alerts are stored with *)
(* their notification.                                                     *)
(***************************************************************************)
EXTENDS Integers, FiniteSets, Sequences, FiniteSetsExt

CONSTANTS
    Spots,          \* active locations
    Runs,           \* executions
    Forecasts,      \* what a source may predict: the set of the days' minima, in degrees
    Gauges,         \* a station's week: days ago -> mm, Unread or Unreachable
    RainWindow, DryMinimum,      \* agro_dry_spell_window_days, agro_dry_spell_min_days
    Bulletins,      \* official warnings: [text, severity, dated]
    LastDay, MaxRetold, MaxRuns, \* bounds: days, repeats of an undated warning, executions
    NoAlert         \* SQL NULL

Unread == -1        \* the answer has no reading for the day
Unreachable == -2   \* the request failed

ASSUME AdvisoriesAssumption ==
    /\ RainWindow \in Nat \ {0} /\ DryMinimum \in Nat \ {0} /\ LastDay \in Nat /\ MaxRetold \in Nat
    /\ MaxRuns \in Nat
    /\ Gauges \subseteq [0 .. RainWindow -> Int]

\* A warning's text stands for all that its dedup_key hashes.
ASSUME TextsIdentify ==
    /\ \A b, c \in Bulletins : b.text = c.text => b = c
    /\ \A b \in Bulletins : b.text # ""

VARIABLES day, advised, advice, heard, cycle, runsLeft
advisoryVars == <<day, advised, advice, heard, cycle, runsLeft>>

Red == "red"
Orange == "orange"
Yellow == "yellow"

-----------------------------------------------------------------------------
(* The chain of weather sources (app/weather/fallback.py, factory.py) *)

Sources == <<"INMET", "CPTEC", "Open-Meteo">>
Answers(source, method) ==
    CASE source = "INMET" -> TRUE
      [] source = "CPTEC" -> method = "forecast"
      [] source = "Open-Meteo" -> method \in {"forecast", "rainfall"}

\* The first that does not raise; 0 when all do.
AnsweredBy(method, down) ==
    LET able == {i \in DOMAIN Sources : Sources[i] \notin down /\ Answers(Sources[i], method)} IN
    IF able = {} THEN 0 ELSE Min(able)

-----------------------------------------------------------------------------
(* Frost and dry spells *)

\* classify_frost_days, with the level of the alert.
FrostLevel(minima) ==
    IF \E t \in minima : t <= 3 THEN Red
    ELSE IF \E t \in minima : t <= 6 THEN Yellow
    ELSE NoAlert

\* INMET: a request per day, today's included.  A day whose request fails is left
\* out; one whose readings have no rain in them sums to nothing.
InmetRainfall(gauge) ==
    {<<d, IF gauge[d] = Unread THEN 0 ELSE gauge[d]>> :
        d \in {x \in 0 .. RainWindow - 1 : gauge[x] # Unreachable}}

\* Open-Meteo: the days up to yesterday, those with a value.
ArchiveRainfall(gauge) == {<<d, gauge[d]>> : d \in {x \in 1 .. RainWindow : gauge[x] >= 0}}

\* dry_streak_days of the days before today, the newest first, up to the first gap.
DryStreak(rainfall) ==
    LET past == {r \in rainfall : r[1] > 0}
        first == Min({r[1] : r \in past})
        dry(d) == \E r \in past : r[1] = d /\ r[2] < 1 IN
    IF past = {} THEN 0
    ELSE Max({n \in 0 .. RainWindow : \A k \in 0 .. n - 1 : dry(first + k)})

-----------------------------------------------------------------------------
(* Official warnings *)

RiskLevelFor(severity) ==
    CASE severity = "perigo" -> Orange
      [] severity = "grande perigo" -> Red
      [] OTHER -> Yellow

-----------------------------------------------------------------------------
(* Recommendations (engine/recommendations.py) *)

Rules == {"frost_severe_irrigation", "wind_rain_delay_spray", "water_stress_irrigation"}

\* The metrics beyond their thresholds; one that could not be gathered is not.
Conditions == [rule \in Rules |->
    CASE rule = "frost_severe_irrigation" -> {"frost"}
      [] rule = "wind_rain_delay_spray" -> {"wind", "rain"}
      [] rule = "water_stress_irrigation" -> {"dry soil", "evaporation"}]
Signals == UNION {Conditions[rule] : rule \in Rules}

RelatedEvent(rule) ==
    CASE rule = "frost_severe_irrigation" -> "frost"
      [] rule = "water_stress_irrigation" -> "dry spell"
      [] OTHER -> NoAlert

MatchedRules(signals) == {rule \in Rules : Conditions[rule] \subseteq signals}

-----------------------------------------------------------------------------
(* Rows, and what an execution sees of them *)

Events == {"frost", "dry spell", "warning"}
Tasks == {"agro", "warnings", "recommendations"}
ASSUME NoAlertIsNoTask == NoAlert \notin Tasks

Sleeping == [task |-> NoAlert, pc |-> "asleep", day |-> 0, todo |-> {}, alerts |-> {},
             advice |-> {}, heard |-> {}, overlapped |-> FALSE, waits |-> NoAlert]

VisibleAlerts(e) == advised \cup cycle[e].alerts
VisibleAdvice(e) == advice \cup cycle[e].advice

\* The dedup_key.  An undated warning is stamped with the time it was fetched.
\* Mutant: frost and dry spells without the day.
AlertKey_NoDay(a) == <<a.spot, a.event, a.text, a.fetch>>
AlertKey(a) ==
    <<a.spot, a.event, a.text, a.fetch, IF a.event = "warning" THEN 0 ELSE a.day>>

HeldElsewhere(e, a) == \E f \in Runs \ {e} : \E b \in cycle[f].alerts : AlertKey(b) = AlertKey(a)
Known(e, a) == \E b \in VisibleAlerts(e) : AlertKey(b) = AlertKey(a)

\* _emit_alert for each of them: the ones already there are passed over.
Emit(e, step, alerts) ==
    LET new == {a \in alerts : ~Known(e, a)}
        held == {a \in new : HeldElsewhere(e, a)} IN
    \/ /\ held # {}
       /\ cycle' = [cycle EXCEPT ![e].pc = "waits",
                                 ![e].waits = AlertKey(CHOOSE a \in held : TRUE)]
    \/ /\ held = {}
       /\ cycle' = [cycle EXCEPT
            ![e].todo = @ \ {step}, ![e].alerts = @ \cup new,
            ![e].heard = @ \cup {<<a.spot, a.event, a.text, a.day>> : a \in alerts}]

AlertRow(spot, event, level, text, fetch, on) ==
    [spot |-> spot, event |-> event, level |-> level, text |-> text, fetch |-> fetch, day |-> on]

-----------------------------------------------------------------------------
(* Executions *)

Start(e, task, todo) ==
    /\ cycle[e] = Sleeping /\ runsLeft > 0 /\ runsLeft' = runsLeft - 1
    /\ LET with == {f \in Runs : cycle[f].task = task} IN
       cycle' = [f \in Runs |->
            IF f = e THEN [Sleeping EXCEPT !.task = task, !.pc = "runs", !.day = day, !.todo = todo,
                                           !.overlapped = with # {}]
            ELSE IF f \in with THEN [cycle[f] EXCEPT !.overlapped = TRUE]
            ELSE cycle[f]]
    /\ UNCHANGED <<day, advised, advice, heard>>

StartAgro(e) == Start(e, "agro", Spots \X {"frost", "dry spell"})
StartWarnings(e) == Start(e, "warnings", Spots \X {"warning"})
StartRecommendations(e) == Start(e, "recommendations", Spots \X {"advice"})

At(e, spot, what) == cycle[e].pc = "runs" /\ <<spot, what>> \in cycle[e].todo

\* Every source raised, or the location's metrics did: the next one.
PassOver(e, spot, what) ==
    /\ At(e, spot, what)
    /\ cycle' = [cycle EXCEPT ![e].todo = @ \ {<<spot, what>>}]
    /\ UNCHANGED <<day, advised, advice, heard, runsLeft>>

CheckFrost(e, spot) ==
    /\ At(e, spot, "frost")
    /\ \E minima \in Forecasts :
         LET level == FrostLevel(minima) IN
         Emit(e, <<spot, "frost">>,
              IF level = NoAlert THEN {}
              ELSE {AlertRow(spot, "frost", level, "", 0, cycle[e].day)})
    /\ UNCHANGED <<day, advised, advice, heard, runsLeft>>

CheckDrySpell(e, spot) ==
    /\ At(e, spot, "dry spell")
    /\ \E gauge \in Gauges, down \in SUBSET {"INMET", "Open-Meteo"} :
         LET by == AnsweredBy("rainfall", down)
             rainfall == IF by = 1 THEN InmetRainfall(gauge) ELSE ArchiveRainfall(gauge) IN
         /\ by # 0
         /\ Emit(e, <<spot, "dry spell">>,
                 IF DryStreak(rainfall) < DryMinimum THEN {}
                 ELSE {AlertRow(spot, "dry spell", Orange, "", 0, cycle[e].day)})
    /\ UNCHANGED <<day, advised, advice, heard, runsLeft>>

\* How often an undated warning has been told at a spot, by anyone.
Retold(spot, text) ==
    Cardinality({a \in UNION {VisibleAlerts(f) : f \in Runs} : a.spot = spot /\ a.text = text})

CheckWarnings(e, spot) ==
    /\ At(e, spot, "warning")
    /\ \E active \in SUBSET Bulletins :
         /\ \A b \in active : ~b.dated => Retold(spot, b.text) < MaxRetold
         /\ Emit(e, <<spot, "warning">>,
                 {AlertRow(spot, "warning", RiskLevelFor(b.severity), b.text,
                           IF b.dated THEN 0 ELSE 1 + Retold(spot, b.text), cycle[e].day) :
                     b \in active})
    /\ UNCHANGED <<day, advised, advice, heard, runsLeft>>

\* The newest alert of the rule's event since the execution's day began.
RelatedAlert(e, spot, rule) ==
    LET related == {a \in VisibleAlerts(e) :
            a.spot = spot /\ a.event = RelatedEvent(rule) /\ a.day >= cycle[e].day} IN
    IF related = {} THEN NoAlert
    ELSE CHOOSE a \in related : \A b \in related : b.day <= a.day

AlreadyToday(e, spot, rule) ==
    \E r \in VisibleAdvice(e) : r.spot = spot /\ r.rule = rule /\ r.day >= cycle[e].day

Recommend(e, spot) ==
    /\ At(e, spot, "advice")
    /\ \E rules \in {MatchedRules(signals) : signals \in SUBSET Signals} :
         cycle' = [cycle EXCEPT
            ![e].todo = @ \ {<<spot, "advice">>},
            ![e].advice = @ \cup
                {[spot |-> spot, rule |-> rule, day |-> cycle[e].day, by |-> e,
                  alert |-> RelatedAlert(e, spot, rule), overlapped |-> FALSE] :
                    rule \in {r \in rules : ~AlreadyToday(e, spot, r)}}]
    /\ UNCHANGED <<day, advised, advice, heard, runsLeft>>

WaitsFor(f, e) == cycle[f].pc = "waits" /\ \E a \in cycle[e].alerts : AlertKey(a) = cycle[f].waits

\* Whoever waited for one of its keys fails on it, with all it had done.
CommitRun(e) ==
    /\ cycle[e].pc = "runs" /\ cycle[e].todo = {}
    /\ advised' = advised \cup cycle[e].alerts
    /\ advice' = advice \cup {[r EXCEPT !.overlapped = cycle[e].overlapped] : r \in cycle[e].advice}
    /\ heard' = heard \cup cycle[e].heard
    /\ cycle' = [f \in Runs |-> IF f = e \/ WaitsFor(f, e) THEN Sleeping ELSE cycle[f]]
    /\ UNCHANGED <<day, runsLeft>>

\* Killed at the time limit, a deadlock, a deleted location: rolled back, and whoever
\* waited goes on.
LoseRun(e) ==
    /\ cycle[e] # Sleeping
    /\ cycle' = [f \in Runs |->
            IF f = e THEN Sleeping
            ELSE IF WaitsFor(f, e) THEN [cycle[f] EXCEPT !.pc = "runs", !.waits = NoAlert]
            ELSE cycle[f]]
    /\ UNCHANGED <<day, advised, advice, heard, runsLeft>>

Midnight ==
    /\ day < LastDay /\ day' = day + 1
    /\ UNCHANGED <<advised, advice, heard, cycle, runsLeft>>

-----------------------------------------------------------------------------
AdvisoriesInit ==
    /\ day = 0 /\ advised = {} /\ advice = {} /\ heard = {}
    /\ cycle = [e \in Runs |-> Sleeping] /\ runsLeft = MaxRuns

AdvisoriesNext ==
    \/ Midnight
    \/ \E e \in Runs :
         \/ StartAgro(e) \/ StartWarnings(e) \/ StartRecommendations(e)
         \/ CommitRun(e) \/ LoseRun(e)
         \/ \E spot \in Spots :
              \/ CheckFrost(e, spot) \/ CheckDrySpell(e, spot)
              \/ CheckWarnings(e, spot) \/ Recommend(e, spot)
              \/ \E what \in Events \cup {"advice"} : PassOver(e, spot, what)

AdvisoriesSpec == AdvisoriesInit /\ [][AdvisoriesNext]_advisoryVars

-----------------------------------------------------------------------------
AdvisoriesTypeOK ==
    /\ day \in 0 .. LastDay
    /\ \A a \in advised : a.spot \in Spots /\ a.event \in Events /\ a.day \in 0 .. day
    /\ \A a, b \in advised : AlertKey(a) = AlertKey(b) => a = b
    /\ \A r \in advice : r.rule \in Rules /\ r.day \in 0 .. day
    /\ \A e \in Runs : cycle[e].pc \in {"asleep", "runs", "waits"}

\* What a finished cycle heard of at a place has an alert of its day there; a dated
\* warning has one for as long as it stays active, however often it is fetched.
EverythingHeardIsTold ==
    /\ \A h \in heard : \E a \in advised :
         /\ a.spot = h[1] /\ a.event = h[2] /\ a.text = h[3]
         /\ a.event # "warning" => a.day = h[4]
    /\ \A a, b \in advised : (\E w \in Bulletins : w.text = a.text /\ w.dated)
                              /\ a.spot = b.spot /\ a.text = b.text => a = b

\* `One per location/rule/day' (RecommendedAction): only executions that overlapped
\* leave two, and the alert one refers to is its place's, of its event and not older.
AdviceOncePerDay ==
    /\ \A r, q \in advice :
         r # q /\ r.spot = q.spot /\ r.rule = q.rule /\ r.day = q.day =>
            r.overlapped /\ q.overlapped
    /\ \A r \in advice : r.alert # NoAlert =>
         /\ r.alert \in advised
         /\ r.alert.spot = r.spot /\ r.alert.event = RelatedEvent(r.rule) /\ r.alert.day >= r.day

\* Farmers are told what the cycles found out, once.
FarmersAreTold == EverythingHeardIsTold /\ AdviceOncePerDay
=============================================================================
