----------------------------- MODULE StormAlerts -----------------------------
(***************************************************************************)
(* The ingestion cycle, backend/workers/pipeline_service.py, with the      *)
(* alert engine, backend/app/alerts/engine.py: radar cells become          *)
(* StormRisk rows, and the comparison with a location's previous row       *)
(* becomes Alerts with a notification, while users edit and delete their   *)
(* locations.  Summaries by the AI are dispatched once the cycle has       *)
(* committed (workers/tasks.py).                                           *)
(*                                                                         *)
(* A cycle is one transaction.  The program keeps no identity of a storm   *)
(* across cycles: each makes new storm_cells.  Storms are the world's, and *)
(* a cell is a storm as one cycle saw it.                                  *)
(***************************************************************************)
EXTENDS StormRisk, FiniteSets

CONSTANTS
    Locations, Storms,
    Workers,       \* executions of run_ingestion_cycle_task
    Frames,        \* what the radar may show: location -> storm -> Reading or None
    Radii, Muted,  \* values the API may write in a location
    AiConfigured,  \* is ANTHROPIC_API_KEY set?
    Overlap,       \* may two executions run at once?
    None,          \* SQL NULL, and the absence of a row or a cell
    MaxRisks, MaxRequests   \* bounds: assessments, API requests

NoFrame == [l \in Locations |-> [s \in Storms |-> None]]

ASSUME ConstantsAssumption ==
    /\ None \notin Reading
    /\ Frames \subseteq [Locations -> [Storms -> Reading \cup {None}]]
    /\ Radii \subseteq Nat /\ Muted \subseteq SUBSET (Hazards \cup {"storm"})
    /\ AiConfigured \in BOOLEAN /\ Overlap \in BOOLEAN
    /\ MaxRisks \in Nat /\ MaxRequests \in Nat

VARIABLES
    clock,      \* computed_at of the last assessment; no two are the same
    requests,   \* API requests left
    locations,  \* locations, with the alert types their preferences disable
    risks,      \* storm_risks
    alerts,     \* alerts, each with the status its notification was created in
    queue,      \* generate_risk_ai_summary_task messages: the risk
    work        \* the ingestion cycles in flight

vars == <<clock, requests, locations, risks, alerts, queue, work>>

-----------------------------------------------------------------------------
(* Rows *)

Stamps == 0 .. MaxRisks
Cells == Storms \X Workers \X Stamps   \* a storm as one cycle saw it: who ran it, and when it began
EventTypes == {"approaching", "intensified", "changed", "passed"}

LocationRow == [active : BOOLEAN, radius : Nat, muted : SUBSET (Hazards \cup {"storm"})]

\* The columns of a risk that a later cycle compares with (AlertState).
State == [level : RiskLevels, hazards : SUBSET Hazards, distance : Nat, eta : Nat \cup {Unknown}]

RiskRow == [location : Locations, cell : Cells, state : State, at : Stamps]

AlertRow == [location : Locations, cell : Cells, event : EventTypes, level : RiskLevels,
             at : Stamps, status : {"pending", "suppressed"}]

ASSUME NoneIsNoRow == None \notin LocationRow /\ None \notin EventTypes /\ None \notin State

Exists(l) == locations[l] # None

-----------------------------------------------------------------------------
(* app/alerts/engine.py *)

EtaDropped(prev, curr) ==
    curr # Unknown /\ (prev = Unknown \/ prev - curr >= 15)

GotCloser(prev, curr) == prev - curr >= 10

snapshot(x) == [level |-> Level(x), hazards |-> ActiveHazards(x),
                distance |-> x.distance, eta |-> x.eta]

\* Mutants: new hazards are not looked at; below the threshold nothing is said.
Decision_LevelOnly(prev, curr) ==
    IF curr.level = 0
    THEN IF prev # None /\ prev.level > 0 THEN "passed" ELSE None
    ELSE IF prev = None THEN "approaching"
    ELSE IF curr.level > prev.level THEN "intensified"
    ELSE None
Decision_SilentBelow(prev, curr) ==
    IF curr.level = 0 THEN None
    ELSE IF prev = None THEN "approaching"
    ELSE IF curr.level > prev.level THEN "intensified"
    ELSE None

\* AlertEngine.decide: the event, or None.
Decision(prev, curr) ==
    IF curr.level = 0
    THEN IF prev # None /\ prev.level > 0 THEN "passed" ELSE None
    ELSE IF prev = None THEN "approaching"
    ELSE IF curr.level > prev.level THEN "intensified"
    ELSE IF curr.hazards \ prev.hazards # {} THEN "changed"
    ELSE IF EtaDropped(prev.eta, curr.eta) \/ GotCloser(prev.distance, curr.distance)
         THEN "approaching"
    ELSE None

\* is_suppressed_by_preference; no event of this cycle is a first contact, so
\* SEVERE_CELL suppresses nothing.
Suppressed(curr, muted) == \/ "storm" \in muted
                           \/ curr.hazards # {} /\ curr.hazards \subseteq muted

\* Mutant: the key does not name the cell.
SameKey_NoCell(a, b) == a.location = b.location /\ a.event = b.event /\ a.level = b.level

\* Two alerts with one dedup_key.
SameKey(a, b) == /\ a.location = b.location /\ a.cell = b.cell
                 /\ a.event = b.event /\ a.level = b.level

-----------------------------------------------------------------------------
(* The ingestion cycle *)

IdleWorker == [pc |-> "idle", frame |-> NoFrame, born |-> 0, todo |-> {},
               seen |-> [l \in Locations |-> None], risks |-> {}, alerts |-> {},
               unflushed |-> {}, tasks |-> {}]

Idle(w) == work[w].pc = "idle"

\* What the cycle's session sees.
Rows(w) == risks \cup work[w].risks

\* The frames are fetched (none when every provider fails), their cells are
\* stored, and the active locations are loaded.
Fetch(w) ==
    /\ Idle(w)
    /\ Overlap \/ \A v \in Workers : Idle(v)
    /\ \E frame \in Frames \cup {NoFrame} :
         work' = [work EXCEPT ![w] = [IdleWorker EXCEPT
            !.pc = "run", !.frame = frame, !.born = clock, !.seen = locations,
            !.todo = {l \in Locations : Exists(l) /\ locations[l].active}]]
    /\ UNCHANGED <<clock, requests, locations, risks, alerts, queue>>

InRadius(w, l) == {s \in Storms : /\ work[w].frame[l][s] # None
                                  /\ work[w].frame[l][s].distance <= work[w].seen[l].radius}

Nearest(w, l) == {s \in InRadius(w, l) : \A t \in InRadius(w, l) :
                    work[w].frame[l][s].distance <= work[w].frame[l][t].distance}

History(w, l) == {r \in Rows(w) : r.location = l}

\* Mutant: the oldest row instead of the latest.
Previous_Oldest(w, l) ==
    IF History(w, l) = {} THEN None
    ELSE (CHOOSE r \in History(w, l) : \A q \in History(w, l) : r.at <= q.at).state

\* The location's latest row, whichever storm it was about.
Previous(w, l) ==
    IF History(w, l) = {} THEN None
    ELSE (CHOOSE r \in History(w, l) : \A q \in History(w, l) : q.at <= r.at).state

\* No cell in the radius: the location is skipped, whatever was said of it last.
Skip(w, l) ==
    /\ work[w].pc = "run" /\ l \in work[w].todo
    /\ InRadius(w, l) = {}
    /\ work' = [work EXCEPT ![w].todo = @ \ {l}]
    /\ UNCHANGED <<clock, requests, locations, risks, alerts, queue>>

\* A row added and not yet flushed goes out with the next query, or the commit,
\* which fails when its location has been deleted.
Flushable(w) == \A l \in work[w].unflushed : Exists(l)

FlushFails(w, l) ==
    /\ work[w].pc = "run" /\ l \in work[w].todo
    /\ InRadius(w, l) # {}
    /\ ~Flushable(w)
    /\ work' = [work EXCEPT ![w] = IdleWorker]
    /\ UNCHANGED <<clock, requests, locations, risks, alerts, queue>>

\* The StormRisk row of a location for its nearest cell, and the Alert that the
\* engine decides for; no alert when the event is None.
Assessed(w, l, s) ==
    [location |-> l, cell |-> <<s, w, work[w].born>>, state |-> snapshot(work[w].frame[l][s]),
     at |-> clock + 1]

AlertFor(w, l, s) ==
    LET row == Assessed(w, l, s) IN
    [location |-> l, cell |-> row.cell, event |-> Decision(Previous(w, l), row.state),
     level |-> row.state.level, at |-> row.at,
     status |-> IF Exists(l) /\ Suppressed(row.state, locations[l].muted)
                THEN "suppressed" ELSE "pending"]

Emitted(w, alert) == /\ alert.event # None
                     /\ ~\E a \in alerts \cup work[w].alerts : SameKey(a, alert)

Summarised(row) == AiConfigured /\ row.state.level > 0

\* Asking for a summary, looking for the alert's key: both flush the risk.
Flushed(row, alert) == alert.event # None \/ Summarised(row)

\* One location: its risk, and the alert if the engine decides for one.  The
\* location may be gone, which fails the cycle once the row is flushed.
Assess(w, l) ==
    /\ work[w].pc = "run" /\ l \in work[w].todo /\ clock < MaxRisks
    /\ Flushable(w)
    /\ \E s \in Nearest(w, l) :
         LET row == Assessed(w, l, s)
             alert == AlertFor(w, l, s)
         IN \/ /\ Flushed(row, alert) /\ ~Exists(l)
               /\ work' = [work EXCEPT ![w] = IdleWorker]
            \/ /\ ~Flushed(row, alert) \/ Exists(l)
               /\ work' = [work EXCEPT
                     ![w].todo = @ \ {l},
                     ![w].risks = @ \cup {row},
                     ![w].alerts = IF Emitted(w, alert) THEN @ \cup {alert} ELSE @,
                     ![w].unflushed = IF Flushed(row, alert) THEN {} ELSE {l},
                     ![w].tasks = IF Summarised(row) THEN @ \cup {row} ELSE @]
    /\ clock' = clock + 1
    /\ UNCHANGED <<requests, locations, risks, alerts, queue>>

Evaluated(w) == work[w].pc = "run" /\ work[w].todo = {}

\* session_scope commits; only then may the summaries be dispatched.
Commit(w) ==
    /\ Evaluated(w) /\ Flushable(w)
    /\ risks' = risks \cup work[w].risks
    /\ alerts' = alerts \cup work[w].alerts
    /\ work' = [work EXCEPT ![w] = [IdleWorker EXCEPT
                    !.pc = IF work[w].tasks = {} THEN "idle" ELSE "dispatch",
                    !.tasks = work[w].tasks]]
    /\ UNCHANGED <<clock, requests, locations, queue>>

\* Mutant: the dispatch runs in a `finally'.
CommitFails_Dispatches(w) ==
    /\ Evaluated(w) /\ ~Flushable(w)
    /\ work' = [work EXCEPT ![w] = [IdleWorker EXCEPT
                    !.pc = IF work[w].tasks = {} THEN "idle" ELSE "dispatch",
                    !.tasks = work[w].tasks]]
    /\ UNCHANGED <<clock, requests, locations, risks, alerts, queue>>

CommitFails(w) ==
    /\ Evaluated(w) /\ ~Flushable(w)
    /\ work' = [work EXCEPT ![w] = IdleWorker]
    /\ UNCHANGED <<clock, requests, locations, risks, alerts, queue>>

Dispatch(w) ==
    /\ work[w].pc = "dispatch"
    /\ \E r \in work[w].tasks :
         /\ queue' = queue \cup {r}
         /\ work' = [work EXCEPT ![w].tasks = @ \ {r},
                                 ![w].pc = IF work[w].tasks = {r} THEN "idle" ELSE @]
    /\ UNCHANGED <<clock, requests, locations, risks, alerts>>

\* A crash or the task's time limit: what was not committed, or not yet
\* dispatched, is lost.
Kill(w) ==
    /\ ~Idle(w)
    /\ work' = [work EXCEPT ![w] = IdleWorker]
    /\ UNCHANGED <<clock, requests, locations, risks, alerts, queue>>

\* generate_risk_ai_summary_task writes the row's ai_summary, a text nothing
\* else reads; a row that is gone, or an API that fails, is the end of it.
Summarise(r) ==
    /\ r \in queue
    /\ queue' = queue \ {r}
    /\ UNCHANGED <<clock, requests, locations, risks, alerts, work>>

-----------------------------------------------------------------------------
(* API requests *)

Request == requests > 0 /\ requests' = requests - 1

\* Identities are fresh: none a task or a cycle in flight still refers to.
Unreferenced(l) == /\ \A w \in Workers : work[w].seen[l] = None
                                      /\ \A r \in work[w].tasks : r.location # l
                   /\ \A r \in queue : r.location # l

CreateLocation(l, radius, muted) ==
    /\ Request /\ ~Exists(l) /\ Unreferenced(l)
    /\ locations' = [locations EXCEPT ![l] = [active |-> TRUE, radius |-> radius, muted |-> muted]]
    /\ UNCHANGED <<clock, risks, alerts, queue, work>>

UpdateLocation(l, active, radius, muted) ==
    /\ Request /\ Exists(l)
    /\ locations' = [locations EXCEPT ![l] =
                        [active |-> active, radius |-> radius, muted |-> muted]]
    /\ UNCHANGED <<clock, risks, alerts, queue, work>>

Of(rows, l) == {r \in rows : r.location = l}

\* Mutant: storm_risks without ON DELETE CASCADE.
DeleteLocation_KeepsRisks(l) ==
    /\ Request /\ Exists(l)
    /\ \A w \in Workers : work[w].pc = "run" => Of(work[w].risks, l) = {} \/ l \in work[w].unflushed
    /\ locations' = [locations EXCEPT ![l] = None]
    /\ alerts' = alerts \ Of(alerts, l)
    /\ UNCHANGED <<clock, risks, queue, work>>

\* A location that a cycle's flushed rows refer to is locked: the DELETE waits.
DeleteLocation(l) ==
    /\ Request /\ Exists(l)
    /\ \A w \in Workers : work[w].pc = "run" => Of(work[w].risks, l) = {} \/ l \in work[w].unflushed
    /\ locations' = [locations EXCEPT ![l] = None]
    /\ risks' = risks \ Of(risks, l)
    /\ alerts' = alerts \ Of(alerts, l)
    /\ UNCHANGED <<clock, queue, work>>

-----------------------------------------------------------------------------
Cycle(w) ==
    \/ Fetch(w)
    \/ \E l \in Locations : Skip(w, l) \/ FlushFails(w, l) \/ Assess(w, l)
    \/ Commit(w)
    \/ CommitFails(w)
    \/ Dispatch(w)
    \/ Kill(w)

Api == \E l \in Locations :
    \/ \E radius \in Radii, muted \in Muted :
         \/ CreateLocation(l, radius, muted)
         \/ \E active \in BOOLEAN : UpdateLocation(l, active, radius, muted)
    \/ DeleteLocation(l)

Next == \/ \E w \in Workers : Cycle(w)
        \/ \E r \in queue : Summarise(r)
        \/ Api

Init == /\ clock = 0 /\ requests = MaxRequests
        /\ locations \in [Locations -> {None} \cup
              [active : {TRUE}, radius : Radii, muted : Muted]]
        /\ risks = {} /\ alerts = {} /\ queue = {}
        /\ work = [w \in Workers |-> IdleWorker]

Spec == Init /\ [][Next]_vars

-----------------------------------------------------------------------------
(* Properties *)

\* The columns' types; risks and alerts go with their location.
TypeOK ==
    /\ clock \in Stamps /\ requests \in 0 .. MaxRequests
    /\ locations \in [Locations -> LocationRow \cup {None}]
    /\ risks \subseteq RiskRow /\ alerts \subseteq AlertRow
    /\ \A r \in risks \cup alerts : Exists(r.location)
    /\ queue \subseteq RiskRow

\* The rows of r's location assessed from stamp `from' to r.
Since(from, r) == {q \in risks : q.location = r.location /\ from <= q.at /\ q.at <= r.at}

\* A location at risk has been warned at that level or a higher one, and has
\* been at risk ever since that warning.
WarnedAtCurrentLevel ==
    \A r \in risks : r.state.level > 0 =>
        \E a \in alerts :
            /\ a.location = r.location /\ a.at <= r.at
            /\ a.level >= r.state.level
            /\ \A q \in Since(a.at, r) : q.state.level > 0

\* A hazard that is active at a location was active when an alert told of it,
\* and has been active ever since.
HazardsAreTold ==
    \A r \in risks : \A h \in r.state.hazards :
        \E a \in alerts :
            /\ a.location = r.location /\ a.at <= r.at
            /\ \A q \in Since(a.at, r) : h \in q.state.hazards

\* A location whose risk has fallen below the threshold is told that the storm
\* has passed.
PassingIsTold ==
    \A q, r \in risks :
        q.location = r.location /\ q.at < r.at /\ q.state.level > 0 /\ r.state.level = 0 =>
        \E a \in alerts : /\ a.location = r.location /\ a.event = "passed"
                          /\ q.at < a.at /\ a.at <= r.at

\* A storm that has passed is never announced.  So it is where every radius is
\* at most 67 km, the default of 50 included: a cell that near is never green.
NoneHasPassed == \A a \in alerts : a.event # "passed"

\* A summary is asked for a risk that other connections can see, unless its
\* location has been deleted since.
DispatchedRisksExist ==
    \A r \in queue : r \in risks \/ ~Exists(r.location)

\* `First actionable alert for this pair', the `(location, storm) pair' of
\* AlertState (app/alerts/engine.py): a storm that puts a location at risk has
\* been announced there.
EachStormAnnounced ==
    \A r \in risks : r.state.level > 0 =>
        \E a \in alerts : a.location = r.location /\ a.cell[1] = r.cell[1] /\ a.at <= r.at
=============================================================================
