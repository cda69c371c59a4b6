----------------------------- MODULE Vegetation -----------------------------
(***************************************************************************)
(* The vegetation-index cycle (workers/ndvi_pipeline.py): readings, dated  *)
(* maps and persistent-drop alerts of the drawn plots (talhoes).           *)
(*                                                                         *)
(* Acquisitions are numbered by date, one index stands for the five (they  *)
(* share no row), and the satellite's values are a constant.  What varies  *)
(* is which acquisitions the provider has published when a plot is asked   *)
(* for, in any order, and which of its calls fail.  An execution is one    *)
(* transaction over every plot; the scheduled one and those started with   *)
(* the admin panel's button may overlap, and a key another transaction has *)
(* inserted and not committed makes an INSERT wait for its outcome.        *)
(***************************************************************************)
EXTENDS Integers, FiniteSets, Sequences

CONSTANTS
    Plots,          \* active locations with a parent and a boundary
    LastPass,       \* acquisitions are 1 .. LastPass
    IndexAt,        \* the mean over the plot at each of them, in hundredths
    Cloudless,      \* the reliable ones
    Executions,     \* worker processes that may run the task
    OverlappingRuns \* FALSE: an execution starts when the others have ended

Passes == 1 .. LastPass
DropPoints == 3
DropMinimum == 8   \* PERSISTENT_DROP_MIN_ABSOLUTE, 0.08

ASSUME VegetationAssumption ==
    /\ LastPass \in Nat
    /\ IndexAt \in [Passes -> 0 .. 100]
    /\ Cloudless \subseteq Passes
    /\ OverlappingRuns \in BOOLEAN
    /\ Cardinality(Executions) <= 2    \* bound: one that is blocked waits for the other

VARIABLES published, readings, plotMaps, drops, execution, late
vegetationVars == <<published, readings, plotMaps, drops, execution, late>>

\* A reading names the execution that stored it: the table has no key over
\* (location, index, date), so two may store the same one.
Reading == [plot : Plots, at : Passes, by : Executions]
Map == Plots \X Passes      \* unique, and so is the dedup_key of a drop's alert

Asleep == [pc |-> "asleep", todo |-> {}, readings |-> {}, images |-> {}, drops |-> {},
           late |-> {}]

-----------------------------------------------------------------------------
\* The values of reliable acquisitions in date order.
Series(passes) ==
    LET kept == passes \cap Cloudless IN
    CHOOSE s \in [1 .. Cardinality(kept) -> kept] : \A i, j \in DOMAIN s : i < j => s[i] < s[j]

HasPersistentDrop(series) ==
    LET n == Len(series)
        value(i) == IndexAt[series[i]] IN
    /\ n >= DropPoints
    /\ \A i \in n - DropPoints + 1 .. n - 1 : value(i + 1) < value(i)
    /\ value(n - DropPoints + 1) - value(n) >= DropMinimum

\* What an execution's session sees: committed rows and its own.
SeenReadings(e) == readings \cup execution[e].readings
SeenOf(e, p) == {r.at : r \in {q \in SeenReadings(e) : q.plot = p}}

\* Acquisitions are taken in date order, each after the ones before it were
\* stored; one that is reliable is appended to what the table holds.
Falls(e, p, a) ==
    LET held == SeenOf(e, p) \cup {b \in published : b < a} IN
    a \in Cloudless /\ HasPersistentDrop(Series(held) \o <<a>>)

\* Mutant: the acquisition is stored first, and so counted twice.
NewDrops_StoredFirst(e, p) ==
    {<<p, a>> : a \in {b \in published \ SeenOf(e, p) :
        b \in Cloudless /\ HasPersistentDrop(
            Series(SeenOf(e, p) \cup {c \in published : c <= b}) \o <<b>>)}}

NewDrops(e, p) ==
    {<<p, a>> : a \in {b \in published \ SeenOf(e, p) : Falls(e, p, b)}} \ drops

\* The newest acquisition, cloudy or not, and the two newest reliable ones.
SelectedPasses == {a \in published :
    \/ \A b \in published : b <= a
    \/ a \in Cloudless /\ Cardinality({b \in published \cap Cloudless : b > a}) < 2}

MissingMaps(e, p) == {<<p, a>> : a \in SelectedPasses} \ (plotMaps \cup execution[e].images)

\* Rows that a statement finds twice make one_or_none() raise.
Doubled(e, p) == \E r, q \in SeenReadings(e) : /\ r # q /\ r.plot = p /\ q.plot = p
                                               /\ r.at = q.at /\ r.at \in published

\* The keys another transaction holds.
HeldKeys(e) == UNION {execution[f].images \cup execution[f].drops : f \in Executions \ {e}}

-----------------------------------------------------------------------------
\* Sentinel-2 passes, or an image of an earlier pass is made available late.
PublishPass(a) ==
    /\ a \notin published
    /\ published' = published \cup {a}
    /\ UNCHANGED <<readings, plotMaps, drops, execution, late>>

\* run_ndvi_pipeline_task starts: on its schedule, or trigger_pipeline_now.
StartCycle(e) ==
    /\ execution[e] = Asleep
    /\ OverlappingRuns \/ \A f \in Executions : execution[f] = Asleep
    /\ execution' = [execution EXCEPT ![e] = [Asleep EXCEPT !.pc = "run", !.todo = Plots]]
    /\ UNCHANGED <<published, readings, plotMaps, drops, late>>

AsksFor(e, p) == execution[e].pc = "run" /\ p \in execution[e].todo

\* The provider has nothing, or cannot be reached: the next plot.
SkipPlot(e, p) ==
    /\ AsksFor(e, p)
    /\ execution' = [execution EXCEPT ![e].todo = @ \ {p}]
    /\ UNCHANGED <<published, readings, plotMaps, drops, late>>

\* A plot's history is stored, with the maps that could be drawn.  An INSERT of
\* a key that another transaction holds waits.
StorePlot(e, p) ==
    /\ AsksFor(e, p) /\ published # {} /\ ~Doubled(e, p)
    /\ \E drawn \in SUBSET MissingMaps(e, p) :
         LET new == published \ SeenOf(e, p) IN
         IF (drawn \cup NewDrops(e, p)) \cap HeldKeys(e) # {}
         THEN execution' = [execution EXCEPT ![e].pc = "blocked"]
         ELSE execution' = [execution EXCEPT ![e] = [execution[e] EXCEPT
                !.todo = @ \ {p},
                !.readings = @ \cup {[plot |-> p, at |-> a, by |-> e] : a \in new},
                !.images = @ \cup drawn,
                !.drops = @ \cup NewDrops(e, p),
                !.late = @ \cup {<<p, a>> : a \in {b \in new : \E c \in SeenOf(e, p) : c > b}}]]
    /\ UNCHANGED <<published, readings, plotMaps, drops, late>>

\* MultipleResultsFound is not NdviProviderUnavailableError: every plot's work of
\* this execution is rolled back.
Choke(e, p) ==
    /\ AsksFor(e, p) /\ published # {} /\ Doubled(e, p)
    /\ execution' = [execution EXCEPT ![e] = Asleep]
    /\ UNCHANGED <<published, readings, plotMaps, drops, late>>

\* An INSERT that waited fails on the unique key once the other has committed.
CommitCycle(e) ==
    /\ execution[e].pc = "run" /\ execution[e].todo = {}
    /\ readings' = readings \cup execution[e].readings
    /\ plotMaps' = plotMaps \cup execution[e].images
    /\ drops' = drops \cup execution[e].drops
    /\ late' = late \cup execution[e].late
    /\ execution' = [f \in Executions |->
            IF f = e \/ execution[f].pc = "blocked" THEN Asleep ELSE execution[f]]
    /\ UNCHANGED published

\* Killed at the time limit, or another error: rolled back, and whoever waited goes on.
LoseCycle(e) ==
    /\ execution[e] # Asleep
    /\ execution' = [f \in Executions |->
            IF f = e THEN Asleep
            ELSE IF execution[f].pc = "blocked" THEN [execution[f] EXCEPT !.pc = "run"]
            ELSE execution[f]]
    /\ UNCHANGED <<published, readings, plotMaps, drops, late>>

-----------------------------------------------------------------------------
VegetationInit ==
    /\ published = {} /\ readings = {} /\ plotMaps = {} /\ drops = {} /\ late = {}
    /\ execution = [e \in Executions |-> Asleep]

VegetationNext ==
    \/ \E a \in Passes : PublishPass(a)
    \/ \E e \in Executions :
         \/ StartCycle(e) \/ CommitCycle(e) \/ LoseCycle(e)
         \/ \E p \in Plots : SkipPlot(e, p) \/ StorePlot(e, p) \/ Choke(e, p)

VegetationSpec == VegetationInit /\ [][VegetationNext]_vegetationVars

-----------------------------------------------------------------------------
VegetationTypeOK ==
    /\ published \subseteq Passes /\ readings \subseteq Reading
    /\ plotMaps \subseteq Map /\ drops \subseteq Map /\ late \subseteq Map
    /\ \A e \in Executions :
         /\ execution[e].pc \in {"asleep", "run", "blocked"}
         /\ execution[e].todo \subseteq Plots /\ execution[e].readings \subseteq Reading

StoredOf(p) == {r.at : r \in {q \in readings : q.plot = p}}

\* Two executions that overlapped did not both store the acquisition.
StoredOnce(p, a) ==
    \A r, q \in readings : r.plot = p /\ q.plot = p /\ r.at = a /\ q.at = a => r = q

\* A drop alert tells of "three consecutive reliable acquisitions": as long as a
\* plot's acquisitions came in date order, each stored once, it is there exactly for
\* those which the stored readings show to end such a fall, whatever cycles were lost,
\* overlapped, or found the provider down in between.
DropAlertsMatchHistory ==
    \A p \in Plots, a \in Passes :
        a \in StoredOf(p) /\ (\A b \in 1 .. a : <<p, b>> \notin late /\ StoredOnce(p, b)) =>
            (<<p, a>> \in drops <=>
                a \in Cloudless /\ HasPersistentDrop(Series({b \in StoredOf(p) : b <= a})))

\* No execution dies of what earlier ones stored: every plot still gets its attempt.
NoCycleChokes == \A e \in Executions, p \in Plots : ~(AsksFor(e, p) /\ Doubled(e, p))
=============================================================================
