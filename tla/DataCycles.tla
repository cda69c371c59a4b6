----------------------------- MODULE DataCycles -----------------------------
(***************************************************************************)
(* The cycles that copy an outside source into a table: deforestation      *)
(* checks, the planting-window table, lightning strikes, and the forecasts *)
(* kept to be compared with what happened.                                 *)
(*                                                                         *)
(* Each is its own machine; they share only the calendar `date' (lightning *)
(* counts in its own cycles).  A cycle is one transaction.  The planting   *)
(* table's is taken apart, because it deletes before it downloads.  What   *)
(* the sources said is remembered in `said', to compare the tables with.   *)
(***************************************************************************)
EXTENDS Integers, FiniteSets, Sequences

CONSTANTS
    Fields,         \* drawn plots
    Layers,         \* DETER, PRODES
    Clearings,      \* what a layer may report over a plot
    Downloads,      \* contents of the planting CSV, as sequences of rows
    Unzoned,        \* a row without a planting window
    Bolts,          \* places lightning may strike
    StrikeAge,      \* lightning_retention_minutes, in cycles
    ForecastModels,         \* ECMWF, GFS, ICON
    Horizons,       \* HORIZON_BUCKETS_HOURS (24, 72, 120), in days
    LastDate, LastFlash,
    Silence         \* no answer, or no row

ASSUME DataAssumption ==
    Horizons \subseteq 1 .. 5 /\ LastDate \in Nat /\ LastFlash \in Nat /\ StrikeAge \in Nat

VARIABLES date, checks, said, planting, refresh, flash, strikes, lastFlash,
          snapshots, archived
deforestationVars == <<checks, said>>
plantingVars == <<planting, refresh>>
lightningVars == <<flash, strikes, lastFlash>>
forecastVars == <<snapshots, archived>>
dataVars == <<date, deforestationVars, plantingVars, lightningVars, forecastVars>>

Dates == 0 .. LastDate
NextDate == date < LastDate /\ date' = date + 1

-----------------------------------------------------------------------------
(* Deforestation: one row per plot and layer. *)

Check == [on : Dates, found : SUBSET Clearings]
ASSUME SilenceIsNoCheck == Silence \notin Check

\* Mutant: a layer that timed out is written as one without alerts.
Upsert_ClearsSilent(row, answer) ==
    [on |-> date, found |-> IF answer = Silence THEN {} ELSE answer]

\* Only the layers that answered are written; the others keep their last check.
Upsert(row, answer) == IF answer = Silence THEN row ELSE [on |-> date, found |-> answer]

\* INPE's two layers answer or fail independently, for each plot.
CheckDeforestation ==
    \E answers \in [Fields \X Layers -> (SUBSET Clearings) \cup {Silence}] :
        /\ checks' = [k \in DOMAIN checks |-> Upsert(checks[k], answers[k])]
        /\ said' = [k \in DOMAIN said |->
                      IF answers[k] = Silence THEN said[k] ELSE said[k] \cup {<<date, answers[k]>>}]
        /\ UNCHANGED <<date, plantingVars, lightningVars, forecastVars>>

-----------------------------------------------------------------------------
(* The planting windows (ZARC). *)

\* Rows without a window, or that do not parse, are left out.
Zoned(rows) == {rows[i] : i \in DOMAIN rows} \ {Unzoned}

NoRefresh == [pc |-> "idle", file |-> <<>>, read |-> 0]

BeginRefresh ==
    /\ refresh.pc = "idle"
    /\ \E file \in Downloads : refresh' = [pc |-> "deleted", file |-> file, read |-> 0]
    /\ UNCHANGED <<date, deforestationVars, planting, lightningVars, forecastVars>>

\* A batch of the stream is inserted, in the transaction that deleted the table.
ReadBatch ==
    /\ refresh.pc = "deleted" /\ refresh.read < Len(refresh.file)
    /\ refresh' = [refresh EXCEPT !.read = @ + 1]
    /\ UNCHANGED <<date, deforestationVars, planting, lightningVars, forecastVars>>

CommitRefresh ==
    /\ refresh.pc = "deleted" /\ refresh.read = Len(refresh.file)
    /\ planting' = Zoned(refresh.file)
    /\ refresh' = NoRefresh
    /\ UNCHANGED <<date, deforestationVars, lightningVars, forecastVars>>

\* The download breaks off: session_scope rolls everything back.
BreakRefresh ==
    /\ refresh.pc = "deleted" /\ refresh' = NoRefresh
    /\ UNCHANGED <<date, deforestationVars, planting, lightningVars, forecastVars>>

-----------------------------------------------------------------------------
(* Lightning: the newest frame is added, what is older than StrikeAge goes. *)

Strike == [at : 0 .. LastFlash, where : Bolts]

\* The frame is read whole; without an answer nothing is pruned either.
DetectLightning ==
    /\ \E frame \in SUBSET Bolts :
         strikes' = {s \in strikes : s.at >= flash - StrikeAge}
                    \cup {[at |-> flash, where |-> b] : b \in frame}
    /\ lastFlash' = flash
    /\ UNCHANGED <<date, deforestationVars, plantingVars, flash, forecastVars>>

FlashPasses ==
    /\ flash < LastFlash /\ flash' = flash + 1
    /\ UNCHANGED <<date, deforestationVars, plantingVars, strikes, lastFlash, forecastVars>>

-----------------------------------------------------------------------------
(* Forecasts and what happened: one location's snapshots. *)

TargetDays == 1 .. LastDate + 5
Key == [model : ForecastModels, target : TargetDays, horizon : Horizons]
Snapshot == [key : Key, taken : Dates, observed : {"pending", "blank", "measured"}]

KeyOf(model, h) == [model |-> model, target |-> date + h, horizon |-> h]

\* One row per model and horizon that has a point for its day; a second run of the
\* same day overwrites it (its day is to come: it has no observation to lose).
RecordSnapshots ==
    \E heard \in SUBSET (ForecastModels \X Horizons) :
        LET new == {[key |-> KeyOf(k[1], k[2]), taken |-> date, observed |-> "pending"] :
                      k \in heard} IN
        /\ snapshots' = {s \in snapshots : \A n \in new : n.key # s.key} \cup new
        /\ UNCHANGED <<date, deforestationVars, plantingVars, lightningVars, archived>>

\* Past targets without an observation.
Pending == {s \in snapshots : s.key.target < date /\ s.observed = "pending"}

\* The archive lists days it has no values for yet with nulls, or leaves them out;
\* a day that is listed is observed, and is not asked for again.
Observation(s, listed) ==
    IF s.key.target \notin listed THEN s
    ELSE [s EXCEPT !.observed = IF s.key.target \in archived THEN "measured" ELSE "blank"]

FillObservations ==
    \E listed \in SUBSET {s.key.target : s \in Pending} :
        /\ snapshots' = (snapshots \ Pending) \cup {Observation(s, listed) : s \in Pending}
        /\ UNCHANGED <<date, deforestationVars, plantingVars, lightningVars, archived>>

\* ERA5 is published some days after the day it describes.
Archive(d) ==
    /\ d < date /\ d \notin archived
    /\ archived' = archived \cup {d}
    /\ UNCHANGED <<date, deforestationVars, plantingVars, lightningVars, snapshots>>

-----------------------------------------------------------------------------
DataInit ==
    /\ date = 0
    /\ checks = [k \in Fields \X Layers |-> Silence] /\ said = [k \in Fields \X Layers |-> {}]
    /\ planting = {} /\ refresh = NoRefresh
    /\ flash = 0 /\ strikes = {} /\ lastFlash = 0
    /\ snapshots = {} /\ archived = {}

DateChanges ==
    NextDate /\ UNCHANGED <<deforestationVars, plantingVars, lightningVars, forecastVars>>

DeforestationNext == CheckDeforestation \/ DateChanges
PlantingNext == BeginRefresh \/ ReadBatch \/ CommitRefresh \/ BreakRefresh
LightningNext == DetectLightning \/ FlashPasses
ForecastNext == \/ RecordSnapshots \/ FillObservations \/ DateChanges
                \/ \E d \in Dates : Archive(d)

DataNext == DeforestationNext \/ PlantingNext \/ LightningNext \/ ForecastNext
DataSpec == DataInit /\ [][DataNext]_dataVars

-----------------------------------------------------------------------------
DataTypeOK ==
    /\ date \in Dates /\ archived \subseteq Dates /\ flash \in 0 .. LastFlash
    /\ \A k \in Fields \X Layers : checks[k] \in Check \cup {Silence}
    /\ strikes \subseteq Strike /\ snapshots \subseteq Snapshot
    /\ \A s, t \in snapshots : s.key = t.key => s = t

\* A deforestation row is the newest answer of its layer, never a failure read as
\* "no alerts".
ChecksAreAnswers ==
    \A k \in Fields \X Layers :
        /\ checks[k] = Silence <=> said[k] = {}
        /\ checks[k] # Silence =>
             /\ <<checks[k].on, checks[k].found>> \in said[k]
             /\ \A a \in said[k] : a[1] <= checks[k].on

\* The planting table is empty, or all of one download.
PlantingIsWhole == planting = {} \/ \E file \in Downloads : planting = Zoned(file)

\* What readers find is what the last cycle that had an answer left.
StrikesAreRecent == \A s \in strikes : lastFlash - StrikeAge <= s.at /\ s.at <= lastFlash

\* A prediction was made its horizon before the day it is about, and is compared
\* only when that day is over.
SnapshotsKeepTheirHorizon ==
    \A s \in snapshots : /\ s.taken + s.key.horizon = s.key.target
                         /\ s.observed # "pending" => s.key.target < date

\* The tables hold what their sources said, whichever calls failed.
TablesHoldWhatWasSaid ==
    ChecksAreAnswers /\ PlantingIsWhole /\ StrikesAreRecent /\ SnapshotsKeepTheirHorizon
=============================================================================
