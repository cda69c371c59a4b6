-------------------------- MODULE AgronomicProofs --------------------------
(***************************************************************************)
(* Proofs about DataCycles, Advisories and Vegetation, for every value of  *)
(* the constants: the copied tables hold what their sources said,          *)
(* whichever calls failed; farmers are told what the cycles found out,     *)
(* once; and a persistent drop of a plot's index is told exactly when the  *)
(* stored readings show it, with any executions of a task overlapping.     *)
(***************************************************************************)
EXTENDS DataCycles, Advisories, Vegetation, FiniteSetTheorems, WellFoundedInduction, TLAPS

\* A set of numbers has a least one.
LEMMA Least ==
    ASSUME NEW T \in SUBSET Nat, T # {}
    PROVE  \E n \in T : \A m \in T : n <= m
<1> DEFINE R == {p \in Nat \X Nat : p[1] < p[2]}
<1>1. IsWellFoundedOn(R, Nat)
  BY NatLessThanWellFounded, Zenon DEF OpToRel
<1>2. \A x, y \in Nat : <<x, y>> \in R <=> x < y
  OBVIOUS
<1> HIDE DEF R
<1>3. PICK n \in T : \A m \in T : ~(<<m, n>> \in R)
  BY <1>1, WFMin, Zenon
<1>4. ASSUME NEW m \in T PROVE n <= m
  <2>1. m \in Nat /\ n \in Nat
    OBVIOUS
  <2>2. ~(m < n)
    BY <1>2, <1>3, <2>1
  <2> QED
    BY <2>1, <2>2
<1> QED
  BY <1>4

-----------------------------------------------------------------------------
(* Copied tables (DataCycles) *)

Layered == Fields \X Layers

\* A layer's answers are dated, none in the future.
AnswersAreDated ==
    /\ checks \in [Layered -> Check \cup {Silence}]
    /\ said \in [Layered -> SUBSET (Dates \X SUBSET Clearings)]
    /\ \A k \in Layered : \A a \in said[k] : a[1] <= date

\* The file a refresh reads is one of the downloads.
FileIsDownload == refresh.pc = "deleted" => refresh.file \in Downloads

\* The newest cycle with an answer is not ahead of the clock.
FlashesAreOrdered ==
    /\ flash \in 0 .. LastFlash /\ lastFlash \in 0 .. flash
    /\ strikes \subseteq Strike

SnapshotsAreKeyed ==
    /\ snapshots \subseteq Snapshot
    /\ \A s, t \in snapshots : s.key = t.key => s = t

DInv == /\ date \in Dates /\ archived \subseteq Dates
        /\ AnswersAreDated /\ ChecksAreAnswers
        /\ FileIsDownload /\ PlantingIsWhole
        /\ FlashesAreOrdered /\ StrikesAreRecent
        /\ SnapshotsAreKeyed /\ SnapshotsKeepTheirHorizon

LEMMA DataInitially == DataInit => DInv
<1> SUFFICES ASSUME DataInit PROVE DInv
  OBVIOUS
<1> USE DataAssumption DEF DataInit
<1>1. date \in Dates /\ archived \subseteq Dates
  BY DEF Dates
<1>2. AnswersAreDated
  BY DEF AnswersAreDated, Layered
<1>3. ChecksAreAnswers
  BY DEF ChecksAreAnswers
<1>4. FileIsDownload /\ PlantingIsWhole
  BY DEF FileIsDownload, PlantingIsWhole, NoRefresh
<1>5. FlashesAreOrdered /\ StrikesAreRecent
  BY DEF FlashesAreOrdered, StrikesAreRecent
<1>6. SnapshotsAreKeyed /\ SnapshotsKeepTheirHorizon
  BY DEF SnapshotsAreKeyed, SnapshotsKeepTheirHorizon
<1> QED
  BY <1>1, <1>2, <1>3, <1>4, <1>5, <1>6 DEF DInv

\* An answer of today is the newest; without one the row stays.
LEMMA AnswersKept ==
    ASSUME DInv, CheckDeforestation
    PROVE  AnswersAreDated' /\ ChecksAreAnswers'
<1> PICK answers \in [Layered -> (SUBSET Clearings) \cup {Silence}] :
        /\ checks' = [k \in DOMAIN checks |-> Upsert(checks[k], answers[k])]
        /\ said' = [k \in DOMAIN said |->
                      IF answers[k] = Silence THEN said[k] ELSE said[k] \cup {<<date, answers[k]>>}]
        /\ date' = date
  BY DEF CheckDeforestation, Layered
<1> DEFINE row == [k \in Layered |-> [on |-> date, found |-> answers[k]]]
<1>0. /\ date \in Nat /\ date \in Dates
      /\ checks \in [Layered -> Check \cup {Silence}]
      /\ said \in [Layered -> SUBSET (Dates \X SUBSET Clearings)]
      /\ \A k \in Layered : \A a \in said[k] : a[1] <= date /\ a[1] \in Dates
  BY DEF DInv, AnswersAreDated, Dates
<1>1. \A k \in Layered :
        /\ answers[k] = Silence => checks'[k] = checks[k] /\ said'[k] = said[k]
        /\ answers[k] # Silence => /\ checks'[k] = row[k]
                                   /\ said'[k] = said[k] \cup {<<date, answers[k]>>}
                                   /\ row[k] \in Check /\ row[k] # Silence
                                   /\ row[k].on = date /\ row[k].found = answers[k]
                                   /\ <<date, answers[k]>> \in Dates \X SUBSET Clearings
  <2> SUFFICES ASSUME NEW k \in Layered
      PROVE /\ answers[k] = Silence => checks'[k] = checks[k] /\ said'[k] = said[k]
            /\ answers[k] # Silence => /\ checks'[k] = row[k]
                                       /\ said'[k] = said[k] \cup {<<date, answers[k]>>}
                                       /\ row[k] \in Check /\ row[k] # Silence
                                       /\ row[k].on = date /\ row[k].found = answers[k]
                                       /\ <<date, answers[k]>> \in Dates \X SUBSET Clearings
    OBVIOUS
  <2>1. checks'[k] = Upsert(checks[k], answers[k])
    BY <1>0
  <2>2. answers[k] # Silence => answers[k] \in SUBSET Clearings /\ row[k] \in Check
    BY <1>0 DEF Check
  <2>3. row[k].on = date /\ row[k].found = answers[k]
    OBVIOUS
  <2>4. said'[k] = IF answers[k] = Silence THEN said[k] ELSE said[k] \cup {<<date, answers[k]>>}
    BY <1>0
  <2>5. Upsert(checks[k], answers[k]) = IF answers[k] = Silence THEN checks[k] ELSE row[k]
    BY DEF Upsert
  <2> HIDE DEF row
  <2>6. CASE answers[k] = Silence
    BY <2>1, <2>4, <2>5, <2>6
  <2>7. CASE answers[k] # Silence
    BY <1>0, <2>1, <2>2, <2>3, <2>4, <2>5, <2>7, SilenceIsNoCheck
  <2> QED
    BY <2>6, <2>7
<1>2. DOMAIN checks' = Layered /\ DOMAIN said' = Layered
  BY <1>0
<1>2a. checks' = [k \in Layered |-> checks'[k]] /\ said' = [k \in Layered |-> said'[k]]
  BY <1>0
<1> HIDE DEF row
<1>3. AnswersAreDated'
  <2>1. \A k \in Layered : /\ checks'[k] \in Check \cup {Silence}
                           /\ said'[k] \in SUBSET (Dates \X SUBSET Clearings)
    <3> TAKE k \in Layered
    <3>1. checks[k] \in Check \cup {Silence} /\ said[k] \in SUBSET (Dates \X SUBSET Clearings)
      BY DEF DInv, AnswersAreDated
    <3>2. CASE answers[k] = Silence
      BY <1>1, <3>1, <3>2
    <3>3. CASE answers[k] # Silence
      <4> DEFINE Answer == Dates \X SUBSET Clearings
      <4>1. <<date, answers[k]>> \in Answer /\ said'[k] = said[k] \cup {<<date, answers[k]>>}
        BY <1>1, <3>3
      <4>2. checks'[k] \in Check
        BY <1>1, <3>3
      <4> HIDE DEF Answer
      <4> QED
        BY <3>1, <4>1, <4>2 DEF Answer
    <3> QED
      BY <3>2, <3>3
  <2>2. checks' \in [Layered -> Check \cup {Silence}]
    BY <2>1, <1>2a
  <2>3. said' \in [Layered -> SUBSET (Dates \X SUBSET Clearings)]
    BY <2>1, <1>2a
  <2>4. \A k \in Layered : \A a \in said'[k] : a[1] <= date
    <3> TAKE k \in Layered
    <3>1. CASE answers[k] = Silence
      BY <1>0, <1>1, <3>1
    <3>2. CASE answers[k] # Silence
      BY <1>0, <1>1, <3>2
    <3> QED
      BY <3>1, <3>2
  <2> QED
    BY <2>2, <2>3, <2>4 DEF AnswersAreDated, Layered, Check, Dates
<1>4. ChecksAreAnswers'
  <2> SUFFICES ASSUME NEW k \in Layered
      PROVE  /\ checks'[k] = Silence <=> said'[k] = {}
             /\ checks'[k] # Silence =>
                  /\ <<checks'[k].on, checks'[k].found>> \in said'[k]
                  /\ \A a \in said'[k] : a[1] <= checks'[k].on
    BY DEF ChecksAreAnswers, Layered
  <2>1. /\ checks[k] = Silence <=> said[k] = {}
        /\ checks[k] # Silence =>
             /\ <<checks[k].on, checks[k].found>> \in said[k]
             /\ \A a \in said[k] : a[1] <= checks[k].on
    BY DEF DInv, ChecksAreAnswers, Layered
  <2>2. CASE answers[k] = Silence
    BY <2>1, <2>2, <1>1
  <2>3. CASE answers[k] # Silence
    <3>1. checks'[k] # Silence /\ checks'[k].on = date /\ checks'[k].found = answers[k]
      BY <1>1, <2>3
    <3>2. said'[k] = said[k] \cup {<<date, answers[k]>>}
      BY <1>1, <2>3
    <3>3. \A a \in said'[k] : a[1] <= date
      BY <1>0, <3>2
    <3> QED
      BY <3>1, <3>2, <3>3
  <2> QED
    BY <2>2, <2>3
<1> QED
  BY <1>3, <1>4

\* What is stored of one download is all of it, and a broken one changes nothing.
LEMMA PlantingKept ==
    ASSUME DInv, PlantingNext
    PROVE  FileIsDownload' /\ PlantingIsWhole'
<1> USE DEF DInv, FileIsDownload, PlantingIsWhole
<1>1. CASE BeginRefresh
  BY <1>1 DEF BeginRefresh
<1>2. CASE ReadBatch
  BY <1>2 DEF ReadBatch
<1>3. CASE CommitRefresh
  BY <1>3 DEF CommitRefresh, NoRefresh
<1>4. CASE BreakRefresh
  BY <1>4 DEF BreakRefresh, NoRefresh
<1> QED
  BY <1>1, <1>2, <1>3, <1>4 DEF PlantingNext

LEMMA StrikesKept ==
    ASSUME DInv, LightningNext
    PROVE  FlashesAreOrdered' /\ StrikesAreRecent'
<1> USE DataAssumption DEF DInv, FlashesAreOrdered, StrikesAreRecent
<1>1. CASE DetectLightning
  <2> PICK frame \in SUBSET Bolts :
        strikes' = {s \in strikes : s.at >= flash - StrikeAge}
                   \cup {[at |-> flash, where |-> b] : b \in frame}
    BY <1>1 DEF DetectLightning
  <2>1. \A s \in strikes' : \/ s \in strikes /\ s.at >= flash - StrikeAge
                            \/ s.at = flash /\ s \in Strike
    BY DEF Strike
  <2>2. \A s \in strikes : s \in Strike /\ s.at \in 0 .. LastFlash /\ s.at <= lastFlash
    BY DEF Strike
  <2> QED
    BY <1>1, <2>1, <2>2 DEF DetectLightning
<1>2. CASE FlashPasses
  BY <1>2 DEF FlashPasses
<1> QED
  BY <1>1, <1>2 DEF LightningNext

\* A day's prediction replaces the one made earlier that day; a row is observed
\* under the key it was predicted with.
LEMMA SnapshotsKept ==
    ASSUME DInv, RecordSnapshots \/ FillObservations
    PROVE  SnapshotsAreKeyed' /\ SnapshotsKeepTheirHorizon'
<1>0. /\ date \in Nat /\ date <= LastDate /\ LastDate \in Nat /\ date \in Dates
      /\ snapshots \subseteq Snapshot /\ date' = date
      /\ \A s, t \in snapshots : s.key = t.key => s = t
      /\ \A s \in snapshots : /\ s.taken + s.key.horizon = s.key.target
                              /\ s.observed # "pending" => s.key.target < date
  BY DataAssumption DEF DInv, SnapshotsAreKeyed, SnapshotsKeepTheirHorizon, Dates,
     RecordSnapshots, FillObservations
<1>1. CASE RecordSnapshots
  <2> PICK told \in SUBSET (ForecastModels \X Horizons) :
        LET new == {[key |-> KeyOf(k[1], k[2]), taken |-> date, observed |-> "pending"] :
                      k \in told} IN
        snapshots' = {s \in snapshots : \A n \in new : n.key # s.key} \cup new
    BY <1>1 DEF RecordSnapshots
  <2> DEFINE new == {[key |-> KeyOf(k[1], k[2]), taken |-> date, observed |-> "pending"] :
                       k \in told}
  <2>1. \A n \in new : /\ n \in Snapshot /\ n.taken = date /\ n.observed = "pending"
                       /\ n.taken + n.key.horizon = n.key.target
    <3> TAKE n \in new
    <3>1. PICK k \in told : n = [key |-> KeyOf(k[1], k[2]), taken |-> date, observed |-> "pending"]
      OBVIOUS
    <3>2. k[1] \in ForecastModels /\ k[2] \in 1 .. 5 /\ k[2] \in Horizons
      BY DataAssumption
    <3>3. date + k[2] \in TargetDays
      BY <1>0, <3>2 DEF TargetDays
    <3>4. KeyOf(k[1], k[2]) \in Key
      BY <3>2, <3>3 DEF KeyOf, Key
    <3>5. /\ KeyOf(k[1], k[2]).horizon = k[2] /\ KeyOf(k[1], k[2]).target = date + k[2]
      BY DEF KeyOf
    <3> QED
      BY <1>0, <3>1, <3>4, <3>5 DEF Snapshot
  <2>2. snapshots' = {s \in snapshots : \A n \in new : n.key # s.key} \cup new
    OBVIOUS
  <2>3. \A n \in new : n = [key |-> n.key, taken |-> date, observed |-> "pending"]
    OBVIOUS
  <2> HIDE DEF new
  <2>3a. \A n, m \in new : n.key = m.key => n = m
    BY <2>3
  <2>4. SnapshotsAreKeyed'
    BY <1>0, <2>1, <2>2, <2>3a DEF SnapshotsAreKeyed, Snapshot, Key, TargetDays, Dates
  <2>5. SnapshotsKeepTheirHorizon'
    <3> SUFFICES ASSUME NEW s \in snapshots'
        PROVE  /\ s.taken + s.key.horizon = s.key.target
               /\ s.observed # "pending" => s.key.target < date
      BY <1>0 DEF SnapshotsKeepTheirHorizon
    <3>1. CASE s \in snapshots
      BY <1>0, <3>1
    <3>2. CASE s \in new
      BY <2>1, <3>2
    <3> QED
      BY <2>2, <3>1, <3>2
  <2> QED
    BY <2>4, <2>5
<1>2. CASE FillObservations
  <2> PICK listed \in SUBSET {s.key.target : s \in Pending} :
        snapshots' = (snapshots \ Pending) \cup {Observation(s, listed) : s \in Pending}
    BY <1>2 DEF FillObservations
  <2>1. \A s \in Pending : /\ s \in snapshots /\ s \in Snapshot /\ s.key.target < date
                           /\ Observation(s, listed) \in Snapshot
                           /\ Observation(s, listed).key = s.key
                           /\ Observation(s, listed).taken = s.taken
    BY <1>0 DEF Pending, Observation, Snapshot
  <2>2. \A t \in snapshots' :
           \/ t \in snapshots /\ t \notin Pending
           \/ \E s \in Pending : /\ t \in Snapshot /\ t = Observation(s, listed)
                                 /\ t.key = s.key /\ t.taken = s.taken
    BY <2>1
  <2>3. \A t \in snapshots' : \E s \in snapshots : s.key = t.key /\ s.taken = t.taken
    BY <2>1, <2>2
  <2>4. \A t \in snapshots' : t \in Snapshot
    BY <1>0, <2>2
  <2>5. ASSUME NEW s \in snapshots', NEW t \in snapshots', s.key = t.key PROVE s = t
    <3>1. CASE s \notin Pending /\ s \in snapshots /\ t \notin Pending /\ t \in snapshots
      BY <1>0, <2>5, <3>1
    <3>2. CASE s \notin Pending /\ s \in snapshots /\ ~(t \in snapshots /\ t \notin Pending)
      BY <1>0, <2>1, <2>2, <2>5, <3>2
    <3>3. CASE t \notin Pending /\ t \in snapshots /\ ~(s \in snapshots /\ s \notin Pending)
      BY <1>0, <2>1, <2>2, <2>5, <3>3
    <3>4. CASE /\ ~(s \in snapshots /\ s \notin Pending)
               /\ ~(t \in snapshots /\ t \notin Pending)
      BY <1>0, <2>1, <2>2, <2>5, <3>4
    <3> QED
      BY <3>1, <3>2, <3>3, <3>4
  <2>6. SnapshotsAreKeyed'
    BY <2>4, <2>5 DEF SnapshotsAreKeyed, Snapshot, Key, TargetDays, Dates
  <2>7. SnapshotsKeepTheirHorizon'
    <3> SUFFICES ASSUME NEW t \in snapshots'
        PROVE /\ t.taken + t.key.horizon = t.key.target
              /\ t.observed # "pending" => t.key.target < date
      BY <1>0 DEF SnapshotsKeepTheirHorizon
    <3>1. CASE t \in snapshots /\ t \notin Pending
      BY <1>0, <3>1
    <3>2. CASE ~(t \in snapshots /\ t \notin Pending)
      <4> PICK s \in Pending : t.key = s.key /\ t.taken = s.taken
        BY <2>2, <3>2
      <4>1. s \in snapshots /\ s.key.target < date
        BY <2>1
      <4> QED
        BY <1>0, <4>1
    <3> QED
      BY <3>1, <3>2
  <2> QED
    BY <2>6, <2>7
<1> QED
  BY <1>1, <1>2

\* A new day changes no table; what was to be observed still lies in the past.
LEMMA DateKept ==
    ASSUME DInv, DateChanges
    PROVE  DInv'
<1> USE DataAssumption DEF DInv, DateChanges, NextDate, deforestationVars, plantingVars,
        lightningVars, forecastVars
<1>1. date \in Nat /\ date' = date + 1 /\ date' \in Dates
  BY DEF Dates
<1>2. AnswersAreDated'
  BY <1>1 DEF AnswersAreDated, Dates
<1>3. ChecksAreAnswers'
  BY DEF ChecksAreAnswers
<1>4. FileIsDownload' /\ PlantingIsWhole'
  BY DEF FileIsDownload, PlantingIsWhole
<1>5. FlashesAreOrdered' /\ StrikesAreRecent'
  BY DEF FlashesAreOrdered, StrikesAreRecent
<1>6. SnapshotsAreKeyed'
  BY DEF SnapshotsAreKeyed
<1>7. SnapshotsKeepTheirHorizon'
  BY <1>1 DEF SnapshotsKeepTheirHorizon, SnapshotsAreKeyed, Snapshot, Key, TargetDays
<1> QED
  BY <1>1, <1>2, <1>3, <1>4, <1>5, <1>6, <1>7

LEMMA DataKept == ASSUME DInv, [DataNext]_dataVars PROVE DInv'
<1> USE DEF deforestationVars, plantingVars, lightningVars, forecastVars
<1>1. CASE CheckDeforestation
  <2>1. AnswersAreDated' /\ ChecksAreAnswers'
    BY <1>1, AnswersKept
  <2> QED
    BY <1>1, <2>1 DEF CheckDeforestation, DInv, FileIsDownload, PlantingIsWhole,
       FlashesAreOrdered, StrikesAreRecent, SnapshotsAreKeyed, SnapshotsKeepTheirHorizon
<1>2. CASE PlantingNext
  <2>1. FileIsDownload' /\ PlantingIsWhole'
    BY <1>2, PlantingKept
  <2>2. UNCHANGED <<date, deforestationVars, lightningVars, forecastVars>>
    BY <1>2 DEF PlantingNext, BeginRefresh, ReadBatch, CommitRefresh, BreakRefresh
  <2> QED
    BY <2>1, <2>2 DEF DInv, AnswersAreDated, ChecksAreAnswers,
       FlashesAreOrdered, StrikesAreRecent, SnapshotsAreKeyed, SnapshotsKeepTheirHorizon
<1>3. CASE LightningNext
  <2>1. FlashesAreOrdered' /\ StrikesAreRecent'
    BY <1>3, StrikesKept
  <2>2. UNCHANGED <<date, deforestationVars, plantingVars, forecastVars>>
    BY <1>3 DEF LightningNext, DetectLightning, FlashPasses
  <2> QED
    BY <2>1, <2>2 DEF DInv, AnswersAreDated, ChecksAreAnswers,
       FileIsDownload, PlantingIsWhole, SnapshotsAreKeyed, SnapshotsKeepTheirHorizon
<1>4. CASE RecordSnapshots \/ FillObservations
  <2>1. SnapshotsAreKeyed' /\ SnapshotsKeepTheirHorizon'
    BY <1>4, SnapshotsKept
  <2>2. UNCHANGED <<date, deforestationVars, plantingVars, lightningVars, archived>>
    BY <1>4 DEF RecordSnapshots, FillObservations
  <2> QED
    BY <2>1, <2>2 DEF DInv, AnswersAreDated, ChecksAreAnswers,
       FileIsDownload, PlantingIsWhole, FlashesAreOrdered, StrikesAreRecent
<1>5. CASE \E d \in Dates : Archive(d)
  BY <1>5 DEF Archive, DInv, AnswersAreDated, ChecksAreAnswers, FileIsDownload,
     PlantingIsWhole, FlashesAreOrdered, StrikesAreRecent, SnapshotsAreKeyed,
     SnapshotsKeepTheirHorizon
<1>6. CASE DateChanges
  BY <1>6, DateKept
<1>7. CASE UNCHANGED dataVars
  BY <1>7 DEF dataVars, DInv, AnswersAreDated, ChecksAreAnswers, FileIsDownload,
     PlantingIsWhole, FlashesAreOrdered, StrikesAreRecent, SnapshotsAreKeyed,
     SnapshotsKeepTheirHorizon
<1> QED
  BY <1>1, <1>2, <1>3, <1>4, <1>5, <1>6, <1>7 DEF DataNext, DeforestationNext, ForecastNext

\* What TablesHoldWhatWasSaid and the tables' types need of the cycles in flight.
LEMMA DataInvariance == DataSpec => []DInv
<1> QED
  BY DataInitially, DataKept, PTL DEF DataSpec

\* Rows keep their types, and a model predicts a day at a horizon once
\* (DataTypeOK: deforestation, lightning and forecast tables).
THEOREM DataTypeCorrect == DataSpec => []DataTypeOK
<1>1. DInv => DataTypeOK
  BY DEF DInv, AnswersAreDated, FlashesAreOrdered, SnapshotsAreKeyed, DataTypeOK, Layered
<1> QED
  BY <1>1, DataInvariance, PTL

\* The tables hold what their sources said, whichever calls failed
\* (TablesHoldWhatWasSaid: _persist_source_result, run_zarc_ingestion_cycle,
\* run_lightning_detection_cycle, record_forecast_snapshots, fill_observed_values).
THEOREM TablesAreTrue == DataSpec => []TablesHoldWhatWasSaid
<1>1. DInv => TablesHoldWhatWasSaid
  BY DEF DInv, TablesHoldWhatWasSaid
<1> QED
  BY <1>1, DataInvariance, PTL

-----------------------------------------------------------------------------
(* Advice (Advisories) *)

\* A cycle has the fields it began with.
IsRun(c) ==
    c = [task |-> c.task, pc |-> c.pc, day |-> c.day, todo |-> c.todo, alerts |-> c.alerts,
         advice |-> c.advice, heard |-> c.heard, overlapped |-> c.overlapped, waits |-> c.waits]

RunsOK(c) ==
    /\ IsRun(c)
    /\ c.task \in Tasks \cup {NoAlert} /\ c.pc \in {"asleep", "runs", "waits"}
    /\ c.day \in 0 .. day /\ c.overlapped \in BOOLEAN
    /\ c.task = "recommendations" => c.alerts = {} /\ c.todo \subseteq Spots \X {"advice"}
    /\ c.task # "recommendations" => c.advice = {} /\ \A s \in Spots : <<s, "advice">> \notin c.todo

CyclesOK == /\ day \in 0 .. LastDay
            /\ cycle = [e \in Runs |-> cycle[e]]
            /\ \A e \in Runs : RunsOK(cycle[e])

\* What each alert, committed or not, says.
AlertOK(a) ==
    /\ a.spot \in Spots /\ a.event \in Events /\ a.day \in 0 .. day
    /\ a.event # "warning" => a.text = ""
    /\ a.event = "warning" => \E b \in Bulletins : b.text = a.text /\ (b.dated => a.fetch = 0)

AllAlerts == advised \cup UNION {cycle[e].alerts : e \in Runs}
AlertsOK == \A a \in AllAlerts : AlertOK(a)

\* The key is unique, transactions in flight included.
KeysAreUnique == \A a, b \in AllAlerts : AlertKey(a) = AlertKey(b) => a = b

\* What was heard is told, or about to be told by whoever heard it.
ToldIn(h, alerts) ==
    \E a \in alerts : /\ a.spot = h[1] /\ a.event = h[2] /\ a.text = h[3]
                      /\ a.event # "warning" => a.day = h[4]
HeardIsTold == /\ \A h \in heard : ToldIn(h, advised)
               /\ \A e \in Runs : \A h \in cycle[e].heard : ToldIn(h, VisibleAlerts(e))

AlertInv == AlertsOK /\ KeysAreUnique /\ HeardIsTold

\* A recommendation, and the alert it refers to.
AdviceRow == [spot : Spots, rule : Rules, day : 0 .. day, by : Runs,
              alert : advised \cup {NoAlert}, overlapped : BOOLEAN]
RefersRightly(r) ==
    r.alert # NoAlert => /\ r.alert.spot = r.spot /\ r.alert.event = RelatedEvent(r.rule)
                         /\ r.alert.day >= r.day
Same(r, q) == r.spot = q.spot /\ r.rule = q.rule /\ r.day = q.day

StoredAdvice == /\ \A r \in advice : r \in AdviceRow /\ RefersRightly(r)
                /\ \A r, q \in advice : r # q /\ Same(r, q) => r.overlapped /\ q.overlapped

\* An execution's own advice: once per place and rule, for the day it began.
OwnAdvice ==
    \A e \in Runs :
        /\ \A r \in cycle[e].advice : /\ r \in AdviceRow /\ RefersRightly(r)
                                      /\ r.day = cycle[e].day /\ r.overlapped = FALSE
        /\ \A r, q \in cycle[e].advice : Same(r, q) => r = q

\* Two that gather recommendations at once both know that they overlap.
OverlapIsNoted ==
    \A e, f \in Runs :
        /\ e # f /\ cycle[e].task = "recommendations" /\ cycle[f].task = "recommendations"
        => cycle[e].overlapped

\* Only what was committed by an overlapping execution is in the way of own advice.
CrossingIsNoted ==
    \A e \in Runs : \A r \in cycle[e].advice, q \in advice :
        Same(r, q) => cycle[e].overlapped /\ q.overlapped

AdviceInv == StoredAdvice /\ OwnAdvice /\ OverlapIsNoted /\ CrossingIsNoted

AInv == CyclesOK /\ AlertInv /\ AdviceInv

LEMMA AdviceInitially == AdvisoriesInit => AInv
<1> SUFFICES ASSUME AdvisoriesInit PROVE AInv
  OBVIOUS
<1>1. /\ day = 0 /\ advised = {} /\ advice = {} /\ heard = {}
      /\ cycle = [e \in Runs |-> Sleeping]
  BY DEF AdvisoriesInit
<1>2. /\ RunsOK(Sleeping) /\ Sleeping.alerts = {} /\ Sleeping.advice = {}
      /\ Sleeping.heard = {} /\ Sleeping.task = NoAlert
  BY <1>1, NoAlertIsNoTask DEF RunsOK, IsRun, Sleeping, Tasks
<1>3. CyclesOK
  BY <1>1, <1>2, AdvisoriesAssumption DEF CyclesOK
<1>4. \A e \in Runs : cycle[e] = Sleeping
  BY <1>1
<1>5. AllAlerts = {}
  BY <1>1, <1>2, <1>4 DEF AllAlerts
<1>6. AlertInv
  BY <1>1, <1>2, <1>4, <1>5 DEF AlertInv, AlertsOK, KeysAreUnique, HeardIsTold
<1>7. AdviceInv
  BY <1>1, <1>2, <1>4, NoAlertIsNoTask
     DEF AdviceInv, StoredAdvice, OwnAdvice, OverlapIsNoted, CrossingIsNoted, Tasks
<1> QED
  BY <1>3, <1>6, <1>7 DEF AInv

\* An execution that has done as much as before.
SameWork(d, c) ==
    /\ IsRun(d) /\ d.task = c.task /\ d.day = c.day /\ d.alerts = c.alerts
    /\ d.advice = c.advice /\ d.heard = c.heard
Fresh(d) == d.alerts = {} /\ d.advice = {} /\ d.heard = {}

\* A step that commits nothing and adds nothing keeps what is known of alerts and advice.
LEMMA QuietKept ==
    ASSUME AInv, UNCHANGED <<day, advised, advice, heard>>,
           cycle' = [f \in Runs |-> cycle'[f]],
           \A f \in Runs : /\ RunsOK(cycle'[f])
                           /\ \/ Fresh(cycle'[f])
                              \/ /\ SameWork(cycle'[f], cycle[f])
                                 /\ cycle[f].overlapped => cycle'[f].overlapped,
           OverlapIsNoted'
    PROVE  AInv'
<1>1. CyclesOK'
  BY DEF AInv, CyclesOK, RunsOK
<1>2. \A f \in Runs : /\ cycle'[f].alerts \in {{}, cycle[f].alerts}
                      /\ cycle'[f].advice \in {{}, cycle[f].advice}
                      /\ cycle'[f].heard = {} \/ /\ cycle'[f].heard = cycle[f].heard
                                                 /\ cycle'[f].alerts = cycle[f].alerts
                      /\ cycle'[f].advice # {} => /\ cycle'[f].day = cycle[f].day
                                                  /\ cycle[f].overlapped => cycle'[f].overlapped
  BY DEF Fresh, SameWork
<1>3. AllAlerts' \subseteq AllAlerts
  BY <1>2 DEF AllAlerts
<1>4. AlertsOK' /\ KeysAreUnique'
  BY <1>3 DEF AInv, AlertInv, AlertsOK, AlertOK, KeysAreUnique, AlertKey
<1>5. HeardIsTold'
  <2>1. \A h \in heard' : ToldIn(h, advised)'
    BY DEF AInv, AlertInv, HeardIsTold, ToldIn
  <2>2. ASSUME NEW f \in Runs, NEW h \in cycle'[f].heard PROVE ToldIn(h, VisibleAlerts(f)')
    <3>1. h \in cycle[f].heard /\ VisibleAlerts(f)' = VisibleAlerts(f)
      BY <1>2, <2>2 DEF VisibleAlerts
    <3> QED
      BY <3>1 DEF AInv, AlertInv, HeardIsTold
  <2> QED
    BY <2>1, <2>2 DEF HeardIsTold, ToldIn
<1>6. StoredAdvice' /\ AdviceRow' = AdviceRow
  BY DEF AInv, AdviceInv, StoredAdvice, AdviceRow, RefersRightly, Same
<1>7. OwnAdvice'
  BY <1>2, <1>6 DEF AInv, AdviceInv, OwnAdvice, RefersRightly, Same
<1>8. CrossingIsNoted'
  <2> SUFFICES ASSUME NEW f \in Runs, NEW r \in cycle'[f].advice, NEW q \in advice, Same(r, q)
      PROVE  cycle'[f].overlapped /\ q.overlapped
    BY DEF CrossingIsNoted, Same
  <2>1. r \in cycle[f].advice /\ (cycle[f].overlapped => cycle'[f].overlapped)
    BY <1>2
  <2> QED
    BY <2>1 DEF AInv, AdviceInv, CrossingIsNoted
<1> QED
  BY <1>1, <1>4, <1>5, <1>6, <1>7, <1>8 DEF AInv, AlertInv, AdviceInv

\* Waiting, going on, and passing a place over.
LEMMA Waiting ==
    ASSUME NEW c, IsRun(c), NEW p, NEW w, NEW d, d = [c EXCEPT !.pc = p, !.waits = w]
    PROVE  SameWork(d, c) /\ d.pc = p /\ d.todo = c.todo /\ d.overlapped = c.overlapped
  BY DEF IsRun, SameWork

LEMMA PassingOver ==
    ASSUME NEW c, IsRun(c), NEW todo, NEW d, d = [c EXCEPT !.todo = todo]
    PROVE  SameWork(d, c) /\ d.pc = c.pc /\ d.todo = todo /\ d.overlapped = c.overlapped
  BY DEF IsRun, SameWork

LEMMA Overlapping ==
    ASSUME NEW c, IsRun(c), NEW o, NEW d, d = [c EXCEPT !.overlapped = o]
    PROVE  SameWork(d, c) /\ d.pc = c.pc /\ d.todo = c.todo /\ d.overlapped = o
  BY DEF IsRun, SameWork

LEMMA SleepingIsFresh ==
    ASSUME day \in Nat
    PROVE  Fresh(Sleeping) /\ Sleeping.task = NoAlert /\ RunsOK(Sleeping)
  BY NoAlertIsNoTask DEF Fresh, Sleeping, RunsOK, IsRun, Tasks

\* `with' are those already gathering; both sides note the overlap.
LEMMA StartKept ==
    ASSUME AInv, NEW e \in Runs, NEW task \in Tasks, NEW todo, Start(e, task, todo),
           task = "recommendations" => todo \subseteq Spots \X {"advice"},
           task # "recommendations" => \A s \in Spots : <<s, "advice">> \notin todo
    PROVE  AInv'
<1> DEFINE with == {f \in Runs : cycle[f].task = task}
           joins == with # {}
           running == "runs"
           mine == [Sleeping EXCEPT !.task = task, !.pc = running, !.day = day, !.todo = todo,
                                    !.overlapped = joins]
<1>0. /\ \A f \in Runs : RunsOK(cycle[f]) /\ IsRun(cycle[f]) /\ cycle[f].overlapped \in BOOLEAN
      /\ day \in Nat
  BY AdvisoriesAssumption DEF AInv, CyclesOK, RunsOK
<1>1. /\ cycle[e] = Sleeping
      /\ cycle' = [f \in Runs |-> IF f = e THEN mine
                                 ELSE IF f \in with THEN [cycle[f] EXCEPT !.overlapped = TRUE]
                                 ELSE cycle[f]]
      /\ UNCHANGED <<day, advised, advice, heard>>
  BY DEF Start
<1>2. /\ IsRun(cycle'[e]) /\ Fresh(cycle'[e]) /\ cycle'[e].task = task
      /\ cycle'[e].pc = running /\ cycle'[e].day = day
      /\ cycle'[e].todo = todo /\ cycle'[e].overlapped = joins
  <2>1. IsRun(Sleeping) /\ Fresh(Sleeping)
    BY <1>0, SleepingIsFresh DEF RunsOK
  <2>2. cycle'[e] = mine
    BY <1>1
  <2> HIDE DEF joins, running
  <2>3. /\ IsRun(cycle'[e]) /\ cycle'[e].task = task /\ cycle'[e].pc = running
        /\ cycle'[e].day = day /\ cycle'[e].todo = todo /\ cycle'[e].overlapped = joins
    BY <2>1, <2>2 DEF IsRun
  <2>4. Fresh(cycle'[e])
    BY <2>1, <2>2 DEF IsRun, Fresh
  <2> QED
    BY <2>3, <2>4
<1>3. RunsOK(cycle'[e])
  BY <1>0, <1>2 DEF RunsOK, Fresh
<1> HIDE DEF mine
<1>4. ASSUME NEW f \in Runs, NEW d, d = [cycle[f] EXCEPT !.overlapped = TRUE]
      PROVE  RunsOK(d) /\ SameWork(d, cycle[f]) /\ d.overlapped = TRUE
  <2>1. SameWork(d, cycle[f]) /\ d.overlapped = TRUE /\ d.pc = cycle[f].pc /\ d.todo = cycle[f].todo
    BY <1>0, <1>4, Overlapping
  <2> QED
    BY <1>0, <2>1 DEF RunsOK, SameWork
<1>6. \A f \in Runs : f # e /\ f \in with =>
        RunsOK(cycle'[f]) /\ SameWork(cycle'[f], cycle[f]) /\ cycle'[f].overlapped = TRUE
  BY <1>1, <1>4
<1>7. \A f \in Runs :
         f # e /\ f \notin with => cycle'[f] = cycle[f] /\ SameWork(cycle'[f], cycle[f])
  BY <1>0, <1>1 DEF SameWork
<1>8. cycle' = [f \in Runs |-> cycle'[f]]
  BY <1>1
<1>9. \A f \in Runs : /\ RunsOK(cycle'[f])
                      /\ \/ Fresh(cycle'[f])
                         \/ /\ SameWork(cycle'[f], cycle[f])
                            /\ cycle[f].overlapped => cycle'[f].overlapped
  BY <1>0, <1>2, <1>3, <1>6, <1>7
<1>10. OverlapIsNoted'
  <2> SUFFICES ASSUME NEW f \in Runs, NEW g \in Runs, f # g,
                      cycle'[f].task = "recommendations", cycle'[g].task = "recommendations"
      PROVE  cycle'[f].overlapped
    BY DEF OverlapIsNoted
  <2>1. CASE f = e
    <3>1. cycle[g].task = task
      BY <1>2, <1>6, <1>7, <2>1 DEF SameWork
    <3> QED
      BY <1>2, <2>1, <3>1
  <2>2. CASE f # e /\ g = e
    <3>1. cycle[f].task = task
      BY <1>2, <1>6, <1>7, <2>2 DEF SameWork
    <3> QED
      BY <1>6, <2>2, <3>1
  <2>3. CASE f # e /\ g # e
    <3>1. cycle[f].task = "recommendations" /\ cycle[g].task = "recommendations"
      BY <1>6, <1>7, <2>3 DEF SameWork
    <3>2. cycle[f].overlapped
      BY <3>1 DEF AInv, AdviceInv, OverlapIsNoted
    <3> QED
      BY <1>6, <1>7, <2>3, <3>2
  <2> QED
    BY <2>1, <2>2, <2>3
<1> QED
  BY <1>1, <1>8, <1>9, <1>10, QuietKept

\* What starts no execution and adds no work leaves the overlaps as they were noted.
LEMMA PausesKept ==
    ASSUME AInv, UNCHANGED <<day, advised, advice, heard>>,
           cycle' = [f \in Runs |-> cycle'[f]],
           \A f \in Runs : \/ cycle'[f] = Sleeping
                          \/ /\ SameWork(cycle'[f], cycle[f])
                             /\ cycle'[f].pc \in {"asleep", "runs", "waits"}
                             /\ cycle'[f].todo \subseteq cycle[f].todo
                             /\ cycle'[f].overlapped = cycle[f].overlapped
    PROVE  AInv'
<1>1. day \in Nat /\ \A f \in Runs : RunsOK(cycle[f])
  BY AdvisoriesAssumption DEF AInv, CyclesOK
<1>2. \A f \in Runs : /\ RunsOK(cycle'[f])
                      /\ \/ Fresh(cycle'[f])
                         \/ /\ SameWork(cycle'[f], cycle[f])
                            /\ cycle[f].overlapped => cycle'[f].overlapped
  <2> TAKE f \in Runs
  <2>1. CASE cycle'[f] = Sleeping
    BY <1>1, <2>1, SleepingIsFresh
  <2>2. CASE cycle'[f] # Sleeping
    BY <1>1, <2>2 DEF RunsOK, SameWork
  <2> QED
    BY <2>1, <2>2
<1>3. \A f \in Runs : cycle'[f].task = "recommendations" =>
        cycle[f].task = "recommendations" /\ cycle'[f].overlapped = cycle[f].overlapped
  BY <1>1, SleepingIsFresh, NoAlertIsNoTask DEF SameWork, Tasks
<1>4. OverlapIsNoted'
  BY <1>3 DEF AInv, AdviceInv, OverlapIsNoted
<1> QED
  BY <1>2, <1>4, QuietKept

LEMMA PassOverKept ==
    ASSUME AInv, NEW e \in Runs, NEW spot, NEW what, PassOver(e, spot, what)
    PROVE  AInv'
<1>0. \A f \in Runs : IsRun(cycle[f]) /\ RunsOK(cycle[f]) /\ SameWork(cycle[f], cycle[f])
  BY DEF AInv, CyclesOK, RunsOK, SameWork
<1>1. /\ cycle' = [cycle EXCEPT ![e].todo = @ \ {<<spot, what>>}]
      /\ cycle = [f \in Runs |-> cycle[f]]
      /\ UNCHANGED <<day, advised, advice, heard>>
  BY DEF PassOver, AInv, CyclesOK
<1>2. /\ cycle'[e] = [cycle[e] EXCEPT !.todo = @ \ {<<spot, what>>}]
      /\ cycle' = [f \in Runs |-> cycle'[f]]
      /\ \A f \in Runs \ {e} : cycle'[f] = cycle[f]
  BY <1>1
<1>3. /\ SameWork(cycle'[e], cycle[e]) /\ cycle'[e].pc = cycle[e].pc
      /\ cycle'[e].todo = cycle[e].todo \ {<<spot, what>>}
      /\ cycle'[e].overlapped = cycle[e].overlapped
  BY <1>0, <1>2, PassingOver
<1> QED
  BY <1>0, <1>1, <1>2, <1>3, PausesKept DEF RunsOK

LEMMA LoseRunKept == ASSUME AInv, NEW e \in Runs, LoseRun(e) PROVE AInv'
<1>0. \A f \in Runs : IsRun(cycle[f]) /\ RunsOK(cycle[f]) /\ SameWork(cycle[f], cycle[f])
  BY DEF AInv, CyclesOK, RunsOK, SameWork
<1>1. /\ cycle' = [f \in Runs |->
            IF f = e THEN Sleeping
            ELSE IF WaitsFor(f, e) THEN [cycle[f] EXCEPT !.pc = "runs", !.waits = NoAlert]
            ELSE cycle[f]]
      /\ UNCHANGED <<day, advised, advice, heard>>
  BY DEF LoseRun
<1>2. \A f \in Runs : \/ cycle'[f] = Sleeping \/ cycle'[f] = cycle[f]
                      \/ cycle'[f] = [cycle[f] EXCEPT !.pc = "runs", !.waits = NoAlert]
  BY <1>1
<1>3. \A f \in Runs : \/ cycle'[f] = Sleeping
                      \/ /\ SameWork(cycle'[f], cycle[f])
                         /\ cycle'[f].pc \in {"asleep", "runs", "waits"}
                         /\ cycle'[f].todo \subseteq cycle[f].todo
                         /\ cycle'[f].overlapped = cycle[f].overlapped
  <2> TAKE f \in Runs
  <2>1. CASE cycle'[f] = [cycle[f] EXCEPT !.pc = "runs", !.waits = NoAlert]
    <3>1. /\ SameWork(cycle'[f], cycle[f]) /\ cycle'[f].pc = "runs"
          /\ cycle'[f].todo = cycle[f].todo /\ cycle'[f].overlapped = cycle[f].overlapped
      <4> DEFINE p == "runs"
      <4>1. cycle'[f] = [cycle[f] EXCEPT !.pc = p, !.waits = NoAlert] /\ IsRun(cycle[f])
        BY <1>0, <2>1
      <4> HIDE DEF p
      <4>2. /\ SameWork(cycle'[f], cycle[f]) /\ cycle'[f].pc = p
            /\ cycle'[f].todo = cycle[f].todo /\ cycle'[f].overlapped = cycle[f].overlapped
        BY <4>1 DEF IsRun, SameWork
      <4> QED
        BY <4>2 DEF p
    <3> QED
      BY <3>1
  <2>2. CASE cycle'[f] = cycle[f]
    BY <1>0, <2>2 DEF RunsOK
  <2> QED
    BY <1>2, <2>1, <2>2
<1>4. cycle' = [f \in Runs |-> cycle'[f]]
  BY <1>1
<1> QED
  BY <1>1, <1>3, <1>4, PausesKept

\* Advice is untouched by an execution that only adds alerts.
LEMMA AdviceUntouched ==
    ASSUME AInv, UNCHANGED <<day, advised, advice>>,
           \A f \in Runs : /\ cycle'[f].task = cycle[f].task /\ cycle'[f].day = cycle[f].day
                           /\ cycle'[f].advice = cycle[f].advice
                           /\ cycle'[f].overlapped = cycle[f].overlapped
    PROVE  AdviceInv'
<1>1. AdviceRow' = AdviceRow
  BY DEF AdviceRow
<1>2. StoredAdvice'
  BY <1>1 DEF AInv, AdviceInv, StoredAdvice, RefersRightly, Same
<1>3. OwnAdvice'
  BY <1>1 DEF AInv, AdviceInv, OwnAdvice, RefersRightly, Same
<1>4. OverlapIsNoted'
  BY DEF AInv, AdviceInv, OverlapIsNoted
<1>5. CrossingIsNoted'
  BY DEF AInv, AdviceInv, CrossingIsNoted, Same
<1> QED
  BY <1>2, <1>3, <1>4, <1>5 DEF AdviceInv

\* An alert that is passed over is there already; one that another execution holds
\* makes this one wait; any other is new.
LEMMA EmitKept ==
    ASSUME AInv, NEW e \in Runs, NEW step, NEW alerts, Emit(e, step, alerts),
           UNCHANGED <<day, advised, advice, heard>>,
           cycle[e].task # "recommendations",
           \A a \in alerts : AlertOK(a),
           \A a, b \in alerts : AlertKey(a) = AlertKey(b) => a = b
    PROVE  AInv'
<1> DEFINE new == {a \in alerts : ~Known(e, a)}
           held == {a \in new : HeldElsewhere(e, a)}
           told == {<<a.spot, a.event, a.text, a.day>> : a \in alerts}
           key == AlertKey(CHOOSE a \in held : TRUE)
           waiting == "waits"
<1>0. /\ \A f \in Runs : IsRun(cycle[f]) /\ RunsOK(cycle[f]) /\ SameWork(cycle[f], cycle[f])
      /\ cycle = [f \in Runs |-> cycle[f]]
  BY DEF AInv, CyclesOK, RunsOK, SameWork
<1>1. /\ cycle' = [f \in Runs |-> cycle'[f]]
      /\ \A f \in Runs \ {e} : cycle'[f] = cycle[f]
  BY <1>0 DEF Emit
<1>2. CASE held # {}
  <2>1. cycle' = [cycle EXCEPT ![e].pc = waiting, ![e].waits = key]
    BY <1>2 DEF Emit
  <2> HIDE DEF waiting, key, held, new, told
  <2>1a. cycle'[e] = [cycle[e] EXCEPT !.pc = waiting, !.waits = key]
    BY <1>0, <2>1
  <2>2. /\ SameWork(cycle'[e], cycle[e]) /\ cycle'[e].pc = waiting
        /\ cycle'[e].todo = cycle[e].todo /\ cycle'[e].overlapped = cycle[e].overlapped
    BY <1>0, <2>1a DEF IsRun, SameWork
  <2>3. cycle'[e].pc = "waits"
    BY <2>2 DEF waiting
  <2>4. \A f \in Runs : \/ cycle'[f] = Sleeping
                        \/ /\ SameWork(cycle'[f], cycle[f])
                           /\ cycle'[f].pc \in {"asleep", "runs", "waits"}
                           /\ cycle'[f].todo \subseteq cycle[f].todo
                           /\ cycle'[f].overlapped = cycle[f].overlapped
    <3> TAKE f \in Runs
    <3>1. CASE f = e
      BY <2>2, <2>3, <3>1
    <3>2. CASE f # e
      BY <1>0, <1>1, <3>2 DEF RunsOK
    <3> QED
      BY <3>1, <3>2
  <2> QED
    BY <1>1, <2>4, PausesKept
<1>3. CASE held = {}
  <2>1. cycle' = [cycle EXCEPT ![e].todo = @ \ {step}, ![e].alerts = @ \cup new,
                               ![e].heard = @ \cup told]
    BY <1>3 DEF Emit
  <2>a. \A a \in new : a \in alerts /\ ~Known(e, a) /\ ~HeldElsewhere(e, a)
    BY <1>3
  <2>b. \A a \in alerts : a \in new \/ Known(e, a)
    OBVIOUS
  <2>c. \A h \in told : \E a \in alerts : h = <<a.spot, a.event, a.text, a.day>>
    OBVIOUS
  <2> HIDE DEF waiting, key, held, new, told
  <2>2. /\ IsRun(cycle'[e]) /\ cycle'[e].task = cycle[e].task /\ cycle'[e].pc = cycle[e].pc
        /\ cycle'[e].day = cycle[e].day /\ cycle'[e].advice = cycle[e].advice
        /\ cycle'[e].overlapped = cycle[e].overlapped
        /\ cycle'[e].todo = cycle[e].todo \ {step}
        /\ cycle'[e].alerts = cycle[e].alerts \cup new
        /\ cycle'[e].heard = cycle[e].heard \cup told
    <3> DEFINE c == cycle[e]
    <3>1. cycle'[e] = [c EXCEPT !.todo = c.todo \ {step}, !.alerts = c.alerts \cup new,
                                !.heard = c.heard \cup told]
      BY <1>0, <2>1
    <3> QED
      BY <1>0, <3>1 DEF IsRun
  <2>3. \A f \in Runs : /\ cycle'[f].task = cycle[f].task /\ cycle'[f].day = cycle[f].day
                        /\ cycle'[f].advice = cycle[f].advice
                        /\ cycle'[f].overlapped = cycle[f].overlapped
    BY <1>1, <2>2
  <2>4. AdviceInv'
    BY <2>3, AdviceUntouched
  <2>5. CyclesOK'
    <3>1. RunsOK(cycle'[e])
      BY <1>0, <2>2 DEF RunsOK
    <3>2. \A f \in Runs : RunsOK(cycle'[f])
      BY <1>0, <1>1, <3>1
    <3> QED
      BY <1>1, <3>2 DEF AInv, CyclesOK, RunsOK
  <2>6. AllAlerts' = AllAlerts \cup new
    <3>1. (UNION {cycle'[f].alerts : f \in Runs}) =
          (UNION {cycle[f].alerts : f \in Runs}) \cup new
      <4>1. \A f \in Runs : cycle'[f].alerts = cycle[f].alerts \cup (IF f = e THEN new ELSE {})
        BY <1>1, <2>2
      <4> QED
        BY <4>1
    <3> QED
      BY <3>1 DEF AllAlerts
  <2>7. AlertsOK'
    BY <2>6, <2>a DEF AInv, AlertInv, AlertsOK, AlertOK
  <2>8. ASSUME NEW a \in new, NEW b \in AllAlerts, AlertKey(a) = AlertKey(b) PROVE FALSE
    <3>1. CASE b \in VisibleAlerts(e)
      BY <2>8, <2>a, <3>1 DEF Known
    <3>2. CASE \E f \in Runs \ {e} : b \in cycle[f].alerts
      BY <2>8, <2>a, <3>2 DEF HeldElsewhere
    <3> QED
      BY <3>1, <3>2 DEF AllAlerts, VisibleAlerts
  <2>9. KeysAreUnique'
    <3> SUFFICES ASSUME NEW a \in AllAlerts \cup new, NEW b \in AllAlerts \cup new,
                        AlertKey(a) = AlertKey(b)
        PROVE  a = b
      BY <2>6 DEF KeysAreUnique, AlertKey, AllAlerts
    <3>1. CASE a \in AllAlerts /\ b \in AllAlerts
      BY <3>1 DEF AInv, AlertInv, KeysAreUnique
    <3>2. CASE a \in new /\ b \in new
      BY <2>a, <3>2
    <3> QED
      BY <2>8, <3>1, <3>2
  <2>10. HeardIsTold'
    <3>1. \A h \in heard' : ToldIn(h, advised')
      BY DEF AInv, AlertInv, HeardIsTold
    <3>2. \A f \in Runs \ {e} : VisibleAlerts(f)' = VisibleAlerts(f)
      BY <1>1 DEF VisibleAlerts
    <3>3. VisibleAlerts(e)' = VisibleAlerts(e) \cup new
      BY <2>2 DEF VisibleAlerts
    <3>4. ASSUME NEW h \in cycle'[e].heard PROVE ToldIn(h, VisibleAlerts(e)')
      <4>1. CASE h \in cycle[e].heard
        BY <3>3, <4>1 DEF AInv, AlertInv, HeardIsTold, ToldIn
      <4>2. CASE h \in told
        <5> PICK a \in alerts : h = <<a.spot, a.event, a.text, a.day>>
          BY <2>c, <4>2
        <5>1. CASE a \in new
          BY <3>3, <5>1 DEF ToldIn
        <5>2. CASE Known(e, a)
          <6> PICK b \in VisibleAlerts(e) : AlertKey(b) = AlertKey(a)
            BY <5>2 DEF Known
          <6>1. /\ b.spot = a.spot /\ b.event = a.event /\ b.text = a.text
                /\ b.event # "warning" => b.day = a.day
            BY DEF AlertKey
          <6> QED
            BY <3>3, <6>1 DEF ToldIn
        <5> QED
          BY <2>b, <5>1, <5>2
      <4> QED
        BY <2>2, <4>1, <4>2
    <3>5. \A f \in Runs \ {e} : \A h \in cycle'[f].heard : ToldIn(h, VisibleAlerts(f)')
      BY <1>1, <3>2 DEF AInv, AlertInv, HeardIsTold
    <3> QED
      BY <3>1, <3>4, <3>5 DEF HeardIsTold, ToldIn
  <2> QED
    BY <2>4, <2>5, <2>7, <2>9, <2>10 DEF AInv, AlertInv
<1> QED
  BY <1>2, <1>3

\* Frost, dry spells and warnings: what an execution of another task has to tell.
LEMMA ChecksKept ==
    ASSUME AInv, NEW e \in Runs, NEW spot \in Spots,
           CheckFrost(e, spot) \/ CheckDrySpell(e, spot) \/ CheckWarnings(e, spot)
    PROVE  AInv'
<1>0. /\ day \in Nat /\ cycle[e].day \in 0 .. day
      /\ cycle[e].task = "recommendations" => cycle[e].todo \subseteq Spots \X {"advice"}
  BY AdvisoriesAssumption DEF AInv, CyclesOK, RunsOK
<1>1. \A level : \A event \in {"frost", "dry spell"} :
        AlertOK(AlertRow(spot, event, level, "", 0, cycle[e].day))
  BY <1>0 DEF AlertOK, AlertRow, Events
<1>2. CASE CheckFrost(e, spot)
  <2> PICK minima \in Forecasts :
        Emit(e, <<spot, "frost">>,
             IF FrostLevel(minima) = NoAlert THEN {}
             ELSE {AlertRow(spot, "frost", FrostLevel(minima), "", 0, cycle[e].day)})
    BY <1>2 DEF CheckFrost
  <2> DEFINE alerts == IF FrostLevel(minima) = NoAlert THEN {}
                       ELSE {AlertRow(spot, "frost", FrostLevel(minima), "", 0, cycle[e].day)}
  <2>1. \A a \in alerts : AlertOK(a)
    BY <1>1
  <2>2. \A a, b \in alerts : a = b
    OBVIOUS
  <2>3. cycle[e].task # "recommendations"
    BY <1>0, <1>2 DEF CheckFrost, At
  <2>4. Emit(e, <<spot, "frost">>, alerts)
    OBVIOUS
  <2> HIDE DEF alerts
  <2> QED
    BY <1>2, <2>1, <2>2, <2>3, <2>4, EmitKept DEF CheckFrost
<1>3. CASE CheckDrySpell(e, spot)
  <2> PICK streak :
        Emit(e, <<spot, "dry spell">>,
             IF streak < DryMinimum THEN {}
             ELSE {AlertRow(spot, "dry spell", Orange, "", 0, cycle[e].day)})
    BY <1>3 DEF CheckDrySpell
  <2> DEFINE alerts == IF streak < DryMinimum THEN {}
                       ELSE {AlertRow(spot, "dry spell", Orange, "", 0, cycle[e].day)}
  <2>1. \A a \in alerts : AlertOK(a)
    BY <1>1
  <2>2. \A a, b \in alerts : a = b
    OBVIOUS
  <2>3. cycle[e].task # "recommendations"
    BY <1>0, <1>3 DEF CheckDrySpell, At
  <2>4. Emit(e, <<spot, "dry spell">>, alerts)
    OBVIOUS
  <2> HIDE DEF alerts
  <2> QED
    BY <1>3, <2>1, <2>2, <2>3, <2>4, EmitKept DEF CheckDrySpell
<1>4. CASE CheckWarnings(e, spot)
  <2> DEFINE Row(b) == AlertRow(spot, "warning", RiskLevelFor(b.severity), b.text,
                                IF b.dated THEN 0 ELSE 1 + Retold(spot, b.text), cycle[e].day)
  <2> PICK active \in SUBSET Bulletins : Emit(e, <<spot, "warning">>, {Row(b) : b \in active})
    BY <1>4 DEF CheckWarnings
  <2> DEFINE alerts == {Row(b) : b \in active}
  <2>0. \A b \in active : /\ b \in Bulletins
                          /\ Row(b).spot = spot /\ Row(b).event = "warning" /\ Row(b).text = b.text
                          /\ b.dated => Row(b).fetch = 0
                          /\ Row(b).day = cycle[e].day
    BY DEF AlertRow
  <2>1. \A a \in alerts : \E b \in active : a = Row(b)
    OBVIOUS
  <2>2. Emit(e, <<spot, "warning">>, alerts)
    OBVIOUS
  <2>3. cycle[e].task # "recommendations"
    BY <1>0, <1>4 DEF CheckWarnings, At
  <2> HIDE DEF alerts, Row
  <2>4. ASSUME NEW a \in alerts PROVE AlertOK(a)
    <3> PICK b \in active : a = Row(b)
      BY <2>1
    <3>1. a.spot = spot /\ a.event = "warning" /\ a.text = b.text /\ a.day = cycle[e].day
      BY <2>0
    <3>2. b \in Bulletins /\ (b.dated => a.fetch = 0)
      BY <2>0
    <3> QED
      BY <1>0, <3>1, <3>2 DEF AlertOK, Events
  <2>5. ASSUME NEW a \in alerts, NEW b \in alerts, AlertKey(a) = AlertKey(b) PROVE a = b
    <3> PICK v \in active, w \in active : a = Row(v) /\ b = Row(w)
      BY <2>1
    <3>1. a.text = b.text
      BY <2>5 DEF AlertKey
    <3>2. v.text = w.text /\ v \in Bulletins /\ w \in Bulletins
      BY <2>0, <3>1
    <3> QED
      BY <3>2, TextsIdentify
  <2> QED
    BY <1>4, <2>2, <2>3, <2>4, <2>5, EmitKept DEF CheckWarnings
<1> QED
  BY <1>2, <1>3, <1>4

\* The alert a recommendation refers to is a stored one of its place and event.
LEMMA RelatedIsStored ==
    ASSUME AInv, NEW e \in Runs, cycle[e].alerts = {}, NEW spot, NEW rule,
           NEW found, found = RelatedAlert(e, spot, rule)
    PROVE  /\ found \in advised \cup {NoAlert}
           /\ found # NoAlert => /\ found.spot = spot /\ found.event = RelatedEvent(rule)
                                 /\ found.day >= cycle[e].day
<1> DEFINE related == {a \in VisibleAlerts(e) :
            a.spot = spot /\ a.event = RelatedEvent(rule) /\ a.day >= cycle[e].day}
           T == {day - a.day : a \in related}
<1>1. \A a \in related : /\ a \in advised /\ a.spot = spot /\ a.event = RelatedEvent(rule)
                         /\ a.day >= cycle[e].day /\ a.day \in 0 .. day
  BY DEF VisibleAlerts, AInv, AlertInv, AlertsOK, AllAlerts, AlertOK
<1>2. day \in Nat
  BY AdvisoriesAssumption DEF AInv, CyclesOK
<1>3. found = IF related = {} THEN NoAlert
              ELSE CHOOSE a \in related : \A b \in related : b.day <= a.day
  BY DEF RelatedAlert
<1>4. CASE related # {}
  <2>1. T \in SUBSET Nat /\ T # {}
    BY <1>1, <1>2, <1>4
  <2>2. PICK n \in T : \A m \in T : n <= m
    BY <2>1, Least
  <2>3. PICK a \in related : n = day - a.day
    OBVIOUS
  <2>4. \A b \in related : b.day <= a.day
    <3> TAKE b \in related
    <3>1. n <= day - b.day
      BY <2>2
    <3> QED
      BY <1>1, <1>2, <2>3, <3>1
  <2> HIDE DEF related, T
  <2>5. found \in related
    BY <1>3, <1>4, <2>4
  <2> QED
    BY <1>1, <2>5
<1> QED
  BY <1>3, <1>4

\* Alerts are untouched by an execution that only adds advice.
LEMMA AlertsUntouched ==
    ASSUME AInv, UNCHANGED <<day, advised, heard>>,
           \A f \in Runs : cycle'[f].alerts = cycle[f].alerts /\ cycle'[f].heard = cycle[f].heard
    PROVE  AlertInv'
<1>1. AllAlerts' = AllAlerts
  BY DEF AllAlerts
<1>2. AlertsOK' /\ KeysAreUnique'
  BY <1>1 DEF AInv, AlertInv, AlertsOK, AlertOK, KeysAreUnique, AlertKey
<1>3. \A f \in Runs : VisibleAlerts(f)' = VisibleAlerts(f)
  BY DEF VisibleAlerts
<1>4. HeardIsTold'
  BY <1>3 DEF AInv, AlertInv, HeardIsTold, ToldIn
<1> QED
  BY <1>2, <1>4 DEF AlertInv

\* A recommendation is made only if none of its place, rule and day can be seen.
LEMMA RecommendKept ==
    ASSUME AInv, NEW e \in Runs, NEW spot \in Spots, Recommend(e, spot)
    PROVE  AInv'
<1>0. /\ \A f \in Runs : IsRun(cycle[f]) /\ RunsOK(cycle[f])
      /\ cycle = [f \in Runs |-> cycle[f]]
      /\ day \in Nat /\ cycle[e].day \in 0 .. day
      /\ cycle[e].task = "recommendations" /\ cycle[e].alerts = {}
      /\ UNCHANGED <<day, advised, advice, heard>>
  <2>1. /\ \A f \in Runs : IsRun(cycle[f]) /\ RunsOK(cycle[f])
        /\ cycle = [f \in Runs |-> cycle[f]] /\ day \in Nat /\ cycle[e].day \in 0 .. day
    BY AdvisoriesAssumption DEF AInv, CyclesOK, RunsOK
  <2>2. <<spot, "advice">> \in cycle[e].todo /\ UNCHANGED <<day, advised, advice, heard>>
    BY DEF Recommend, At
  <2>3. cycle[e].task = "recommendations" /\ cycle[e].alerts = {}
    BY <2>1, <2>2 DEF RunsOK
  <2> QED
    BY <2>1, <2>2, <2>3
<1>p. PICK rules \in {MatchedRules(signals) : signals \in SUBSET Signals} :
        cycle' = [cycle EXCEPT
            ![e].todo = @ \ {<<spot, "advice">>},
            ![e].advice = @ \cup
                {[spot |-> spot, rule |-> rule, day |-> cycle[e].day, by |-> e,
                  alert |-> RelatedAlert(e, spot, rule), overlapped |-> FALSE] :
                    rule \in {r \in rules : ~AlreadyToday(e, spot, r)}}]
  BY DEF Recommend
<1> DEFINE Advise(rule) == [spot |-> spot, rule |-> rule, day |-> cycle[e].day, by |-> e,
                            alert |-> RelatedAlert(e, spot, rule), overlapped |-> FALSE]
           new == {Advise(rule) : rule \in {r \in rules : ~AlreadyToday(e, spot, r)}}
<1>1. \A rule \in rules : rule \in Rules
  BY DEF MatchedRules
<1>2. ASSUME NEW r \in new
      PROVE  /\ r \in AdviceRow /\ RefersRightly(r) /\ r.spot = spot /\ r.day = cycle[e].day
             /\ r.overlapped = FALSE /\ ~AlreadyToday(e, spot, r.rule) /\ r = Advise(r.rule)
  <2> PICK rule \in rules : r = Advise(rule) /\ ~AlreadyToday(e, spot, rule)
    OBVIOUS
  <2>1. rule \in Rules
    BY <1>1
  <2>2. /\ RelatedAlert(e, spot, rule) \in advised \cup {NoAlert}
        /\ RelatedAlert(e, spot, rule) # NoAlert =>
             /\ RelatedAlert(e, spot, rule).spot = spot
             /\ RelatedAlert(e, spot, rule).event = RelatedEvent(rule)
             /\ RelatedAlert(e, spot, rule).day >= cycle[e].day
    <3> DEFINE found == RelatedAlert(e, spot, rule)
    <3> HIDE DEF found
    <3>0. found = RelatedAlert(e, spot, rule)
      BY DEF found
    <3>1. /\ found \in advised \cup {NoAlert}
          /\ found # NoAlert => /\ found.spot = spot /\ found.event = RelatedEvent(rule)
                                /\ found.day >= cycle[e].day
      BY <1>0, <3>0, RelatedIsStored
    <3> QED
      BY <3>0, <3>1
  <2>3. r.rule = rule /\ r.alert = RelatedAlert(e, spot, rule) /\ r.day = cycle[e].day
        /\ r.spot = spot /\ r.overlapped = FALSE
    OBVIOUS
  <2>4. r \in AdviceRow
    BY <1>0, <2>1, <2>2 DEF AdviceRow
  <2>5. RefersRightly(r)
    BY <2>2, <2>3 DEF RefersRightly
  <2> QED
    BY <2>3, <2>4, <2>5
<1> HIDE DEF new, Advise
<1>3. cycle' = [cycle EXCEPT ![e].todo = @ \ {<<spot, "advice">>}, ![e].advice = @ \cup new]
  BY <1>p DEF new, Advise
<1>4. /\ cycle' = [f \in Runs |-> cycle'[f]]
      /\ \A f \in Runs \ {e} : cycle'[f] = cycle[f]
  BY <1>0, <1>3
<1>5. /\ IsRun(cycle'[e]) /\ cycle'[e].task = cycle[e].task /\ cycle'[e].pc = cycle[e].pc
      /\ cycle'[e].day = cycle[e].day /\ cycle'[e].alerts = cycle[e].alerts
      /\ cycle'[e].overlapped = cycle[e].overlapped
      /\ cycle'[e].todo = cycle[e].todo \ {<<spot, "advice">>}
      /\ cycle'[e].advice = cycle[e].advice \cup new
      /\ cycle'[e].heard = cycle[e].heard
  <2> DEFINE c == cycle[e]
  <2>1. cycle'[e] = [c EXCEPT !.todo = c.todo \ {<<spot, "advice">>},
                              !.advice = c.advice \cup new]
    BY <1>0, <1>3
  <2> QED
    BY <1>0, <2>1 DEF IsRun
<1>6. CyclesOK'
  <2>1. RunsOK(cycle'[e])
    BY <1>0, <1>5 DEF RunsOK
  <2>2. \A f \in Runs : RunsOK(cycle'[f])
    BY <1>0, <1>4, <2>1
  <2> QED
    BY <1>0, <1>4, <2>2 DEF AInv, CyclesOK, RunsOK
<1>7. AlertInv'
  BY <1>0, <1>4, <1>5, AlertsUntouched
<1>8. AdviceRow' = AdviceRow /\ StoredAdvice'
  BY <1>0 DEF AInv, AdviceInv, StoredAdvice, AdviceRow, RefersRightly, Same
<1>9. ASSUME NEW r \in new, NEW q \in VisibleAdvice(e), Same(r, q) PROVE FALSE
  <2>1. q.spot = spot /\ q.rule = r.rule /\ q.day = cycle[e].day
    BY <1>2, <1>9 DEF Same
  <2> QED
    <3>1. ~AlreadyToday(e, spot, r.rule)
      BY <1>2, Zenon
    <3>2. q.day >= cycle[e].day
      BY <1>0, <2>1
    <3> QED
      BY <1>9, <2>1, <3>1, <3>2 DEF AlreadyToday
<1>10. OwnAdvice'
  <2> SUFFICES ASSUME NEW f \in Runs
      PROVE  /\ \A r \in cycle'[f].advice : /\ r \in AdviceRow /\ RefersRightly(r)
                                            /\ r.day = cycle'[f].day /\ r.overlapped = FALSE
             /\ \A r, q \in cycle'[f].advice : Same(r, q) => r = q
    BY <1>8 DEF OwnAdvice, RefersRightly, Same
  <2>1. /\ \A r \in cycle[f].advice : /\ r \in AdviceRow /\ RefersRightly(r)
                                      /\ r.day = cycle[f].day /\ r.overlapped = FALSE
        /\ \A r, q \in cycle[f].advice : Same(r, q) => r = q
    BY DEF AInv, AdviceInv, OwnAdvice
  <2>2. CASE f # e
    BY <1>4, <2>1, <2>2
  <2>3. CASE f = e
    <3>1. \A r \in cycle'[e].advice : /\ r \in AdviceRow /\ RefersRightly(r)
                                      /\ r.day = cycle'[e].day /\ r.overlapped = FALSE
      BY <1>2, <1>5, <2>1, <2>3
    <3>2. ASSUME NEW r \in cycle'[e].advice, NEW q \in cycle'[e].advice, Same(r, q) PROVE r = q
      <4>1. CASE r \in cycle[e].advice /\ q \in cycle[e].advice
        BY <2>1, <2>3, <3>2, <4>1
      <4>2. CASE r \in new /\ q \in new
        BY <1>2, <3>2, <4>2 DEF Same
      <4>3. CASE r \in new /\ q \in cycle[e].advice
        BY <1>9, <3>2, <4>3 DEF VisibleAdvice
      <4>4. CASE q \in new /\ r \in cycle[e].advice
        BY <1>9, <3>2, <4>4 DEF VisibleAdvice, Same
      <4> QED
        BY <1>5, <4>1, <4>2, <4>3, <4>4
    <3> QED
      BY <2>3, <3>1, <3>2
  <2> QED
    BY <2>2, <2>3
<1>11. OverlapIsNoted'
  <2>1. \A f \in Runs : cycle'[f].task = cycle[f].task /\ cycle'[f].overlapped = cycle[f].overlapped
    BY <1>4, <1>5
  <2> QED
    BY <2>1 DEF AInv, AdviceInv, OverlapIsNoted
<1>12. CrossingIsNoted'
  <2> SUFFICES ASSUME NEW f \in Runs, NEW r \in cycle'[f].advice, NEW q \in advice, Same(r, q)
      PROVE  cycle'[f].overlapped /\ q.overlapped
    BY <1>0 DEF CrossingIsNoted, Same
  <2>1. CASE r \in cycle[f].advice
    BY <1>4, <1>5, <2>1 DEF AInv, AdviceInv, CrossingIsNoted
  <2>2. CASE f = e /\ r \in new
    BY <1>9, <2>2 DEF VisibleAdvice
  <2> QED
    BY <1>4, <1>5, <2>1, <2>2
<1> QED
  BY <1>6, <1>7, <1>8, <1>10, <1>11, <1>12 DEF AInv, AdviceInv

\* What a commit makes of an execution's own advice.
Stamped(r, o) == [r EXCEPT !.overlapped = o]

\* A commit publishes what its execution held; those that waited for it roll back.
LEMMA CommitRunKept == ASSUME AInv, NEW e \in Runs, CommitRun(e) PROVE AInv'
<1> DEFINE o == cycle[e].overlapped
           own == {Stamped(r, o) : r \in cycle[e].advice}
<1>0. /\ \A f \in Runs : RunsOK(cycle[f])
      /\ day \in Nat /\ day' = day /\ o \in BOOLEAN
  BY AdvisoriesAssumption DEF AInv, CyclesOK, RunsOK, CommitRun
<1>1. /\ advised' = advised \cup cycle[e].alerts /\ advice' = advice \cup own
      /\ heard' = heard \cup cycle[e].heard
      /\ cycle' = [f \in Runs |-> IF f = e \/ WaitsFor(f, e) THEN Sleeping ELSE cycle[f]]
  BY DEF CommitRun, Stamped
<1>2. /\ cycle'[e] = Sleeping /\ cycle' = [f \in Runs |-> cycle'[f]]
      /\ \A f \in Runs : cycle'[f] = Sleeping \/ (f # e /\ cycle'[f] = cycle[f])
  <2>1. cycle' = [f \in Runs |-> cycle'[f]]
    BY <1>1
  <2>2. \A f \in Runs : cycle'[f] = IF f = e \/ WaitsFor(f, e) THEN Sleeping ELSE cycle[f]
    BY <1>1
  <2> QED
    BY <2>1, <2>2
<1>3. Fresh(Sleeping) /\ Sleeping.task = NoAlert /\ RunsOK(Sleeping)
  BY <1>0, SleepingIsFresh
<1>4. CyclesOK'
  <2>1. \A f \in Runs : RunsOK(cycle'[f])
    BY <1>0, <1>2, <1>3
  <2> QED
    BY <1>0, <1>2, <2>1 DEF AInv, CyclesOK, RunsOK
<1>5. \A f \in Runs : cycle'[f].alerts \subseteq cycle[f].alerts
  BY <1>2, <1>3 DEF Fresh
<1>6. AllAlerts' \subseteq AllAlerts
  BY <1>1, <1>5 DEF AllAlerts
<1>7. AlertsOK' /\ KeysAreUnique'
  BY <1>0, <1>6 DEF AInv, AlertInv, AlertsOK, AlertOK, KeysAreUnique, AlertKey
<1>8. HeardIsTold'
  <2>1. ASSUME NEW h \in heard' PROVE ToldIn(h, advised')
    <3>1. CASE h \in heard
      BY <1>1, <3>1 DEF AInv, AlertInv, HeardIsTold, ToldIn
    <3>2. CASE h \in cycle[e].heard
      BY <1>1, <3>2 DEF AInv, AlertInv, HeardIsTold, ToldIn, VisibleAlerts
    <3> QED
      BY <1>1, <3>1, <3>2
  <2>2. ASSUME NEW f \in Runs, NEW h \in cycle'[f].heard PROVE ToldIn(h, VisibleAlerts(f)')
    <3>1. f # e /\ cycle'[f] = cycle[f]
      BY <1>2, <1>3, <2>2 DEF Fresh
    <3>2. VisibleAlerts(f) \subseteq VisibleAlerts(f)'
      BY <1>1, <3>1 DEF VisibleAlerts
    <3> QED
      BY <2>2, <3>1, <3>2 DEF AInv, AlertInv, HeardIsTold, ToldIn
  <2> QED
    BY <2>1, <2>2 DEF HeardIsTold, ToldIn
<1>9. \A r : r \in AdviceRow => r \in AdviceRow'
  BY <1>0, <1>1 DEF AdviceRow
<1>10. ASSUME NEW r \in cycle[e].advice
       PROVE  /\ Stamped(r, o) \in AdviceRow /\ RefersRightly(Stamped(r, o))
              /\ Same(Stamped(r, o), r) /\ Stamped(r, o).overlapped = o
  <2>1. r \in AdviceRow /\ RefersRightly(r)
    BY DEF AInv, AdviceInv, OwnAdvice
  <2> HIDE DEF o
  <2>2. Stamped(r, o) \in AdviceRow
    BY <1>0, <2>1 DEF AdviceRow, Stamped
  <2>3. /\ Stamped(r, o).spot = r.spot /\ Stamped(r, o).rule = r.rule
        /\ Stamped(r, o).day = r.day /\ Stamped(r, o).alert = r.alert
        /\ Stamped(r, o).overlapped = o
    BY <2>1 DEF AdviceRow, Stamped
  <2> QED
    BY <2>1, <2>2, <2>3 DEF RefersRightly, Same
<1>11. \A q \in advice' : q \in advice \/ \E r \in cycle[e].advice : q = Stamped(r, o)
  BY <1>1
<1>12. cycle[e].advice # {} => cycle[e].task = "recommendations"
  BY <1>0 DEF RunsOK
<1> HIDE DEF o, own
<1>13. StoredAdvice'
  <2>1. \A r \in advice' : r \in AdviceRow /\ RefersRightly(r)
    BY <1>10, <1>11 DEF AInv, AdviceInv, StoredAdvice
  <2>2. ASSUME NEW r \in advice', NEW q \in advice', r # q, Same(r, q)
        PROVE  r.overlapped /\ q.overlapped
    <3>1. CASE r \in advice /\ q \in advice
      BY <2>2, <3>1 DEF AInv, AdviceInv, StoredAdvice
    <3>2. ASSUME NEW s \in cycle[e].advice, NEW t \in advice, Same(s, t)
          PROVE  Stamped(s, o).overlapped /\ t.overlapped
      <4>1. cycle[e].overlapped /\ t.overlapped
        BY <3>2 DEF AInv, AdviceInv, CrossingIsNoted
      <4> QED
        BY <1>10, <4>1 DEF o
    <3>3. CASE q \in advice /\ \E s \in cycle[e].advice : r = Stamped(s, o)
      <4> PICK s \in cycle[e].advice : r = Stamped(s, o)
        BY <3>3
      <4>1. Same(s, q)
        BY <1>10, <2>2 DEF Same
      <4> QED
        BY <3>2, <3>3, <4>1
    <3>4. CASE r \in advice /\ \E s \in cycle[e].advice : q = Stamped(s, o)
      <4> PICK s \in cycle[e].advice : q = Stamped(s, o)
        BY <3>4
      <4>1. Same(s, r)
        BY <1>10, <2>2 DEF Same
      <4> QED
        BY <3>2, <3>4, <4>1
    <3>5. ASSUME NEW s \in cycle[e].advice, NEW t \in cycle[e].advice,
                 r = Stamped(s, o), q = Stamped(t, o)
          PROVE  FALSE
      <4>1. Same(s, t)
        BY <1>10, <2>2, <3>5 DEF Same
      <4>2. s = t
        BY <4>1 DEF AInv, AdviceInv, OwnAdvice
      <4> QED
        BY <2>2, <3>5, <4>2
    <3> QED
      BY <1>11, <3>1, <3>3, <3>4, <3>5
  <2> QED
    BY <1>9, <2>1, <2>2 DEF StoredAdvice, RefersRightly, Same
<1>14. \A f \in Runs : cycle'[f].advice # {} => f # e /\ cycle'[f] = cycle[f]
  BY <1>2, <1>3 DEF Fresh
<1>15. OwnAdvice'
  <2> SUFFICES ASSUME NEW f \in Runs
      PROVE  /\ \A r \in cycle'[f].advice : /\ r \in AdviceRow' /\ RefersRightly(r)
                                            /\ r.day = cycle'[f].day /\ r.overlapped = FALSE
             /\ \A r, q \in cycle'[f].advice : Same(r, q) => r = q
    BY DEF OwnAdvice, RefersRightly, Same
  <2>1. CASE cycle'[f].advice = {}
    BY <2>1
  <2>2. CASE cycle'[f].advice # {}
    BY <1>9, <1>14, <2>2 DEF AInv, AdviceInv, OwnAdvice
  <2> QED
    BY <2>1, <2>2
<1>16. OverlapIsNoted'
  <2>1. \A f \in Runs : cycle'[f].task = "recommendations" => cycle'[f] = cycle[f]
    BY <1>2, <1>3, NoAlertIsNoTask DEF Tasks
  <2> QED
    BY <2>1 DEF AInv, AdviceInv, OverlapIsNoted
<1>17. CrossingIsNoted'
  <2> SUFFICES ASSUME NEW f \in Runs, NEW r \in cycle'[f].advice, NEW q \in advice', Same(r, q)
      PROVE  cycle'[f].overlapped /\ q.overlapped
    BY DEF CrossingIsNoted, Same
  <2>1. f # e /\ cycle'[f] = cycle[f]
    BY <1>14
  <2>2. CASE q \in advice
    BY <2>1, <2>2 DEF AInv, AdviceInv, CrossingIsNoted
  <2>3. CASE \E s \in cycle[e].advice : q = Stamped(s, o)
    <3> PICK s \in cycle[e].advice : q = Stamped(s, o)
      BY <2>3
    <3>1. cycle[e].task = "recommendations" /\ cycle[f].task = "recommendations"
      BY <1>0, <2>1 DEF RunsOK
    <3>2. cycle[e].overlapped /\ cycle[f].overlapped
      BY <2>1, <3>1 DEF AInv, AdviceInv, OverlapIsNoted
    <3> QED
      BY <1>10, <2>1, <3>2 DEF o
  <2> QED
    BY <1>11, <2>2, <2>3
<1> QED
  BY <1>4, <1>7, <1>8, <1>13, <1>15, <1>16, <1>17 DEF AInv, AlertInv, AdviceInv

LEMMA MidnightKept == ASSUME AInv, Midnight PROVE AInv'
<1>1. /\ day \in Nat /\ day' = day + 1 /\ day' \in 0 .. LastDay
      /\ UNCHANGED <<advised, advice, heard, cycle>>
  BY AdvisoriesAssumption DEF AInv, CyclesOK, Midnight
<1>2. \A d \in 0 .. day : d \in 0 .. day'
  BY <1>1
<1>3. CyclesOK'
  <2>1. \A f \in Runs : RunsOK(cycle[f]) /\ cycle[f].day \in 0 .. day
    BY DEF AInv, CyclesOK, RunsOK
  <2>2. \A f \in Runs : RunsOK(cycle[f])'
    BY <1>1, <1>2, <2>1 DEF RunsOK, IsRun
  <2> QED
    BY <1>1, <2>2 DEF AInv, CyclesOK
<1>4. AlertInv'
  <2>1. AllAlerts' = AllAlerts /\ \A f \in Runs : VisibleAlerts(f)' = VisibleAlerts(f)
    BY <1>1 DEF AllAlerts, VisibleAlerts
  <2>2. AlertsOK'
    BY <1>1, <1>2, <2>1 DEF AInv, AlertInv, AlertsOK, AlertOK
  <2>3. KeysAreUnique'
    BY <2>1 DEF AInv, AlertInv, KeysAreUnique, AlertKey
  <2>4. HeardIsTold'
    BY <1>1, <2>1 DEF AInv, AlertInv, HeardIsTold, ToldIn
  <2> QED
    BY <2>2, <2>3, <2>4 DEF AlertInv
<1>5. \A r \in AdviceRow : r \in AdviceRow'
  BY <1>1, <1>2 DEF AdviceRow
<1>6. AdviceInv'
  BY <1>1, <1>5 DEF AInv, AdviceInv, StoredAdvice, OwnAdvice, OverlapIsNoted, CrossingIsNoted,
     RefersRightly, Same
<1> QED
  BY <1>3, <1>4, <1>6 DEF AInv

LEMMA AdviceKept == ASSUME AInv, [AdvisoriesNext]_advisoryVars PROVE AInv'
<1>1. CASE Midnight
  BY <1>1, MidnightKept
<1>2. ASSUME NEW e \in Runs, StartAgro(e) \/ StartWarnings(e) \/ StartRecommendations(e)
      PROVE  AInv'
  <2>1. CASE StartAgro(e)
    BY <2>1, StartKept DEF StartAgro, Tasks
  <2>2. CASE StartWarnings(e)
    BY <2>2, StartKept DEF StartWarnings, Tasks
  <2>3. CASE StartRecommendations(e)
    BY <2>3, StartKept DEF StartRecommendations, Tasks
  <2> QED
    BY <1>2, <2>1, <2>2, <2>3
<1>3. ASSUME NEW e \in Runs, CommitRun(e) \/ LoseRun(e) PROVE AInv'
  BY <1>3, CommitRunKept, LoseRunKept
<1>4. ASSUME NEW e \in Runs, NEW spot \in Spots,
             CheckFrost(e, spot) \/ CheckDrySpell(e, spot) \/ CheckWarnings(e, spot)
      PROVE  AInv'
  BY <1>4, ChecksKept
<1>5. ASSUME NEW e \in Runs, NEW spot \in Spots, Recommend(e, spot) PROVE AInv'
  BY <1>5, RecommendKept
<1>6. ASSUME NEW e \in Runs, NEW spot, NEW what, PassOver(e, spot, what) PROVE AInv'
  BY <1>6, PassOverKept
<1>7. CASE UNCHANGED advisoryVars
  <2>1. UNCHANGED <<day, advised, advice, heard>> /\ cycle' = cycle
    BY <1>7 DEF advisoryVars
  <2>2. /\ cycle = [f \in Runs |-> cycle[f]]
        /\ \A f \in Runs : RunsOK(cycle[f]) /\ SameWork(cycle[f], cycle[f])
    BY DEF AInv, CyclesOK, RunsOK, SameWork
  <2>3. OverlapIsNoted'
    BY <2>1 DEF AInv, AdviceInv, OverlapIsNoted
  <2> QED
    BY <2>1, <2>2, <2>3, QuietKept
<1> QED
  BY <1>1, <1>2, <1>3, <1>4, <1>5, <1>6, <1>7 DEF AdvisoriesNext

\* What the property needs of the executions in flight.
LEMMA AdviceInvariance == AdvisoriesSpec => []AInv
<1> QED
  BY AdviceInitially, AdviceKept, PTL DEF AdvisoriesSpec

\* Alerts and recommendations keep their types, and no key is stored twice
\* (AdvisoriesTypeOK: alerts.dedup_key is unique).
THEOREM AdvisoriesTypeCorrect == AdvisoriesSpec => []AdvisoriesTypeOK
<1>1. ASSUME AInv PROVE AdvisoriesTypeOK
  <2>1. day \in 0 .. LastDay /\ \A e \in Runs : cycle[e].pc \in {"asleep", "runs", "waits"}
    BY <1>1 DEF AInv, CyclesOK, RunsOK
  <2>2. \A a \in advised : a.spot \in Spots /\ a.event \in Events /\ a.day \in 0 .. day
    BY <1>1 DEF AInv, AlertInv, AlertsOK, AlertOK, AllAlerts
  <2>3. \A a, b \in advised : AlertKey(a) = AlertKey(b) => a = b
    BY <1>1 DEF AInv, AlertInv, KeysAreUnique, AllAlerts
  <2>4. \A r \in advice : r.rule \in Rules /\ r.day \in 0 .. day
    BY <1>1 DEF AInv, AdviceInv, StoredAdvice, AdviceRow
  <2> QED
    BY <2>1, <2>2, <2>3, <2>4 DEF AdvisoriesTypeOK
<1> QED
  BY <1>1, AdviceInvariance, PTL

\* Farmers are told what the cycles found out, once (FarmersAreTold: _emit_alert and
\* its dedup_key, `one per location/rule/day' of the recommendations).
THEOREM FarmersTold == AdvisoriesSpec => []FarmersAreTold
<1>1. ASSUME AInv PROVE FarmersAreTold
  <2>1. \A h \in heard : \E a \in advised :
          /\ a.spot = h[1] /\ a.event = h[2] /\ a.text = h[3]
          /\ a.event # "warning" => a.day = h[4]
    BY <1>1 DEF AInv, AlertInv, HeardIsTold, ToldIn
  <2>2. ASSUME NEW a \in advised, NEW b \in advised,
               \E w \in Bulletins : w.text = a.text /\ w.dated,
               a.spot = b.spot, a.text = b.text
        PROVE  a = b
    <3>1. AlertOK(a) /\ AlertOK(b)
      BY <1>1 DEF AInv, AlertInv, AlertsOK, AllAlerts
    <3>2. a.event = "warning" /\ b.event = "warning" /\ a.fetch = 0 /\ b.fetch = 0
      BY <2>2, <3>1, TextsIdentify DEF AlertOK
    <3>3. AlertKey(a) = AlertKey(b)
      BY <2>2, <3>2 DEF AlertKey
    <3> QED
      BY <1>1, <3>3 DEF AInv, AlertInv, KeysAreUnique, AllAlerts
  <2>3. AdviceOncePerDay
    <3>1. \A r, q \in advice :
            r # q /\ r.spot = q.spot /\ r.rule = q.rule /\ r.day = q.day =>
               r.overlapped /\ q.overlapped
      BY <1>1 DEF AInv, AdviceInv, StoredAdvice, Same
    <3>2. \A r \in advice : r.alert # NoAlert =>
            /\ r.alert \in advised
            /\ r.alert.spot = r.spot /\ r.alert.event = RelatedEvent(r.rule)
            /\ r.alert.day >= r.day
      BY <1>1 DEF AInv, AdviceInv, StoredAdvice, AdviceRow, RefersRightly
    <3> QED
      BY <3>1, <3>2 DEF AdviceOncePerDay
  <2> QED
    BY <2>1, <2>2, <2>3 DEF FarmersAreTold, EverythingHeardIsTold
<1> QED
  BY <1>1, AdviceInvariance, PTL

-----------------------------------------------------------------------------
(* Vegetation: acquisitions in the order of their dates *)

Sorts(s, S) == /\ s \in [1 .. Cardinality(S) -> S]
               /\ \A i, j \in DOMAIN s : i < j => s[i] < s[j]

LEMMA PassesAreFinite ==
    ASSUME NEW S \in SUBSET Passes
    PROVE  /\ IsFiniteSet(S) /\ Cardinality(S) \in Nat
           /\ S \subseteq Nat
<1>1. IsFiniteSet(Passes)
  BY FS_Interval, VegetationAssumption DEF Passes, VegetationAssumption
<1>2. IsFiniteSet(S)
  BY <1>1, FS_Subset
<1>3. Cardinality(S) \in Nat
  BY <1>2, FS_CardinalityType
<1> QED
  BY <1>2, <1>3, VegetationAssumption DEF Passes, VegetationAssumption

\* A sorted sequence has every element.
LEMMA SortedHasAll ==
    ASSUME NEW S \in SUBSET Passes, NEW s, Sorts(s, S), NEW a \in S
    PROVE  \E i \in 1 .. Cardinality(S) : s[i] = a
<1> DEFINE D == 1 .. Cardinality(S)
<1>1. /\ IsFiniteSet(S) /\ Cardinality(S) \in Nat /\ S \subseteq Nat
  BY PassesAreFinite
<1>2. IsFiniteSet(D) /\ Cardinality(D) = Cardinality(S)
  BY <1>1, FS_Interval
<1>3. s \in [D -> S] /\ \A i, j \in D : i < j => s[i] < s[j]
  BY DEF Sorts
<1>4. \A i, j \in D : s[i] = s[j] => i = j
  <2> TAKE i, j \in D
  <2>1. s[i] \in Nat /\ s[j] \in Nat /\ i \in Nat /\ j \in Nat
    <3>1. s[i] \in S /\ s[j] \in S
      BY <1>3
    <3>2. D \subseteq Nat
      BY <1>1
    <3> HIDE DEF D
    <3> QED
      BY <1>1, <3>1, <3>2
  <2>2. CASE i < j
    BY <1>3, <2>1, <2>2
  <2>3. CASE j < i
    BY <1>3, <2>1, <2>3
  <2> QED
    BY <2>1, <2>2, <2>3
<1> HIDE DEF D
<1>5. s \in Injection(D, S)
  BY <1>3, <1>4 DEF Injection, IsInjective
<1>6. s \in Surjection(D, S)
  BY <1>1, <1>2, <1>5, FS_Injection
<1> QED
  BY <1>6 DEF Surjection, D

\* There is one way to sort a set of them.
LEMMA OneSorted ==
    ASSUME NEW S \in SUBSET Passes, NEW s, NEW t, Sorts(s, S), Sorts(t, S)
    PROVE  s = t
<1> DEFINE D == 1 .. Cardinality(S)
           differ == {i \in D : s[i] # t[i]}
<1>1. Cardinality(S) \in Nat /\ S \subseteq Nat
  BY PassesAreFinite
<1>2. /\ s \in [D -> S] /\ t \in [D -> S]
      /\ \A i, j \in D : i < j => s[i] < s[j] /\ t[i] < t[j]
  BY DEF Sorts
<1>3. /\ \A a \in S : \E i \in D : s[i] = a
      /\ \A a \in S : \E i \in D : t[i] = a
  BY SortedHasAll
<1>4. D \subseteq Nat
  BY <1>1
<1> HIDE DEF D
<1>5. CASE differ # {}
  <2>1. PICK i \in differ : \A j \in differ : i <= j
    BY <1>4, <1>5, Least
  <2>2. i \in D /\ s[i] # t[i] /\ s[i] \in S /\ t[i] \in S
    BY <1>2
  <2>3. PICK j \in D : t[j] = s[i]
    BY <1>3, <2>2
  <2>4. PICK k \in D : s[k] = t[i]
    BY <1>3, <2>2
  <2>5. i \in Nat /\ j \in Nat /\ k \in Nat /\ s[i] \in Nat /\ t[i] \in Nat
    BY <1>1, <1>4, <2>2
  <2>6. \A h \in D : h < i => s[h] = t[h]
    BY <1>4, <2>1
  <2>7. ~(j < i) /\ ~(k < i)
    <3>1. ASSUME j < i PROVE FALSE
      BY <1>2, <2>2, <2>3, <2>5, <2>6, <3>1
    <3>2. ASSUME k < i PROVE FALSE
      BY <1>2, <2>2, <2>4, <2>5, <2>6, <3>2
    <3> QED
      BY <3>1, <3>2
  <2>8. i < j /\ i < k
    BY <2>2, <2>3, <2>4, <2>5, <2>7
  <2>9. t[i] < s[i] /\ s[i] < t[i]
    BY <1>2, <2>2, <2>3, <2>4, <2>8
  <2> QED
    BY <2>5, <2>9
<1>6. CASE differ = {}
  BY <1>2, <1>6
<1> QED
  BY <1>5, <1>6

LEMMA OneMore ==
    ASSUME NEW S \in SUBSET Passes, NEW a \in Passes, \A b \in S : b < a,
           NEW s, Sorts(s, S)
    PROVE  Sorts(s \o <<a>>, S \cup {a})
<1>1. /\ IsFiniteSet(S) /\ Cardinality(S) \in Nat /\ S \subseteq Nat /\ a \in Nat
  BY PassesAreFinite
<1>2. a \notin S
  BY <1>1
<1>3. Cardinality(S \cup {a}) = Cardinality(S) + 1
  BY <1>1, <1>2, FS_AddElement
<1> DEFINE n == Cardinality(S)
           more == s \o <<a>>
<1>4. /\ s \in [1 .. n -> S] /\ \A i, j \in 1 .. n : i < j => s[i] < s[j]
  BY DEF Sorts
<1>5. s \in Seq(S) /\ Len(s) = n
  BY <1>1, <1>4
<1>6. n \in Nat
  BY <1>1
<1> HIDE DEF n
<1>7. /\ more \in [1 .. n + 1 -> S \cup {a}]
      /\ \A i \in 1 .. n : more[i] = s[i]
      /\ more[n + 1] = a
  <2>1. <<a>> \in Seq(S \cup {a}) /\ Len(<<a>>) = 1 /\ s \in Seq(S \cup {a})
    BY <1>5
  <2>2. more \in Seq(S \cup {a}) /\ Len(more) = n + 1
    BY <1>5, <1>6, <2>1
  <2> QED
    <3>1. \A i \in 1 .. n : more[i] = s[i]
      BY <1>5, <1>6, <2>1
    <3>2. more[n + 1] = a
      BY <1>5, <1>6, <2>1
    <3> HIDE DEF more
    <3> QED
      BY <2>2, <3>1, <3>2
<1> HIDE DEF more
<1>8. \A i, j \in 1 .. n + 1 : i < j => more[i] < more[j]
  <2> SUFFICES ASSUME NEW i \in 1 .. n + 1, NEW j \in 1 .. n + 1, i < j
               PROVE  more[i] < more[j]
    OBVIOUS
  <2>1. i \in 1 .. n /\ (j \in 1 .. n \/ j = n + 1)
    BY <1>6
  <2>2. CASE j \in 1 .. n
    BY <1>4, <1>7, <2>1, <2>2
  <2>3. CASE j = n + 1
    <3>1. s[i] \in S
      BY <1>4, <2>1
    <3> QED
      BY <1>7, <2>1, <2>3, <3>1
  <2> QED
    BY <2>1, <2>2, <2>3
<1> QED
  BY <1>3, <1>6, <1>7, <1>8 DEF Sorts, more, n

LEMMA Sortable ==
    ASSUME NEW S \in SUBSET Passes PROVE \E s : Sorts(s, S)
<1> DEFINE bad == {n \in Nat : \E T \in SUBSET Passes : T \subseteq 1 .. n /\ ~\E s : Sorts(s, T)}
<1>1. CASE bad # {}
  <2>1. PICK n \in bad : \A m \in bad : n <= m
    BY <1>1, Least
  <2>2. PICK T \in SUBSET Passes : T \subseteq 1 .. n /\ ~\E s : Sorts(s, T)
    OBVIOUS
  <2>3. n \in Nat
    OBVIOUS
  <2>4. T # {}
    <3>1. ASSUME T = {} PROVE Sorts(<<>>, T)
      BY <3>1, FS_EmptySet DEF Sorts
    <3> QED
      BY <2>2, <3>1
  <2>5. n > 0
    <3>1. PICK b \in T : b \in 1 .. n
      BY <2>2, <2>4
    <3> QED
      BY <2>3, <3>1
  <2>6. n - 1 \in Nat /\ ~(n <= n - 1)
    BY <2>3, <2>5
  <2>7. n - 1 \notin bad
    BY <2>1, <2>6
  <2>8. \A U \in SUBSET Passes : U \subseteq 1 .. (n - 1) => \E s : Sorts(s, U)
    BY <2>6, <2>7
  <2> HIDE DEF bad
  <2>9. PICK s : Sorts(s, T \ {n})
    <3>1. T \ {n} \subseteq 1 .. (n - 1)
      BY <2>2, <2>3
    <3> QED
      BY <2>8, <3>1
  <2>10. n \in T
    <3>1. ASSUME n \notin T PROVE FALSE
      BY <2>2, <2>9, <3>1
    <3> QED
      BY <3>1
  <2>11. \A b \in T \ {n} : b < n
    BY <2>2, <2>3
  <2>12. Sorts(s \o <<n>>, (T \ {n}) \cup {n})
    BY <2>9, <2>10, <2>11, OneMore
  <2>13. (T \ {n}) \cup {n} = T
    BY <2>10
  <2> QED
    BY <2>2, <2>12, <2>13
<1>2. CASE bad = {}
  <2>1. LastPass \in Nat /\ S \subseteq 1 .. LastPass
    BY VegetationAssumption DEF Passes, VegetationAssumption
  <2> QED
    BY <1>2, <2>1
<1> QED
  BY <1>1, <1>2

LEMMA SeriesSorts ==
    ASSUME NEW S \in SUBSET Passes PROVE Sorts(Series(S), S \cap Cloudless)
<1>1. S \cap Cloudless \in SUBSET Passes
  OBVIOUS
<1>2. \E s \in [1 .. Cardinality(S \cap Cloudless) -> S \cap Cloudless] :
         \A i, j \in DOMAIN s : i < j => s[i] < s[j]
  BY <1>1, Sortable DEF Sorts
<1> QED
  BY <1>2 DEF Series, Sorts

\* An acquisition appended to those before it is in its place.
LEMMA SeriesGrows ==
    ASSUME NEW S \in SUBSET Passes, NEW a \in Passes \cap Cloudless, \A b \in S : b < a
    PROVE  Series(S) \o <<a>> = Series(S \cup {a})
<1>1. Sorts(Series(S) \o <<a>>, (S \cap Cloudless) \cup {a})
  BY SeriesSorts, OneMore
<1>2. (S \cup {a}) \cap Cloudless = (S \cap Cloudless) \cup {a}
  OBVIOUS
<1>3. S \cup {a} \in SUBSET Passes
  OBVIOUS
<1>4. Sorts(Series(S \cup {a}), (S \cap Cloudless) \cup {a})
  BY <1>2, <1>3, SeriesSorts
<1> QED
  BY <1>1, <1>4, OneSorted

-----------------------------------------------------------------------------
(* Vegetation: what the sessions know *)

ExecutionRow == [pc : {"asleep", "run", "blocked"}, todo : SUBSET Plots,
                 readings : SUBSET Reading, images : SUBSET Map,
                 drops : SUBSET Map, late : SUBSET Map]

VegetationTypes ==
    /\ published \subseteq Passes /\ readings \subseteq Reading
    /\ plotMaps \subseteq Map /\ drops \subseteq Map /\ late \subseteq Map
    /\ execution \in [Executions -> ExecutionRow]

PassedIn(rows, p) == {r.at : r \in {q \in rows : q.plot = p}}
OnceIn(rows, p, a) ==
    \A r, q \in rows : r.plot = p /\ q.plot = p /\ r.at = a /\ q.at = a => r = q

\* DropAlertsMatchHistory, of any rows.
Matches(rows, told, after) ==
    \A p \in Plots, a \in Passes :
        /\ a \in PassedIn(rows, p)
        /\ \A b \in 1 .. a : <<p, b>> \notin after /\ OnceIn(rows, p, b)
        => (<<p, a>> \in told <=>
                a \in Cloudless /\ HasPersistentDrop(Series({b \in PassedIn(rows, p) : b <= a})))

Own(e) == execution[e].readings
SeenDrops(e) == drops \cup execution[e].drops
SeenLate(e) == late \cup execution[e].late

\* A reading is of a published acquisition; a drop is of a reading.
RowsAreOfPasses ==
    /\ \A r \in readings : r.at \in published
    /\ \A e \in Executions : \A r \in Own(e) : r.at \in published /\ r.by = e /\ r \notin readings
    /\ \A p \in Plots, a \in Passes :
          /\ <<p, a>> \in drops => a \in PassedIn(readings, p)
          /\ \A e \in Executions : <<p, a>> \in execution[e].drops => a \in PassedIn(Own(e), p)

\* Of two executions that stored one plot, the later has what the earlier stored.
LaterHasAll ==
    \A e, f \in Executions : \A p \in Plots : e # f =>
        \/ PassedIn(Own(e), p) \subseteq PassedIn(SeenReadings(f), p)
        \/ PassedIn(Own(f), p) \subseteq PassedIn(SeenReadings(e), p)

\* The alerts match the tables, and in each session what it sees.
VegetationInv ==
    /\ VegetationTypes /\ RowsAreOfPasses /\ LaterHasAll
    /\ Matches(readings, drops, late)
    /\ \A e \in Executions : Matches(SeenReadings(e), SeenDrops(e), SeenLate(e))

\* Steps that at most forget what an execution has stored.
LEMMA ForgettingKeeps ==
    ASSUME VegetationInv, VegetationTypes', UNCHANGED <<readings, drops, late>>,
           published \subseteq published',
           \A e \in Executions :
              \/ /\ execution'[e].readings = {} /\ execution'[e].drops = {}
                 /\ execution'[e].late = {}
              \/ /\ execution'[e].readings = execution[e].readings
                 /\ execution'[e].drops = execution[e].drops
                 /\ execution'[e].late = execution[e].late
    PROVE  VegetationInv'
<1>1. \A e \in Executions :
         \/ Own(e)' = Own(e) /\ SeenReadings(e)' = SeenReadings(e)
         \/ Own(e)' = {} /\ SeenReadings(e)' = readings
  BY DEF Own, SeenReadings
<1>2. RowsAreOfPasses'
  <2>1. \A e \in Executions : \A r \in Own(e)' :
           r.at \in published' /\ r.by = e /\ r \notin readings'
    BY <1>1 DEF VegetationInv, RowsAreOfPasses
  <2>2. ASSUME NEW p \in Plots, NEW a \in Passes, NEW e \in Executions,
               <<p, a>> \in execution'[e].drops
        PROVE  a \in PassedIn(Own(e), p)'
    BY <2>2 DEF VegetationInv, RowsAreOfPasses, Own, PassedIn
  <2> QED
    BY <2>1, <2>2 DEF VegetationInv, RowsAreOfPasses, PassedIn
<1>3. LaterHasAll'
  <2> SUFFICES ASSUME NEW e \in Executions, NEW f \in Executions, NEW p \in Plots, e # f
               PROVE  \/ PassedIn(Own(e)', p) \subseteq PassedIn(SeenReadings(f)', p)
                      \/ PassedIn(Own(f)', p) \subseteq PassedIn(SeenReadings(e)', p)
    BY DEF LaterHasAll, PassedIn
  <2>1. CASE Own(e)' = {} \/ Own(f)' = {}
    BY <2>1 DEF PassedIn
  <2>2. CASE Own(e)' # {} /\ Own(f)' # {}
    BY <1>1, <2>2 DEF VegetationInv, LaterHasAll
  <2> QED
    BY <2>1, <2>2
<1>4. Matches(readings, drops, late)'
  BY DEF VegetationInv, Matches, PassedIn, OnceIn
<1>5. ASSUME NEW e \in Executions PROVE Matches(SeenReadings(e), SeenDrops(e), SeenLate(e))'
  <2>1. \/ /\ SeenReadings(e)' = readings /\ SeenDrops(e)' = drops /\ SeenLate(e)' = late
        \/ /\ SeenReadings(e)' = SeenReadings(e) /\ SeenDrops(e)' = SeenDrops(e)
           /\ SeenLate(e)' = SeenLate(e)
    BY DEF SeenReadings, SeenDrops, SeenLate
  <2> QED
    BY <2>1 DEF VegetationInv, Matches, PassedIn, OnceIn
<1> QED
  BY <1>2, <1>3, <1>4, <1>5 DEF VegetationInv

LEMMA VegetationInitially == VegetationInit => VegetationInv
<1> SUFFICES ASSUME VegetationInit PROVE VegetationInv
  OBVIOUS
<1>1. /\ published = {} /\ readings = {} /\ plotMaps = {} /\ drops = {} /\ late = {}
      /\ execution = [e \in Executions |-> Asleep]
  BY DEF VegetationInit
<1>2. Asleep \in ExecutionRow /\ Asleep.readings = {} /\ Asleep.drops = {}
  BY DEF Asleep, ExecutionRow
<1>3. VegetationTypes
  BY <1>1, <1>2 DEF VegetationTypes
<1>4. \A e \in Executions : Own(e) = {} /\ SeenReadings(e) = {} /\ execution[e].drops = {}
  BY <1>1, <1>2 DEF Own, SeenReadings
<1>5. \A p : PassedIn({}, p) = {}
  BY DEF PassedIn
<1>6. RowsAreOfPasses
  BY <1>1, <1>4 DEF RowsAreOfPasses
<1>7. LaterHasAll
  BY <1>4, <1>5 DEF LaterHasAll
<1>8. \A told, after : Matches({}, told, after)
  BY <1>5 DEF Matches
<1> QED
  BY <1>1, <1>3, <1>4, <1>6, <1>7, <1>8 DEF VegetationInv

LEMMA SimpleVegetationSteps ==
    ASSUME VegetationInv,
           \/ UNCHANGED vegetationVars
           \/ \E a \in Passes : PublishPass(a)
           \/ \E e \in Executions : StartCycle(e) \/ LoseCycle(e)
           \/ \E e \in Executions, p \in Plots : SkipPlot(e, p) \/ Choke(e, p)
    PROVE  VegetationInv'
<1>0. Asleep \in ExecutionRow /\ Asleep.readings = {} /\ Asleep.drops = {} /\ Asleep.late = {}
  BY DEF Asleep, ExecutionRow
<1>00. execution \in [Executions -> ExecutionRow]
  BY DEF VegetationInv, VegetationTypes
<1>1. CASE UNCHANGED vegetationVars
  BY <1>1, ForgettingKeeps DEF vegetationVars, VegetationInv, VegetationTypes
<1>2. ASSUME NEW a \in Passes, PublishPass(a) PROVE VegetationInv'
  BY <1>2, ForgettingKeeps DEF PublishPass, VegetationInv, VegetationTypes
<1>3. ASSUME NEW e \in Executions, StartCycle(e) PROVE VegetationInv'
  <2>1. /\ execution[e] = Asleep
        /\ execution' = [execution EXCEPT ![e] = [Asleep EXCEPT !.pc = "run", !.todo = Plots]]
        /\ UNCHANGED <<published, readings, plotMaps, drops, late>>
    BY <1>3 DEF StartCycle
  <2> DEFINE started == [Asleep EXCEPT !.pc = "run", !.todo = Plots]
  <2>2. /\ started \in ExecutionRow /\ started.readings = {} /\ started.drops = {}
        /\ started.late = {}
    BY <1>0 DEF ExecutionRow, Asleep
  <2>3. execution' = [execution EXCEPT ![e] = started]
    BY <2>1
  <2> HIDE DEF started
  <2>4. execution' \in [Executions -> ExecutionRow]
    BY <1>00, <2>2, <2>3
  <2>5. VegetationTypes'
    BY <2>1, <2>4 DEF VegetationInv, VegetationTypes
  <2> QED
    BY <1>00, <2>1, <2>2, <2>3, <2>5, ForgettingKeeps
<1>4. ASSUME NEW e \in Executions, LoseCycle(e) PROVE VegetationInv'
  <2>1. /\ execution' = [f \in Executions |->
                IF f = e THEN Asleep
                ELSE IF execution[f].pc = "blocked" THEN [execution[f] EXCEPT !.pc = "run"]
                ELSE execution[f]]
        /\ UNCHANGED <<published, readings, plotMaps, drops, late>>
    BY <1>4 DEF LoseCycle
  <2>2. ASSUME NEW f \in Executions
        PROVE  LET row == [execution[f] EXCEPT !.pc = "run"] IN
               /\ row \in ExecutionRow /\ row.readings = execution[f].readings
               /\ row.drops = execution[f].drops /\ row.late = execution[f].late
    BY <1>00 DEF ExecutionRow
  <2>3. execution' \in [Executions -> ExecutionRow]
    BY <1>0, <1>00, <2>1, <2>2
  <2>4. VegetationTypes'
    BY <2>1, <2>3 DEF VegetationInv, VegetationTypes
  <2>5. \A f \in Executions :
           \/ execution'[f] = Asleep
           \/ /\ execution'[f].readings = execution[f].readings
              /\ execution'[f].drops = execution[f].drops
              /\ execution'[f].late = execution[f].late
    BY <2>1, <2>2
  <2> QED
    BY <1>0, <2>1, <2>4, <2>5, ForgettingKeeps
<1>5. ASSUME NEW e \in Executions, NEW p \in Plots, SkipPlot(e, p) \/ Choke(e, p)
      PROVE  VegetationInv'
  <2>1. UNCHANGED <<published, readings, plotMaps, drops, late>>
    BY <1>5 DEF SkipPlot, Choke
  <2>2. CASE SkipPlot(e, p)
    <3>1. execution' = [execution EXCEPT ![e].todo = @ \ {p}]
      BY <2>2 DEF SkipPlot
    <3> DEFINE row == [execution[e] EXCEPT !.todo = @ \ {p}]
    <3>2. /\ row \in ExecutionRow /\ row.readings = execution[e].readings
          /\ row.drops = execution[e].drops /\ row.late = execution[e].late
      BY <1>00 DEF ExecutionRow
    <3>3. execution' = [execution EXCEPT ![e] = row]
      BY <3>1
    <3> HIDE DEF row
    <3>4. execution' \in [Executions -> ExecutionRow]
      BY <1>00, <3>2, <3>3
    <3>5. VegetationTypes'
      BY <2>1, <3>4 DEF VegetationInv, VegetationTypes
    <3> QED
      BY <1>00, <2>1, <3>2, <3>3, <3>5, ForgettingKeeps
  <2>3. CASE Choke(e, p)
    <3>1. execution' = [execution EXCEPT ![e] = Asleep]
      BY <2>3 DEF Choke
    <3>2. execution' \in [Executions -> ExecutionRow]
      BY <1>0, <1>00, <3>1
    <3>3. VegetationTypes'
      BY <2>1, <3>2 DEF VegetationInv, VegetationTypes
    <3> QED
      BY <1>0, <1>00, <2>1, <3>1, <3>3, ForgettingKeeps
  <2> QED
    BY <1>5, <2>2, <2>3
<1> QED
  BY <1>1, <1>2, <1>3, <1>4, <1>5

\* When another execution commits, what a session sees grows by readings of which
\* either it has all, or the other saw all of its own.
LEMMA MatchesTogether ==
    ASSUME VegetationInv, NEW e \in Executions, NEW f \in Executions, e # f
    PROVE  Matches(SeenReadings(e) \cup SeenReadings(f), SeenDrops(e) \cup SeenDrops(f),
                   SeenLate(e) \cup SeenLate(f))
<1> DEFINE rows == SeenReadings(e) \cup SeenReadings(f)
           told == SeenDrops(e) \cup SeenDrops(f)
           after == SeenLate(e) \cup SeenLate(f)
<1> SUFFICES ASSUME NEW p \in Plots, NEW a \in Passes, a \in PassedIn(rows, p),
                    \A b \in 1 .. a : <<p, b>> \notin after /\ OnceIn(rows, p, b)
             PROVE  <<p, a>> \in told <=>
                       /\ a \in Cloudless
                       /\ HasPersistentDrop(Series({b \in PassedIn(rows, p) : b <= a}))
  BY DEF Matches
<1>1. a \in 1 .. a
  BY VegetationAssumption DEF Passes, VegetationAssumption
\* g stored the plot last, so that h adds nothing.
<1>2. ASSUME NEW g \in Executions, NEW h \in Executions, {g, h} = {e, f}, g # h,
             PassedIn(Own(h), p) \subseteq PassedIn(SeenReadings(g), p)
      PROVE  <<p, a>> \in told <=>
                a \in Cloudless /\ HasPersistentDrop(Series({b \in PassedIn(rows, p) : b <= a}))
  <2>1. rows = SeenReadings(g) \cup Own(h) /\ told = SeenDrops(g) \cup execution[h].drops
    BY <1>2 DEF SeenReadings, SeenDrops, Own
  <2>2. SeenLate(g) \subseteq after
    BY <1>2
  <2>3. PassedIn(rows, p) = PassedIn(SeenReadings(g), p)
    BY <1>2, <2>1 DEF PassedIn
  <2>4. \A b \in 1 .. a : <<p, b>> \notin SeenLate(g) /\ OnceIn(SeenReadings(g), p, b)
    BY <2>1, <2>2 DEF OnceIn
  <2>5. <<p, a>> \in SeenDrops(g) <=>
           a \in Cloudless /\ HasPersistentDrop(Series({b \in PassedIn(rows, p) : b <= a}))
    BY <2>3, <2>4 DEF VegetationInv, Matches
  <2>6. <<p, a>> \notin execution[h].drops
    <3> SUFFICES ASSUME <<p, a>> \in execution[h].drops PROVE FALSE
      OBVIOUS
    <3>1. a \in PassedIn(Own(h), p)
      BY DEF VegetationInv, RowsAreOfPasses
    <3>2. PICK r \in Own(h) : r.plot = p /\ r.at = a
      BY <3>1 DEF PassedIn
    <3>3. PICK q \in SeenReadings(g) : q.plot = p /\ q.at = a
      BY <1>2, <3>1 DEF PassedIn
    <3>4. r = q
      BY <1>1, <2>1, <3>2, <3>3 DEF OnceIn
    <3>5. r \notin readings /\ r.by = h
      BY DEF VegetationInv, RowsAreOfPasses
    <3>6. q \in readings \/ q.by = g
      BY DEF VegetationInv, RowsAreOfPasses, SeenReadings, Own
    <3> QED
      BY <1>2, <3>4, <3>5, <3>6
  <2> QED
    BY <2>1, <2>5, <2>6
<1>3. \/ PassedIn(Own(e), p) \subseteq PassedIn(SeenReadings(f), p)
      \/ PassedIn(Own(f), p) \subseteq PassedIn(SeenReadings(e), p)
  BY DEF VegetationInv, LaterHasAll
<1> HIDE DEF rows, told
<1> QED
  BY <1>2, <1>3

LEMMA CommitKeepsMatches ==
    ASSUME VegetationInv, NEW e \in Executions, CommitCycle(e)
    PROVE  VegetationInv'
<1>0. Asleep \in ExecutionRow /\ Asleep.readings = {} /\ Asleep.drops = {} /\ Asleep.late = {}
  BY DEF Asleep, ExecutionRow
<1>1. /\ readings' = SeenReadings(e) /\ drops' = SeenDrops(e) /\ late' = SeenLate(e)
      /\ plotMaps' = plotMaps \cup execution[e].images
      /\ published' = published
      /\ execution' = [f \in Executions |->
              IF f = e \/ execution[f].pc = "blocked" THEN Asleep ELSE execution[f]]
  BY DEF CommitCycle, SeenReadings, SeenDrops, SeenLate
<1>2. execution \in [Executions -> ExecutionRow]
  BY DEF VegetationInv, VegetationTypes
<1>3. \A f \in Executions : execution'[f] = Asleep \/ (f # e /\ execution'[f] = execution[f])
  BY <1>1
<1>4. VegetationTypes'
  <2>1. execution' \in [Executions -> ExecutionRow]
    BY <1>0, <1>1, <1>2
  <2>2. /\ SeenReadings(e) \subseteq Reading /\ SeenDrops(e) \subseteq Map
        /\ SeenLate(e) \subseteq Map /\ execution[e].images \subseteq Map
    BY <1>2 DEF VegetationInv, VegetationTypes, SeenReadings, SeenDrops, SeenLate, ExecutionRow
  <2> QED
    BY <1>1, <2>1, <2>2 DEF VegetationInv, VegetationTypes
<1>5. \A f \in Executions :
         \/ Own(f)' = {} /\ SeenReadings(f)' = SeenReadings(e)
            /\ SeenDrops(f)' = SeenDrops(e) /\ SeenLate(f)' = SeenLate(e)
         \/ f # e /\ Own(f)' = Own(f) /\ SeenReadings(f)' = SeenReadings(e) \cup SeenReadings(f)
            /\ SeenDrops(f)' = SeenDrops(e) \cup SeenDrops(f)
            /\ SeenLate(f)' = SeenLate(e) \cup SeenLate(f)
            /\ execution'[f].drops = execution[f].drops
  <2> TAKE f \in Executions
  <2>1. CASE execution'[f] = Asleep
    BY <1>0, <1>1, <2>1 DEF Own, SeenReadings, SeenDrops, SeenLate
  <2>2. CASE f # e /\ execution'[f] = execution[f]
    BY <1>1, <2>2 DEF Own, SeenReadings, SeenDrops, SeenLate
  <2> QED
    BY <1>3, <2>1, <2>2
<1>6. RowsAreOfPasses'
  <2>1. \A r \in readings' : r.at \in published'
    BY <1>1 DEF VegetationInv, RowsAreOfPasses, SeenReadings, Own
  <2>2. \A f \in Executions : \A r \in Own(f)' :
           r.at \in published' /\ r.by = f /\ r \notin readings'
    <3> SUFFICES ASSUME NEW f \in Executions, NEW r \in Own(f)'
                 PROVE  r.at \in published' /\ r.by = f /\ r \notin readings'
      OBVIOUS
    <3>1. f # e /\ r \in Own(f)
      BY <1>5
    <3>2. r.at \in published /\ r.by = f /\ r \notin readings
      BY <3>1 DEF VegetationInv, RowsAreOfPasses
    <3>3. r \notin Own(e)
      BY <3>1, <3>2 DEF VegetationInv, RowsAreOfPasses
    <3> QED
      BY <1>1, <3>2, <3>3 DEF SeenReadings, Own
  <2>3. ASSUME NEW p \in Plots, NEW a \in Passes, <<p, a>> \in drops'
        PROVE  a \in PassedIn(readings, p)'
    <3>1. a \in PassedIn(readings, p) \/ a \in PassedIn(Own(e), p)
      BY <1>1, <2>3 DEF VegetationInv, RowsAreOfPasses, SeenDrops
    <3> QED
      BY <1>1, <3>1 DEF PassedIn, SeenReadings, Own
  <2>4. ASSUME NEW p \in Plots, NEW a \in Passes, NEW f \in Executions,
               <<p, a>> \in execution'[f].drops
        PROVE  a \in PassedIn(Own(f), p)'
    <3>1. execution'[f] = execution[f]
      BY <1>0, <1>3, <2>4
    <3> QED
      BY <2>4, <3>1 DEF VegetationInv, RowsAreOfPasses, PassedIn, Own
  <2> QED
    BY <2>1, <2>2, <2>3, <2>4 DEF RowsAreOfPasses
<1>7. LaterHasAll'
  <2> SUFFICES ASSUME NEW g \in Executions, NEW f \in Executions, NEW p \in Plots, g # f
               PROVE  \/ PassedIn(Own(g)', p) \subseteq PassedIn(SeenReadings(f)', p)
                      \/ PassedIn(Own(f)', p) \subseteq PassedIn(SeenReadings(g)', p)
    BY DEF LaterHasAll, PassedIn
  <2>1. CASE Own(g)' = {} \/ Own(f)' = {}
    BY <2>1 DEF PassedIn
  <2>2. CASE Own(g)' # {} /\ Own(f)' # {}
    <3>1. /\ Own(g)' = Own(g) /\ SeenReadings(g) \subseteq SeenReadings(g)'
          /\ Own(f)' = Own(f) /\ SeenReadings(f) \subseteq SeenReadings(f)'
      BY <1>5, <2>2
    <3>2. \/ PassedIn(Own(g), p) \subseteq PassedIn(SeenReadings(f), p)
          \/ PassedIn(Own(f), p) \subseteq PassedIn(SeenReadings(g), p)
      BY DEF VegetationInv, LaterHasAll
    <3> QED
      BY <3>1, <3>2 DEF PassedIn
  <2> QED
    BY <2>1, <2>2
<1>8. Matches(readings', drops', late')
  BY <1>1 DEF VegetationInv
<1>9. ASSUME NEW f \in Executions
      PROVE  Matches(SeenReadings(f)', SeenDrops(f)', SeenLate(f)')
  BY <1>1, <1>5, <1>8, MatchesTogether
<1> QED
  BY <1>4, <1>6, <1>7, <1>8, <1>9 DEF VegetationInv, Matches, PassedIn, OnceIn

\* A plot's history is stored in one session: its acquisitions are as many as are
\* published, and each new one was judged by those before it.
LEMMA StoredMatches ==
    ASSUME VegetationInv, VegetationTypes', NEW e \in Executions, NEW p \in Plots,
           UNCHANGED <<published, readings, plotMaps, drops, late>>,
           NEW new, new = published \ SeenOf(e, p),
           \A f \in Executions \ {e} : execution'[f] = execution[f],
           execution'[e].readings =
              execution[e].readings \cup {[plot |-> p, at |-> a, by |-> e] : a \in new},
           execution'[e].drops = execution[e].drops \cup NewDrops(e, p),
           execution'[e].late = execution[e].late
              \cup {<<p, a>> : a \in {b \in new : \E c \in SeenOf(e, p) : c > b}}
    PROVE  VegetationInv'
<1> DEFINE added == {[plot |-> p, at |-> a, by |-> e] : a \in new}
           seen == SeenOf(e, p)
           after == {<<p, a>> : a \in {b \in new : \E c \in seen : c > b}}
<1>0. /\ published \subseteq Passes /\ new \subseteq Passes /\ Passes \subseteq Nat
      /\ new \cap seen = {}
  <2>1. published \subseteq Passes
    BY DEF VegetationInv, VegetationTypes
  <2>2. Passes \subseteq Nat
    BY DEF Passes
  <2>3. new \subseteq published /\ new \cap seen = {}
    OBVIOUS
  <2> QED
    BY <2>1, <2>2, <2>3
<1>1. \A r \in added : r.plot = p /\ r.at \in new /\ r.by = e
  OBVIOUS
<1>2. \A a \in new : \E r \in added : r.plot = p /\ r.at = a
  <2> TAKE a \in new
  <2> WITNESS [plot |-> p, at |-> a, by |-> e] \in added
  <2> QED
    OBVIOUS
<1>3. \A a \in Passes : <<p, a>> \in after <=> a \in new /\ \E c \in seen : c > a
  OBVIOUS
<1>4. seen = PassedIn(SeenReadings(e), p) /\ seen \subseteq published
  BY DEF SeenOf, PassedIn, VegetationInv, RowsAreOfPasses, SeenReadings, Own
<1> HIDE DEF added, seen, after
<1>5. /\ Own(e)' = Own(e) \cup added
      /\ SeenReadings(e)' = SeenReadings(e) \cup added
      /\ SeenDrops(e)' = SeenDrops(e) \cup NewDrops(e, p)
      /\ SeenLate(e)' = SeenLate(e) \cup after
  BY DEF Own, SeenReadings, SeenDrops, SeenLate, added, after, seen
<1>6. \A f \in Executions : f # e =>
         /\ Own(f)' = Own(f) /\ SeenReadings(f)' = SeenReadings(f)
         /\ SeenDrops(f)' = SeenDrops(f) /\ SeenLate(f)' = SeenLate(f)
  BY DEF Own, SeenReadings, SeenDrops, SeenLate
<1>7. \A r \in SeenReadings(e) : r.plot = p => r.at \in seen
  BY <1>4 DEF PassedIn
<1>8. /\ PassedIn(SeenReadings(e)', p) = seen \cup new
      /\ PassedIn(Own(e)', p) = PassedIn(Own(e), p) \cup new
      /\ \A q \in Plots : q # p => /\ PassedIn(SeenReadings(e)', q) = PassedIn(SeenReadings(e), q)
                                   /\ PassedIn(Own(e)', q) = PassedIn(Own(e), q)
  BY <1>1, <1>2, <1>4, <1>5 DEF PassedIn
<1>9. seen \cup new = published
  BY <1>4 DEF seen
<1>10. RowsAreOfPasses'
  <2>1. \A r \in readings' : r.at \in published'
    BY DEF VegetationInv, RowsAreOfPasses
  <2>2. \A f \in Executions : \A r \in Own(f)' :
           r.at \in published' /\ r.by = f /\ r \notin readings'
    <3> SUFFICES ASSUME NEW f \in Executions, NEW r \in Own(f)'
                 PROVE  r.at \in published' /\ r.by = f /\ r \notin readings'
      OBVIOUS
    <3>1. CASE r \in Own(f)
      BY <3>1 DEF VegetationInv, RowsAreOfPasses
    <3>2. CASE r \notin Own(f)
      <4>1. f = e /\ r \in added
        BY <1>5, <1>6, <3>2
      <4>2. r.at \in new /\ r.plot = p /\ r.by = e
        BY <1>1, <4>1
      <4>3. r \notin SeenReadings(e)
        BY <1>0, <1>7, <4>2
      <4> QED
        BY <1>9, <4>1, <4>2, <4>3 DEF SeenReadings
    <3> QED
      BY <3>1, <3>2
  <2>3. ASSUME NEW q \in Plots, NEW a \in Passes, NEW f \in Executions,
               <<q, a>> \in execution'[f].drops
        PROVE  a \in PassedIn(Own(f), q)'
    <3>1. CASE <<q, a>> \in execution[f].drops
      <4>1. a \in PassedIn(Own(f), q)
        BY <3>1 DEF VegetationInv, RowsAreOfPasses
      <4>2. Own(f) \subseteq Own(f)'
        BY <1>5, <1>6
      <4> QED
        BY <4>1, <4>2 DEF PassedIn
    <3>2. CASE <<q, a>> \notin execution[f].drops
      <4>1. f = e /\ <<q, a>> \in NewDrops(e, p)
        BY <2>3, <3>2
      <4>2. q = p /\ a \in new
        BY <4>1 DEF NewDrops
      <4> QED
        BY <1>8, <4>1, <4>2 DEF PassedIn
    <3> QED
      BY <3>1, <3>2
  <2>4. \A q \in Plots, a \in Passes : <<q, a>> \in drops' => a \in PassedIn(readings, q)'
    BY DEF VegetationInv, RowsAreOfPasses, PassedIn
  <2> QED
    BY <2>1, <2>2, <2>3, <2>4 DEF RowsAreOfPasses
<1>11. LaterHasAll'
  <2> SUFFICES ASSUME NEW g \in Executions, NEW f \in Executions, NEW q \in Plots, g # f
               PROVE  \/ PassedIn(Own(g)', q) \subseteq PassedIn(SeenReadings(f)', q)
                      \/ PassedIn(Own(f)', q) \subseteq PassedIn(SeenReadings(g)', q)
    BY DEF LaterHasAll, PassedIn
  <2>1. ASSUME NEW f2 \in Executions, f2 # e
        PROVE  PassedIn(Own(f2)', p) \subseteq PassedIn(SeenReadings(e)', p)
    <3>1. \A r \in Own(f2) : r.at \in published
      BY DEF VegetationInv, RowsAreOfPasses
    <3> QED
      BY <1>6, <1>8, <1>9, <2>1, <3>1 DEF PassedIn
  <2>2. CASE q = p /\ (g = e \/ f = e)
    BY <2>1, <2>2
  <2>3. CASE ~(q = p /\ (g = e \/ f = e))
    <3>1. /\ PassedIn(Own(g)', q) = PassedIn(Own(g), q)
          /\ PassedIn(Own(f)', q) = PassedIn(Own(f), q)
          /\ PassedIn(SeenReadings(g)', q) = PassedIn(SeenReadings(g), q)
          /\ PassedIn(SeenReadings(f)', q) = PassedIn(SeenReadings(f), q)
      BY <1>6, <1>8, <2>3
    <3> QED
      BY <3>1 DEF VegetationInv, LaterHasAll
  <2> QED
    BY <2>2, <2>3
<1>12. Matches(SeenReadings(e)', SeenDrops(e)', SeenLate(e)')
  <2> SUFFICES ASSUME NEW q \in Plots, NEW a \in Passes, a \in PassedIn(SeenReadings(e)', q),
                      \A b \in 1 .. a : /\ <<q, b>> \notin SeenLate(e)'
                                        /\ OnceIn(SeenReadings(e)', q, b)
               PROVE  <<q, a>> \in SeenDrops(e)' <=>
                         /\ a \in Cloudless
                         /\ HasPersistentDrop(
                               Series({b \in PassedIn(SeenReadings(e)', q) : b <= a}))
    BY DEF Matches
  <2>1. a \in 1 .. a /\ a \in Nat
    BY VegetationAssumption DEF Passes, VegetationAssumption
  <2>2. /\ Matches(SeenReadings(e), SeenDrops(e), SeenLate(e))
        /\ \A b \in 1 .. a : <<q, b>> \notin SeenLate(e) /\ OnceIn(SeenReadings(e), q, b)
    BY <1>5 DEF VegetationInv, OnceIn
  <2>3. CASE a \in PassedIn(SeenReadings(e), q)
    <3>1. <<q, a>> \notin NewDrops(e, p)
      BY <1>4, <2>3 DEF NewDrops, seen
    <3>2. {b \in PassedIn(SeenReadings(e)', q) : b <= a} =
          {b \in PassedIn(SeenReadings(e), q) : b <= a}
      <4>1. CASE q # p
        BY <1>8, <4>1
      <4>2. CASE q = p
        <5>1. ASSUME NEW b \in new PROVE ~(b <= a)
          <6>1. a \in seen
            BY <1>4, <2>3, <4>2
          <6>2. b # a /\ b \in Nat /\ b \in Passes /\ b >= 1
            BY <1>0, <6>1 DEF Passes
          <6>3. CASE b < a
            <7>1. <<p, b>> \in after
              BY <1>3, <6>1, <6>2, <6>3
            <7>2. b \in 1 .. a
              BY <2>1, <6>2, <6>3
            <7> QED
              BY <1>5, <4>2, <7>1, <7>2
          <6> QED
            BY <2>1, <6>2, <6>3
        <5> QED
          BY <1>4, <1>8, <4>2, <5>1
      <4> QED
        BY <4>1, <4>2
    <3>3. <<q, a>> \in SeenDrops(e) <=>
             /\ a \in Cloudless
             /\ HasPersistentDrop(Series({b \in PassedIn(SeenReadings(e), q) : b <= a}))
      BY <2>2, <2>3 DEF Matches
    <3> QED
      BY <1>5, <3>1, <3>2, <3>3
  <2>4. CASE a \notin PassedIn(SeenReadings(e), q)
    <3>1. q = p /\ a \in new
      BY <1>4, <1>8, <2>4
    <3>2. <<p, a>> \notin SeenDrops(e)
      <4>1. a \notin PassedIn(readings, p) /\ a \notin PassedIn(Own(e), p)
        BY <2>4, <3>1 DEF PassedIn, SeenReadings, Own
      <4> QED
        BY <4>1 DEF VegetationInv, RowsAreOfPasses, SeenDrops
    <3>3. \A c \in seen : c < a
      <4> TAKE c \in seen
      <4>1. <<p, a>> \notin after
        BY <1>5, <2>1, <3>1
      <4>2. ~(c > a) /\ c # a /\ c \in Nat
        BY <1>0, <1>3, <1>4, <3>1, <4>1
      <4> QED
        BY <2>1, <4>2
    <3> DEFINE held == seen \cup {b \in published : b < a}
    <3>4. <<p, a>> \in NewDrops(e, p) <=> Falls(e, p, a)
      <4>1. <<p, a>> \notin drops
        BY <3>2 DEF SeenDrops
      <4> QED
        BY <3>1, <4>1 DEF NewDrops
    <3>5. Falls(e, p, a) <=> a \in Cloudless /\ HasPersistentDrop(Series(held) \o <<a>>)
      BY DEF Falls, seen
    <3>6. held \in SUBSET Passes /\ \A b \in held : b < a
      BY <1>0, <1>4, <3>3
    <3>7. {b \in PassedIn(SeenReadings(e)', q) : b <= a} = held \cup {a}
      <4>1. PassedIn(SeenReadings(e)', q) = published /\ a \in published
        BY <1>8, <1>9, <3>1
      <4>2. \A b \in published : b \in Nat
        BY <1>0
      <4>3. \A b \in published : b <= a <=> b < a \/ b = a
        BY <2>1, <4>2
      <4> QED
        BY <1>4, <3>3, <4>1, <4>3
    <3> HIDE DEF held
    <3>8. a \in Cloudless => Series(held) \o <<a>> = Series(held \cup {a})
      BY <3>6, SeriesGrows
    <3> QED
      BY <1>5, <3>1, <3>2, <3>4, <3>5, <3>7, <3>8
  <2> QED
    BY <2>3, <2>4
<1>13. \A f \in Executions : Matches(SeenReadings(f)', SeenDrops(f)', SeenLate(f)')
  BY <1>6, <1>12 DEF VegetationInv
<1>14. Matches(readings', drops', late')
  BY DEF VegetationInv
<1> QED
  BY <1>10, <1>11, <1>13, <1>14 DEF VegetationInv, Matches, PassedIn, OnceIn

LEMMA StoringKeepsMatches ==
    ASSUME VegetationInv, NEW e \in Executions, NEW p \in Plots, StorePlot(e, p)
    PROVE  VegetationInv'
<1> DEFINE new == published \ SeenOf(e, p)
           added == {[plot |-> p, at |-> a, by |-> e] : a \in new}
           told == NewDrops(e, p)
           after == {<<p, a>> : a \in {b \in new : \E c \in SeenOf(e, p) : c > b}}
<1>0. /\ execution \in [Executions -> ExecutionRow] /\ published \subseteq Passes
      /\ UNCHANGED <<published, readings, plotMaps, drops, late>>
  BY DEF VegetationInv, VegetationTypes, StorePlot
<1>1. PICK drawn \in SUBSET MissingMaps(e, p) :
         \/ execution' = [execution EXCEPT ![e].pc = "blocked"]
         \/ execution' = [execution EXCEPT ![e] = [execution[e] EXCEPT
                !.todo = @ \ {p}, !.readings = @ \cup added, !.images = @ \cup drawn,
                !.drops = @ \cup told, !.late = @ \cup after]]
  BY DEF StorePlot
<1>2. CASE execution' = [execution EXCEPT ![e].pc = "blocked"]
  <2> DEFINE row == [execution[e] EXCEPT !.pc = "blocked"]
  <2>1. /\ row \in ExecutionRow /\ row.readings = execution[e].readings
        /\ row.drops = execution[e].drops /\ row.late = execution[e].late
    BY <1>0 DEF ExecutionRow
  <2>2. execution' = [execution EXCEPT ![e] = row]
    BY <1>2
  <2> HIDE DEF row
  <2>3. execution' \in [Executions -> ExecutionRow]
    BY <1>0, <2>1, <2>2
  <2>4. VegetationTypes'
    BY <1>0, <2>3 DEF VegetationInv, VegetationTypes
  <2> QED
    BY <1>0, <2>1, <2>2, <2>4, ForgettingKeeps
<1>3. CASE execution' = [execution EXCEPT ![e] = [execution[e] EXCEPT
                !.todo = @ \ {p}, !.readings = @ \cup added, !.images = @ \cup drawn,
                !.drops = @ \cup told, !.late = @ \cup after]]
  <2> HIDE DEF new, added, told, after
  <2> DEFINE row == [execution[e] EXCEPT
                !.todo = @ \ {p}, !.readings = @ \cup added, !.images = @ \cup drawn,
                !.drops = @ \cup told, !.late = @ \cup after]
  <2>1. execution' = [execution EXCEPT ![e] = row]
    BY <1>3
  <2>2. /\ new \subseteq Passes /\ added \subseteq Reading /\ told \subseteq Map
        /\ after \subseteq Map /\ drawn \subseteq Map
    <3>1. new \subseteq Passes
      BY <1>0 DEF new
    <3>2. added \subseteq Reading
      BY <3>1 DEF Reading, added
    <3>3. told \subseteq Map
      BY <1>0 DEF NewDrops, Map, told
    <3>4. after \subseteq Map
      BY <3>1 DEF Map, after
    <3>5. \A m \in MissingMaps(e, p) : \E a \in SelectedPasses : m = <<p, a>>
      BY DEF MissingMaps
    <3>6. SelectedPasses \subseteq Passes
      BY <1>0 DEF SelectedPasses
    <3>7. drawn \subseteq Map
      BY <3>5, <3>6 DEF Map
    <3> QED
      BY <3>1, <3>2, <3>3, <3>4, <3>7
  <2>3. /\ row \in ExecutionRow /\ row.readings = execution[e].readings \cup added
        /\ row.drops = execution[e].drops \cup told /\ row.late = execution[e].late \cup after
    BY <1>0, <2>2 DEF ExecutionRow
  <2> HIDE DEF row
  <2>4. execution' \in [Executions -> ExecutionRow]
    BY <1>0, <2>1, <2>3
  <2>5. VegetationTypes'
    BY <1>0, <2>4 DEF VegetationInv, VegetationTypes
  <2>6. /\ \A f \in Executions \ {e} : execution'[f] = execution[f]
        /\ execution'[e].readings = execution[e].readings \cup added
        /\ execution'[e].drops = execution[e].drops \cup told
        /\ execution'[e].late = execution[e].late \cup after
    BY <1>0, <2>1, <2>3
  <2> QED
    BY <1>0, <2>5, <2>6, StoredMatches DEF new, added, told, after
<1> QED
  BY <1>1, <1>2, <1>3

THEOREM VegetationInvariance == VegetationSpec => []VegetationInv
<1>1. VegetationInv /\ [VegetationNext]_vegetationVars => VegetationInv'
  BY SimpleVegetationSteps, CommitKeepsMatches, StoringKeepsMatches DEF VegetationNext
<1> QED
  BY <1>1, VegetationInitially, PTL DEF VegetationSpec

\* Types of readings, maps, alerts and executions in flight.
THEOREM VegetationTypeCorrect == VegetationSpec => []VegetationTypeOK
<1>1. VegetationInv => VegetationTypeOK
  BY DEF VegetationInv, VegetationTypes, VegetationTypeOK, ExecutionRow
<1> QED
  BY <1>1, VegetationInvariance, PTL

\* A drop alert is there exactly for the acquisitions that the stored readings show
\* to end a fall, however executions overlap, as long as the acquisitions came in
\* date order and each was stored once.
THEOREM DropsMatch == VegetationSpec => []DropAlertsMatchHistory
<1>1. VegetationInv => DropAlertsMatchHistory
  BY DEF VegetationInv, Matches, PassedIn, OnceIn, DropAlertsMatchHistory, StoredOf, StoredOnce
<1> QED
  BY <1>1, VegetationInvariance, PTL
=============================================================================
